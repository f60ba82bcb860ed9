--------------------------- MODULE BridgeMessages ---------------------------
(***************************************************************************)
(* The signers' committee of one bridge (bridge/src/governance.rs): a      *)
(* signer proposes, signers sign, the proposal that reaches the required   *)
(* number is executed and changes validators, limits, status or the number *)
(* itself.  Bridges are independent of each other: one stands for all. A   *)
(* call that returns an error leaves nothing behind, so the status         *)
(* Expired, written just before one, is never kept.  A roster is a Vec     *)
(* that may name an address twice; its order decides nothing, so the model *)
(* keeps how often it names each address.  Cross-chain messages            *)
(* (bridge/src/messaging.rs): a message takes the next nonce of its target *)
(* chain, is relayed and confirmed by validators of that chain's bridge in *)
(* nonce order, may fail, time out and be retried, and is removed once     *)
(* delivered and answered.  Payloads are left out: a proof is accepted     *)
(* when it is not empty.  Source transactions are watched for finality and *)
(* reorgs, with a latency circuit breaker (monitoring.rs), and pay fees    *)
(* (fees.rs) that statistics are kept of (analytics.rs).                   *)
(***************************************************************************)
EXTENDS LedgerClock, FiniteSets, Functions, Sequences

CONSTANTS
    SignerPool,       \* addresses that may be signers
    ValidatorPool,    \* addresses that may be validators
    FirstSigners, FirstValidators,  \* the first rosters: address -> times named
    FirstRequired, FirstMinSignatures,
    NewCounts,        \* counts an UpdateRequiredSignatures may ask for
    PROPOSAL_EXPIRY_SECONDS,
    MaxBridgeProposals  \* bound: proposals of a behaviour

\* Vec::len, Vec::contains, push_back, and the loop that leaves out an address
len(roster) == SumFunctionOnSet(roster, DOMAIN roster)
Named(roster) == {a \in DOMAIN roster : roster[a] > 0}
with(roster, a) == [roster EXCEPT ![a] = @ + 1]
without(roster, a) == [roster EXCEPT ![a] = 0]

\* initialize_bridge_governance and initialize_bridge: what they refuse
ASSUME BridgeGovernConstants ==
    /\ IsFiniteSet(SignerPool) /\ IsFiniteSet(ValidatorPool)
    /\ FirstSigners \in [SignerPool -> Nat] /\ FirstRequired \in 1..len(FirstSigners)
    /\ FirstValidators \in [ValidatorPool -> Nat]
    /\ FirstMinSignatures \in 1..len(FirstValidators)
    /\ NewCounts \subseteq Nat /\ PROPOSAL_EXPIRY_SECONDS \in Nat

VARIABLE bg  \* BridgeGovernance and Bridge in storage

SUPER_MAJORITY_PERCENT == 75

BridgeGovernInit ==
    bg = [signers |-> FirstSigners, required |-> FirstRequired, proposals |-> <<>>,
          validators |-> FirstValidators, min_signatures |-> FirstMinSignatures,
          status |-> "Active", limits |-> 0]

ProposalType ==
    {[kind |-> k, who |-> v, count |-> 0] :
        k \in {"AddValidator", "RemoveValidator"}, v \in ValidatorPool}
    \cup {[kind |-> "UpdateRequiredSignatures", who |-> "none", count |-> n] : n \in NewCounts}
    \cup {[kind |-> k, who |-> "none", count |-> 0] :
        k \in {"UpdateSecurityLimits", "PauseBridge", "UnpauseBridge", "EmergencyWithdraw"}}

get_proposal(id) == bg.proposals[id]

BridgeProposalIds == 1..Len(bg.proposals)

get_bridge_validators == bg.validators

\* What may be proposed; it is checked again when the proposal is executed.
validate_proposal_type(p) ==
    CASE p.kind = "AddValidator" -> p.who \notin Named(bg.validators)
      [] p.kind = "RemoveValidator" ->
            p.who \in Named(bg.validators) /\ len(bg.validators) > bg.min_signatures
      [] p.kind = "UpdateRequiredSignatures" -> p.count \in 1..len(bg.signers)
      [] OTHER -> TRUE

GovernanceProposal(proposer, p) ==
    [proposer |-> proposer, type |-> p, signatures |-> {proposer}, status |-> "Pending",
     expiry |-> now + PROPOSAL_EXPIRY_SECONDS]

\* create_bridge_proposal; rotate_bridge_signers ends here too, as a proposal
\* that changes the required number alone
create_bridge_proposal(proposer, p) ==
    /\ proposer \in Named(bg.signers)
    /\ validate_proposal_type(p)
    /\ Len(bg.proposals) < MaxBridgeProposals
    /\ bg' = [bg EXCEPT !.proposals = Append(@, GovernanceProposal(proposer, p))]

\* Mutant: the check made when the proposal was created is relied on.
RemovalAllowed_Stale(validator) == validator \in Named(bg.validators)

\* execute_remove_validator: its refusals
RemovalAllowed(validator) ==
    /\ validator \in Named(bg.validators)
    /\ len(without(bg.validators, validator)) >= bg.min_signatures

\* The execute_* functions: may the proposal still be applied ...
Applicable(p) ==
    CASE p.kind = "AddValidator" -> p.who \notin Named(bg.validators)
      [] p.kind = "RemoveValidator" -> RemovalAllowed(p.who)
      [] p.kind = "UpdateRequiredSignatures" -> p.count \in 1..len(bg.signers)
      [] OTHER -> TRUE

\* ... and what it changes.  An emergency withdrawal is only announced.
apply_proposal(g, p) ==
    CASE p.kind = "AddValidator" -> [g EXCEPT !.validators = with(@, p.who)]
      [] p.kind = "RemoveValidator" -> [g EXCEPT !.validators = without(@, p.who)]
      [] p.kind = "UpdateSecurityLimits" -> [g EXCEPT !.limits = 1]
      [] p.kind = "PauseBridge" -> [g EXCEPT !.status = "Paused"]
      [] p.kind = "UnpauseBridge" -> [g EXCEPT !.status = "Active"]
      [] p.kind = "UpdateRequiredSignatures" -> [g EXCEPT !.required = p.count]
      [] p.kind = "EmergencyWithdraw" -> g

\* execute_bridge_proposal as a step from g, which may hold one more signature
Executable(g, id) ==
    /\ g.proposals[id].status = "Pending"
    /\ Cardinality(g.proposals[id].signatures) >= g.required
    /\ now <= g.proposals[id].expiry
    /\ Applicable(g.proposals[id].type)

executed_proposal(g, id) ==
    [apply_proposal(g, g.proposals[id].type) EXCEPT !.proposals[id].status = "Executed"]

sign_bridge_proposal(id, signer) ==
    LET p == get_proposal(id)
        signed == [bg EXCEPT !.proposals[id].signatures = @ \cup {signer}]
    IN  /\ signer \in Named(bg.signers)
        /\ signer \notin p.signatures
        /\ p.status = "Pending"
        /\ now <= p.expiry
        /\ \/ /\ Cardinality(signed.proposals[id].signatures) < bg.required
              /\ bg' = signed
           \/ /\ Executable(signed, id)
              /\ bg' = executed_proposal(signed, id)

execute_bridge_proposal(id) == Executable(bg, id) /\ bg' = executed_proposal(bg, id)

\* A super-majority may hurry a pause or a withdrawal; the ordinary quorum still holds.
emergency_execute_proposal(id) ==
    /\ Cardinality(get_proposal(id).signatures)
          >= (len(bg.signers) * SUPER_MAJORITY_PERCENT) \div 100
    /\ get_proposal(id).type.kind \in {"PauseBridge", "EmergencyWithdraw"}
    /\ execute_bridge_proposal(id)

cancel_proposal(id, caller) ==
    /\ get_proposal(id).proposer = caller
    /\ get_proposal(id).status = "Pending"
    /\ bg' = [bg EXCEPT !.proposals[id].status = "Cancelled"]

add_signer(signer) ==
    /\ signer \notin Named(bg.signers)
    /\ bg' = [bg EXCEPT !.signers = with(@, signer)]

remove_signer(signer) ==
    /\ signer \in Named(bg.signers)
    /\ len(without(bg.signers, signer)) >= bg.required
    /\ bg' = [bg EXCEPT !.signers = without(@, signer)]

get_pending_proposals == {id \in BridgeProposalIds : get_proposal(id).status = "Pending"}

BridgeGovernStep ==
    \/ \E s \in SignerPool, p \in ProposalType : create_bridge_proposal(s, p)
    \/ \E id \in BridgeProposalIds :
          \/ \E s \in SignerPool : sign_bridge_proposal(id, s) \/ cancel_proposal(id, s)
          \/ execute_bridge_proposal(id)
          \/ emergency_execute_proposal(id)
    \/ \E s \in SignerPool : add_signer(s) \/ remove_signer(s)

----------------------------------------------------------------------------
\* The required number of signatures lies between one and the length of the
\* signers' roster, and the validators' minimum likewise, although proposals are
\* executed long after they were checked and members come and go in between.  And
\* where the first roster named nobody twice, so many different members are there:
\* nothing later names one twice.  A first roster with repetitions, which neither
\* initialize_bridge_governance nor initialize_bridge refuses, keeps the length
\* only, and may ask for more signatures than it has members.
\* About validate_proposal_type against the execute_* functions and remove_signer.
QuorumReachable ==
    /\ bg.required \in 1..len(bg.signers)
    /\ bg.min_signatures \in 1..len(bg.validators)
    /\ (\A s \in SignerPool : FirstSigners[s] <= 1)
          => bg.required <= Cardinality(Named(bg.signers))
    /\ (\A v \in ValidatorPool : FirstValidators[v] <= 1)
          => bg.min_signatures <= Cardinality(Named(bg.validators))

-----------------------------------------------------------------------------

CONSTANTS
    TargetChains,
    MESSAGE_TIMEOUT,
    MaxMessages  \* bound: messages of a behaviour

VARIABLE mq  \* the messages in storage

NoMessage == [chain |-> "none", status |-> "Removed", nonce |-> 0, sent_at |-> 0,
              callback |-> FALSE]

MessagesInit ==
    mq = [messages |-> <<>>, bridge_for |-> {},
          outbound |-> [c \in TargetChains |-> 0], expected |-> [c \in TargetChains |-> 0]]

MessageIds == {id \in 1..Len(mq.messages) : mq.messages[id] # NoMessage}

register_bridge_for_chain(c) == mq' = [mq EXCEPT !.bridge_for = @ \cup {c}]

\* send_cross_chain_message with next_message_id and assign_outbound_nonce
send_cross_chain_message(chain, callback) ==
    /\ Len(mq.messages) < MaxMessages
    /\ mq' = [mq EXCEPT !.messages = Append(@, [chain |-> chain, status |-> "Pending",
                                                nonce |-> mq.outbound[chain],
                                                sent_at |-> now, callback |-> callback]),
                        !.outbound[chain] = @ + 1]

\* The checks of the three calls that only a validator may make.
ByValidator(validator, id) ==
    mq.messages[id].chain \in mq.bridge_for /\ validator \in Named(get_bridge_validators)

relay_message_to_target_chain(id, validator) ==
    /\ mq.messages[id].status = "Pending"
    /\ ByValidator(validator, id)
    /\ mq' = [mq EXCEPT !.messages[id].status = "Relayed"]

\* Mutant: any nonce that was not delivered yet is accepted.
InOrder_NotOld(m) == m.nonce >= mq.expected[m.chain]

\* confirm_message_delivery: the nonce must be the next one
InOrder(m) == m.nonce = mq.expected[m.chain]

confirm_message_delivery(id, relayer) ==
    LET m == mq.messages[id]
    IN  /\ ByValidator(relayer, id)
        /\ m.status = "Relayed"
        /\ InOrder(m)
        /\ mq' = [mq EXCEPT !.expected[m.chain] = @ + 1,
                            !.messages[id] = IF m.callback
                                             THEN [m EXCEPT !.status = "Delivered"]
                                             ELSE NoMessage]

receive_message_callback(id, relayer) ==
    /\ ByValidator(relayer, id)
    /\ mq.messages[id].callback
    /\ mq.messages[id].status = "Delivered"
    /\ mq' = [mq EXCEPT !.messages[id] = NoMessage]

NotCompleted(m) == m.status \notin {"Delivered", "CallbackReceived"}

mark_message_failed(id) ==
    /\ NotCompleted(mq.messages[id])
    /\ mq' = [mq EXCEPT !.messages[id].status = "Failed"]

retry_failed_message(id) ==
    /\ mq.messages[id].status = "Failed"
    /\ mq' = [mq EXCEPT !.messages[id].status = "Pending"]

expire_timed_out_message(id) ==
    /\ SatSub(now, mq.messages[id].sent_at) >= MESSAGE_TIMEOUT
    /\ NotCompleted(mq.messages[id])
    /\ mq' = [mq EXCEPT !.messages[id].status = "Failed"]

MessageStep ==
    \/ \E c \in TargetChains : register_bridge_for_chain(c)
    \/ \E c \in TargetChains, b \in BOOLEAN : send_cross_chain_message(c, b)
    \/ \E id \in MessageIds :
          \/ \E v \in ValidatorPool :
                \/ relay_message_to_target_chain(id, v)
                \/ confirm_message_delivery(id, v)
                \/ receive_message_callback(id, v)
          \/ mark_message_failed(id)
          \/ retry_failed_message(id)
          \/ expire_timed_out_message(id)

----------------------------------------------------------------------------
\* No message is lost and none is delivered twice or ahead of another: the nonces
\* of a chain's undelivered messages are exactly those between the next one
\* expected and the next one to be given out, one message each, and what still
\* waits for its callback lies below.
\* About the two nonce counters under failures, time-outs and retries.
NoncesAccounted ==
    \A c \in TargetChains :
        LET of(S) == {id \in MessageIds : mq.messages[id].chain = c /\ mq.messages[id].status \in S}
            waiting == of({"Pending", "Relayed", "Failed"})
            nonces(S) == {mq.messages[id].nonce : id \in S}
        IN  /\ nonces(waiting) = mq.expected[c]..(mq.outbound[c] - 1)
            /\ Cardinality(waiting) = mq.outbound[c] - mq.expected[c]
            /\ nonces(of({"Delivered"})) \subseteq 0..(mq.expected[c] - 1)

----------------------------------------------------------------------------
\* Watching source transactions, fees and statistics.

CONSTANTS
    MonitoredIds,       \* transfer ids
    SourceChain,        \* the chain the transfers come from
    REQUIRED_CONFIRMATIONS, VerificationMethod, REORG_DEPTH_LIMIT,
    SourceBlocks,       \* block numbers
    MonitorAmounts, Signatures,
    FeeConfigs,         \* [base_fee_bps, min_fee, max_fee, validator_pct, treasury_pct, dynamic]
    ChainMultipliers, BRIDGE_MAX_CAPACITY,
    BreakerConfigs,     \* [latency_threshold_secs, window_size]
    SECONDS_PER_DAY, ON_TIME_SECONDS, SERIES_LIMIT

ASSUME BridgeMonitorConstants ==
    /\ REQUIRED_CONFIRMATIONS \in Nat /\ REORG_DEPTH_LIMIT \in Nat
    /\ VerificationMethod \in {"BlockConfirmations", "EpochFinality", "Probabilistic"}
    /\ SourceBlocks \subseteq Nat
    /\ BreakerConfigs # {} /\ \A c \in BreakerConfigs : c.window_size \in Nat
    /\ SECONDS_PER_DAY \in Nat \ {0} /\ BRIDGE_MAX_CAPACITY \in Nat \ {0}

VARIABLE mon

NoTx == [block |-> 0, confirmations |-> 0, status |-> "None", first_seen |-> 0]

NoBridgeTransfer == [amount |-> 0, fee_paid |-> 0, status |-> "None", signatures |-> {},
                     created_at |-> 0]

NoValidatorAnalytics == [signatures |-> 0, on_time |-> 0, late |-> 0, avg_response |-> 0,
                         uptime |-> 10000]

MonitorInit ==
    mon = [txs |-> [i \in MonitoredIds |-> NoTx],
           transfers |-> [i \in MonitoredIds |-> NoBridgeTransfer],
           window |-> <<>>, tripped |-> FALSE, breaker |-> CHOOSE c \in BreakerConfigs : TRUE,
           fee_config |-> CHOOSE c \in FeeConfigs : TRUE, treasury_set |-> FALSE,
           multiplier |-> 10000,
           stats |-> [collected |-> 0, to_validators |-> 0, to_treasury |-> 0,
                      count |-> 0, avg_fee |-> 0],
           daily_transfers |-> 0,
           analytics |-> [transfers |-> 0, volume |-> 0, fees |-> 0, avg_time |-> 0,
                          series |-> <<>>],
           validators |-> [v \in ValidatorPool |-> NoValidatorAnalytics]]

MonitoredTxs == {i \in MonitoredIds : mon.txs[i] # NoTx}

CreatedTransfers == {i \in MonitoredIds : mon.transfers[i] # NoBridgeTransfer}

----------------------------------------------------------------------------
\* Finality.

monitor_source_transaction(i, block) ==
    mon' = [mon EXCEPT !.txs[i] = [block |-> block, confirmations |-> 0,
                                   status |-> "Pending", first_seen |-> now]]

\* get_chain_finality_config: the confirmations that count as final
FinalAt ==
    CASE VerificationMethod = "BlockConfirmations" -> REQUIRED_CONFIRMATIONS
      [] VerificationMethod = "EpochFinality" -> REQUIRED_CONFIRMATIONS \div 2
      [] VerificationMethod = "Probabilistic" -> REQUIRED_CONFIRMATIONS * 2

average_latency(window) == FoldLeft(LAMBDA s, l : s + l, 0, window) \div Len(window)

\* record_finality_latency: the window keeps the last window_size latencies and
\* trips the breaker when a full window is too slow on average
record_finality_latency(m, latency) ==
    LET longer == Append(m.window, latency)
        size == m.breaker.window_size
        window == IF Len(longer) > size
                  THEN SubSeq(longer, Len(longer) - size + 1, Len(longer)) ELSE longer
    IN  [m EXCEPT !.window = window,
                  !.tripped = @ \/ (Len(window) >= size
                                    /\ average_latency(window) > m.breaker.latency_threshold_secs)]

\* mark_as_finalized
mark_as_finalized(m, i) ==
    record_finality_latency([m EXCEPT !.txs[i].status = "Finalized"],
                            SatSub(now, m.txs[i].first_seen))

update_transaction_confirmation_count(i, current_block) ==
    LET confirmations == SatSub(current_block, mon.txs[i].block)
        counted == [mon EXCEPT !.txs[i].confirmations = confirmations]
    IN  /\ mon.txs[i].status # "Finalized"
        /\ mon' = IF confirmations >= FinalAt THEN mark_as_finalized(counted, i)
                  ELSE [counted EXCEPT !.txs[i].status = "Confirming"]

\* check_for_reorg reports one when the chain is not past the transaction's block
check_for_reorg(i, current_block) == current_block <= mon.txs[i].block

\* Mutant: the transfer keeps its status although its signatures are gone.
handle_reorg_KeepsStatus(i) ==
    mon' = [mon EXCEPT !.txs[i].confirmations = 0, !.txs[i].status = "Reorged",
                       !.transfers[i].signatures = {}]

handle_reorg(i) ==
    mon' = [mon EXCEPT !.txs[i].confirmations = 0, !.txs[i].status = "Reorged",
                       !.transfers[i] = IF i \in CreatedTransfers
                                        THEN [@ EXCEPT !.status = "Pending", !.signatures = {}]
                                        ELSE @]

mark_transaction_failed(i) ==
    mon' = [mon EXCEPT !.txs[i].status = "Failed",
                       !.transfers[i] = IF i \in CreatedTransfers
                                        THEN [@ EXCEPT !.status = "Failed"] ELSE @]

clear_circuit_breaker == mon' = [mon EXCEPT !.tripped = FALSE, !.window = <<>>]

set_latency_circuit_breaker_config(c) == mon' = [mon EXCEPT !.breaker = c]

----------------------------------------------------------------------------
\* Statistics (analytics.rs).

\* add_to_time_series: one point per day, the oldest dropped beyond the limit
add_to_time_series(series, value) ==
    LET period == (now \div SECONDS_PER_DAY) * SECONDS_PER_DAY
        n == Len(series)
        longer == Append(series, [timestamp |-> period, value |-> value])
    IN  IF n > 0 /\ series[n].timestamp = period
        THEN [series EXCEPT ![n].value = @ + value]
        ELSE IF Len(longer) > SERIES_LIMIT THEN Tail(longer) ELSE longer

\* update_transfer_analytics with update_avg_transfer_time
update_transfer_analytics(a, t) ==
    LET n == a.transfers + 1
    IN  [transfers |-> n, volume |-> a.volume + t.amount, fees |-> a.fees + t.fee_paid,
         avg_time |-> (a.avg_time * a.transfers + SatSub(now, t.created_at)) \div n,
         series |-> add_to_time_series(a.series, t.amount)]

\* Signatures given per transfer completed; read from storage before the new one counts.
calculate_validator_uptime(v) ==
    IF mon.analytics.transfers = 0 THEN 10000
    ELSE (mon.validators[v].signatures * 10000) \div mon.analytics.transfers

update_validator_analytics(v, initiated) ==
    LET a == mon.validators[v]
        response == SatSub(now, initiated)
        n == a.signatures + 1
        timely == response <= ON_TIME_SECONDS
    IN  [signatures |-> n,
         on_time |-> a.on_time + (IF timely THEN 1 ELSE 0),
         late |-> a.late + (IF timely THEN 0 ELSE 1),
         avg_response |-> (a.avg_response * a.signatures + response) \div n,
         uptime |-> calculate_validator_uptime(v)]

calculate_avg_validator_uptime ==
    LET uptimes == MapThenSumSet(LAMBDA v : bg.validators[v] * calculate_validator_uptime(v), ValidatorPool)
    IN  IF len(bg.validators) = 0 THEN 10000 ELSE uptimes \div len(bg.validators)

\* success_rate is never updated and liquidity is a fixed 80
calculate_bridge_health_score ==
    LET t == mon.analytics.avg_time
        response == IF t <= 300 THEN 100 ELSE IF t <= 900 THEN 70 ELSE IF t <= 1800 THEN 40 ELSE 20
    IN  40 + (calculate_avg_validator_uptime * 30) \div 10000 + 16 + (response * 10) \div 100

Points(since) == SelectSeq(mon.analytics.series, LAMBDA p : p.timestamp >= since)

SumPoints(points) == FoldLeft(LAMBDA s, p : s + p.value, 0, points)

\* get_bridge_volume_stats for a period that starts at `since`
get_bridge_volume_stats(since) == SumPoints(Points(since))

\* analyze_volume_trend: the later half of the days against the earlier half
analyze_volume_trend(days) ==
    LET points == Points(SatSub(now, days * SECONDS_PER_DAY))
        half == Len(points) \div 2
        slope == SumPoints(SubSeq(points, half + 1, Len(points)))
                    - SumPoints(SubSeq(points, 1, half))
    IN  IF points = <<>> THEN [trend |-> "Decreasing", slope |-> 0]
        ELSE [slope |-> slope,
              trend |-> IF slope > 100 THEN "StronglyIncreasing"
                        ELSE IF slope > 0 THEN "Increasing"
                        ELSE IF slope > -100 THEN "Decreasing" ELSE "StronglyDecreasing"]

----------------------------------------------------------------------------
\* Transfers.

create_bridge_transfer(i, amount, fee_paid) ==
    /\ ~mon.tripped
    /\ amount > 0
    /\ mon' = [mon EXCEPT !.transfers[i] =
                   [amount |-> amount, fee_paid |-> fee_paid, status |-> "Pending",
                    signatures |-> {}, created_at |-> now]]

\* add_validator_signature: signatures are told apart by their text, not their author
add_validator_signature(i, v, signature) ==
    LET t == mon.transfers[i]
        signatures == t.signatures \cup {signature}
    IN  /\ signature \notin t.signatures
        /\ mon' = [mon EXCEPT
               !.transfers[i].signatures = signatures,
               !.transfers[i].status = IF Cardinality(signatures) >= 2
                                       THEN "ValidatorApproved" ELSE @,
               !.validators[v] = update_validator_analytics(v, t.created_at)]

approve_transfer_for_minting(i) ==
    /\ mon.transfers[i].status = "ValidatorApproved"
    /\ mon' = [mon EXCEPT !.transfers[i].status = "Minting"]

complete_transfer(i) ==
    mon' = [mon EXCEPT !.transfers[i].status = "Complete",
                       !.analytics = update_transfer_analytics(@, mon.transfers[i])]

----------------------------------------------------------------------------
\* Fees (fees.rs).

calculate_bridge_fee(amount) ==
    LET c == mon.fee_config
        fee == (amount * c.base_fee_bps) \div 10000
    IN  IF fee < c.min_fee THEN c.min_fee ELSE IF fee > c.max_fee THEN c.max_fee ELSE fee

estimate_bridge_fee(amount) == (calculate_bridge_fee(amount) * mon.multiplier) \div 10000

collect_bridge_fee(i, amount) ==
    LET total == mon.stats.collected + calculate_bridge_fee(amount)
        n == mon.stats.count + 1
    IN  mon' = [mon EXCEPT !.stats.collected = total, !.stats.count = n,
                           !.stats.avg_fee = total \div n, !.daily_transfers = @ + 1]

\* A share catches up with its percentage of everything collected so far.
validator_share ==
    (mon.stats.collected * mon.fee_config.validator_pct) \div 10000 - mon.stats.to_validators

distribute_validator_rewards ==
    /\ validator_share > 0
    /\ len(get_bridge_validators) > 0
    /\ mon' = [mon EXCEPT !.stats.to_validators = @ + validator_share]

treasury_share ==
    (mon.stats.collected * mon.fee_config.treasury_pct) \div 10000 - mon.stats.to_treasury

allocate_to_treasury ==
    /\ treasury_share > 0
    /\ mon.treasury_set
    /\ mon' = [mon EXCEPT !.stats.to_treasury = @ + treasury_share]

set_bridge_fee_config(c) == mon' = [mon EXCEPT !.fee_config = c]

set_bridge_treasury == mon' = [mon EXCEPT !.treasury_set = TRUE]

set_chain_fee_multiplier(bps) == mon' = [mon EXCEPT !.multiplier = bps]

\* calculate_bridge_utilization
calculate_bridge_utilization ==
    LET bps == (mon.daily_transfers * 10000) \div BRIDGE_MAX_CAPACITY
    IN  IF bps > 10000 THEN 10000 ELSE bps

adjust_bridge_fees_dynamically ==
    LET u == calculate_bridge_utilization
        bps == mon.fee_config.base_fee_bps
        lower == IF SatSub(bps, 5) > 10 THEN SatSub(bps, 5) ELSE 10
        higher == IF bps + 5 < 100 THEN bps + 5 ELSE 100
    IN  /\ mon.fee_config.dynamic
        /\ mon' = [mon EXCEPT !.fee_config.base_fee_bps =
                       IF u <= 3000 THEN lower ELSE IF u >= 7000 THEN higher ELSE @]

\* refund_bridge_fee: each call takes the fee off the total again
refund_bridge_fee(i) ==
    /\ mon.transfers[i].status = "Failed"
    /\ mon' = [mon EXCEPT !.stats.collected = @ - mon.transfers[i].fee_paid]

MonitorStep ==
    \/ \E i \in MonitoredIds, b \in SourceBlocks : monitor_source_transaction(i, b)
    \/ \E i \in MonitoredTxs :
          \/ \E b \in SourceBlocks : update_transaction_confirmation_count(i, b)
          \/ (\E b \in SourceBlocks : check_for_reorg(i, b)) /\ handle_reorg(i)
          \/ mark_transaction_failed(i)
    \/ clear_circuit_breaker
    \/ \E c \in BreakerConfigs : set_latency_circuit_breaker_config(c)
    \/ \E i \in MonitoredIds, a \in MonitorAmounts : create_bridge_transfer(i, a, calculate_bridge_fee(a))
    \/ \E i \in CreatedTransfers :
          \/ \E v \in ValidatorPool, s \in Signatures : add_validator_signature(i, v, s)
          \/ approve_transfer_for_minting(i)
          \/ complete_transfer(i)

FeeStep ==
    \/ \E i \in CreatedTransfers : collect_bridge_fee(i, mon.transfers[i].amount) \/ refund_bridge_fee(i)
    \/ distribute_validator_rewards
    \/ allocate_to_treasury
    \/ \E c \in FeeConfigs : set_bridge_fee_config(c)
    \/ set_bridge_treasury
    \/ \E bps \in ChainMultipliers : set_chain_fee_multiplier(bps)
    \/ adjust_bridge_fees_dynamically

----------------------------------------------------------------------------
\* A transfer that counts as approved has the two signatures for it, also after
\* reorgs, failures and transfers created anew under its id; every signature of a
\* validator is counted once as timely or late; the latency window never outgrows
\* the size in force when it was last written.
\* About add_validator_signature against handle_reorg and mark_transaction_failed.
ApprovedBySignatures ==
    /\ \A i \in MonitoredIds :
          mon.transfers[i].status \in {"ValidatorApproved", "Minting"}
              => Cardinality(mon.transfers[i].signatures) >= 2
    /\ \A v \in ValidatorPool :
          mon.validators[v].signatures = mon.validators[v].on_time + mon.validators[v].late
    /\ \E c \in BreakerConfigs : Len(mon.window) <= c.window_size

\* What arrives from another chain counts once and while it is signed: nonces neither
\* skip nor repeat, and an approved transfer has its signatures even after a
\* reorganisation.  About messaging.rs and monitoring.rs.
CrossChainSound == NoncesAccounted /\ ApprovedBySignatures

----------------------------------------------------------------------------
\* Committee, messages and monitoring side by side
crossChainVars == <<now, seq, bg, mq, mon>>

CrossChainInit == ClockInit /\ BridgeGovernInit /\ MessagesInit /\ MonitorInit

CrossChainNext ==
    \/ BridgeGovernStep /\ UNCHANGED <<now, seq, mq, mon>>
    \/ MessageStep /\ UNCHANGED <<now, seq, bg, mon>>
    \/ (MonitorStep \/ FeeStep) /\ UNCHANGED <<now, seq, bg, mq>>
    \/ CloseLedger /\ UNCHANGED <<bg, mq, mon>>

CrossChainSpec == CrossChainInit /\ [][CrossChainNext]_crossChainVars
=============================================================================
