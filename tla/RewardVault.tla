----------------------------- MODULE RewardVault ----------------------------
(***************************************************************************)
(* Fee accrual of the staking vault (stake_vault/src/fee_accrual.rs): a    *)
(* vault-wide accumulator `acc_fee_per_share` and one position per staker. *)
(* All divisions are floor divisions.  A call that overflows i128 returns  *)
(* Err and its caller keeps the old state, so overflow is a guard here.    *)
(* The multi-asset reward buckets of stake_vault                           *)
(* (stake_vault/src/reward_vault.rs, issues #1020 and #1022) and the entry *)
(* points of stake_vault/src/lib.rs that guard them with the pause switch. *)
(***************************************************************************)
EXTENDS Integers, FiniteSetsExt, SequencesExt

CONSTANTS
    ShareHolders,   \* accounts that may hold a position
    FeeAmounts,     \* fee amounts and share amounts the callers pass
    ACC_PRECISION,  \* 1e12 in the code
    FEE_I128_MAX,   \* largest value of the integer type
    Ledgers,        \* ledger sequence numbers / timestamps a caller may pass
    MaxEpoch,       \* bound: accrual updates in a behaviour
    MaxShares       \* bound: shares of one position

ASSUME FeeConstants ==
    /\ ACC_PRECISION \in Nat \ {0}
    /\ FEE_I128_MAX \in Nat
    /\ IsFiniteSet(ShareHolders)
    /\ FeeAmounts \subseteq Int
    /\ Ledgers \subseteq Nat
    /\ MaxEpoch \in Nat
    /\ MaxShares \in Nat

VARIABLES
    state,      \* FeeAccrualState
    position,   \* [ShareHolders -> StakerFeePosition]
    feesClaimed \* history: total fees handed out by claim

feeVars == <<state, position, feesClaimed>>

FeeAccrualState ==
    [acc_fee_per_share : Nat, total_shares : Nat, carry : Nat,
     total_deposited : Nat, total_distributed : Nat,
     last_ledger_seq : Ledgers \cup {0}, last_timestamp : Ledgers \cup {0},
     epoch : Nat]

StakerFeePosition == [shares : Nat, fee_debt : Nat, realized : Nat]

FeeTypeOK ==
    /\ state \in FeeAccrualState
    /\ position \in [ShareHolders -> StakerFeePosition]
    /\ feesClaimed \in Nat

FeeInit ==
    /\ state = [acc_fee_per_share |-> 0, total_shares |-> 0, carry |-> 0,
                total_deposited |-> 0, total_distributed |-> 0,
                last_ledger_seq |-> 0, last_timestamp |-> 0, epoch |-> 0]
    /\ position = [s \in ShareHolders |->
                      [shares |-> 0, fee_debt |-> 0, realized |-> 0]]
    /\ feesClaimed = 0

----------------------------------------------------------------------------
\* checked_add / checked_mul of the amounts below: they fail above FEE_I128_MAX.
Fits(x) == x <= FEE_I128_MAX

accumulated_for(shares, acc) == (shares * acc) \div ACC_PRECISION

\* What settle() would move into `realized`; a negative difference counts as 0.
newly_accrued(acc, p) ==
    LET newly == accumulated_for(p.shares, acc) - p.fee_debt
    IN  IF newly < 0 THEN 0 ELSE newly

\* The position after settle().
settled(acc, p) ==
    [p EXCEPT !.realized = @ + newly_accrued(acc, p),
              !.fee_debt = accumulated_for(p.shares, acc)]

pending(acc, p) == p.realized + newly_accrued(acc, p)

CanSettle(acc, p) ==
    /\ Fits(p.shares * acc)
    /\ Fits(pending(acc, p))

per_share_delta(pool) ==
    IF state.total_shares = 0 THEN 0
    ELSE (pool * ACC_PRECISION) \div state.total_shares

distributed(pool) == (per_share_delta(pool) * state.total_shares) \div ACC_PRECISION

\* Mutant: the dust of the floor division is forgotten.
carry_after_DropsDust(pool) == IF state.total_shares = 0 THEN pool ELSE 0

carry_after(pool) == pool - distributed(pool)

accrue_deposit(amount, ledger_seq, timestamp) ==
    LET pool  == amount + state.carry
        delta == per_share_delta(pool)
        dist  == distributed(pool)
    IN  /\ state.epoch < MaxEpoch
        /\ amount > 0
        /\ ledger_seq >= state.last_ledger_seq
        /\ timestamp >= state.last_timestamp
        /\ Fits(pool)
        /\ state.total_shares = 0 \/ Fits(pool * ACC_PRECISION)
        /\ Fits(state.acc_fee_per_share + delta)
        /\ Fits(state.total_deposited + amount)
        /\ state' = [state EXCEPT
                        !.acc_fee_per_share = @ + delta,
                        !.carry = carry_after(pool),
                        !.total_deposited = @ + amount,
                        !.total_distributed = @ + dist,
                        !.last_ledger_seq = ledger_seq,
                        !.last_timestamp = timestamp,
                        !.epoch = @ + 1]
        /\ UNCHANGED <<position, feesClaimed>>

settle(s) ==
    /\ CanSettle(state.acc_fee_per_share, position[s])
    /\ position' = [position EXCEPT ![s] = settled(state.acc_fee_per_share, @)]
    /\ UNCHANGED <<state, feesClaimed>>

\* Mutant: the debt keeps the value settled for the old share count.
with_shares_StaleDebt(p, shares) ==
    [settled(state.acc_fee_per_share, p) EXCEPT !.shares = shares]

\* The share change common to add_shares and remove_shares: settle against the
\* old share count, then restart the debt from the new one.
with_shares(p, shares) ==
    [settled(state.acc_fee_per_share, p) EXCEPT
        !.shares = shares,
        !.fee_debt = accumulated_for(shares, state.acc_fee_per_share)]

add_shares(s, amount) ==
    LET shares == position[s].shares + amount
    IN  /\ amount > 0
        /\ shares <= MaxShares
        /\ CanSettle(state.acc_fee_per_share, position[s])
        /\ Fits(shares)
        /\ Fits(state.total_shares + amount)
        /\ Fits(shares * state.acc_fee_per_share)
        /\ position' = [position EXCEPT ![s] = with_shares(@, shares)]
        /\ state' = [state EXCEPT !.total_shares = @ + amount]
        /\ UNCHANGED feesClaimed

\* Mutant: the check against the position's own shares is missing.
remove_shares_Unchecked(s, amount) ==
    /\ amount > 0
    /\ position' = [position EXCEPT ![s] = with_shares(@, @.shares - amount)]
    /\ state' = [state EXCEPT !.total_shares = @ - amount]
    /\ UNCHANGED feesClaimed

remove_shares(s, amount) ==
    /\ amount > 0
    /\ amount <= position[s].shares
    /\ CanSettle(state.acc_fee_per_share, position[s])
    /\ position' = [position EXCEPT ![s] = with_shares(@, @.shares - amount)]
    /\ state' = [state EXCEPT !.total_shares = @ - amount]
    /\ UNCHANGED feesClaimed

\* claim: NothingToClaim when nothing is left after settling.
claim(s) ==
    LET p == settled(state.acc_fee_per_share, position[s])
    IN  /\ CanSettle(state.acc_fee_per_share, position[s])
        /\ p.realized > 0
        /\ position' = [position EXCEPT ![s] = [p EXCEPT !.realized = 0]]
        /\ feesClaimed' = feesClaimed + p.realized
        /\ UNCHANGED state

FeeNext ==
    \/ \E a \in FeeAmounts, l, t \in Ledgers : accrue_deposit(a, l, t)
    \/ \E s \in ShareHolders : settle(s) \/ claim(s)
    \/ \E s \in ShareHolders, a \in FeeAmounts : add_shares(s, a) \/ remove_shares(s, a)

FeeSpec == FeeInit /\ [][FeeNext]_feeVars

----------------------------------------------------------------------------
PendingOf(s) == pending(state.acc_fee_per_share, position[s])

\* Every fee unit handed to accrue_deposit is booked as distributed or carried,
\* and total_shares is the sum of the positions' shares, whatever order stakers
\* join, leave and settle in.
BooksBalance ==
    /\ state.total_deposited = state.total_distributed + state.carry
    /\ state.total_shares
          = SumFunctionOnSet([s \in ShareHolders |-> position[s].shares], ShareHolders)

\* What the stakers can claim now
FeesClaimable == SumFunctionOnSet([s \in ShareHolders |-> PendingOf(s)], ShareHolders)

\* fee_accrual.rs: "Total fees in == total fees claimable + carry, exactly, at every
\* point in time", and "nothing is ever double-counted or lost": of what was
\* deposited no more is claimed, claimable and carried than there is.
FeesCovered == FeesClaimable + feesClaimed + state.carry <= state.total_deposited

\* What the code keeps of that sentence: what is claimed, claimable and carried
\* differs from what was deposited by at most one unit for every accrual and
\* holder, upwards or downwards, since every accrual rounds every position once.
FeesNearlyCovered ==
    LET owed  == FeesClaimable + feesClaimed + state.carry
        slack == state.epoch * Cardinality(ShareHolders)
    IN  owed <= state.total_deposited + slack /\ state.total_deposited <= owed + slack

\* The comment in settle(): the difference is negative only if shares changed
\* without settling first, which no caller does, so the clamp to 0 never fires.
DebtNeverAhead ==
    \A s \in ShareHolders :
        position[s].fee_debt
            <= accumulated_for(position[s].shares, state.acc_fee_per_share)

\* Joining, leaving and settling never change what anybody can claim: new shares
\* earn nothing from past deposits and removed shares lose nothing earned.
ShareChangesKeepPending ==
    [][state'.epoch = state.epoch =>
          \A s \in ShareHolders :
              \/ PendingOf(s)' = PendingOf(s)
              \/ PendingOf(s)' = 0 /\ feesClaimed' = feesClaimed + PendingOf(s)]_feeVars

-----------------------------------------------------------------------------

CONSTANTS
    Providers,         \* accounts rewards are meant for
    Assets,            \* reward tokens
    RewardAmounts,     \* amounts depositors pass
    ClaimLists,        \* lists of bucket ids providers pass
    MAX_REWARD_BATCH,
    MaxBuckets         \* bound: buckets in a behaviour

ASSUME RewardConstants ==
    /\ IsFiniteSet(Providers)
    /\ RewardAmounts \subseteq Int
    /\ ClaimLists \subseteq Seq(Nat)
    /\ MAX_REWARD_BATCH \in Nat
    /\ MaxBuckets \in Nat

VARIABLES
    rewardsPaused,    \* shared::pausable, as these entry points read it
    supported,        \* SupportedAssets
    buckets,          \* Bucket(id), ids 1 .. BucketCounter
    claimedBuckets,   \* Claimed(provider, id)
    providerBal,      \* ProviderAssetBalance(provider, asset)
    totalDeposited,   \* AssetTotalDeposited(asset)
    vaultAssets,      \* token balances of the vault (external token contracts)
    received          \* token balances of the providers (external)

rewardVars == <<rewardsPaused, supported, buckets, claimedBuckets, providerBal,
          totalDeposited, vaultAssets, received>>

Bucket == [provider : Providers, asset : Assets, amount : Nat]

RewardTypeOK ==
    /\ rewardsPaused \in BOOLEAN
    /\ supported \in SUBSET Assets
    /\ buckets \in Seq(Bucket)
    /\ claimedBuckets \subseteq Providers \X (DOMAIN buckets)
    /\ providerBal \in [Providers \X Assets -> Nat]
    /\ totalDeposited \in [Assets -> Nat]
    /\ vaultAssets \in [Assets -> Nat]
    /\ received \in [Providers \X Assets -> Nat]

RewardInit ==
    /\ rewardsPaused = FALSE
    /\ supported = {}
    /\ buckets = <<>>
    /\ claimedBuckets = {}
    /\ providerBal = [pa \in Providers \X Assets |-> 0]
    /\ totalDeposited = [a \in Assets |-> 0]
    /\ vaultAssets = [a \in Assets |-> 0]
    /\ received = [pa \in Providers \X Assets |-> 0]

----------------------------------------------------------------------------
set_rewards_paused(b) ==
    /\ rewardsPaused' = b
    /\ UNCHANGED <<supported, buckets, claimedBuckets, providerBal,
                   totalDeposited, vaultAssets, received>>

\* There is no entry point that removes an asset.
add_supported_asset(a) ==
    /\ supported' = supported \cup {a}
    /\ UNCHANGED <<rewardsPaused, buckets, claimedBuckets, providerBal,
                   totalDeposited, vaultAssets, received>>

\* Mutant: the provider's balance is overwritten, not increased.
deposit_reward_Overwrites(p, a, amount) ==
    /\ ~rewardsPaused
    /\ a \in supported
    /\ amount > 0
    /\ Len(buckets) < MaxBuckets
    /\ buckets' = Append(buckets, [provider |-> p, asset |-> a, amount |-> amount])
    /\ totalDeposited' = [totalDeposited EXCEPT ![a] = @ + amount]
    /\ providerBal' = [providerBal EXCEPT ![<<p, a>>] = amount]
    /\ vaultAssets' = [vaultAssets EXCEPT ![a] = @ + amount]
    /\ UNCHANGED <<rewardsPaused, supported, claimedBuckets, received>>

\* Depositors are outside the model: their transfer succeeds or there is no step.
deposit_reward(p, a, amount) ==
    /\ ~rewardsPaused
    /\ a \in supported
    /\ amount > 0
    /\ Len(buckets) < MaxBuckets
    /\ buckets' = Append(buckets, [provider |-> p, asset |-> a, amount |-> amount])
    /\ totalDeposited' = [totalDeposited EXCEPT ![a] = @ + amount]
    /\ providerBal' = [providerBal EXCEPT ![<<p, a>>] = @ + amount]
    /\ vaultAssets' = [vaultAssets EXCEPT ![a] = @ + amount]
    /\ UNCHANGED <<rewardsPaused, supported, claimedBuckets, received>>

----------------------------------------------------------------------------
\* The running state of one batch_claim_rewards call of p.
ClaimStart(p) ==
    [claimed |-> claimedBuckets, bal |-> providerBal,
     totals |-> [a \in Assets |-> 0]]

Claimable(acc, p, id) ==
    /\ <<p, id>> \notin acc.claimed
    /\ id \in DOMAIN buckets
    /\ buckets[id].provider = p
    /\ buckets[id].asset \in supported

\* Mutant: the claimed flag is looked up only before the batch.
claim_bucket_Repeats(acc, p, id) ==
    IF ~Claimable(ClaimStart(p), p, id) THEN acc
    ELSE [claimed |-> acc.claimed \cup {<<p, id>>},
          bal     |-> [acc.bal EXCEPT ![<<p, buckets[id].asset>>] = @ - buckets[id].amount],
          totals  |-> [acc.totals EXCEPT ![buckets[id].asset] = @ + buckets[id].amount]]

\* One iteration: a bucket that cannot be claimed is skipped.
claim_bucket(acc, p, id) ==
    IF ~Claimable(acc, p, id) THEN acc
    ELSE [claimed |-> acc.claimed \cup {<<p, id>>},
          bal     |-> [acc.bal EXCEPT ![<<p, buckets[id].asset>>] = @ - buckets[id].amount],
          totals  |-> [acc.totals EXCEPT ![buckets[id].asset] = @ + buckets[id].amount]]

\* The list may repeat ids and name buckets of others; one transfer per asset,
\* and a failed one rolls the whole call back.
batch_claim_rewards(p, ids) ==
    LET done == FoldLeft(LAMBDA acc, id : claim_bucket(acc, p, id),
                         ClaimStart(p), ids)
    IN  /\ ~rewardsPaused
        /\ Len(ids) > 0
        /\ Len(ids) <= MAX_REWARD_BATCH
        /\ claimedBuckets' = done.claimed
        /\ providerBal' = done.bal
        /\ vaultAssets' = [a \in Assets |-> vaultAssets[a] - done.totals[a]]
        /\ received' = [pa \in Providers \X Assets |->
                           IF pa[1] = p THEN received[pa] + done.totals[pa[2]]
                           ELSE received[pa]]
        /\ UNCHANGED <<rewardsPaused, supported, buckets, totalDeposited>>

RewardNext ==
    \/ \E b \in BOOLEAN : set_rewards_paused(b)
    \/ \E a \in Assets : add_supported_asset(a)
    \/ \E p \in Providers, a \in Assets, amount \in RewardAmounts :
          deposit_reward(p, a, amount)
    \/ \E p \in Providers, ids \in ClaimLists : batch_claim_rewards(p, ids)

RewardSpec == RewardInit /\ [][RewardNext]_rewardVars

----------------------------------------------------------------------------
SumOver(ids) ==
    SumFunctionOnSet([id \in DOMAIN buckets |-> buckets[id].amount], ids)

\* A provider's recorded balance in an asset is what its unclaimed buckets of
\* that asset hold, and what it received is what its claimed ones held: buckets
\* are paid once, in their own asset, to their own provider, even when a list
\* repeats an id.
BucketsPaidOnce ==
    \A p \in Providers, a \in Assets :
        LET own     == {id \in DOMAIN buckets :
                           buckets[id].provider = p /\ buckets[id].asset = a}
            claimed == {id \in own : <<p, id>> \in claimedBuckets}
        IN  /\ providerBal[<<p, a>>] = SumOver(own \ claimed)
            /\ received[<<p, a>>] = SumOver(claimed)

\* Assets are never mixed: what the vault holds of an asset covers exactly the
\* balances recorded in that asset, and with what was paid out it adds up to
\* what was deposited.
AssetsCovered ==
    \A a \in Assets :
        LET inAsset(f) == SumFunctionOnSet(f, Providers \X {a})
        IN  /\ vaultAssets[a] = inAsset(providerBal)
            /\ totalDeposited[a] = vaultAssets[a] + inAsset(received)
=============================================================================
