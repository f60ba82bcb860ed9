----------------------------- MODULE StakeCore -----------------------------
(***************************************************************************)
(* The stake positions of stake_vault (stake_vault/src/lib.rs): deposits,  *)
(* full and partial withdrawals with their four protections (stake lock,   *)
(* same-ledger check, large-withdrawal time-lock, rate limit), the pause   *)
(* switch and the parameters the admin sets.                               *)
(*                                                                         *)
(* A contract call is one action: a call that returns Err or panics is     *)
(* rolled back by the host, so it is no step at all.  Calls that loop over *)
(* several items and swallow the error of one of them are modelled by the  *)
(* modules that extend this one, item by item, with `call` naming the call *)
(* that is running; nothing else runs until it returns.                    *)
(***************************************************************************)
EXTENDS Multisig, RateLimiter

CONSTANTS
    Stakers,                         \* accounts with a stake or delegation
    Amounts,                         \* amounts callers pass
    InitialWallet,                   \* tokens each account starts with
    I128_MAX,
    LARGE_WITHDRAWAL_THRESHOLD,
    LARGE_WITHDRAWAL_TIMELOCK_SECS,  \* default cooldown
    MAX_WITHDRAWAL_COOLDOWN_SECS,
    MinStakes, MinDurations, Cooldowns,  \* values the admin passes
    PauseInputs,                     \* values the admin passes to pause/unpause
    Governances,                     \* contracts the admin may name as governance
    LastInputAt                      \* bound: no deposit, request or new delay later

ASSUME StakeConstants ==
    /\ Amounts \subseteq Int
    /\ InitialWallet \in Nat
    /\ I128_MAX \in Nat
    /\ LARGE_WITHDRAWAL_THRESHOLD \in Nat \ {0}
    /\ LARGE_WITHDRAWAL_TIMELOCK_SECS \in Nat
    /\ MAX_WITHDRAWAL_COOLDOWN_SECS \in Nat
    /\ MinStakes \subseteq Int
    /\ MinDurations \subseteq Nat
    /\ Cooldowns \subseteq Nat
    /\ PauseInputs \subseteq BOOLEAN
    /\ LastInputAt \in Nat

\* The supply of the staking token fits the i128 of its balances.
ASSUME SupplyAssumption ==
    /\ IsFiniteSet(Stakers)
    /\ SumFunctionOnSet([s \in Stakers |-> InitialWallet], Stakers) <= I128_MAX

VARIABLES
    paused,           \* shared::pausable
    stake,            \* MigrationKey::StakesV2 (a missing entry has balance 0)
    lastStakeLedger,  \* LastStakeLedger(staker), 0 when missing
    depositedAt,      \* StakeDepositTimestamps(staker)
    requestedAt,      \* LargeWithdrawalRequestedAt(staker)
    rate,             \* the staker's StakeChange window
    minStake,         \* MinimumStake
    minDuration,      \* MinimumStakeDuration
    cooldown,         \* WithdrawalCooldownSecs
    governance,       \* GovernanceAddress, as a set of at most one address
    wallet,           \* token balances of the accounts (external token contract)
    vaultBal,         \* token balance of the vault (external token contract)
    call              \* looping call in progress: its name, iterations left

paramVars == <<minStake, minDuration, cooldown, governance>>
stakeVars == <<stake, lastStakeLedger, depositedAt, requestedAt, rate>>
tokenVars == <<wallet, vaultBal>>
coreVars  == <<paused, stakeVars, paramVars, tokenVars, call>>

StakeInfo == [balance : Nat, locked_until : Nat]

CoreTypeOK ==
    /\ paused \in BOOLEAN
    /\ stake \in [Stakers -> StakeInfo]
    /\ lastStakeLedger \in [Stakers -> Nat]
    /\ depositedAt \in [Stakers -> Nat \cup {NoTime}]
    /\ requestedAt \in [Stakers -> Nat \cup {NoTime}]
    /\ rate \in [Stakers -> RateWindow]
    /\ minStake \in Int
    /\ minDuration \in Nat
    /\ cooldown \in Nat
    /\ governance \in SUBSET Governances
    /\ wallet \in [Stakers -> Nat]
    /\ vaultBal \in Nat

NoCall == [op |-> "none", left |-> 0]

Idle == call = NoCall

\* The contract right after initialize, with the tokens in their owners' hands.
CoreInit ==
    /\ paused = FALSE
    /\ stake = [s \in Stakers |-> [balance |-> 0, locked_until |-> 0]]
    /\ lastStakeLedger = [s \in Stakers |-> 0]
    /\ depositedAt = [s \in Stakers |-> NoTime]
    /\ requestedAt = [s \in Stakers |-> NoTime]
    /\ rate = [s \in Stakers |-> NoWindow]
    /\ minStake = 0
    /\ minDuration = 0
    /\ cooldown = LARGE_WITHDRAWAL_TIMELOCK_SECS
    /\ governance = {}
    /\ wallet = [s \in Stakers |-> InitialWallet]
    /\ vaultBal = 0
    /\ call = NoCall

balance(s) == stake[s].balance

BPS_DENOMINATOR == 10000

apply_multiplier_bps(x, bps) ==
    IF x * bps > I128_MAX THEN I128_MAX ELSE (x * bps) \div BPS_DENOMINATOR

----------------------------------------------------------------------------
\* Token movements (SEP-41).  A failed transfer makes the calling entry point
\* fail, so only the successful ones are steps.
transfer_in(s, amount) ==
    /\ wallet[s] >= amount
    /\ wallet' = [wallet EXCEPT ![s] = @ - amount]
    /\ vaultBal' = vaultBal + amount

transfer_out(s, amount) ==
    /\ vaultBal >= amount
    /\ wallet' = [wallet EXCEPT ![s] = @ + amount]
    /\ vaultBal' = vaultBal - amount

\* Mutant: a top-up replaces the old lock even when that one ends later.
lock_after_deposit_Replaces(s) == SatAdd(now, minDuration)

\* A fresh stake is locked for the minimum duration, a top-up extends the lock
\* of the whole balance and never shortens it.
lock_after_deposit(s) ==
    LET fresh == SatAdd(now, minDuration)
    IN  IF balance(s) = 0 THEN fresh
        ELSE IF minDuration > 0 /\ fresh > stake[s].locked_until THEN fresh
        ELSE stake[s].locked_until

deposit_stake(s, amount) ==
    /\ now <= LastInputAt
    /\ ~paused
    /\ amount > 0
    /\ balance(s) + amount <= I128_MAX
    /\ stake' = [stake EXCEPT ![s] = [balance |-> @.balance + amount,
                                      locked_until |-> lock_after_deposit(s)]]
    /\ depositedAt' = [depositedAt EXCEPT ![s] = now]
    /\ lastStakeLedger' = [lastStakeLedger EXCEPT ![s] = seq]
    /\ transfer_in(s, amount)
    /\ UNCHANGED <<paused, requestedAt, rate, paramVars>>

\* Records the request only while the balance is large.
request_withdrawal(s) ==
    /\ now <= LastInputAt
    /\ ~paused
    /\ balance(s) >= LARGE_WITHDRAWAL_THRESHOLD
    /\ requestedAt' = [requestedAt EXCEPT ![s] = now]
    /\ UNCHANGED <<paused, stake, lastStakeLedger, depositedAt, rate,
                   paramVars, tokenVars>>

----------------------------------------------------------------------------
\* Withdrawals.

IsLarge(amount) == amount >= LARGE_WITHDRAWAL_THRESHOLD

TimelockElapsed(s) ==
    /\ requestedAt[s] # NoTime
    /\ now >= SatAdd(requestedAt[s], cooldown)

FlashLoanPattern(s) == lastStakeLedger[s] = seq /\ seq # 0

\* The checks common to do_withdraw_locked and do_partial_unstake_locked.
MayLeave(s, amount) ==
    /\ balance(s) # 0
    /\ now >= stake[s].locked_until
    /\ ~FlashLoanPattern(s)
    /\ IsLarge(amount) => TimelockElapsed(s)

\* Mutant: the large-withdrawal request survives its use.
leave_KeepsRequest(s, amount) ==
    /\ transfer_out(s, amount)
    /\ stake' = [stake EXCEPT ![s].balance = @ - amount]
    /\ rate' = [rate EXCEPT ![s] = record(@, now)]
    /\ UNCHANGED <<paused, lastStakeLedger, depositedAt, requestedAt, paramVars>>

\* Mutant: the withdrawal is not counted against the rate limit.
leave_NotCounted(s, amount) ==
    /\ transfer_out(s, amount)
    /\ stake' = [stake EXCEPT ![s].balance = @ - amount]
    /\ requestedAt' = IF IsLarge(amount)
                      THEN [requestedAt EXCEPT ![s] = NoTime] ELSE requestedAt
    /\ UNCHANGED <<paused, lastStakeLedger, depositedAt, rate, paramVars>>

\* Transfer first, then the effects: the balance shrinks, the request of a large
\* withdrawal is consumed, the caller records the action for the rate limit.
leave(s, amount) ==
    /\ transfer_out(s, amount)
    /\ stake' = [stake EXCEPT ![s].balance = @ - amount]
    /\ requestedAt' = IF IsLarge(amount)
                      THEN [requestedAt EXCEPT ![s] = NoTime] ELSE requestedAt
    /\ rate' = [rate EXCEPT ![s] = record(@, now)]
    /\ UNCHANGED <<paused, lastStakeLedger, depositedAt, paramVars>>

\* The vault passes trust score 0: the limit never doubles.
RateAllows(s) == check_rate_limit(rate[s], 0, now, 0)

do_withdraw(s) == MayLeave(s, balance(s)) /\ leave(s, balance(s))

withdraw_stake(s) ==
    /\ ~paused
    /\ RateAllows(s)
    /\ do_withdraw(s)

\* Mutant: the amount is not compared with the balance.
partial_unstake_Unchecked(s, amount) ==
    /\ ~paused
    /\ amount > 0
    /\ RateAllows(s)
    /\ MayLeave(s, amount)
    /\ leave(s, amount)

partial_unstake(s, amount) ==
    /\ ~paused
    /\ amount > 0
    /\ amount < balance(s)
    /\ RateAllows(s)
    /\ MayLeave(s, amount)
    /\ minStake > 0 => balance(s) - amount >= minStake
    /\ leave(s, amount)

----------------------------------------------------------------------------
\* Parameters.  put_* are the writes; the admin's entry points are refused once
\* a multi-sig is configured (RequiresMultisig).

put_paused(b) ==
    /\ paused' = b
    /\ UNCHANGED <<stakeVars, paramVars, tokenVars>>

put_minimum_stake(v) ==
    /\ minStake' = v
    /\ UNCHANGED <<paused, stakeVars, minDuration, cooldown, governance, tokenVars>>

put_minimum_stake_duration(v) ==
    /\ now <= LastInputAt
    /\ minDuration' = v
    /\ UNCHANGED <<paused, stakeVars, minStake, cooldown, governance, tokenVars>>

put_withdrawal_cooldown(v) ==
    /\ now <= LastInputAt
    /\ v <= MAX_WITHDRAWAL_COOLDOWN_SECS
    /\ cooldown' = v
    /\ UNCHANGED <<paused, stakeVars, minStake, minDuration, governance, tokenVars>>

\* pause / unpause
set_paused(b) == ~MultisigOn /\ put_paused(b)

\* Mutant: the admin alone, whatever the multi-sig says.
set_minimum_stake_Alone(v) == put_minimum_stake(v)

set_minimum_stake(v) == ~MultisigOn /\ put_minimum_stake(v)

set_minimum_stake_duration(v) == ~MultisigOn /\ put_minimum_stake_duration(v)

set_withdrawal_cooldown(v) == ~MultisigOn /\ put_withdrawal_cooldown(v)

set_governance(g) ==
    /\ governance' = {g}
    /\ UNCHANGED <<paused, stakeVars, minStake, minDuration, cooldown, tokenVars>>

\* The governance contract pauses and unpauses whatever the multi-sig says.
apply_governance_pause(b) == governance # {} /\ put_paused(b)

CoreOps ==
    \/ \E s \in Stakers, a \in Amounts : deposit_stake(s, a)
    \/ \E s \in Stakers, a \in Amounts : partial_unstake(s, a)
    \/ \E s \in Stakers : withdraw_stake(s)
    \/ \E s \in Stakers : request_withdrawal(s)
    \/ \E b \in PauseInputs : set_paused(b)
    \/ \E v \in MinStakes : set_minimum_stake(v)
    \/ \E v \in MinDurations : set_minimum_stake_duration(v)
    \/ \E v \in Cooldowns : set_withdrawal_cooldown(v)
    \/ \E g \in Governances : set_governance(g)
    \/ \E b \in PauseInputs : apply_governance_pause(b)

\* One call of this module, or the ledger closing, while no loop is running.
CoreStep ==
    /\ Idle
    /\ UNCHANGED <<call, msVars>>
    /\ \/ CoreOps /\ UNCHANGED clockVars
       \/ CloseLedger /\ UNCHANGED coreVars

allCoreVars == <<clockVars, msVars, coreVars>>

CoreSystemInit == ClockInit /\ MSInit /\ CoreInit

CoreSpec == CoreSystemInit /\ [][CoreStep]_allCoreVars

----------------------------------------------------------------------------
TotalStaked == SumFunctionOnSet([s \in Stakers |-> balance(s)], Stakers)

Paid(s) == wallet'[s] > wallet[s]

LockStep ==
    \A s \in Stakers :
        /\ Paid(s) => now >= stake[s].locked_until /\ seq # lastStakeLedger[s]
        /\ balance(s) > 0 => stake'[s].locked_until >= stake[s].locked_until

\* A staker takes tokens out only from an unlocked position and never in the
\* ledger of the last deposit, and while a position is open no call of anybody
\* brings its unlock time forward.
LockHonoured == [][LockStep]_allCoreVars

OwnRequestStep ==
    \A s \in Stakers :
        wallet'[s] - wallet[s] >= LARGE_WITHDRAWAL_THRESHOLD =>
            /\ requestedAt[s] # NoTime
            /\ now >= SatAdd(requestedAt[s], cooldown)
            /\ requestedAt'[s] = NoTime

\* Two large withdrawals never rest on the same request: after one, the next
\* needs a request made later ("The time-lock request is consumed on use").
LargeNeedsOwnRequest == [][OwnRequestStep]_allCoreVars
============================================================================
