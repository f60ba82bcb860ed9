---------------------------- MODULE Eligibility ----------------------------
(***************************************************************************)
(* What a stake entitles to (stake_vault/src/lib.rs): signal submission    *)
(* with its grace period below the minimum stake, and voting power with    *)
(* the lock-duration multiplier of issue #787, together with the emergency *)
(* way out, which empties the position the checks read.                    *)
(***************************************************************************)
EXTENDS EmergencyUnstake

CONSTANTS
    GRACE_PERIOD_SECS,
    SECS_PER_WEEK,
    MAX_LOCK_MULTIPLIER_BPS,
    InitLockTiers,   \* default_lock_multiplier_tiers
    TierInputs       \* tiers the admin passes

LockTier == [weeks : Nat, bps : Nat]

ASSUME EligibilityConstants ==
    /\ GRACE_PERIOD_SECS \in Nat
    /\ SECS_PER_WEEK \in Nat \ {0}
    /\ MAX_LOCK_MULTIPLIER_BPS \in Nat
    /\ InitLockTiers \in Seq(LockTier)
    /\ \A i, j \in DOMAIN InitLockTiers :
          /\ InitLockTiers[i].weeks = InitLockTiers[j].weeks => i = j
          /\ InitLockTiers[i].bps >= 10000
    /\ TierInputs \subseteq LockTier

VARIABLES
    belowSince,   \* StakeBelowMinSince(provider)
    lockTiers,    \* LockMultiplierTiers
    trueBelow     \* history: since when the stake really is below the minimum

eligibilityVars == <<belowSince, lockTiers, trueBelow>>

EligibilityTypeOK ==
    /\ belowSince \in [Stakers -> Nat \cup {NoTime}]
    /\ lockTiers \in Seq(LockTier)
    /\ trueBelow \in [Stakers -> Nat \cup {NoTime}]
    /\ \A s \in Stakers : belowSince[s] <= now

EligibilityInit ==
    /\ belowSince = [s \in Stakers |-> NoTime]
    /\ lockTiers = InitLockTiers
    /\ trueBelow = [s \in Stakers |-> NoTime]

BelowMinimum(s) == balance(s) < minStake

----------------------------------------------------------------------------
\* Mutant: every notification starts the grace period anew.
notify_stake_below_minimum_Restarts(s) ==
    /\ BelowMinimum(s)
    /\ belowSince' = [belowSince EXCEPT ![s] = now]
    /\ UNCHANGED <<lockTiers, coreVars>>

\* Anybody may notify; the first notification starts the grace period.
notify_stake_below_minimum(s) ==
    /\ BelowMinimum(s)
    /\ belowSince[s] = NoTime
    /\ belowSince' = [belowSince EXCEPT ![s] = now]
    /\ UNCHANGED <<lockTiers, coreVars>>

GraceOver(s) ==
    /\ belowSince[s] # NoTime
    /\ SatSub(now, belowSince[s]) > GRACE_PERIOD_SECS

\* check_signal_submission_allowed answers Err.
Denied(s) == BelowMinimum(s) /\ GraceOver(s)

\* An Ok answer; only one above the minimum forgets the notification.
check_signal_submission_allowed(s) ==
    /\ ~Denied(s)
    /\ belowSince' = IF BelowMinimum(s) THEN belowSince
                     ELSE [belowSince EXCEPT ![s] = NoTime]
    /\ UNCHANGED <<lockTiers, coreVars>>

----------------------------------------------------------------------------
\* Mutant: the last tier of the table that is met wins.
lock_multiplier_bps_for_remaining_Last(tiers, remaining) ==
    FoldLeft(LAMBDA bps, t : IF remaining \div SECS_PER_WEEK >= t.weeks
                             THEN t.bps ELSE bps, 0, tiers)

\* The highest multiplier among the tiers the remaining lock time meets.
lock_multiplier_bps_for_remaining(tiers, remaining) ==
    FoldLeft(LAMBDA bps, t : IF /\ remaining \div SECS_PER_WEEK >= t.weeks
                                /\ t.bps > bps
                             THEN t.bps ELSE bps, 0, tiers)

get_voting_power(s) ==
    IF balance(s) = 0 THEN 0
    ELSE IF stake[s].locked_until = 0 \/ now >= stake[s].locked_until
         THEN balance(s)
    ELSE apply_multiplier_bps(balance(s),
             lock_multiplier_bps_for_remaining(lockTiers,
                                               stake[s].locked_until - now))

\* Mutant: a tier is added even when its threshold is already in the table.
with_tier_Appends(t) == Append(lockTiers, t)

\* Replaces the tier with the same threshold in place, else appends.
with_tier(t) ==
    IF \E i \in DOMAIN lockTiers : lockTiers[i].weeks = t.weeks
    THEN [i \in DOMAIN lockTiers |->
             IF lockTiers[i].weeks = t.weeks THEN t ELSE lockTiers[i]]
    ELSE Append(lockTiers, t)

set_lock_multiplier_tier(t) ==
    /\ t.weeks # 0
    /\ t.bps >= BPS_DENOMINATOR
    /\ t.bps <= MAX_LOCK_MULTIPLIER_BPS
    /\ lockTiers' = with_tier(t)
    /\ UNCHANGED <<belowSince, coreVars>>

EligibilityOps ==
    \/ \E s \in Stakers : notify_stake_below_minimum(s)
    \/ \E s \in Stakers : check_signal_submission_allowed(s)
    \/ \E t \in TierInputs : set_lock_multiplier_tier(t)

EligibilityStep == Idle /\ UNCHANGED <<clockVars, msVars>> /\ EligibilityOps

\* After every step, since when the stake is below the minimum.
TrackBelow ==
    trueBelow' = [s \in Stakers |->
                     IF stake'[s].balance >= minStake' THEN NoTime
                     ELSE IF trueBelow[s] = NoTime THEN now ELSE trueBelow[s]]

EntNext ==
    /\ \/ CoreStep /\ UNCHANGED <<belowSince, lockTiers, emVars>>
       \/ EligibilityStep /\ UNCHANGED emVars
       \/ EmStep /\ UNCHANGED <<belowSince, lockTiers>>
    /\ TrackBelow

allEligibilityVars == <<allCoreVars, emVars, eligibilityVars>>

EntInit == CoreSystemInit /\ EligibilityInit /\ EmInit

EntSpec == EntInit /\ [][EntNext]_allEligibilityVars

----------------------------------------------------------------------------
GraceStep ==
    \A s \in Stakers :
        /\ trueBelow[s] # NoTime
        /\ trueBelow'[s] = trueBelow[s]
        /\ belowSince[s] # NoTime
        => belowSince'[s] = belowSince[s]

\* While a provider stays below the minimum its grace period keeps running: no
\* notification, check, top-up or new minimum moves or forgets its start.
GraceNeverRestarts == [][GraceStep]_allEligibilityVars

\* A locked stake votes with the largest multiplier its remaining lock earns,
\* or not at all when it earns none, whatever the order of the tier table.  About
\* get_voting_power's "lock-duration-weighted multiplier"; the older sentence above
\* it, that a locked stake never counts, is LockedVotesNothing.
PowerIsBestTier ==
    \A s \in Stakers :
        (balance(s) > 0 /\ now < stake[s].locked_until) =>
            LET left   == (stake[s].locked_until - now) \div SECS_PER_WEEK
                earned == {t \in Range(lockTiers) : t.weeks <= left}
            IN  /\ \A t \in earned : get_voting_power(s)
                                       >= apply_multiplier_bps(balance(s), t.bps)
                /\ get_voting_power(s) > 0 =>
                       \E t \in earned : get_voting_power(s)
                                           = apply_multiplier_bps(balance(s), t.bps)

\* get_voting_power: "If the minimum stake duration lock has not yet elapsed, the
\* staked balance does not count toward voting power (returns 0)."
LockedVotesNothing ==
    \A s \in Stakers : now < stake[s].locked_until => get_voting_power(s) = 0

\* The tier table has one entry per threshold, and no configured tier makes a
\* lock worth less than the unlocked baseline.
TiersConsistent ==
    \A i, j \in DOMAIN lockTiers :
        /\ lockTiers[i].weeks = lockTiers[j].weeks => i = j
        /\ lockTiers[i].bps >= BPS_DENOMINATOR

\* What a stake entitles to: the tier table stays consistent, and a grace period
\* once begun starts neither in the future nor anew.  About notify_stake_below_minimum,
\* check_signal_submission_allowed and set_lock_multiplier_tier.
EntitlementsFair == [](EligibilityTypeOK /\ TiersConsistent) /\ GraceNeverRestarts

----------------------------------------------------------------------------
\* For TLC: the default table with its weeks scaled down; a new low threshold worth
\* more than the others, and one that is refused; two rosters under two policies,
\* and two configurations that are refused.
CONSTANTS adm1, adm2
MCDefaultTiers == <<[weeks |-> 1, bps |-> 10000], [weeks |-> 2, bps |-> 20000]>>
MCTierInputs == {[weeks |-> 1, bps |-> 30000], [weeks |-> 3, bps |-> 15000],
                 [weeks |-> 0, bps |-> 10000]}
MCEntConfigs ==
    {[admins |-> <<adm1, adm2>>, required |-> 2, penalty_bps |-> 5000, timeout_secs |-> 1],
     [admins |-> <<adm2>>, required |-> 1, penalty_bps |-> 10000, timeout_secs |-> 0],
     [admins |-> <<adm1>>, required |-> 2, penalty_bps |-> 0, timeout_secs |-> 0],
     [admins |-> <<adm1>>, required |-> 1, penalty_bps |-> 10001, timeout_secs |-> 0]}
============================================================================
