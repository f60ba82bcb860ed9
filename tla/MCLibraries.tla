---------------------------- MODULE MCLibraries ----------------------------
(***************************************************************************)
(* The parts of the vault that keep books of their own, checked in one     *)
(* run: the fee accumulator, the reward buckets, the rate limiter, the     *)
(* multi-sig flow and the upgrade with its migration and strategies.  They *)
(* share no state but the clock, so it is enough to follow them one at a   *)
(* time: a behaviour starts by choosing which one moves.                   *)
(***************************************************************************)
EXTENDS RewardVault, RateLimiterSpec, Multisig, VaultUpgrade

CONSTANTS u1, u2, m1, m2, m3

VARIABLE active  \* the part that moves in this behaviour

\* u1 is a new user, u2 a trusted one whose limit doubles in time
MCTrust == [u \in Subjects |-> IF u = u2 THEN 60 ELSE 0]

\* lists with repeated ids, ids of nobody, and one that is too long
MCClaimLists ==
    {<<1>>, <<2>>, <<1, 1>>, <<1, 2, 3>>, <<3, 4, 3>>, <<1, 2, 3, 1>>, <<>>}

\* two rosters with different thresholds, one with a duplicated signer and one
\* whose threshold nobody can meet
MCSignerLists ==
    {[signers |-> <<m1, m2>>, threshold |-> 2, proposal_timeout_secs |-> 1],
     [signers |-> <<m2, m3>>, threshold |-> 1, proposal_timeout_secs |-> 0],
     [signers |-> <<m1, m1>>, threshold |-> 2, proposal_timeout_secs |-> 1],
     [signers |-> <<m1>>, threshold |-> 2, proposal_timeout_secs |-> 1]}

\* three positions, one of them empty, and a vault without any
MCOldStakes == {[p \in OldStakers |-> IF p = u2 THEN 0 ELSE 3], [p \in {} |-> 0]}

MCAddressRank == u1 :> 2 @@ u2 :> 1 @@ m1 :> 3

\* one that rounds, one that takes everything, and two that are refused
MCStrategies ==
    LET cfg(a, b, c, w) == [minor_bps |-> a, major_bps |-> b, critical_bps |-> c, risk_window_secs |-> w]
    IN  {cfg(0, 3333, 5000, 1), cfg(10000, 10000, 10000, 9), cfg(5000, 3333, 10000, 1),
         cfg(0, 0, 10001, 1)}

limiterVars == <<window, first_action, log>>

LibInit ==
    /\ active \in {"fees", "rewards", "rates", "multisig", "upgrade"}
    /\ FeeInit /\ RewardInit /\ RateInit /\ MSInit /\ UpgradeInit

LibNext ==
    /\ UNCHANGED active
    /\ \/ /\ active = "fees" /\ FeeNext
          /\ UNCHANGED <<clockVars, rewardVars, limiterVars, msVars, upgradeVars>>
       \/ /\ active = "rewards" /\ RewardNext
          /\ UNCHANGED <<clockVars, feeVars, limiterVars, msVars, upgradeVars>>
       \/ /\ active = "rates" /\ RateNext
          /\ UNCHANGED <<feeVars, rewardVars, msVars, upgradeVars>>
       \/ /\ active = "multisig" /\ MSNext
          /\ UNCHANGED <<feeVars, rewardVars, limiterVars, upgradeVars>>
       \/ /\ active = "upgrade" /\ UpgradeNext
          /\ UNCHANGED <<clockVars, feeVars, rewardVars, limiterVars, msVars>>

LibSpec ==
    LibInit /\ [][LibNext]_<<active, clockVars, feeVars, rewardVars, limiterVars, msVars, upgradeVars>>

\* The books of every part keep their types: shares, fees, reward balances and
\* window counts never go below zero.
LibTypeOK == FeeTypeOK /\ RewardTypeOK /\ RateTypeOK

-----------------------------------------------------------------------------
\* The libraries' books: fees deposited are booked as distributed or carried to the
\* last unit, what stakers can claim strays from them by at most a unit per accrual
\* and holder, a bucket is paid once and no asset is promised twice, and joining or
\* leaving never changes what was already earned.  About fee_accrual.rs and
\* reward_vault.rs.
LibraryBooks ==
    /\ [](/\ LibTypeOK /\ BooksBalance /\ FeesNearlyCovered /\ DebtNeverAhead /\ BucketsPaidOnce /\ AssetsCovered)
    /\ ShareChangesKeepPending
============================================================================
