------------------------------ MODULE GovStash ------------------------------
(***************************************************************************)
(* The stash ledger of the governance contract                             *)
(* (governance/src/treasury_stash.rs): per asset, a reserve ("stash") and  *)
(* an operational balance, with deposits into one of them and moves        *)
(* between them under an authorization that accumulates what it moved.     *)
(* A move that fails for lack of balance has already used its              *)
(* authorization: the ledger the caller passed in keeps that.              *)
(***************************************************************************)
EXTENDS Integers

CONSTANTS
    StashAssets,
    StashAmounts,   \* amounts of deposits, authorizations and moves
    MaxDeposits,    \* bound: an asset's deposits in total
    MaxMoved        \* bound: what an asset's moves add up to, in each direction

ASSUME StashAmountsAssumption == StashAmounts \subseteq Nat /\ MaxDeposits \in Nat /\ MaxMoved \in Nat

VARIABLES
    ledger,     \* StashLedger
    deposited   \* expected_total of assert_conservation: the deposits per asset

StashDirection == {"StashToOperational", "OperationalToStash"}

NoAuth == [max_amount |-> 0, moved |-> 0, direction |-> "StashToOperational"]

Zero == [a \in StashAssets |-> 0]

empty_stash_ledger ==
    [stash |-> Zero, operational |-> Zero, authorizations |-> [a \in StashAssets |-> NoAuth],
     lifetime_released |-> Zero, lifetime_topped_up |-> Zero, tracked_assets |-> {}]

StashInit == ledger = empty_stash_ledger /\ deposited = Zero

tracked(l, a) == [l EXCEPT !.tracked_assets = @ \cup {a}]

stash_balance(a) == ledger.stash[a]

operational_balance(a) == ledger.operational[a]

get_authorization(a) == ledger.authorizations[a]

total_balance(a) == stash_balance(a) + operational_balance(a)

deposit_stash(a, amount) ==
    /\ amount > 0 /\ deposited[a] + amount <= MaxDeposits
    /\ ledger' = [tracked(ledger, a) EXCEPT !.stash[a] = @ + amount]
    /\ deposited' = [deposited EXCEPT ![a] = @ + amount]

deposit_operational(a, amount) ==
    /\ amount > 0 /\ deposited[a] + amount <= MaxDeposits
    /\ ledger' = [tracked(ledger, a) EXCEPT !.operational[a] = @ + amount]
    /\ deposited' = [deposited EXCEPT ![a] = @ + amount]

\* authorize_transfer replaces the asset's authorization, whatever was left of it.
authorize_transfer(a, max_amount, direction) ==
    /\ max_amount > 0
    /\ ledger' = [tracked(ledger, a) EXCEPT
                     !.authorizations[a] = [max_amount |-> max_amount, moved |-> 0,
                                            direction |-> direction]]
    /\ UNCHANGED deposited

revoke_authorization(a) ==
    /\ ledger' = [ledger EXCEPT !.authorizations[a] = NoAuth]
    /\ UNCHANGED deposited

\* Mutant: what earlier moves used is not counted.
Covered_Fresh(a, amount, direction) ==
    /\ get_authorization(a).direction = direction
    /\ amount <= get_authorization(a).max_amount

\* The checks of consume_authorization
Covered(a, amount, direction) ==
    /\ get_authorization(a).direction = direction
    /\ get_authorization(a).moved + amount <= get_authorization(a).max_amount

consume_authorization(a, amount) == [ledger EXCEPT !.authorizations[a].moved = @ + amount]

move_stash_to_operational(a, amount) ==
    /\ amount > 0 /\ ledger.lifetime_released[a] + amount <= MaxMoved
    /\ Covered(a, amount, "StashToOperational")
    /\ ledger' = IF stash_balance(a) < amount THEN consume_authorization(a, amount)
                 ELSE [consume_authorization(a, amount) EXCEPT
                          !.stash[a] = @ - amount, !.operational[a] = @ + amount,
                          !.lifetime_released[a] = @ + amount]
    /\ UNCHANGED deposited

move_operational_to_stash(a, amount) ==
    /\ amount > 0 /\ ledger.lifetime_topped_up[a] + amount <= MaxMoved
    /\ Covered(a, amount, "OperationalToStash")
    /\ ledger' = IF operational_balance(a) < amount THEN consume_authorization(a, amount)
                 ELSE [consume_authorization(a, amount) EXCEPT
                          !.operational[a] = @ - amount, !.stash[a] = @ + amount,
                          !.lifetime_topped_up[a] = @ + amount]
    /\ UNCHANGED deposited

StashNext ==
    \E a \in StashAssets :
        \/ revoke_authorization(a)
        \/ \E n \in StashAmounts :
              \/ deposit_stash(a, n) \/ deposit_operational(a, n)
              \/ \E d \in StashDirection : authorize_transfer(a, n, d)
              \/ move_stash_to_operational(a, n) \/ move_operational_to_stash(a, n)

stashVars == <<ledger, deposited>>

StashSpec == StashInit /\ [][StashNext]_stashVars

\* The ledger has the shape of its declaration, with no balance below zero and no
\* authorization used beyond its limit.
StashTypeOK ==
    /\ ledger \in [stash : [StashAssets -> Nat], operational : [StashAssets -> Nat],
                   authorizations : [StashAssets -> [max_amount : Nat, moved : Nat,
                                                     direction : StashDirection]],
                   lifetime_released : [StashAssets -> Nat],
                   lifetime_topped_up : [StashAssets -> Nat],
                   tracked_assets : SUBSET StashAssets]
    /\ deposited \in [StashAssets -> Nat]
    /\ \A a \in StashAssets : get_authorization(a).moved <= get_authorization(a).max_amount

\* assert_conservation: over any sequence of deposits, authorizations, moves and
\* refused moves, what the two buckets of an asset hold together is what was
\* deposited of it.
StashConserved == \A a \in StashAssets : total_balance(a) = deposited[a]


\* What is left of the authorizations, seen as the abstract allowances
Left(direction) ==
    [a \in StashAssets |-> IF get_authorization(a).direction = direction
                           THEN get_authorization(a).max_amount - get_authorization(a).moved
                           ELSE 0]

P == INSTANCE StashPromise
         WITH Asset <- StashAssets, Amount <- StashAmounts,
              reserve <- ledger.stash, spending <- ledger.operational,
              toSpending <- Left("StashToOperational"), toReserve <- Left("OperationalToStash")

\* The ledger implements the promise: value crosses between the buckets only
\* against an allowance for that direction, and every crossing, even a refused
\* one, uses the allowance up.
KeepsPromise == P!Promise
=============================================================================
