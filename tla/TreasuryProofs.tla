--------------------------- MODULE TreasuryProofs ---------------------------
(***************************************************************************)
(* Proofs about the protocol's money.                                      *)
(* The stash ledger of governance: its type, that the two buckets of an    *)
(* asset always hold together what was deposited of it, and that the       *)
(* ledger implements the abstract promise.                                 *)
(* The fee collector: every rate lies in its range, every token it holds   *)
(* is accounted for, the index of pools, the reports and the leaderboard   *)
(* agree with the books, and a treasury withdrawal waits for its request.  *)
(***************************************************************************)
EXTENDS GovStash, MCFees, SumTheorems, FiniteSetTheorems, SequenceTheorems, TLAPS


\* The set the ledger record ranges over, named to keep the steps short
LedgerType ==
    [stash : [StashAssets -> Nat], operational : [StashAssets -> Nat],
     authorizations : [StashAssets -> [max_amount : Nat, moved : Nat, direction : StashDirection]],
     lifetime_released : [StashAssets -> Nat], lifetime_topped_up : [StashAssets -> Nat],
     tracked_assets : SUBSET StashAssets]

\* The type invariant splits into the shape of the variables and the limit on
\* what an authorization has moved.
AuthWithin == \A a \in StashAssets : get_authorization(a).moved <= get_authorization(a).max_amount

\* The type invariant is these three parts.
LEMMA TypeParts == StashTypeOK <=> (ledger \in LedgerType /\ deposited \in [StashAssets -> Nat] /\ AuthWithin)
  BY DEF StashTypeOK, LedgerType, AuthWithin

\* The empty ledger of empty_stash_ledger has the type.
LEMMA InitType == StashInit => StashTypeOK
  BY DEF StashInit, StashTypeOK, empty_stash_ledger, Zero, NoAuth, StashDirection, get_authorization

\* What an operation of the ledger leaves behind, field by field. The effect of
\* a record update on each field is established once, here.
\* revoke_authorization clears the authorization and moves nothing.
LEMMA RevokeEffect ==
    ASSUME ledger \in LedgerType, NEW a \in StashAssets, revoke_authorization(a)
    PROVE  /\ ledger' \in LedgerType
           /\ deposited' = deposited
           /\ ledger'.stash = ledger.stash /\ ledger'.operational = ledger.operational
           /\ ledger'.authorizations = [ledger.authorizations EXCEPT ![a] = NoAuth]
  <1>1. NoAuth \in [max_amount : Nat, moved : Nat, direction : StashDirection]
    BY DEF NoAuth, StashDirection
  <1>2. deposited' = deposited
    BY DEF revoke_authorization
  <1> QED
    BY <1>2, <1>1 DEF revoke_authorization, LedgerType

\* deposit_stash raises the stash by the amount.
LEMMA DepositStashEffect ==
    ASSUME ledger \in LedgerType, NEW a \in StashAssets, NEW n \in StashAmounts, deposit_stash(a, n)
    PROVE  /\ ledger' \in LedgerType
           /\ deposited' = [deposited EXCEPT ![a] = @ + n]
           /\ ledger'.stash = [ledger.stash EXCEPT ![a] = @ + n]
           /\ ledger'.operational = ledger.operational
           /\ ledger'.authorizations = ledger.authorizations
  <1>1. [ledger.stash EXCEPT ![a] = @ + n] \in [StashAssets -> Nat]
    BY StashAmountsAssumption DEF LedgerType
  <1>2. ledger' = [ledger EXCEPT !.stash = [ledger.stash EXCEPT ![a] = @ + n],
                                 !.tracked_assets = @ \cup {a}]
    BY DEF deposit_stash, tracked, LedgerType
  <1>3. deposited' = [deposited EXCEPT ![a] = @ + n]
    BY DEF deposit_stash
  <1> QED
    BY <1>3, <1>1, <1>2 DEF LedgerType

\* deposit_operational raises the operational balance by the amount.
LEMMA DepositOperationalEffect ==
    ASSUME ledger \in LedgerType, NEW a \in StashAssets, NEW n \in StashAmounts,
           deposit_operational(a, n)
    PROVE  /\ ledger' \in LedgerType
           /\ deposited' = [deposited EXCEPT ![a] = @ + n]
           /\ ledger'.operational = [ledger.operational EXCEPT ![a] = @ + n]
           /\ ledger'.stash = ledger.stash
           /\ ledger'.authorizations = ledger.authorizations
  <1>1. [ledger.operational EXCEPT ![a] = @ + n] \in [StashAssets -> Nat]
    BY StashAmountsAssumption DEF LedgerType
  <1>2. ledger' = [ledger EXCEPT !.operational = [ledger.operational EXCEPT ![a] = @ + n],
                                 !.tracked_assets = @ \cup {a}]
    BY DEF deposit_operational, tracked, LedgerType
  <1>3. deposited' = [deposited EXCEPT ![a] = @ + n]
    BY DEF deposit_operational
  <1> QED
    BY <1>3, <1>1, <1>2 DEF LedgerType

\* authorize_transfer replaces the authorization and moves nothing.
LEMMA AuthorizeEffect ==
    ASSUME ledger \in LedgerType, NEW a \in StashAssets, NEW n \in StashAmounts,
           NEW d \in StashDirection, authorize_transfer(a, n, d)
    PROVE  /\ ledger' \in LedgerType
           /\ deposited' = deposited
           /\ ledger'.stash = ledger.stash /\ ledger'.operational = ledger.operational
           /\ ledger'.authorizations =
                 [ledger.authorizations EXCEPT ![a] = [max_amount |-> n, moved |-> 0, direction |-> d]]
  <1> DEFINE auth == [max_amount |-> n, moved |-> 0, direction |-> d]
  <1>1. [ledger.authorizations EXCEPT ![a] = auth]
           \in [StashAssets -> [max_amount : Nat, moved : Nat, direction : StashDirection]]
    BY StashAmountsAssumption DEF LedgerType
  <1>2. ledger' = [ledger EXCEPT !.authorizations = [ledger.authorizations EXCEPT ![a] = auth],
                                 !.tracked_assets = @ \cup {a}]
    BY DEF authorize_transfer, tracked, LedgerType
  <1>3. deposited' = deposited
    BY DEF authorize_transfer
  <1> QED
    BY <1>3, <1>1, <1>2 DEF LedgerType

\* A move uses the authorization up; it moves the amount only when the bucket
\* it draws on holds it.
LEMMA ReleaseEffect ==
    ASSUME ledger \in LedgerType, NEW a \in StashAssets, NEW n \in StashAmounts,
           move_stash_to_operational(a, n)
    PROVE  /\ ledger' \in LedgerType
           /\ deposited' = deposited
           /\ \/ /\ n <= ledger.stash[a]
                 /\ ledger'.stash = [ledger.stash EXCEPT ![a] = @ - n]
                 /\ ledger'.operational = [ledger.operational EXCEPT ![a] = @ + n]
              \/ ledger'.stash = ledger.stash /\ ledger'.operational = ledger.operational
           /\ ledger'.authorizations = [ledger.authorizations EXCEPT ![a].moved = @ + n]
  <1> USE StashAmountsAssumption
  <1>1. deposited' = deposited
    BY DEF move_stash_to_operational
  <1>2. [ledger.authorizations EXCEPT ![a].moved = @ + n]
           \in [StashAssets -> [max_amount : Nat, moved : Nat, direction : StashDirection]]
    BY DEF LedgerType
  <1>3. CASE stash_balance(a) < n
    <2>1. ledger' = [ledger EXCEPT
                        !.authorizations = [ledger.authorizations EXCEPT ![a].moved = @ + n]]
      BY <1>3 DEF move_stash_to_operational, consume_authorization, LedgerType
    <2> QED
      BY <1>1, <1>2, <2>1 DEF LedgerType
  <1>4. CASE ~ (stash_balance(a) < n)
    <2>1. n <= ledger.stash[a] /\ [ledger.stash EXCEPT ![a] = @ - n] \in [StashAssets -> Nat]
      BY <1>4 DEF LedgerType, stash_balance
    <2>2. [ledger.operational EXCEPT ![a] = @ + n] \in [StashAssets -> Nat]
      BY DEF LedgerType
    <2>3. [ledger.lifetime_released EXCEPT ![a] = @ + n] \in [StashAssets -> Nat]
      BY DEF LedgerType
    <2>4. ledger' = [ledger EXCEPT !.stash = [ledger.stash EXCEPT ![a] = @ - n],
                        !.operational = [ledger.operational EXCEPT ![a] = @ + n],
                        !.lifetime_released = [ledger.lifetime_released EXCEPT ![a] = @ + n],
                        !.authorizations = [ledger.authorizations EXCEPT ![a].moved = @ + n]]
      BY <1>4 DEF move_stash_to_operational, consume_authorization, LedgerType
    <2> QED
      BY <1>1, <1>2, <2>1, <2>2, <2>3, <2>4 DEF LedgerType
  <1> QED
    BY <1>3, <1>4

\* The move back is the same, the other way round.
LEMMA TopUpEffect ==
    ASSUME ledger \in LedgerType, NEW a \in StashAssets, NEW n \in StashAmounts,
           move_operational_to_stash(a, n)
    PROVE  /\ ledger' \in LedgerType
           /\ deposited' = deposited
           /\ \/ /\ n <= ledger.operational[a]
                 /\ ledger'.stash = [ledger.stash EXCEPT ![a] = @ + n]
                 /\ ledger'.operational = [ledger.operational EXCEPT ![a] = @ - n]
              \/ ledger'.stash = ledger.stash /\ ledger'.operational = ledger.operational
           /\ ledger'.authorizations = [ledger.authorizations EXCEPT ![a].moved = @ + n]
  <1> USE StashAmountsAssumption
  <1>1. deposited' = deposited
    BY DEF move_operational_to_stash
  <1>2. [ledger.authorizations EXCEPT ![a].moved = @ + n]
           \in [StashAssets -> [max_amount : Nat, moved : Nat, direction : StashDirection]]
    BY DEF LedgerType
  <1>3. CASE operational_balance(a) < n
    <2>1. ledger' = [ledger EXCEPT
                        !.authorizations = [ledger.authorizations EXCEPT ![a].moved = @ + n]]
      BY <1>3 DEF move_operational_to_stash, consume_authorization, LedgerType
    <2> QED
      BY <1>1, <1>2, <2>1 DEF LedgerType
  <1>4. CASE ~ (operational_balance(a) < n)
    <2>1. /\ n <= ledger.operational[a]
          /\ [ledger.operational EXCEPT ![a] = @ - n] \in [StashAssets -> Nat]
      BY <1>4 DEF LedgerType, operational_balance
    <2>2. [ledger.stash EXCEPT ![a] = @ + n] \in [StashAssets -> Nat]
      BY DEF LedgerType
    <2>3. [ledger.lifetime_topped_up EXCEPT ![a] = @ + n] \in [StashAssets -> Nat]
      BY DEF LedgerType
    <2>4. ledger' = [ledger EXCEPT !.operational = [ledger.operational EXCEPT ![a] = @ - n],
                        !.stash = [ledger.stash EXCEPT ![a] = @ + n],
                        !.lifetime_topped_up = [ledger.lifetime_topped_up EXCEPT ![a] = @ + n],
                        !.authorizations = [ledger.authorizations EXCEPT ![a].moved = @ + n]]
      BY <1>4 DEF move_operational_to_stash, consume_authorization, LedgerType
    <2> QED
      BY <1>1, <1>2, <2>1, <2>2, <2>3, <2>4 DEF LedgerType
  <1> QED
    BY <1>3, <1>4

\* Consuming what Covered allows keeps the authorization within its limit.
LEMMA ConsumeWithin ==
    ASSUME ledger \in LedgerType, AuthWithin, NEW a \in StashAssets, NEW n \in StashAmounts,
           NEW d \in StashDirection, Covered(a, n, d),
           ledger'.authorizations = [ledger.authorizations EXCEPT ![a].moved = @ + n]
    PROVE  AuthWithin'
  BY StashAmountsAssumption DEF AuthWithin, get_authorization, Covered, LedgerType

\* Every operation of the ledger keeps the type: a move takes no more than the
\* bucket it draws on holds, and a consumption no more than the limit.
LEMMA StepType == StashTypeOK /\ [StashNext]_stashVars => StashTypeOK'
  <1> SUFFICES ASSUME ledger \in LedgerType, deposited \in [StashAssets -> Nat], AuthWithin,
                      [StashNext]_stashVars
               PROVE  ledger' \in LedgerType /\ deposited' \in [StashAssets -> Nat] /\ AuthWithin'
    BY DEF StashTypeOK, LedgerType, AuthWithin, get_authorization
  <1> DEFINE Good == ledger' \in LedgerType /\ deposited' \in [StashAssets -> Nat] /\ AuthWithin'
  <1> USE StashAmountsAssumption
  <1>1. CASE UNCHANGED stashVars
    BY <1>1 DEF stashVars, AuthWithin, get_authorization
  <1>2. ASSUME NEW a \in StashAssets, revoke_authorization(a) PROVE Good
    <2>1. /\ ledger' \in LedgerType /\ deposited' = deposited
          /\ ledger'.authorizations = [ledger.authorizations EXCEPT ![a] = NoAuth]
      BY <1>2, RevokeEffect
    <2>2. AuthWithin'
      BY <2>1 DEF NoAuth, LedgerType, AuthWithin, get_authorization
    <2> QED
      BY <2>1, <2>2
  <1>3. ASSUME NEW a \in StashAssets, NEW n \in StashAmounts, deposit_stash(a, n) PROVE Good
    <2>1. /\ ledger' \in LedgerType /\ deposited' = [deposited EXCEPT ![a] = @ + n]
          /\ ledger'.authorizations = ledger.authorizations
      BY <1>3, DepositStashEffect
    <2>2. AuthWithin'
      BY <2>1 DEF AuthWithin, get_authorization
    <2> QED
      BY <2>1, <2>2
  <1>4. ASSUME NEW a \in StashAssets, NEW n \in StashAmounts, deposit_operational(a, n) PROVE Good
    <2>1. /\ ledger' \in LedgerType /\ deposited' = [deposited EXCEPT ![a] = @ + n]
          /\ ledger'.authorizations = ledger.authorizations
      BY <1>4, DepositOperationalEffect
    <2>2. AuthWithin'
      BY <2>1 DEF AuthWithin, get_authorization
    <2> QED
      BY <2>1, <2>2
  <1>5. ASSUME NEW a \in StashAssets, NEW n \in StashAmounts, NEW d \in StashDirection,
               authorize_transfer(a, n, d)
        PROVE  Good
    <2>1. /\ ledger' \in LedgerType /\ deposited' = deposited
          /\ ledger'.authorizations =
                [ledger.authorizations EXCEPT ![a] = [max_amount |-> n, moved |-> 0, direction |-> d]]
      BY <1>5, AuthorizeEffect
    <2>2. AuthWithin'
      BY <2>1 DEF LedgerType, AuthWithin, get_authorization
    <2> QED
      BY <2>1, <2>2
  <1>6. ASSUME NEW a \in StashAssets, NEW n \in StashAmounts, move_stash_to_operational(a, n)
        PROVE  Good
    <2>1. /\ ledger' \in LedgerType /\ deposited' = deposited
          /\ ledger'.authorizations = [ledger.authorizations EXCEPT ![a].moved = @ + n]
      BY <1>6, ReleaseEffect
    <2>2. Covered(a, n, "StashToOperational")
      BY <1>6 DEF move_stash_to_operational
    <2> QED
      BY <2>1, <2>2, ConsumeWithin DEF StashDirection
  <1>7. ASSUME NEW a \in StashAssets, NEW n \in StashAmounts, move_operational_to_stash(a, n)
        PROVE  Good
    <2>1. /\ ledger' \in LedgerType /\ deposited' = deposited
          /\ ledger'.authorizations = [ledger.authorizations EXCEPT ![a].moved = @ + n]
      BY <1>7, TopUpEffect
    <2>2. Covered(a, n, "OperationalToStash")
      BY <1>7 DEF move_operational_to_stash
    <2> QED
      BY <2>1, <2>2, ConsumeWithin DEF StashDirection
  <1> QED
    BY <1>1, <1>2, <1>3, <1>4, <1>5, <1>6, <1>7 DEF StashNext

\* The ledger of treasury_stash.rs always has its declared shape: no bucket goes
\* below zero, whatever is deposited, authorized, moved or refused, and no
\* authorization is used beyond its limit.
THEOREM StashTypeCorrect == StashSpec => []StashTypeOK
  BY InitType, StepType, PTL DEF StashSpec

\* Nothing is held before the first deposit.
LEMMA InitConserved == StashInit => StashConserved
  <1> SUFFICES ASSUME StashInit PROVE StashConserved
    OBVIOUS
  <1>1. ledger.stash = Zero /\ ledger.operational = Zero /\ deposited = Zero
    BY DEF StashInit, empty_stash_ledger
  <1>2. \A a \in StashAssets : Zero[a] = 0
    BY DEF Zero
  <1>3. ASSUME NEW a \in StashAssets PROVE ledger.stash[a] + ledger.operational[a] = deposited[a]
    <2>1. ledger.stash[a] = 0 /\ ledger.operational[a] = 0 /\ deposited[a] = 0
      BY <1>1, <1>2
    <2> QED
      BY <2>1
  <1> QED
    BY <1>3 DEF StashConserved, total_balance, stash_balance, operational_balance

\* A deposit raises one bucket and the deposits alike; a move takes from one
\* bucket what it adds to the other; a refused move touches neither.
LEMMA StepConserved == StashTypeOK /\ StashConserved /\ [StashNext]_stashVars => StashConserved'
  <1> SUFFICES ASSUME ledger \in LedgerType, deposited \in [StashAssets -> Nat], StashConserved,
                      [StashNext]_stashVars
               PROVE  StashConserved'
    BY TypeParts
  <1>1. /\ ledger.stash \in [StashAssets -> Nat] /\ ledger.operational \in [StashAssets -> Nat]
        /\ \A b \in StashAssets : ledger.stash[b] + ledger.operational[b] = deposited[b]
        /\ StashAmounts \subseteq Nat
    BY StashAmountsAssumption
       DEF LedgerType, StashConserved, total_balance, stash_balance, operational_balance
  <1>2. SUFFICES \A b \in StashAssets : ledger'.stash[b] + ledger'.operational[b] = deposited'[b]
    BY DEF StashConserved, total_balance, stash_balance, operational_balance
  <1> DEFINE Good == \A b \in StashAssets : ledger'.stash[b] + ledger'.operational[b] = deposited'[b]
      UnchangedBuckets == ledger'.stash = ledger.stash /\ ledger'.operational = ledger.operational
  <1>3. CASE UNCHANGED stashVars
    BY <1>1, <1>3 DEF stashVars
  <1>4. ASSUME NEW a \in StashAssets, revoke_authorization(a) PROVE Good
    <2>1. UnchangedBuckets /\ deposited' = deposited
      BY <1>4, RevokeEffect
    <2> QED
      BY <1>1, <2>1
  <1>5. ASSUME NEW a \in StashAssets, NEW n \in StashAmounts, deposit_stash(a, n) PROVE Good
    <2>1. /\ ledger'.stash = [ledger.stash EXCEPT ![a] = @ + n]
          /\ ledger'.operational = ledger.operational
          /\ deposited' = [deposited EXCEPT ![a] = @ + n]
      BY <1>5, DepositStashEffect
    <2> QED
      BY <1>1, <2>1
  <1>6. ASSUME NEW a \in StashAssets, NEW n \in StashAmounts, deposit_operational(a, n) PROVE Good
    <2>1. /\ ledger'.operational = [ledger.operational EXCEPT ![a] = @ + n]
          /\ ledger'.stash = ledger.stash
          /\ deposited' = [deposited EXCEPT ![a] = @ + n]
      BY <1>6, DepositOperationalEffect
    <2> QED
      BY <1>1, <2>1
  <1>7. ASSUME NEW a \in StashAssets, NEW n \in StashAmounts, NEW d \in StashDirection,
               authorize_transfer(a, n, d)
        PROVE  Good
    <2>1. UnchangedBuckets /\ deposited' = deposited
      BY <1>7, AuthorizeEffect
    <2> QED
      BY <1>1, <2>1
  <1>8. ASSUME NEW a \in StashAssets, NEW n \in StashAmounts, move_stash_to_operational(a, n)
        PROVE  Good
    <2>1. /\ deposited' = deposited
          /\ \/ /\ n <= ledger.stash[a]
                /\ ledger'.stash = [ledger.stash EXCEPT ![a] = @ - n]
                /\ ledger'.operational = [ledger.operational EXCEPT ![a] = @ + n]
             \/ UnchangedBuckets
      BY <1>8, ReleaseEffect
    <2>2. CASE UnchangedBuckets
      BY <1>1, <2>1, <2>2
    <2>3. CASE ~ UnchangedBuckets
      <3>1. /\ ledger'.stash = [ledger.stash EXCEPT ![a] = @ - n]
            /\ ledger'.operational = [ledger.operational EXCEPT ![a] = @ + n]
        BY <2>1, <2>3
      <3>2. ASSUME NEW b \in StashAssets
            PROVE  ledger'.stash[b] + ledger'.operational[b] = deposited'[b]
        <4>1. /\ ledger.stash[b] \in Nat /\ ledger.operational[b] \in Nat /\ n \in Nat
              /\ ledger.stash[b] + ledger.operational[b] = deposited[b]
          BY <1>1
        <4>2. CASE b = a
          BY <1>1, <2>1, <3>1, <4>1, <4>2
        <4>3. CASE b # a
          BY <1>1, <2>1, <3>1, <4>1, <4>3
        <4> QED
          BY <4>2, <4>3
      <3> QED
        BY <3>2
    <2> QED
      BY <2>2, <2>3
  <1>9. ASSUME NEW a \in StashAssets, NEW n \in StashAmounts, move_operational_to_stash(a, n)
        PROVE  Good
    <2>1. /\ deposited' = deposited
          /\ \/ /\ n <= ledger.operational[a]
                /\ ledger'.stash = [ledger.stash EXCEPT ![a] = @ + n]
                /\ ledger'.operational = [ledger.operational EXCEPT ![a] = @ - n]
             \/ UnchangedBuckets
      BY <1>9, TopUpEffect
    <2>2. CASE UnchangedBuckets
      BY <1>1, <2>1, <2>2
    <2>3. CASE ~ UnchangedBuckets
      <3>1. /\ ledger'.operational = [ledger.operational EXCEPT ![a] = @ - n]
            /\ ledger'.stash = [ledger.stash EXCEPT ![a] = @ + n]
        BY <2>1, <2>3
      <3>2. ASSUME NEW b \in StashAssets
            PROVE  ledger'.stash[b] + ledger'.operational[b] = deposited'[b]
        <4>1. /\ ledger.stash[b] \in Nat /\ ledger.operational[b] \in Nat /\ n \in Nat
              /\ ledger.stash[b] + ledger.operational[b] = deposited[b]
          BY <1>1
        <4>2. CASE b = a
          BY <1>1, <2>1, <3>1, <4>1, <4>2
        <4>3. CASE b # a
          BY <1>1, <2>1, <3>1, <4>1, <4>3
        <4> QED
          BY <4>2, <4>3
      <3> QED
        BY <3>2
    <2> QED
      BY <2>2, <2>3
  <1> QED
    BY <1>3, <1>4, <1>5, <1>6, <1>7, <1>8, <1>9 DEF StashNext

\* assert_conservation of treasury_stash.rs can never fail: in every reachable
\* state the stash and the operational balance of an asset add up to its deposits.
THEOREM StashConservation == StashSpec => []StashConserved
  BY StashTypeCorrect, InitConserved, StepConserved, PTL DEF StashSpec

\* The empty ledger is the abstract initial state.
LEMMA InitPromise == StashInit => P!PromiseInit
  BY DEF StashInit, empty_stash_ledger, Zero, NoAuth, P!PromiseInit, Left, get_authorization

\* What is left in a direction changes only for the asset whose authorization
\* changed, and there follows the new authorization.
LEMMA LeftEffect ==
    ASSUME ledger \in LedgerType, NEW a \in StashAssets, NEW d \in StashDirection,
           NEW r \in [max_amount : Nat, moved : Nat, direction : StashDirection],
           ledger'.authorizations = [ledger.authorizations EXCEPT ![a] = r]
    PROVE  Left(d)' = [Left(d) EXCEPT ![a] = IF r.direction = d THEN r.max_amount - r.moved ELSE 0]
  <1> DEFINE rest == IF r.direction = d THEN r.max_amount - r.moved ELSE 0
  <1> HIDE DEF rest
  <1>1. ASSUME NEW b \in StashAssets PROVE Left(d)'[b] = [Left(d) EXCEPT ![a] = rest][b]
    <2>1. CASE b = a
      <3>1. Left(d)'[b] = rest
        BY <2>1 DEF Left, get_authorization, LedgerType, rest
      <3>2. [Left(d) EXCEPT ![a] = rest][b] = rest
        BY <2>1 DEF Left
      <3> QED
        BY <3>1, <3>2
    <2>2. CASE b # a
      <3>1. ledger'.authorizations[b] = ledger.authorizations[b]
        BY <2>2 DEF LedgerType
      <3>2. Left(d)'[b] = Left(d)[b]
        BY <3>1 DEF Left, get_authorization
      <3>3. [Left(d) EXCEPT ![a] = rest][b] = Left(d)[b]
        BY <2>2 DEF Left
      <3> QED
        BY <3>2, <3>3
    <2> QED
      BY <2>1, <2>2
  <1>2. Left(d)' = [b \in StashAssets |-> Left(d)'[b]]
    BY DEF Left
  <1>3. [Left(d) EXCEPT ![a] = rest] = [b \in StashAssets |-> [Left(d) EXCEPT ![a] = rest][b]]
    BY DEF Left
  <1> QED
    BY <1>1, <1>2, <1>3 DEF rest

\* Every operation of the ledger is an operation of the promise or a stutter.
LEMMA StepPromise == StashTypeOK /\ [StashNext]_stashVars => [P!PromiseNext]_(P!pvars)
  <1> SUFFICES ASSUME ledger \in LedgerType, deposited \in [StashAssets -> Nat], AuthWithin,
                      [StashNext]_stashVars
               PROVE  P!PromiseNext \/ UNCHANGED P!pvars
    BY TypeParts
  <1> USE StashAmountsAssumption
  <1>1. CASE UNCHANGED stashVars
    BY <1>1 DEF stashVars, P!pvars, Left, get_authorization
  <1>2. ASSUME NEW a \in StashAssets, revoke_authorization(a) PROVE P!PromiseNext
    <2>1. P!Grant(a, 0, 0)
      <3>1. /\ ledger'.stash = ledger.stash /\ ledger'.operational = ledger.operational
            /\ ledger'.authorizations = [ledger.authorizations EXCEPT ![a] = NoAuth]
        BY <1>2, RevokeEffect
      <3>2. NoAuth \in [max_amount : Nat, moved : Nat, direction : StashDirection]
        BY DEF NoAuth, StashDirection
      <3>3. \A d \in StashDirection : Left(d)' = [Left(d) EXCEPT ![a] = 0]
        <4> TAKE d \in StashDirection
        <4>1. Left(d)' = [Left(d) EXCEPT ![a] = IF NoAuth.direction = d
                                                THEN NoAuth.max_amount - NoAuth.moved ELSE 0]
          BY <3>1, <3>2, LeftEffect
        <4>2. NoAuth.max_amount - NoAuth.moved = 0
          BY DEF NoAuth
        <4> QED
          BY <4>1, <4>2
      <3> QED
        BY <3>1, <3>3 DEF P!Grant, StashDirection
    <2> QED BY <2>1 DEF P!PromiseNext
  <1>3. ASSUME NEW a \in StashAssets, NEW n \in StashAmounts, deposit_stash(a, n)
        PROVE  P!PromiseNext
    <2>1. P!Deposit(a, n)
      BY <1>3, DepositStashEffect DEF P!Deposit, Left, get_authorization
    <2> QED BY <2>1 DEF P!PromiseNext
  <1>4. ASSUME NEW a \in StashAssets, NEW n \in StashAmounts, deposit_operational(a, n)
        PROVE  P!PromiseNext
    <2>1. P!Deposit(a, n)
      BY <1>4, DepositOperationalEffect DEF P!Deposit, Left, get_authorization
    <2> QED BY <2>1 DEF P!PromiseNext
  <1>5. ASSUME NEW a \in StashAssets, NEW n \in StashAmounts, NEW d \in StashDirection,
               authorize_transfer(a, n, d)
        PROVE  P!PromiseNext
    <2>1. CASE d = "StashToOperational"
      <3>1. P!Grant(a, n, 0)
        <4> DEFINE r == [max_amount |-> n, moved |-> 0, direction |-> d]
        <4>1. /\ ledger'.stash = ledger.stash /\ ledger'.operational = ledger.operational
              /\ ledger'.authorizations = [ledger.authorizations EXCEPT ![a] = r]
          BY <1>5, AuthorizeEffect
        <4>2. r \in [max_amount : Nat, moved : Nat, direction : StashDirection]
          OBVIOUS
        <4>3. r.direction = d /\ r.max_amount - r.moved = n
          OBVIOUS
        <4> HIDE DEF r
        <4>4. Left("StashToOperational")' = [Left("StashToOperational") EXCEPT ![a] = n]
          <5>1. Left(d)' = [Left(d) EXCEPT ![a] = IF r.direction = d
                                                  THEN r.max_amount - r.moved ELSE 0]
            BY <4>1, <4>2, LeftEffect
          <5> QED
            BY <2>1, <4>3, <5>1
        <4>5. Left("OperationalToStash")' = [Left("OperationalToStash") EXCEPT ![a] = 0]
          <5>1. Left("OperationalToStash")' =
                    [Left("OperationalToStash") EXCEPT ![a] = IF r.direction = "OperationalToStash"
                                                 THEN r.max_amount - r.moved ELSE 0]
            BY <4>1, <4>2, LeftEffect DEF StashDirection
          <5> QED
            BY <2>1, <4>3, <5>1
        <4> QED
          BY <4>1, <4>4, <4>5 DEF P!Grant
      <3> QED BY <3>1 DEF P!PromiseNext
    <2>2. CASE d = "OperationalToStash"
      <3>1. P!Grant(a, 0, n)
        <4> DEFINE r == [max_amount |-> n, moved |-> 0, direction |-> d]
        <4>1. /\ ledger'.stash = ledger.stash /\ ledger'.operational = ledger.operational
              /\ ledger'.authorizations = [ledger.authorizations EXCEPT ![a] = r]
          BY <1>5, AuthorizeEffect
        <4>2. r \in [max_amount : Nat, moved : Nat, direction : StashDirection]
          OBVIOUS
        <4>3. r.direction = d /\ r.max_amount - r.moved = n
          OBVIOUS
        <4> HIDE DEF r
        <4>4. Left("OperationalToStash")' = [Left("OperationalToStash") EXCEPT ![a] = n]
          <5>1. Left(d)' = [Left(d) EXCEPT ![a] = IF r.direction = d
                                                  THEN r.max_amount - r.moved ELSE 0]
            BY <4>1, <4>2, LeftEffect
          <5> QED
            BY <2>2, <4>3, <5>1
        <4>5. Left("StashToOperational")' = [Left("StashToOperational") EXCEPT ![a] = 0]
          <5>1. Left("StashToOperational")' =
                    [Left("StashToOperational") EXCEPT ![a] = IF r.direction = "StashToOperational"
                                                 THEN r.max_amount - r.moved ELSE 0]
            BY <4>1, <4>2, LeftEffect DEF StashDirection
          <5> QED
            BY <2>2, <4>3, <5>1
        <4> QED
          BY <4>1, <4>4, <4>5 DEF P!Grant
      <3> QED BY <3>1 DEF P!PromiseNext
    <2> QED BY <2>1, <2>2 DEF StashDirection
  <1>6. ASSUME NEW a \in StashAssets, NEW n \in StashAmounts, move_stash_to_operational(a, n)
        PROVE  P!PromiseNext
    <2>1. Covered(a, n, "StashToOperational")
      BY <1>6 DEF move_stash_to_operational
    <2>2. n <= Left("StashToOperational")[a]
      BY <2>1 DEF Covered, Left, get_authorization, LedgerType
    <2>3. ledger'.authorizations = [ledger.authorizations EXCEPT ![a].moved = @ + n]
      BY <1>6, ReleaseEffect
    <2>4. Left("StashToOperational")' = [Left("StashToOperational") EXCEPT ![a] = @ - n]
      <3> DEFINE r == [ledger.authorizations[a] EXCEPT !.moved = @ + n]
      <3>1. r \in [max_amount : Nat, moved : Nat, direction : StashDirection]
        BY DEF LedgerType
      <3>2. ledger'.authorizations = [ledger.authorizations EXCEPT ![a] = r]
        BY <2>3
      <3>3. r.direction = "StashToOperational" /\ r.max_amount - r.moved = Left("StashToOperational")[a] - n
        BY <2>1 DEF Covered, Left, get_authorization, LedgerType
      <3> HIDE DEF r
      <3>4. Left("StashToOperational")' = [Left("StashToOperational") EXCEPT
                                ![a] = IF r.direction = "StashToOperational"
                                       THEN r.max_amount - r.moved ELSE 0]
        BY <3>1, <3>2, LeftEffect DEF StashDirection
      <3> QED
        BY <3>3, <3>4
    <2>5. UNCHANGED Left("OperationalToStash")
      BY <2>3, <2>1 DEF Covered, Left, get_authorization, LedgerType
    <2>6. P!Release(a, n)
      BY <1>6, <2>2, <2>4, <2>5, ReleaseEffect DEF P!Release
    <2> QED BY <2>6 DEF P!PromiseNext
  <1>7. ASSUME NEW a \in StashAssets, NEW n \in StashAmounts, move_operational_to_stash(a, n)
        PROVE  P!PromiseNext
    <2>1. Covered(a, n, "OperationalToStash")
      BY <1>7 DEF move_operational_to_stash
    <2>2. n <= Left("OperationalToStash")[a]
      BY <2>1 DEF Covered, Left, get_authorization, LedgerType
    <2>3. ledger'.authorizations = [ledger.authorizations EXCEPT ![a].moved = @ + n]
      BY <1>7, TopUpEffect
    <2>4. Left("OperationalToStash")' = [Left("OperationalToStash") EXCEPT ![a] = @ - n]
      <3> DEFINE r == [ledger.authorizations[a] EXCEPT !.moved = @ + n]
      <3>1. r \in [max_amount : Nat, moved : Nat, direction : StashDirection]
        BY DEF LedgerType
      <3>2. ledger'.authorizations = [ledger.authorizations EXCEPT ![a] = r]
        BY <2>3
      <3>3. r.direction = "OperationalToStash" /\ r.max_amount - r.moved = Left("OperationalToStash")[a] - n
        BY <2>1 DEF Covered, Left, get_authorization, LedgerType
      <3> HIDE DEF r
      <3>4. Left("OperationalToStash")' = [Left("OperationalToStash") EXCEPT
                                ![a] = IF r.direction = "OperationalToStash"
                                       THEN r.max_amount - r.moved ELSE 0]
        BY <3>1, <3>2, LeftEffect DEF StashDirection
      <3> QED
        BY <3>3, <3>4
    <2>5. UNCHANGED Left("StashToOperational")
      BY <2>3, <2>1 DEF Covered, Left, get_authorization, LedgerType
    <2>6. P!TopUp(a, n)
      BY <1>7, <2>2, <2>4, <2>5, TopUpEffect DEF P!TopUp
    <2> QED BY <2>6 DEF P!PromiseNext
  <1> QED
    BY <1>1, <1>2, <1>3, <1>4, <1>5, <1>6, <1>7 DEF StashNext

\* The ledger of treasury_stash.rs implements the promise: value crosses between
\* the buckets only against an allowance granted for that direction, and every
\* crossing, a refused one too, uses the allowance up.
THEOREM StashKeepsPromise == StashSpec => KeepsPromise
  BY StashTypeCorrect, InitPromise, StepPromise, PTL DEF StashSpec, KeepsPromise, P!Promise

-----------------------------------------------------------------------------
\* The fee collector.  Shares, orders and the rate of a trade come first.

\* A share in basis points.
Bps == 0..10000

\* Ten thousand times a number bounds what is no more than the number when divided.
LEMMA TenThousandth ==
    ASSUME NEW n \in Nat, NEW x \in Nat, x <= n * 10000
    PROVE  x \div 10000 \in 0..n
  OBVIOUS

\* A share of at most all basis points is natural and no more than the whole.
LEMMA ShareBounds ==
    ASSUME NEW n \in Nat, NEW bps \in Bps
    PROVE  fee_amount_floor(n, bps) \in 0..n
  <1> DEFINE x == n * bps
  <1>1. x \in Nat /\ x <= n * 10000
    BY DEF Bps
  <1> HIDE DEF x
  <1>2. x \div 10000 \in 0..n
    BY <1>1, TenThousandth
  <1> QED
    BY <1>2 DEF x, fee_amount_floor

\* A product of integers over a positive number, rounded down, is an integer.
LEMMA QuotientType ==
    ASSUME NEW x \in Int, NEW y \in Int, NEW d \in Nat \ {0}
    PROVE  (x * y) \div d \in Int
  <1>1. x * y \in Int
    OBVIOUS
  <1> QED
    BY <1>1

\* A non-empty set of small naturals has a largest element, which is what Max returns.
LEMMA MaxBounded ==
    ASSUME NEW n \in Nat, NEW T \in SUBSET (0..n), T # {}
    PROVE  Max(T) \in T
  <1> DEFINE B == {k \in Nat : \A y \in T : y <= k}
  <1>1. n \in B /\ B \in SUBSET Nat
    OBVIOUS
  <1>2. PICK k \in B : \A m \in B : k <= m
    BY <1>1, LeastNat
  <1>3. k \in Nat /\ \A y \in T : y <= k
    BY <1>2
  <1>4. k \in T
    <2> SUFFICES ASSUME k \notin T
                 PROVE  FALSE
      OBVIOUS
    <2>1. \A y \in T : y \in Nat /\ y < k
      BY <1>3
    <2>2. PICK z \in T : TRUE
      OBVIOUS
    <2>3. k - 1 \in Nat
      BY <1>3, <2>1, <2>2
    <2>4. k - 1 \in B
      BY <1>3, <2>1, <2>3
    <2> QED
      BY <1>2, <1>3, <2>4
  <1>5. \E x \in T : \A y \in T : x >= y
    BY <1>3, <1>4
  <1> QED
    BY <1>5 DEF Max

\* A strict total order on a finite set.
StrictOrder(R, S) ==
    /\ \A a, b \in S : a # b => <<a, b>> \in R \/ <<b, a>> \in R
    /\ \A a \in S : <<a, a>> \notin R
    /\ \A a, b, c \in S : <<a, b>> \in R /\ <<b, c>> \in R => <<a, c>> \in R

\* The elements of a finite set can be listed in such an order.  An element comes at the
\* place that the number of smaller ones gives it.
LEMMA OrderExists ==
    ASSUME NEW S, IsFiniteSet(S), NEW R, StrictOrder(R, S)
    PROVE  \E f \in [1..Cardinality(S) -> S] :
              /\ \A i, j \in 1..Cardinality(S) : i < j => <<f[i], f[j]>> \in R
              /\ \A a \in S : \E i \in 1..Cardinality(S) : f[i] = a
  <1> DEFINE Smaller(a) == {b \in S : <<b, a>> \in R}
             n == Cardinality(S)
             rank == [a \in S |-> Cardinality(Smaller(a)) + 1]
  <1>1. n \in Nat
    BY FS_CardinalityType
  <1>2. ASSUME NEW a \in S
        PROVE  /\ IsFiniteSet(Smaller(a)) /\ Cardinality(Smaller(a)) \in Nat
               /\ a \notin Smaller(a)
               /\ IsFiniteSet(Smaller(a) \cup {a})
               /\ Cardinality(Smaller(a) \cup {a}) = Cardinality(Smaller(a)) + 1
    <2>1. Smaller(a) \in SUBSET S
      OBVIOUS
    <2>2. IsFiniteSet(Smaller(a)) /\ Cardinality(Smaller(a)) \in Nat
      BY <2>1, FS_Subset, FS_CardinalityType
    <2>3. a \notin Smaller(a)
      BY DEF StrictOrder
    <2> QED
      BY <2>2, <2>3, FS_AddElement
  <1>3. ASSUME NEW a \in S
        PROVE  rank[a] \in 1..n
    <2>1. Smaller(a) \cup {a} \in SUBSET S
      OBVIOUS
    <2>2. Cardinality(Smaller(a) \cup {a}) <= n
      BY <2>1, FS_Subset
    <2> HIDE DEF n, Smaller
    <2> QED
      BY <1>1, <1>2, <2>2
  <1>4. ASSUME NEW a \in S, NEW b \in S, <<a, b>> \in R
        PROVE  rank[a] < rank[b]
    <2>1. Smaller(a) \cup {a} \in SUBSET Smaller(b)
      BY <1>4 DEF StrictOrder
    <2>2. Cardinality(Smaller(a) \cup {a}) <= Cardinality(Smaller(b))
      BY <1>2, <2>1, FS_Subset
    <2>3. PICK p \in Nat, q \in Nat : p = Cardinality(Smaller(a)) /\ q = Cardinality(Smaller(b))
      BY <1>2
    <2>4. rank[a] = p + 1 /\ rank[b] = q + 1 /\ p + 1 <= q
      BY <1>2, <2>2, <2>3
    <2> QED
      BY <2>4
  <1> HIDE DEF rank, Smaller
  <1> DEFINE Ranks == {rank[a] : a \in S}
  <1>5. Ranks \in SUBSET (1..n)
    BY <1>3
  <1>6. ASSUME NEW a \in S, NEW b \in S, rank[a] = rank[b]
        PROVE  a = b
    <2>1. rank[a] \in 1..n /\ rank[b] \in 1..n
      BY <1>3
    <2>2. ~ (rank[a] < rank[b]) /\ ~ (rank[b] < rank[a])
      BY <1>1, <1>6, <2>1
    <2> QED
      BY <1>4, <2>2 DEF StrictOrder
  <1>7. rank \in Bijection(S, Ranks)
    <2>1. rank \in [S -> Ranks]
      BY DEF rank
    <2>2. rank \in Injection(S, Ranks)
      BY <1>6, <2>1 DEF Injection, IsInjective
    <2>3. \A t \in Ranks : \E s \in S : rank[s] = t
      OBVIOUS
    <2> QED
      BY <2>1, <2>2, <2>3 DEF Bijection, Surjection, Injection
  <1>8. IsFiniteSet(Ranks) /\ Cardinality(Ranks) = n
    BY <1>7, FS_Bijection DEF ExistsBijection
  <1>9. IsFiniteSet(1..n) /\ Cardinality(1..n) = n
    BY <1>1, FS_Interval
  <1>10. Ranks = 1..n
    BY <1>5, <1>8, <1>9, FS_Subset
  <1> DEFINE f == [i \in 1..n |-> CHOOSE a \in S : rank[a] = i]
  <1>11. ASSUME NEW i \in 1..n
         PROVE  f[i] \in S /\ rank[f[i]] = i
    BY <1>10
  <1>12. \A i, j \in 1..n : i < j => <<f[i], f[j]>> \in R
    <2> SUFFICES ASSUME NEW i \in 1..n, NEW j \in 1..n, i < j
                 PROVE  <<f[i], f[j]>> \in R
      OBVIOUS
    <2>1. f[i] \in S /\ f[j] \in S /\ rank[f[i]] = i /\ rank[f[j]] = j
      BY <1>11
    <2> HIDE DEF f
    <2>2. i # j /\ ~ (j < i)
      BY <1>1
    <2>3. f[i] # f[j] /\ <<f[j], f[i]>> \notin R
      BY <1>4, <2>1, <2>2
    <2> QED
      BY <2>1, <2>3 DEF StrictOrder
  <1>13. ASSUME NEW a \in S
         PROVE  \E i \in 1..n : f[i] = a
    <2>1. rank[a] \in 1..n
      BY <1>3
    <2>2. f[rank[a]] \in S /\ rank[f[rank[a]]] = rank[a]
      BY <1>11, <2>1
    <2> QED
      BY <1>6, <2>1, <2>2
  <1>14. f \in [1..n -> S]
    BY <1>11
  <1> QED
    BY <1>12, <1>13, <1>14

-----------------------------------------------------------------------------
\* The settings the rate of a trade is computed from.

RateFields ==
    {"paused", "callers", "oracle", "rate", "burn_rate", "congestion", "signal", "optimization",
     "score", "discounts", "protocol_token", "version", "cache", "volume"}

OptimizationOK(o) ==
    o.max_rate \in 1..100 /\ o.sensitivity \in Nat /\ o.min_rate \in Nat /\ o.min_rate >= 1

\* What a trade may read, from the settings or from a cache filled under earlier ones.
ConfigOK(c) == c.burn_rate \in Bps /\ c.score \in Nat /\ OptimizationOK(c.optimization)

MarketOK(f) ==
    /\ f.congestion.min \in Nat /\ f.congestion.max \in Nat /\ f.congestion.default \in Nat
    /\ f.signal.multiplier \in Nat
    /\ \A t \in f.discounts : t[2] \in 1..100

\* A slot filled under the version of now holds the configuration of now.
EntryOK(c, v, o) == ConfigOK(c) /\ c.at \in Nat /\ c.at <= v /\ (c.at = v => c.optimization = o)

CacheOK(cache, v, o) ==
    /\ DOMAIN cache = 0..(CacheSlots - 1)
    /\ \A s \in 0..(CacheSlots - 1) : cache[s] = NotCached \/ EntryOK(cache[s], v, o)

RatesOK(f) ==
    /\ DOMAIN f = RateFields
    /\ f.rate \in Nat /\ f.version \in Nat
    /\ ConfigOK(f) /\ MarketOK(f) /\ CacheOK(f.cache, f.version, f.optimization)

\* The larger and the smaller of two naturals.
LEMMA FeeAtFacts ==
    ASSUME NEW a \in Int, NEW b \in Int
    PROVE  /\ FeeAtLeast(a, b) \in {a, b} /\ FeeAtLeast(a, b) >= a /\ FeeAtLeast(a, b) >= b
           /\ FeeAtMost(a, b) \in {a, b} /\ FeeAtMost(a, b) <= a /\ FeeAtMost(a, b) <= b
  BY DEF FeeAtLeast, FeeAtMost

\* The key of the cache is one of its slots.
LEMMA KeyIsSlot ==
    ASSUME RatesOK(fr)
    PROVE  versioned_cache_key \in 0..(CacheSlots - 1)
  BY FeeConstants DEF RatesOK, versioned_cache_key

\* A trade reads a configuration in range, the one of now if the version says so.
LEMMA LoadsEntry ==
    ASSUME RatesOK(fr)
    PROVE  EntryOK(load_tx_fee_config, fr.version, fr.optimization)
  <1>1. ConfigOK(TxFeeConfigCache)
    <2>1. PICK b, s, o : b = fr.burn_rate /\ s = fr.score /\ o = fr.optimization
      OBVIOUS
    <2>2. b \in Bps /\ s \in Nat /\ OptimizationOK(o)
      BY <2>1 DEF RatesOK, ConfigOK
    <2>3. /\ TxFeeConfigCache.burn_rate = b /\ TxFeeConfigCache.score = s
          /\ TxFeeConfigCache.optimization = o
      BY <2>1 DEF TxFeeConfigCache
    <2> QED
      BY <2>2, <2>3 DEF ConfigOK
  <1>2. TxFeeConfigCache.at = fr.version /\ TxFeeConfigCache.optimization = fr.optimization
    BY DEF TxFeeConfigCache
  <1>3. fr.version \in Nat
    BY DEF RatesOK
  <1>4. EntryOK(TxFeeConfigCache, fr.version, fr.optimization)
    BY <1>1, <1>2, <1>3 DEF EntryOK
  <1>5. versioned_cache_key \in 0..(CacheSlots - 1)
    BY KeyIsSlot
  <1> QED
    BY <1>4, <1>5 DEF RatesOK, CacheOK, load_tx_fee_config

LEMMA LoadsConfig ==
    ASSUME RatesOK(fr)
    PROVE  ConfigOK(load_tx_fee_config)
  BY LoadsEntry DEF EntryOK

\* A discount is a number of basis points, whatever the volume.
LEMMA DiscountBounds ==
    ASSUME RatesOK(fr), NEW v
    PROVE  DiscountFor(v) \in 0..100
  <1> DEFINE T == {0} \cup {t[2] : t \in {x \in fr.discounts : v >= x[1]}}
  <1>1. T \in SUBSET (0..100) /\ T # {}
    BY DEF RatesOK, MarketOK
  <1>2. 100 \in Nat
    OBVIOUS
  <1> HIDE DEF T
  <1>3. Max(T) \in 0..100
    BY <1>1, <1>2, MaxBounded
  <1>4. CASE fr.discounts # {}
    BY <1>3, <1>4 DEF DiscountFor, T
  <1>5. CASE fr.discounts = {}
    BY <1>5 DEF DiscountFor, GOLD_DISCOUNT_BPS, SILVER_DISCOUNT_BPS
  <1> QED
    BY <1>4, <1>5

\* The rate before the network's surcharge is an integer.
LEMMA UserRateType ==
    ASSUME RatesOK(fr), NEW u
    PROVE  get_fee_rate_for_user(u) \in Int
  <1>1. current_effective_multiplier \in Int
    BY DEF RatesOK, MarketOK, current_effective_multiplier, FeeAtLeast, FeeAtMost
  <1>2. fr.rate \in Int
    BY DEF RatesOK
  <1>3. PICK d \in Int : d = DiscountFor(get_active_volume_usd(u))
    BY DiscountBounds
  <1>4. PICK x \in Int : x = (fr.rate * current_effective_multiplier) \div 10000
    BY <1>1, <1>2, QuotientType
  <1> QED
    BY <1>3, <1>4 DEF get_fee_rate_for_user, SatSub, FeeAtLeast, MIN_FEE_RATE_BPS

\* Half of a rate in range, but one unit at least, is in range and not below half of it.
LEMMA HalfInRange ==
    ASSUME NEW r \in 1..100
    PROVE  /\ FeeAtLeast(r \div 2, MIN_FEE_RATE_BPS) \in 1..100
           /\ FeeAtLeast(r \div 2, MIN_FEE_RATE_BPS) <= r
           /\ r <= 2 * FeeAtLeast(r \div 2, MIN_FEE_RATE_BPS) + 1
  BY DEF FeeAtLeast, MIN_FEE_RATE_BPS

\* Every rate charged lies between the floor and the ceiling of the configuration read.
LEMMA RateInRange ==
    ASSUME RatesOK(fr), NEW u, NEW t
    PROVE  LET rate == current_dynamic_fee_rate(u, t)
               c == load_tx_fee_config
           IN  /\ rate \in 1..100 /\ rate <= Ceiling(c.optimization)
               /\ Floor(c.optimization) <= IF t = c.protocol_token THEN 2 * rate + 1 ELSE rate
  <1>1. PICK c : c = load_tx_fee_config
    OBVIOUS
  <1>2. c.score \in Nat /\ OptimizationOK(c.optimization)
    BY <1>1, LoadsConfig DEF ConfigOK
  <1>3. PICK o : o = c.optimization
    OBVIOUS
  <1>4. /\ o.max_rate \in 1..100 /\ o.sensitivity \in Nat
        /\ o.min_rate \in Nat /\ o.min_rate >= 1
    BY <1>2, <1>3 DEF OptimizationOK
  <1>5. PICK base \in Int : base = get_fee_rate_for_user(u)
    BY UserRateType
  <1>6. PICK y \in Int : y = (c.score * o.sensitivity) \div 10000
    BY <1>2, <1>4, QuotientType
  <1>7. PICK raised \in Int : raised = base + y
    BY <1>5, <1>6
  <1> DEFINE rate == FeeAtMost(FeeAtLeast(raised, o.min_rate), FeeAtMost(o.max_rate, 100))
  <1>8. rate \in 1..100 /\ Ceiling(o) \in Nat /\ rate <= Ceiling(o) /\ Floor(o) \in Nat /\ Floor(o) <= rate
    BY <1>4, <1>7 DEF FeeAtMost, FeeAtLeast, Ceiling, Floor, MAX_FEE_RATE_BPS
  <1>9. current_dynamic_fee_rate(u, t)
          = IF t = c.protocol_token THEN FeeAtLeast(rate \div 2, MIN_FEE_RATE_BPS) ELSE rate
    BY <1>1, <1>3, <1>5, <1>6, <1>7
       DEF current_dynamic_fee_rate, effective_fee_rate_cached, MAX_FEE_RATE_BPS
  <1> HIDE DEF rate
  <1>10. PICK h : h = FeeAtLeast(rate \div 2, MIN_FEE_RATE_BPS)
    OBVIOUS
  <1>11. h \in 1..100 /\ h <= rate /\ rate <= 2 * h + 1
    BY <1>8, <1>10, HalfInRange
  <1>12. PICK x, hi, lo : x = current_dynamic_fee_rate(u, t) /\ hi = Ceiling(o) /\ lo = Floor(o)
    OBVIOUS
  <1>13. /\ x \in 1..100 /\ x <= hi
         /\ lo <= IF t = c.protocol_token THEN 2 * x + 1 ELSE x
    BY <1>8, <1>9, <1>10, <1>11, <1>12
  <1> QED
    BY <1>1, <1>3, <1>12, <1>13

\* The defaults are in range.
LEMMA InitialRatesOK == RatesOK(InitialRates)
  <1>1. ConfigOK(InitialRates)
    BY DEF Bps, InitialRates, ConfigOK, OptimizationOK, get_fee_optimization_config, MAX_FEE_RATE_BPS,
           MIN_FEE_RATE_BPS
  <1>2. MarketOK(InitialRates)
    BY DEF InitialRates, MarketOK, get_congestion_config
  <1>3. CacheOK(InitialRates.cache, InitialRates.version, InitialRates.optimization)
    BY DEF InitialRates, CacheOK
  <1>4. DOMAIN InitialRates = RateFields /\ InitialRates.rate \in Nat /\ InitialRates.version \in Nat
    BY DEF InitialRates, RateFields
  <1> QED
    BY <1>1, <1>2, <1>3, <1>4 DEF RatesOK

\* What a change of one setting makes of the record.
Rewritten(f, g) ==
    /\ DOMAIN g = RateFields
    /\ g.rate \in Nat /\ g.cache = f.cache
    /\ g.version = f.version + 1 \/ (g.version = f.version /\ g.optimization = f.optimization)
    /\ g.burn_rate \in Bps /\ g.score \in Nat /\ OptimizationOK(g.optimization)
    /\ g.congestion = f.congestion \/ g.congestion \in CongestionConfigs
    /\ g.signal = f.signal \/ g.signal.multiplier \in Nat
    /\ g.discounts = f.discounts \/ \A t \in g.discounts : t[2] \in 1..100

\* Such a change keeps the rates in range.
LEMMA RatesRewritten ==
    ASSUME NEW f, RatesOK(f), NEW g, Rewritten(f, g)
    PROVE  RatesOK(g)
  <1> USE DEF Rewritten
  <1>1. ConfigOK(g)
    BY DEF ConfigOK
  <1>2. MarketOK(g)
    <2>1. g.congestion.min \in Nat /\ g.congestion.max \in Nat /\ g.congestion.default \in Nat
      BY FeeConstants DEF RatesOK, MarketOK
    <2>2. g.signal.multiplier \in Nat
      BY DEF RatesOK, MarketOK
    <2>3. \A t \in g.discounts : t[2] \in 1..100
      BY DEF RatesOK, MarketOK
    <2> QED
      BY <2>1, <2>2, <2>3 DEF MarketOK
  <1>3. g.version \in Nat /\ CacheOK(g.cache, g.version, g.optimization)
    <2>1. PICK v, o : v = f.version /\ o = f.optimization
      OBVIOUS
    <2>2. v \in Nat /\ CacheOK(f.cache, v, o)
      BY <2>1 DEF RatesOK
    <2>3. CacheOK(f.cache, v + 1, g.optimization)
      <3>1. \A c : EntryOK(c, v, o) => EntryOK(c, v + 1, g.optimization)
        BY <2>2 DEF EntryOK
      <3> QED
        BY <2>2, <3>1 DEF CacheOK
    <2> QED
      BY <2>1, <2>2, <2>3
  <1> QED
    BY <1>1, <1>2, <1>3 DEF RatesOK

\* The fields that the rates rest on, other than the cache.
SameSettings(f, g) ==
    /\ DOMAIN g = RateFields
    /\ g.rate = f.rate /\ g.version = f.version /\ g.burn_rate = f.burn_rate
    /\ g.score = f.score /\ g.optimization = f.optimization
    /\ g.congestion = f.congestion /\ g.signal = f.signal /\ g.discounts = f.discounts

\* The cache may change on its own.
LEMMA CacheRewritten ==
    ASSUME NEW f, RatesOK(f), NEW g, SameSettings(f, g),
           CacheOK(g.cache, f.version, f.optimization)
    PROVE  RatesOK(g)
  <1>1. ConfigOK(g)
    BY DEF RatesOK, ConfigOK, SameSettings
  <1>2. MarketOK(g)
    BY DEF RatesOK, MarketOK, SameSettings
  <1> QED
    BY <1>1, <1>2 DEF RatesOK, SameSettings

\* A setting that the contract accepts keeps the rates in range.
LEMMA SettingKeepsRates ==
    ASSUME RatesOK(fr), FeeSettingStep
    PROVE  RatesOK(fr')
  <1>1. /\ DOMAIN fr = RateFields /\ fr.rate \in Nat /\ fr.version \in Nat
        /\ fr.burn_rate \in Bps /\ fr.score \in Nat /\ OptimizationOK(fr.optimization)
    BY DEF RatesOK, ConfigOK
  <1> USE DEF RateFields, Rewritten
  <1>2. ASSUME \E p \in BOOLEAN : set_paused(p)
       PROVE  Rewritten(fr, fr')
    BY <1>1, <1>2 DEF set_paused
  <1>3. ASSUME \E t \in Traders : authorize_caller(t) \/ revoke_caller(t)
       PROVE  Rewritten(fr, fr')
    BY <1>1, <1>3 DEF authorize_caller, revoke_caller
  <1>4. ASSUME set_oracle_contract
       PROVE  Rewritten(fr, fr')
    BY <1>1, <1>4 DEF set_oracle_contract
  <1>5. ASSUME \E bps \in FeeRateInputs : set_fee_rate(bps)
       PROVE  Rewritten(fr, fr')
    BY <1>1, <1>5, FeeConstants DEF set_fee_rate, bump_config_version
  <1>6. ASSUME \E bps \in BurnRateInputs : set_burn_rate(bps)
       PROVE  Rewritten(fr, fr')
    <2>1. PICK bps \in BurnRateInputs : set_burn_rate(bps)
      BY <1>6
    <2>2. bps \in Bps
      <3>1. bps \in Nat
        BY FeeConstants
      <3>2. bps <= 10000
        BY <2>1 DEF set_burn_rate, MAX_BURN_RATE_BPS
      <3> QED
        BY <3>1, <3>2 DEF Bps
    <2>3. fr' = [[fr EXCEPT !.burn_rate = bps] EXCEPT !.version = @ + 1]
      BY <2>1 DEF set_burn_rate, bump_config_version
    <2> QED
      BY <1>1, <2>2, <2>3
  <1>7. ASSUME \E c \in OptimizationConfigs : set_fee_optimization_config(c)
       PROVE  Rewritten(fr, fr')
    <2>1. PICK c \in OptimizationConfigs : set_fee_optimization_config(c)
      BY <1>7
    <2>2. OptimizationOK(c)
      BY <2>1, FeeConstants DEF set_fee_optimization_config, OptimizationOK, MIN_FEE_RATE_BPS,
                                MAX_FEE_RATE_BPS
    <2> QED
      BY <1>1, <2>1, <2>2 DEF set_fee_optimization_config, bump_config_version
  <1>8. ASSUME \E s \in NetworkScores : update_network_conditions(s)
       PROVE  Rewritten(fr, fr')
    BY <1>1, <1>8, FeeConstants DEF update_network_conditions, bump_config_version
  <1>9. ASSUME \E c \in CongestionConfigs : set_congestion_config(c)
       PROVE  Rewritten(fr, fr')
    BY <1>1, <1>9 DEF set_congestion_config
  <1>10. ASSUME \E m \in Multipliers : set_congestion_signal(m)
       PROVE  Rewritten(fr, fr')
    BY <1>1, <1>10, FeeConstants DEF set_congestion_signal
  <1>11. ASSUME \E t \in FeeTokens : set_protocol_token(t)
       PROVE  Rewritten(fr, fr')
    BY <1>1, <1>11 DEF set_protocol_token
  <1>12. ASSUME \E d \in DiscountTiers : set_volume_discount_config(d)
       PROVE  Rewritten(fr, fr')
    BY <1>1, <1>12 DEF set_volume_discount_config, MAX_FEE_RATE_BPS
  <1>13. CASE \E s \in DOMAIN fr.cache : CacheExpires(s)
    <2>1. PICK s \in DOMAIN fr.cache : fr' = [fr EXCEPT !.cache[s] = NotCached]
      BY <1>13 DEF CacheExpires
    <2>2. PICK g : g = [fr.cache EXCEPT ![s] = NotCached]
      OBVIOUS
    <2>3. CacheOK(g, fr.version, fr.optimization)
      BY <2>1, <2>2 DEF RatesOK, CacheOK
    <2>4. fr' = [fr EXCEPT !.cache = g]
      BY <1>1, <2>1, <2>2
    <2>5. SameSettings(fr, fr') /\ fr'.cache = g
      BY <1>1, <2>4 DEF SameSettings
    <2> QED
      BY <2>3, <2>5, CacheRewritten
  <1> HIDE DEF Rewritten, RateFields
  <1>14. Rewritten(fr, fr') \/ RatesOK(fr')
    BY <1>2, <1>3, <1>4, <1>5, <1>6, <1>7, <1>8, <1>9, <1>10, <1>11, <1>12, <1>13
       DEF FeeSettingStep
  <1> QED
    BY <1>14, RatesRewritten

\* Settings under the version and the limits of now.
CurrentOK(f) == RatesOK(f) /\ f.version = fr.version /\ f.optimization = fr.optimization

\* Reading the configuration fills a slot with what was read.
LEMMA CachingKeepsRates ==
    ASSUME RatesOK(fr), NEW f, CurrentOK(f)
    PROVE  CurrentOK(cached(f))
  <1>1. PICK k, c : k = versioned_cache_key /\ c = load_tx_fee_config
    OBVIOUS
  <1>2. k \in 0..(CacheSlots - 1) /\ EntryOK(c, fr.version, fr.optimization)
    BY <1>1, KeyIsSlot, LoadsEntry
  <1>3. PICK g : g = [f.cache EXCEPT ![k] = c]
    OBVIOUS
  <1>4. CacheOK(g, f.version, f.optimization)
    BY <1>2, <1>3 DEF CurrentOK, RatesOK, CacheOK
  <1>5. cached(f) = [f EXCEPT !.cache = g]
    BY <1>1, <1>3 DEF cached, CurrentOK, RatesOK, RateFields
  <1>6. DOMAIN f = RateFields /\ RatesOK(f)
    BY DEF CurrentOK, RatesOK
  <1>7. SameSettings(f, cached(f)) /\ cached(f).cache = g
    BY <1>5, <1>6 DEF SameSettings, RateFields
  <1>8. RatesOK(cached(f))
    BY <1>4, <1>6, <1>7, CacheRewritten
  <1> QED
    BY <1>7, <1>8 DEF CurrentOK, SameSettings

\* A trade's volume is not among the settings.
LEMMA SettlingKeepsRates ==
    ASSUME RatesOK(fr), NEW f, CurrentOK(f), NEW u, NEW a, NEW ok
    PROVE  CurrentOK(settled_volume(f, u, a, ok))
  <1>1. PICK g : g = IF u \in fm.traded THEN cached(f) ELSE f
    OBVIOUS
  <1>2. CurrentOK(g)
    BY <1>1, CachingKeepsRates
  <1>3. CurrentOK(record_trade_volume(g, u, a))
    <2>1. PICK v : record_trade_volume(g, u, a) = [g EXCEPT !.volume = v]
      BY DEF record_trade_volume
    <2>2. DOMAIN g = RateFields /\ RatesOK(g) /\ CacheOK(g.cache, g.version, g.optimization)
      BY <1>2 DEF CurrentOK, RatesOK
    <2>3. /\ SameSettings(g, record_trade_volume(g, u, a))
          /\ record_trade_volume(g, u, a).cache = g.cache
      BY <2>1, <2>2 DEF SameSettings, RateFields
    <2>4. RatesOK(record_trade_volume(g, u, a))
      BY <2>2, <2>3, CacheRewritten
    <2> QED
      BY <1>2, <2>3, <2>4 DEF CurrentOK, SameSettings
  <1> QED
    BY <1>1, <1>2, <1>3 DEF settled_volume

-----------------------------------------------------------------------------
\* The books.

BookFields ==
    {"wallet", "held", "treasury", "pool", "insurance", "cap", "ownerless", "converted", "indexed",
     "traded", "claims", "pending", "currency", "referrer", "referral_bps", "revenue_bps", "max_rebate",
     "daily", "rebated", "queued", "failed", "waterfall", "snapshot", "forecast", "last_forecast"}

PerTrader == Traders \X FeeTokens
PerDay == FeeTokens \X FeeDays

MoneyOK(m) ==
    /\ m.wallet \in [PerTrader -> Int] /\ m.pending \in [PerTrader -> Int]
    /\ m.held \in [FeeTokens -> Nat] /\ m.treasury \in [FeeTokens -> Nat]
    /\ m.pool \in [FeeTokens -> Nat] /\ m.insurance \in [FeeTokens -> Nat]
    /\ m.ownerless \in [FeeTokens -> Nat] /\ m.converted \in [FeeTokens -> Nat]

\* What providers may still claim of a token.
Claims(pending, t) == [p \in Traders |-> pending[<<p, t>>]]
Owed(pending, t) == SumFunctionOnSet(Claims(pending, t), Traders)

BalancedAt(m, t) ==
    m.held[t] = m.treasury[t] + m.pool[t] + m.insurance[t] + Owed(m.pending, t)
                + m.ownerless[t] - m.converted[t]

Indexed(m) == m.indexed = {t \in FeeTokens : m.pool[t] > 0}

FailureOK(x) == x = NoFailure \/ (x.trader \in Traders /\ x.token \in FeeTokens /\ x.amount \in Int)

WaterfallOK(w) == w \in Seq([priority : Nat, target : Int, minimum : Int])

TermsOK(m) ==
    /\ m.referrer \in [Traders -> Traders \cup {NoToken}]
    /\ m.currency \in [Traders -> FeeTokens \cup {NoToken}]
    /\ m.referral_bps \in Bps /\ m.revenue_bps \in Bps /\ m.max_rebate \in Bps
    /\ m.daily \in [PerDay -> Int] /\ m.rebated \in [PerDay -> Int]
    /\ m.queued.amount \in Nat /\ m.queued.at \in Int
    /\ DOMAIN m.failed = FailedIds /\ \A i \in FailedIds : FailureOK(m.failed[i])
    /\ WaterfallOK(m.waterfall)

AccountsOK(m) ==
    /\ DOMAIN m = BookFields
    /\ MoneyOK(m) /\ Indexed(m) /\ \A t \in FeeTokens : BalancedAt(m, t)

BooksOK(m) == AccountsOK(m) /\ TermsOK(m)

\* What is owed is an integer.
LEMMA OwedType ==
    ASSUME NEW pending \in [PerTrader -> Int], NEW t \in FeeTokens
    PROVE  Owed(pending, t) \in Int
  <1>1. \A p \in Traders : Claims(pending, t)[p] \in Int
    BY DEF Claims, PerTrader
  <1> QED
    BY <1>1, SumType, CollectorConstants DEF Owed

\* What is pending once the claim of p in k is taken.
Cleared(pending, rest, p, k) ==
    /\ rest \in [PerTrader -> Int] /\ rest[<<p, k>>] = 0
    /\ \A i \in PerTrader : i # <<p, k>> => rest[i] = pending[i]

\* A claim takes what was pending, and nothing of another token.
LEMMA OwedCleared ==
    ASSUME NEW pending \in [PerTrader -> Int], NEW p \in Traders, NEW k \in FeeTokens,
           NEW rest, Cleared(pending, rest, p, k)
    PROVE  /\ Owed(rest, k) = Owed(pending, k) - pending[<<p, k>>]
           /\ \A t \in FeeTokens \ {k} : Owed(rest, t) = Owed(pending, t)
  <1> DEFINE f == Claims(pending, k)
             g == Claims(rest, k)
  <1>2. \A q \in Traders : f[q] \in Int /\ g[q] \in Int
    BY DEF Claims, PerTrader, Cleared
  <1>3. ASSUME NEW q \in Traders \ {p}
        PROVE  g[q] = f[q]
    <2>1. <<q, k>> \in PerTrader /\ <<q, k>> # <<p, k>>
      BY DEF PerTrader
    <2> QED
      BY <2>1 DEF Claims, Cleared
  <1>4. f[p] = pending[<<p, k>>] /\ g[p] = 0 /\ f[p] \in Int
    BY DEF Claims, PerTrader, Cleared
  <1> HIDE DEF f, g
  <1>5. SumFunctionOnSet(g, Traders) = SumFunctionOnSet(f, Traders) - f[p] + g[p]
    <2>1. IsFiniteSet(Traders) /\ \A q \in Traders \ {p} : g[q] = f[q]
      BY <1>3, CollectorConstants
    <2> QED
      BY <1>2, <2>1, SumChanges
  <1>6. SumFunctionOnSet(f, Traders) \in Int
    BY <1>2, SumType, CollectorConstants
  <1>7. Owed(rest, k) = Owed(pending, k) - pending[<<p, k>>]
    BY <1>4, <1>5, <1>6 DEF Owed, f, g
  <1>8. ASSUME NEW t \in FeeTokens \ {k}
        PROVE  Owed(rest, t) = Owed(pending, t)
    <2>1. \A q \in Traders : rest[<<q, t>>] = pending[<<q, t>>]
      BY DEF PerTrader, Cleared
    <2>2. Claims(rest, t) = Claims(pending, t)
      BY <2>1 DEF Claims, Cleared
    <2> QED
      BY <2>2 DEF Owed
  <1> QED
    BY <1>7, <1>8

\* The day is one of those the books have entries for.
LEMMA TodayIsDay ==
    ASSUME now \in 0..MaxNow
    PROVE  FeeToday \in FeeDays
  <1>1. FEE_DAY \in Nat \ {0} /\ MaxNow \in Nat
    BY CollectorConstants, ClockConstants
  <1>2. \A a \in Nat, b \in Nat, d \in Nat \ {0} :
           a <= b => a \div d \in Nat /\ b \div d \in Nat /\ a \div d <= b \div d
    OBVIOUS
  <1>3. /\ now \div FEE_DAY \in Nat /\ MaxNow \div FEE_DAY \in Nat
        /\ now \div FEE_DAY <= MaxNow \div FEE_DAY
    BY <1>1, <1>2
  <1> QED
    BY <1>3 DEF FeeToday, FeeDays

\* Burn, referrer and revenue pool share what there is of a fee.
LEMMA FeeSplits ==
    ASSUME RatesOK(fr), TermsOK(fm), NEW fee \in Nat, NEW u \in Traders
    PROVE  /\ BurnOf(fee) \in 0..fee
           /\ ReferralOf(u, fee) \in 0..(fee - BurnOf(fee))
           /\ ReferralOf(u, fee) # 0 => fm.referrer[u] \in Traders
           /\ RevenueOf(u, fee) \in 0..(fee - BurnOf(fee) - ReferralOf(u, fee))
  <1>1. PICK b : b = BurnOf(fee)
    OBVIOUS
  <1>2. b \in 0..fee
    <2>1. load_tx_fee_config.burn_rate \in Bps
      BY LoadsConfig DEF ConfigOK
    <2>2. fee_amount_floor(fee, load_tx_fee_config.burn_rate) \in 0..fee
      BY <2>1, ShareBounds
    <2> QED
      BY <1>1, <2>2 DEF BurnOf
  <1>3. fm.referral_bps \in Bps /\ fm.revenue_bps \in Bps
    BY DEF TermsOK
  <1>4. fee_amount_floor(fee, fm.referral_bps) \in 0..fee
    BY <1>3, ShareBounds
  <1>5. PICK x : x = fee_amount_floor(fee, fm.referral_bps)
    OBVIOUS
  <1>6. PICK r : r = ReferralOf(u, fee)
    OBVIOUS
  <1>7. r \in 0..(fee - b)
    <2>1. r = IF fm.referrer[u] = NoToken THEN 0 ELSE FeeAtMost(x, fee - b)
      BY <1>1, <1>5, <1>6 DEF ReferralOf
    <2> QED
      BY <1>2, <1>4, <1>5, <2>1 DEF FeeAtMost
  <1>8. fee - b \in Nat
    BY <1>2
  <1>9. fee_amount_floor(fee - b, fm.revenue_bps) \in 0..(fee - b)
    BY <1>3, <1>8, ShareBounds
  <1>10. PICK y : y = fee_amount_floor(fee - b, fm.revenue_bps)
    OBVIOUS
  <1>11. RevenueOf(u, fee) = FeeAtMost(y, fee - b - r)
    BY <1>1, <1>6, <1>10 DEF RevenueOf
  <1>12. RevenueOf(u, fee) \in 0..(fee - b - r)
    BY <1>2, <1>7, <1>9, <1>10, <1>11 DEF FeeAtMost
  <1>13. r # 0 => fm.referrer[u] \in Traders
    <2>1. fm.referrer[u] \in Traders \cup {NoToken}
      BY DEF TermsOK
    <2> QED
      BY <1>6, <2>1 DEF ReferralOf
  <1> QED
    BY <1>1, <1>2, <1>6, <1>7, <1>12, <1>13

SameMoney(m, n) ==
    /\ n.wallet = m.wallet /\ n.pending = m.pending /\ n.held = m.held /\ n.treasury = m.treasury
    /\ n.pool = m.pool /\ n.insurance = m.insurance /\ n.ownerless = m.ownerless
    /\ n.converted = m.converted /\ n.indexed = m.indexed

SameTerms(m, n) ==
    /\ n.referrer = m.referrer /\ n.currency = m.currency
    /\ n.referral_bps = m.referral_bps /\ n.revenue_bps = m.revenue_bps
    /\ n.max_rebate = m.max_rebate /\ n.waterfall = m.waterfall

\* Where no money moves the accounts are right as before.
LEMMA MoneyStays ==
    ASSUME NEW m, AccountsOK(m), NEW n, DOMAIN n = BookFields, SameMoney(m, n)
    PROVE  AccountsOK(n)
  BY DEF AccountsOK, MoneyOK, Indexed, BalancedAt, SameMoney

\* Where the terms stay, the days' figures and the queues decide.
LEMMA TermsStay ==
    ASSUME NEW m, TermsOK(m), NEW n, SameTerms(m, n),
           n.daily \in [PerDay -> Int], n.rebated \in [PerDay -> Int],
           n.queued.amount \in Nat, n.queued.at \in Int,
           DOMAIN n.failed = FailedIds, \A i \in FailedIds : FailureOK(n.failed[i])
    PROVE  TermsOK(n)
  BY DEF TermsOK, SameTerms

\* Money that moves within one token, with nothing claimed.
MovesAt(m, n, k, held, treasury, pool, insurance, ownerless) ==
    /\ n.pending = m.pending
    /\ n.held = [m.held EXCEPT ![k] = held] /\ n.treasury = [m.treasury EXCEPT ![k] = treasury]
    /\ n.pool = [m.pool EXCEPT ![k] = pool] /\ n.insurance = [m.insurance EXCEPT ![k] = insurance]
    /\ n.ownerless = [m.ownerless EXCEPT ![k] = ownerless] /\ n.converted = m.converted

\* Such a move keeps the accounts right when it balances.
LEMMA MoveKeepsAccounts ==
    ASSUME NEW m, AccountsOK(m), NEW n, DOMAIN n = BookFields, NEW k \in FeeTokens,
           NEW held \in Nat, NEW treasury \in Nat, NEW pool \in Nat, NEW insurance \in Nat,
           NEW ownerless \in Nat,
           MovesAt(m, n, k, held, treasury, pool, insurance, ownerless),
           held - m.held[k] = (treasury - m.treasury[k]) + (pool - m.pool[k])
                              + (insurance - m.insurance[k]) + (ownerless - m.ownerless[k]),
           n.wallet \in [PerTrader -> Int],
           n.indexed = IF pool > 0 THEN m.indexed \cup {k} ELSE m.indexed \ {k}
    PROVE  AccountsOK(n)
  <1>1. /\ m.pending \in [PerTrader -> Int] /\ m.held \in [FeeTokens -> Nat]
        /\ m.treasury \in [FeeTokens -> Nat] /\ m.pool \in [FeeTokens -> Nat]
        /\ m.insurance \in [FeeTokens -> Nat] /\ m.ownerless \in [FeeTokens -> Nat]
        /\ m.converted \in [FeeTokens -> Nat]
    BY DEF AccountsOK, MoneyOK
  <1>2. MoneyOK(n)
    BY <1>1 DEF MoneyOK, MovesAt
  <1>3. Indexed(n)
    <2>1. m.indexed = {t \in FeeTokens : m.pool[t] > 0}
      BY DEF AccountsOK, Indexed
    <2>2. n.pool[k] = pool /\ \A t \in FeeTokens \ {k} : n.pool[t] = m.pool[t]
      BY <1>1 DEF MovesAt
    <2> QED
      BY <2>1, <2>2 DEF Indexed
  <1>4. ASSUME NEW t \in FeeTokens
        PROVE  BalancedAt(n, t)
    <2>1. PICK o \in Int : o = Owed(m.pending, t) /\ o = Owed(n.pending, t)
      BY <1>1, OwedType DEF MovesAt
    <2>2. m.held[t] = m.treasury[t] + m.pool[t] + m.insurance[t] + o + m.ownerless[t] - m.converted[t]
      BY <2>1 DEF AccountsOK, BalancedAt
    <2>3. CASE t # k
      <3>1. /\ n.held[t] = m.held[t] /\ n.treasury[t] = m.treasury[t] /\ n.pool[t] = m.pool[t]
            /\ n.insurance[t] = m.insurance[t] /\ n.ownerless[t] = m.ownerless[t]
            /\ n.converted[t] = m.converted[t]
        BY <1>1, <2>3 DEF MovesAt
      <3> QED
        BY <2>1, <2>2, <3>1 DEF BalancedAt
    <2>4. CASE t = k
      <3>1. /\ n.held[t] = held /\ n.treasury[t] = treasury /\ n.pool[t] = pool
            /\ n.insurance[t] = insurance /\ n.ownerless[t] = ownerless
            /\ n.converted[t] = m.converted[t]
        BY <1>1, <2>4 DEF MovesAt
      <3>2. /\ m.held[t] \in Nat /\ m.treasury[t] \in Nat /\ m.pool[t] \in Nat
            /\ m.insurance[t] \in Nat /\ m.ownerless[t] \in Int /\ m.converted[t] \in Int
        BY <1>1
      <3>3. held = treasury + pool + insurance + o + ownerless - m.converted[t]
        BY <2>2, <2>4, <3>2
      <3> QED
        BY <2>1, <3>1, <3>3 DEF BalancedAt
    <2> QED
      BY <2>3, <2>4
  <1> QED
    BY <1>2, <1>3, <1>4 DEF AccountsOK

\* No treasury shrinks.
TreasuryKept(m, n) == \A t \in FeeTokens : n.treasury[t] >= m.treasury[t]

\* A fee that is collected is booked in full, and nothing leaves the treasury.
LEMMA CollectedBooks ==
    ASSUME RatesOK(fr), TermsOK(fm), now \in 0..MaxNow,
           NEW m, BooksOK(m), m.referrer = fm.referrer,
           NEW u \in Traders, NEW k \in FeeTokens, NEW a, NEW ok, Collectable(m, u, k, a, ok)
    PROVE  LET n == collected(m, u, k, a)
           IN  /\ BooksOK(n) /\ n.referrer = m.referrer /\ n.failed = m.failed
               /\ TreasuryKept(m, n)
  <1> DEFINE n == collected(m, u, k, a)
  <1>1. DOMAIN m = BookFields /\ MoneyOK(m) /\ TermsOK(m) /\ AccountsOK(m)
    BY DEF BooksOK, AccountsOK
  <1>2. /\ m.wallet \in [PerTrader -> Int] /\ m.held \in [FeeTokens -> Nat]
        /\ m.treasury \in [FeeTokens -> Nat] /\ m.pool \in [FeeTokens -> Nat]
        /\ m.insurance \in [FeeTokens -> Nat] /\ m.ownerless \in [FeeTokens -> Nat]
        /\ m.converted \in [FeeTokens -> Nat]
    BY <1>1 DEF MoneyOK
  <1>3. CASE u \notin m.traded
    <2>1. n = [m EXCEPT !.traded = @ \cup {u}]
      BY <1>3 DEF collected
    <2> HIDE DEF n
    <2>2. DOMAIN n = BookFields /\ SameMoney(m, n)
      BY <1>1, <2>1 DEF SameMoney, BookFields
    <2>3. /\ SameTerms(m, n) /\ n.daily = m.daily /\ n.rebated = m.rebated
          /\ n.queued = m.queued /\ n.failed = m.failed
      BY <1>1, <2>1 DEF SameTerms, BookFields
    <2>4. AccountsOK(n)
      BY <1>1, <2>2, MoneyStays
    <2>5. TermsOK(n)
      <3>1. /\ n.daily \in [PerDay -> Int] /\ n.rebated \in [PerDay -> Int]
            /\ n.queued.amount \in Nat /\ n.queued.at \in Int
            /\ DOMAIN n.failed = FailedIds /\ \A i \in FailedIds : FailureOK(n.failed[i])
        BY <1>1, <2>3 DEF TermsOK
      <3> QED
        BY <1>1, <2>3, <3>1, TermsStay
    <2>6. TreasuryKept(m, n)
      BY <1>2, <2>2 DEF TreasuryKept, SameMoney
    <2> QED
      BY <2>3, <2>4, <2>5, <2>6 DEF n, BooksOK, SameTerms
  <1>4. CASE u \in m.traded
    <2>1. PICK fee : fee = FeeOf(u, k, a)
      OBVIOUS
    <2>2. fee \in Nat
      <3>1. fee \in 1..m.wallet[<<u, k>>] /\ m.wallet[<<u, k>>] \in Int
        BY <1>2, <1>4, <2>1 DEF Collectable, PerTrader
      <3> QED
        BY <3>1
    <2>3. PICK b, r, v : b = BurnOf(fee) /\ r = ReferralOf(u, fee) /\ v = RevenueOf(u, fee)
      OBVIOUS
    <2>4. /\ b \in 0..fee /\ r \in 0..(fee - b) /\ v \in 0..(fee - b - r)
          /\ r # 0 => m.referrer[u] \in Traders
      BY <2>2, <2>3, FeeSplits
    <2>5. PICK kept \in Nat : kept = fee - b - r
      BY <2>2, <2>4
    <2>6. v \in Nat /\ v <= kept /\ r \in Nat
      BY <2>2, <2>4, <2>5
    <2> DEFINE c == charged(m, u, k, fee)
    <2>7. n = referred(c, u, k, r)
      BY <1>4, <2>1, <2>3 DEF collected
    <2>8. /\ DOMAIN c = BookFields
          /\ c.wallet = [m.wallet EXCEPT ![<<u, k>>] = @ - fee]
          /\ c.held = [m.held EXCEPT ![k] = @ + kept]
          /\ c.pool = [m.pool EXCEPT ![k] = @ + v]
          /\ c.indexed = IF v > 0 THEN m.indexed \cup {k} ELSE m.indexed
          /\ c.treasury = [m.treasury EXCEPT ![k] = @ + kept - v]
          /\ c.insurance = m.insurance /\ c.ownerless = m.ownerless /\ c.pending = m.pending
          /\ c.converted = m.converted
      BY <1>1, <2>3, <2>5 DEF charged, BookFields
    <2>9. /\ SameTerms(m, c) /\ c.daily = [m.daily EXCEPT ![<<k, FeeToday>>] = @ + fee]
          /\ c.rebated = m.rebated /\ c.queued = m.queued /\ c.failed = m.failed
      BY <1>1, <2>3, <2>5 DEF charged, BookFields, SameTerms
    <2> HIDE DEF c, n
    <2>10. /\ DOMAIN n = BookFields /\ n.held = c.held /\ n.pool = c.pool /\ n.indexed = c.indexed
           /\ n.treasury = c.treasury /\ n.insurance = m.insurance /\ n.ownerless = m.ownerless
           /\ n.pending = m.pending /\ n.converted = m.converted
      BY <2>7, <2>8 DEF referred, BookFields
    <2>11. /\ SameTerms(m, n) /\ n.daily = c.daily /\ n.rebated = m.rebated
           /\ n.queued = m.queued /\ n.failed = m.failed
      BY <2>7, <2>8, <2>9 DEF referred, BookFields, SameTerms
    <2>12. n.wallet \in [PerTrader -> Int]
      <3>1. c.wallet \in [PerTrader -> Int]
        BY <1>2, <2>2, <2>8 DEF PerTrader
      <3>2. CASE r = 0
        BY <2>7, <3>1, <3>2 DEF referred
      <3>3. CASE r # 0
        <4>1. n.wallet = [c.wallet EXCEPT ![<<m.referrer[u], k>>] = @ + r]
          BY <2>7, <2>8, <2>9, <3>3 DEF referred, BookFields, SameTerms
        <4>2. <<m.referrer[u], k>> \in PerTrader
          BY <2>4, <3>3 DEF PerTrader
        <4> QED
          BY <2>6, <3>1, <4>1, <4>2
      <3> QED
        BY <3>2, <3>3
    <2>13. AccountsOK(n)
      <3>1. PICK h, t, p, i, x : /\ h = m.held[k] /\ t = m.treasury[k] /\ p = m.pool[k]
                                 /\ i = m.insurance[k] /\ x = m.ownerless[k]
        OBVIOUS
      <3>2. h \in Nat /\ t \in Nat /\ p \in Nat /\ i \in Nat /\ x \in Nat
        BY <1>2, <3>1
      <3>3. MovesAt(m, n, k, h + kept, t + kept - v, p + v, i, x)
        BY <1>2, <2>8, <2>10, <3>1 DEF MovesAt
      <3>4. h + kept \in Nat /\ t + kept - v \in Nat /\ p + v \in Nat
        BY <2>6, <3>2
      <3>5. (h + kept) - h = ((t + kept - v) - t) + ((p + v) - p) + (i - i) + (x - x)
        BY <2>6, <3>2
      <3>6. n.indexed = IF p + v > 0 THEN m.indexed \cup {k} ELSE m.indexed \ {k}
        <4>1. m.indexed = {z \in FeeTokens : m.pool[z] > 0}
          BY <1>1 DEF AccountsOK, Indexed
        <4>2. k \in m.indexed <=> p > 0
          BY <3>1, <4>1
        <4>3. CASE v > 0
          BY <2>6, <2>8, <2>10, <3>2, <4>3
        <4>4. CASE v = 0 /\ p > 0
          <5>1. m.indexed \cup {k} = m.indexed
            BY <4>2, <4>4
          <5> QED
            BY <2>8, <2>10, <3>2, <4>4, <5>1
        <4>5. CASE v = 0 /\ p = 0
          <5>1. m.indexed \ {k} = m.indexed
            BY <4>2, <4>5
          <5> QED
            BY <2>8, <2>10, <3>2, <4>5, <5>1
        <4> QED
          BY <2>6, <3>2, <4>3, <4>4, <4>5
      <3> QED
        BY <1>1, <2>10, <2>12, <3>1, <3>2, <3>3, <3>4, <3>5, <3>6, MoveKeepsAccounts
    <2>14. TermsOK(n)
      <3>1. n.daily \in [PerDay -> Int]
        <4>1. m.daily \in [PerDay -> Int]
          BY <1>1 DEF TermsOK
        <4>2. <<k, FeeToday>> \in PerDay
          BY TodayIsDay DEF PerDay
        <4> QED
          BY <2>2, <2>9, <2>11, <4>1, <4>2
      <3>2. /\ n.rebated \in [PerDay -> Int] /\ n.queued.amount \in Nat /\ n.queued.at \in Int
            /\ DOMAIN n.failed = FailedIds /\ \A i \in FailedIds : FailureOK(n.failed[i])
        BY <1>1, <2>11 DEF TermsOK
      <3> QED
        BY <1>1, <2>11, <3>1, <3>2, TermsStay
    <2>15. TreasuryKept(m, n)
      BY <1>2, <2>6, <2>8, <2>10 DEF TreasuryKept
    <2> QED
      BY <2>11, <2>13, <2>14, <2>15 DEF n, BooksOK, SameTerms
  <1> QED
    BY <1>3, <1>4

\* What a call that moves no money makes of the books.
TermsOnly(m, n) == DOMAIN n = BookFields /\ SameMoney(m, n) /\ TermsOK(n)

\* It keeps the books right and the treasury as it is.
LEMMA TermsOnlyKeeps ==
    ASSUME NEW m, BooksOK(m), NEW n, TermsOnly(m, n)
    PROVE  BooksOK(n) /\ TreasuryKept(m, n)
  <1>1. AccountsOK(n)
    BY MoneyStays DEF BooksOK, TermsOnly
  <1>2. TreasuryKept(m, n)
    BY DEF BooksOK, AccountsOK, MoneyOK, TermsOnly, SameMoney, TreasuryKept
  <1> QED
    BY <1>1, <1>2 DEF BooksOK, TermsOnly

\* A failed collection may be queued, and an entry of the queue cleared.
LEMMA FailedRewritten ==
    ASSUME NEW m, BooksOK(m), NEW i \in FailedIds, NEW x, FailureOK(x)
    PROVE  TermsOnly(m, [m EXCEPT !.failed[i] = x])
  <1>1. DOMAIN m = BookFields /\ TermsOK(m)
    BY DEF BooksOK, AccountsOK
  <1>2. PICK n : n = [m EXCEPT !.failed[i] = x]
    OBVIOUS
  <1>3. DOMAIN n = BookFields /\ SameMoney(m, n)
    BY <1>1, <1>2 DEF SameMoney, BookFields
  <1>4. /\ SameTerms(m, n) /\ n.daily = m.daily /\ n.rebated = m.rebated /\ n.queued = m.queued
        /\ n.failed = [m.failed EXCEPT ![i] = x]
    BY <1>1, <1>2 DEF SameTerms, BookFields
  <1>5. DOMAIN n.failed = FailedIds /\ \A j \in FailedIds : FailureOK(n.failed[j])
    BY <1>1, <1>4 DEF TermsOK
  <1>6. /\ n.daily \in [PerDay -> Int] /\ n.rebated \in [PerDay -> Int]
        /\ n.queued.amount \in Nat /\ n.queued.at \in Int
    BY <1>1, <1>4 DEF TermsOK
  <1>7. TermsOK(n)
    BY <1>1, <1>4, <1>5, <1>6, TermsStay
  <1> QED
    BY <1>2, <1>3, <1>7 DEF TermsOnly

\* Every way of collecting a fee.
LEMMA CollectKeeps ==
    ASSUME RatesOK(fr), BooksOK(fm), now \in 0..MaxNow, CollectStep
    PROVE  RatesOK(fr') /\ BooksOK(fm') /\ TreasuryKept(fm, fm')
  <1>1. TermsOK(fm)
    BY DEF BooksOK
  <1>2. ASSUME NEW t \in Traders, NEW k \in FeeTokens, NEW a, NEW ok, collect_fee(t, k, a, ok)
        PROVE  RatesOK(fr') /\ BooksOK(fm') /\ TreasuryKept(fm, fm')
    BY <1>1, <1>2, CollectedBooks, SettlingKeepsRates DEF collect_fee, CurrentOK
  <1>3. ASSUME NEW t \in Traders, NEW u \in Traders, NEW k \in FeeTokens, NEW a, NEW ok,
               batch_collect_fees(t, u, k, a, ok)
        PROVE  RatesOK(fr') /\ BooksOK(fm') /\ TreasuryKept(fm, fm')
    <2>1. PICK m : m = collected(fm, t, k, a)
      OBVIOUS
    <2>2. BooksOK(m) /\ m.referrer = fm.referrer /\ TreasuryKept(fm, m)
      BY <1>1, <1>3, <2>1, CollectedBooks DEF batch_collect_fees
    <2>3. Collectable(m, u, k, a, ok) /\ fm' = collected(m, u, k, a)
      BY <1>3, <2>1 DEF batch_collect_fees
    <2>4. BooksOK(fm') /\ TreasuryKept(m, fm')
      BY <1>1, <2>2, <2>3, CollectedBooks
    <2>5. TreasuryKept(fm, fm')
      <3>1. /\ fm.treasury \in [FeeTokens -> Nat] /\ m.treasury \in [FeeTokens -> Nat]
            /\ fm'.treasury \in [FeeTokens -> Nat]
        BY <2>2, <2>4 DEF BooksOK, AccountsOK, MoneyOK
      <3> QED
        BY <2>2, <2>4, <3>1 DEF TreasuryKept
    <2>6. PICK f : f = settled_volume(cached(fr), t, a, ok)
      OBVIOUS
    <2>7. CurrentOK(f)
      <3>1. CurrentOK(fr)
        BY DEF CurrentOK
      <3> QED
        BY <2>6, <3>1, CachingKeepsRates, SettlingKeepsRates
    <2>8. fr' = settled_volume(f, u, a, ok)
      BY <1>3, <2>6 DEF batch_collect_fees
    <2> QED
      BY <2>4, <2>5, <2>7, <2>8, SettlingKeepsRates DEF CurrentOK
  <1>4. ASSUME NEW i \in FailedIds, NEW t \in Traders, NEW k \in FeeTokens, NEW a \in TradeAmounts,
               queue_failed_fee_collection(i, t, k, a)
        PROVE  RatesOK(fr') /\ BooksOK(fm') /\ TreasuryKept(fm, fm')
    <2>1. PICK x : x = [trader |-> t, token |-> k, amount |-> a, retries |-> 0]
      OBVIOUS
    <2>2. FailureOK(x)
      BY <2>1, CollectorConstants DEF FailureOK
    <2>3. fm' = [fm EXCEPT !.failed[i] = x] /\ fr' = fr
      BY <1>4, <2>1 DEF queue_failed_fee_collection
    <2>4. TermsOnly(fm, fm')
      BY <2>2, <2>3, FailedRewritten
    <2> QED
      BY <2>3, <2>4, TermsOnlyKeeps
  <1>5. ASSUME NEW i \in FailedIds, NEW ok, retry_failed_fee_collection(i, ok)
        PROVE  RatesOK(fr') /\ BooksOK(fm') /\ TreasuryKept(fm, fm')
    <2>1. PICK x : x = fm.failed[i]
      OBVIOUS
    <2>2. x.trader \in Traders /\ x.token \in FeeTokens
      BY <1>1, <1>5, <2>1 DEF TermsOK, FailureOK, retry_failed_fee_collection
    <2>3. PICK m : m = collected(fm, x.trader, x.token, x.amount)
      OBVIOUS
    <2>4. /\ Collectable(fm, x.trader, x.token, x.amount, ok)
          /\ fm' = [m EXCEPT !.failed[i] = NoFailure]
          /\ fr' = settled_volume(fr, x.trader, x.amount, ok)
      BY <1>5, <2>1, <2>3 DEF retry_failed_fee_collection
    <2>5. BooksOK(m) /\ TreasuryKept(fm, m)
      BY <1>1, <2>2, <2>3, <2>4, CollectedBooks
    <2>6. FailureOK(NoFailure)
      BY DEF FailureOK
    <2>7. TermsOnly(m, fm')
      BY <2>4, <2>5, <2>6, FailedRewritten
    <2>8. BooksOK(fm') /\ fm'.treasury = m.treasury
      BY <2>5, <2>7, TermsOnlyKeeps DEF TermsOnly, SameMoney
    <2> QED
      BY <2>4, <2>5, <2>8, SettlingKeepsRates DEF TreasuryKept, CurrentOK
  <1> QED
    BY <1>2, <1>3, <1>4, <1>5 DEF CollectStep

\* What a waterfall has left over is natural after every tier.
LeftOver(e, n, amount) == amount \in Nat
TakeTier(e, amount, i) == amount - Allocated(e[i], amount)
WaterfallFold == INSTANCE FoldTheorems WITH Op <- TakeTier, P <- LeftOver

\* The fields of the tiers.
LEMMA TiersTyped ==
    ASSUME NEW w, WaterfallOK(w)
    PROVE  \E n \in Nat : /\ DOMAIN w = 1..n
                          /\ \A i \in 1..n : /\ w[i].priority \in Nat /\ w[i].target \in Int
                                              /\ w[i].minimum \in Int
  <1> DEFINE Tiers == [priority : Nat, target : Int, minimum : Int]
  <1>1. w \in Seq(Tiers)
    BY DEF WaterfallOK
  <1>2. \A x \in Tiers : x.priority \in Nat /\ x.target \in Int /\ x.minimum \in Int
    OBVIOUS
  <1> HIDE DEF Tiers
  <1>3. Len(w) \in Nat /\ DOMAIN w = 1..Len(w) /\ \A i \in 1..Len(w) : w[i] \in Tiers
    BY <1>1
  <1> QED
    BY <1>2, <1>3

\* The tiers can be put in order of priority.
LEMMA PriorityOrder ==
    ASSUME NEW w, WaterfallOK(w)
    PROVE  ByPriority(w) \in [DOMAIN w -> DOMAIN w]
  <1>1. PICK n \in Nat : DOMAIN w = 1..n /\ \A i \in 1..n : w[i].priority \in Nat
    BY TiersTyped
  <1>2. IsFiniteSet(DOMAIN w) /\ Cardinality(DOMAIN w) = n
    <2>1. IsFiniteSet(1..n) /\ Cardinality(1..n) = n
      BY FS_Interval
    <2> QED
      BY <1>1, <2>1
  <1> DEFINE R == {x \in (1..n) \X (1..n) : Precedes(w, x[1], x[2])}
  <1>3. \A i, j \in 1..n : <<i, j>> \in R <=> Precedes(w, i, j)
    OBVIOUS
  <1> HIDE DEF R
  <1>4. StrictOrder(R, DOMAIN w)
    <2>1. \A i, j \in 1..n : i # j => Precedes(w, i, j) \/ Precedes(w, j, i)
      BY <1>1 DEF Precedes
    <2>2. \A i \in 1..n : ~ Precedes(w, i, i)
      BY <1>1 DEF Precedes
    <2>3. \A i, j, k \in 1..n : Precedes(w, i, j) /\ Precedes(w, j, k) => Precedes(w, i, k)
      BY <1>1 DEF Precedes
    <2> QED
      BY <1>1, <1>3, <2>1, <2>2, <2>3 DEF StrictOrder
  <1>5. PICK f \in [1..n -> 1..n] : \A i, j \in 1..n : i < j => <<f[i], f[j]>> \in R
    <2>1. \E f \in [1..Cardinality(DOMAIN w) -> DOMAIN w] :
             \A i, j \in 1..Cardinality(DOMAIN w) : i < j => <<f[i], f[j]>> \in R
      BY <1>2, <1>4, OrderExists
    <2> QED
      BY <1>1, <1>2, <2>1
  <1>6. \E order \in [DOMAIN w -> DOMAIN w] :
           \A i, j \in DOMAIN w : i < j => Precedes(w, order[i], order[j])
    <2>1. \A i, j \in 1..n : i < j => Precedes(w, f[i], f[j])
      BY <1>3, <1>5
    <2> QED
      BY <1>1, <1>5, <2>1
  <1> QED
    BY <1>6 DEF ByPriority

\* A waterfall hands out no more than it was given.
LEMMA WaterfallBounds ==
    ASSUME WaterfallOK(fm.waterfall), NEW total \in Nat
    PROVE  WaterfallTotal(total) \in Int /\ WaterfallTotal(total) <= total
  <1>1. PICK w : w = fm.waterfall
    OBVIOUS
  <1>2. PICK n \in Nat : DOMAIN w = 1..n /\ \A i \in 1..n : w[i].target \in Int /\ w[i].minimum \in Int
    BY <1>1, TiersTyped
  <1>3. PICK s : s = ByPriority(w)
    OBVIOUS
  <1>4. s \in [1..n -> 1..n]
    BY <1>1, <1>2, <1>3, PriorityOrder
  <1>5. LeftOver(w, 0, total)
    BY DEF LeftOver
  <1>6. ASSUME NEW i \in 1..n, NEW a, LeftOver(w, i - 1, a)
        PROVE  LeftOver(w, i, TakeTier(w, a, s[i]))
    <2>1. a \in Nat /\ w[s[i]].target \in Int /\ w[s[i]].minimum \in Int
      BY <1>2, <1>4, <1>6 DEF LeftOver
    <2> QED
      BY <2>1 DEF LeftOver, TakeTier, Allocated
  <1>7. DOMAIN s = 1..n
    BY <1>4
  <1>8. LeftOver(w, n, WaterfallFold!Folded(w, total, s))
    BY <1>5, <1>6, <1>7, WaterfallFold!FoldInduction
  <1>9. WaterfallTotal(total) = total - WaterfallFold!Folded(w, total, s)
    <2>1. WaterfallTotal(total)
            = total - WaterfallFold!Folded(fm.waterfall, total, ByPriority(fm.waterfall))
      BY DEF WaterfallTotal, WaterfallFold!Folded, TakeTier, FoldLeft, WaterfallFold!FoldLeft,
             MapThenFoldSet, WaterfallFold!MapThenFoldSet, Max, WaterfallFold!Max
    <2> QED
      BY <1>1, <1>3, <2>1
  <1>10. PICK z \in Nat : z = WaterfallFold!Folded(w, total, s)
    BY <1>8 DEF LeftOver
  <1> QED
    BY <1>9, <1>10

-----------------------------------------------------------------------------
\* The step relation of WithdrawalsWait.
WaitStep ==
    \A t \in FeeTokens, k \in Traders :
        fm'.treasury[t] < fm.treasury[t] /\ fm'.wallet[<<k, t>>] > fm.wallet[<<k, t>>] =>
           /\ fm.queued.at + FEE_DAY <= now
           /\ fm.queued.amount = fm.treasury[t] - fm'.treasury[t]
           /\ fm'.queued = NoQueue

\* A treasury that does not shrink pays nobody.
LEMMA KeptIsWait ==
    ASSUME BooksOK(fm), BooksOK(fm'), TreasuryKept(fm, fm')
    PROVE  WaitStep
  <1>1. fm.treasury \in [FeeTokens -> Nat] /\ fm'.treasury \in [FeeTokens -> Nat]
    BY DEF BooksOK, AccountsOK, MoneyOK
  <1>2. \A t \in FeeTokens : ~ (fm'.treasury[t] < fm.treasury[t])
    BY <1>1 DEF TreasuryKept
  <1> QED
    BY <1>2 DEF WaitStep

\* Calls on the treasury and the insurance fund that move no money.
LEMMA TreasuryTerms ==
    ASSUME BooksOK(fm), now \in Nat
    PROVE  /\ \A t, k, a : queue_withdrawal(t, k, a) /\ k \in FeeTokens => TermsOnly(fm, fm')
           /\ \A w \in Waterfalls : set_waterfall_config(w) => TermsOnly(fm, fm')
           /\ \A k : trigger_fee_forecast(k) => TermsOnly(fm, fm')
           /\ \A c : set_forecast_config(c) => TermsOnly(fm, fm')
           /\ \A bps \in Nat : set_revenue_share_rate_bps(bps) => TermsOnly(fm, fm')
           /\ \A bps \in Nat : set_max_rebate_bps(bps) => TermsOnly(fm, fm')
           /\ \A bps \in Nat : set_referral_fee_share(bps) => TermsOnly(fm, fm')
           /\ \A k, c : set_insurance_payout_cap(k, c) => TermsOnly(fm, fm')
  <1>1. DOMAIN fm = BookFields /\ TermsOK(fm) /\ fm.treasury \in [FeeTokens -> Nat]
    BY DEF BooksOK, AccountsOK, MoneyOK
  <1> USE DEF TermsOnly, SameMoney, TermsOK
  <1>2. ASSUME NEW t, NEW k \in FeeTokens, NEW a, queue_withdrawal(t, k, a)
        PROVE  TermsOnly(fm, fm')
    <2>1. PICK q : q = [token |-> k, to |-> t, amount |-> a, at |-> now]
      OBVIOUS
    <2>2. q.amount \in Nat /\ q.at \in Int
      BY <1>1, <1>2, <2>1 DEF queue_withdrawal
    <2>3. fm' = [fm EXCEPT !.queued = q]
      BY <1>2, <2>1 DEF queue_withdrawal
    <2> QED
      BY <1>1, <2>2, <2>3 DEF BookFields
  <1>3. ASSUME NEW w \in Waterfalls, set_waterfall_config(w)
        PROVE  TermsOnly(fm, fm')
    <2>1. WaterfallOK(w)
      BY CollectorConstants DEF WaterfallOK
    <2> QED
      BY <1>1, <1>3, <2>1 DEF set_waterfall_config, BookFields
  <1>4. ASSUME NEW k, trigger_fee_forecast(k)
        PROVE  TermsOnly(fm, fm')
    BY <1>1, <1>4 DEF trigger_fee_forecast, BookFields
  <1>5. ASSUME NEW c, set_forecast_config(c)
        PROVE  TermsOnly(fm, fm')
    BY <1>1, <1>5 DEF set_forecast_config, BookFields
  <1>6. ASSUME NEW bps \in Nat, bps <= 10000
        PROVE  bps \in Bps
    BY <1>6 DEF Bps
  <1>7. ASSUME NEW bps \in Nat, set_revenue_share_rate_bps(bps)
        PROVE  TermsOnly(fm, fm')
    BY <1>1, <1>6, <1>7 DEF set_revenue_share_rate_bps, BookFields
  <1>8. ASSUME NEW bps \in Nat, set_max_rebate_bps(bps)
        PROVE  TermsOnly(fm, fm')
    BY <1>1, <1>6, <1>8 DEF set_max_rebate_bps, BookFields
  <1>9. ASSUME NEW bps \in Nat, set_referral_fee_share(bps)
        PROVE  TermsOnly(fm, fm')
    BY <1>1, <1>6, <1>9 DEF set_referral_fee_share, BookFields
  <1>10. ASSUME NEW k, NEW c, set_insurance_payout_cap(k, c)
         PROVE  TermsOnly(fm, fm')
    BY <1>1, <1>10 DEF set_insurance_payout_cap, BookFields
  <1> QED
    BY <1>2, <1>3, <1>4, <1>5, <1>7, <1>8, <1>9, <1>10

\* A call after which the books are right and nobody was paid without waiting.
FairStep == BooksOK(fm') /\ WaitStep

\* The facts the following lemmas start from.
LEMMA MoneyFacts ==
    ASSUME NEW m, BooksOK(m)
    PROVE  /\ DOMAIN m = BookFields /\ TermsOK(m) /\ AccountsOK(m)
           /\ m.wallet \in [PerTrader -> Int] /\ m.held \in [FeeTokens -> Nat]
           /\ m.treasury \in [FeeTokens -> Nat] /\ m.pool \in [FeeTokens -> Nat]
           /\ m.insurance \in [FeeTokens -> Nat] /\ m.ownerless \in [FeeTokens -> Nat]
           /\ m.converted \in [FeeTokens -> Nat]
           /\ m.indexed = {t \in FeeTokens : m.pool[t] > 0}
  BY DEF BooksOK, AccountsOK, MoneyOK, Indexed

\* The index of pools stays right when a token's pool stays as it is.
LEMMA IndexStays ==
    ASSUME NEW m, BooksOK(m), NEW k \in FeeTokens
    PROVE  m.indexed = IF m.pool[k] > 0 THEN m.indexed \cup {k} ELSE m.indexed \ {k}
  <1>1. k \in m.indexed <=> m.pool[k] > 0
    BY MoneyFacts
  <1> QED
    BY <1>1

\* The terms of a call that changes at most the queued withdrawal.
LEMMA TermsSame ==
    ASSUME NEW m, TermsOK(m), NEW n, SameTerms(m, n), n.daily = m.daily, n.rebated = m.rebated,
           n.queued = m.queued \/ n.queued = NoQueue, n.failed = m.failed
    PROVE  TermsOK(n)
  <1>1. NoQueue.amount = 0 /\ NoQueue.at = -1
    BY DEF NoQueue, NoTime
  <1>2. n.queued.amount \in Nat /\ n.queued.at \in Int
    BY <1>1 DEF TermsOK
  <1>3. /\ n.daily \in [PerDay -> Int] /\ n.rebated \in [PerDay -> Int]
        /\ DOMAIN n.failed = FailedIds /\ \A i \in FailedIds : FailureOK(n.failed[i])
    BY DEF TermsOK
  <1> QED
    BY <1>2, <1>3, TermsStay

\* A withdrawal takes from the treasury what was queued.
LEMMA WithdrawKeeps ==
    ASSUME BooksOK(fm), NEW u \in Traders, NEW k \in FeeTokens, NEW a,
           withdraw_treasury_fees(u, k, a)
    PROVE  FairStep
  <1>1. /\ DOMAIN fm = BookFields /\ TermsOK(fm) /\ AccountsOK(fm)
        /\ fm.wallet \in [PerTrader -> Int] /\ fm.held \in [FeeTokens -> Nat]
        /\ fm.treasury \in [FeeTokens -> Nat] /\ fm.pool \in [FeeTokens -> Nat]
        /\ fm.insurance \in [FeeTokens -> Nat] /\ fm.ownerless \in [FeeTokens -> Nat]
        /\ fm.converted \in [FeeTokens -> Nat]
    BY MoneyFacts
  <1>2. /\ fm.queued.amount = a /\ now >= fm.queued.at + FEE_DAY
        /\ a <= fm.treasury[k] /\ a <= fm.held[k]
        /\ fm' = [fm EXCEPT !.treasury[k] = @ - a, !.held[k] = @ - a,
                            !.wallet[<<u, k>>] = @ + a, !.queued = NoQueue]
    BY DEF withdraw_treasury_fees
  <1>3. a \in Nat
    BY <1>1, <1>2 DEF TermsOK
  <1>4. PICK n : n = fm'
    OBVIOUS
  <1>5. /\ DOMAIN n = BookFields
        /\ n.treasury = [fm.treasury EXCEPT ![k] = @ - a] /\ n.held = [fm.held EXCEPT ![k] = @ - a]
        /\ n.wallet = [fm.wallet EXCEPT ![<<u, k>>] = @ + a] /\ n.queued = NoQueue
        /\ n.pool = fm.pool /\ n.insurance = fm.insurance /\ n.ownerless = fm.ownerless
        /\ n.pending = fm.pending /\ n.indexed = fm.indexed /\ n.converted = fm.converted
    BY <1>1, <1>2, <1>4 DEF BookFields
  <1>6. /\ SameTerms(fm, n) /\ n.daily = fm.daily /\ n.rebated = fm.rebated
        /\ n.failed = fm.failed
    BY <1>1, <1>2, <1>4 DEF SameTerms, BookFields
  <1>7. TermsOK(n)
    BY <1>1, <1>5, <1>6, TermsSame
  <1>8. PICK h, t, p, i, x : /\ h = fm.held[k] /\ t = fm.treasury[k] /\ p = fm.pool[k]
                             /\ i = fm.insurance[k] /\ x = fm.ownerless[k]
    OBVIOUS
  <1>9. h \in Nat /\ t \in Nat /\ p \in Nat /\ i \in Nat /\ x \in Nat
    BY <1>1, <1>8
  <1>10. MovesAt(fm, n, k, h - a, t - a, p, i, x)
    BY <1>1, <1>5, <1>8 DEF MovesAt
  <1>11. /\ h - a \in Nat /\ t - a \in Nat
         /\ (h - a) - h = ((t - a) - t) + (p - p) + (i - i) + (x - x)
    BY <1>2, <1>3, <1>8, <1>9
  <1>12. n.wallet \in [PerTrader -> Int]
    BY <1>1, <1>3, <1>5 DEF PerTrader
  <1>13. n.indexed = IF p > 0 THEN fm.indexed \cup {k} ELSE fm.indexed \ {k}
    BY <1>5, <1>8, IndexStays
  <1>14. AccountsOK(n)
    BY <1>1, <1>5, <1>8, <1>9, <1>10, <1>11, <1>12, <1>13, MoveKeepsAccounts
  <1>15. ASSUME NEW s \in FeeTokens, n.treasury[s] < fm.treasury[s]
         PROVE  s = k /\ fm.queued.amount = fm.treasury[s] - n.treasury[s]
    <2>1. s = k
      BY <1>1, <1>5, <1>15
    <2>2. n.treasury[k] = t - a
      BY <1>1, <1>5, <1>8
    <2> QED
      BY <1>2, <1>3, <1>8, <1>9, <2>1, <2>2
  <1>16. fm.queued.at + FEE_DAY <= now
    BY <1>2
  <1>17. WaitStep
    BY <1>4, <1>5, <1>15, <1>16 DEF WaitStep
  <1> QED
    BY <1>4, <1>7, <1>14, <1>17 DEF FairStep, BooksOK

\* A call that leaves the wallets alone pays nobody.
LEMMA NobodyPaid ==
    ASSUME BooksOK(fm), fm'.wallet = fm.wallet
    PROVE  WaitStep
  <1>1. \A t \in FeeTokens, k \in Traders : fm.wallet[<<k, t>>] \in Int
    BY MoneyFacts DEF PerTrader
  <1>2. ASSUME NEW t \in FeeTokens, NEW k \in Traders
        PROVE  ~ (fm'.wallet[<<k, t>>] > fm.wallet[<<k, t>>])
    <2>1. PICK x \in Int : x = fm.wallet[<<k, t>>] /\ x = fm'.wallet[<<k, t>>]
      BY <1>1
    <2> QED
      BY <2>1
  <1> QED
    BY <1>2 DEF WaitStep

\* A call that moves money within one token and books it.
LEMMA MoveIsFair ==
    ASSUME BooksOK(fm), DOMAIN fm' = BookFields, TermsOK(fm'), NEW k \in FeeTokens,
           NEW held \in Nat, NEW treasury \in Nat, NEW pool \in Nat, NEW insurance \in Nat,
           NEW ownerless \in Nat,
           MovesAt(fm, fm', k, held, treasury, pool, insurance, ownerless),
           held - fm.held[k] = (treasury - fm.treasury[k]) + (pool - fm.pool[k])
                               + (insurance - fm.insurance[k]) + (ownerless - fm.ownerless[k]),
           fm'.wallet \in [PerTrader -> Int],
           fm'.indexed = IF pool > 0 THEN fm.indexed \cup {k} ELSE fm.indexed \ {k},
           treasury = fm.treasury[k] \/ fm'.wallet = fm.wallet
    PROVE  FairStep
  <1>1. AccountsOK(fm) /\ fm.treasury \in [FeeTokens -> Nat]
    BY MoneyFacts
  <1>2. PICK n : n = fm'
    OBVIOUS
  <1>3. AccountsOK(n)
    BY <1>1, <1>2, MoveKeepsAccounts
  <1>4. BooksOK(fm')
    BY <1>2, <1>3 DEF BooksOK
  <1>5. CASE treasury = fm.treasury[k]
    <2>1. \A t \in FeeTokens : fm'.treasury[t] = fm.treasury[t] /\ fm.treasury[t] \in Nat
      BY <1>1, <1>5 DEF MovesAt
    <2>2. TreasuryKept(fm, fm')
      BY <2>1 DEF TreasuryKept
    <2> QED
      BY <1>4, <2>2, KeptIsWait DEF FairStep
  <1>6. CASE fm'.wallet = fm.wallet
    BY <1>4, <1>6, NobodyPaid DEF FairStep
  <1> QED
    BY <1>5, <1>6

\* The waterfall pays recipients outside the contract.
LEMMA DistributeKeeps ==
    ASSUME BooksOK(fm), NEW k \in FeeTokens, NEW total \in Int, distribute_waterfall(k, total)
    PROVE  FairStep
  <1>1. /\ DOMAIN fm = BookFields /\ TermsOK(fm)
        /\ fm.wallet \in [PerTrader -> Int] /\ fm.held \in [FeeTokens -> Nat]
        /\ fm.treasury \in [FeeTokens -> Nat] /\ fm.pool \in [FeeTokens -> Nat]
        /\ fm.insurance \in [FeeTokens -> Nat] /\ fm.ownerless \in [FeeTokens -> Nat]
        /\ fm.converted \in [FeeTokens -> Nat]
    BY MoneyFacts
  <1>2. PICK a : a = WaterfallTotal(total)
    OBVIOUS
  <1>3. /\ total > 0 /\ total <= fm.treasury[k] /\ a <= fm.held[k]
        /\ fm' = [fm EXCEPT !.treasury[k] = @ - a, !.held[k] = @ - a]
    BY <1>2 DEF distribute_waterfall
  <1>4. a \in Int /\ a <= total
    <2>1. WaterfallOK(fm.waterfall) /\ total \in Nat
      BY <1>1, <1>3 DEF TermsOK
    <2> QED
      BY <1>2, <2>1, WaterfallBounds
  <1>5. /\ DOMAIN fm' = BookFields
        /\ fm'.treasury = [fm.treasury EXCEPT ![k] = @ - a] /\ fm'.held = [fm.held EXCEPT ![k] = @ - a]
        /\ fm'.wallet = fm.wallet /\ fm'.pool = fm.pool /\ fm'.insurance = fm.insurance
        /\ fm'.ownerless = fm.ownerless /\ fm'.pending = fm.pending /\ fm'.indexed = fm.indexed
        /\ fm'.converted = fm.converted
    BY <1>1, <1>3 DEF BookFields
  <1>6. /\ SameTerms(fm, fm') /\ fm'.daily = fm.daily /\ fm'.rebated = fm.rebated
        /\ fm'.failed = fm.failed /\ fm'.queued = fm.queued
    BY <1>1, <1>3 DEF SameTerms, BookFields
  <1>7. TermsOK(fm')
    BY <1>1, <1>6, TermsSame
  <1>8. PICK h, t, p, i, x : /\ h = fm.held[k] /\ t = fm.treasury[k] /\ p = fm.pool[k]
                             /\ i = fm.insurance[k] /\ x = fm.ownerless[k]
    OBVIOUS
  <1>9. h \in Nat /\ t \in Nat /\ p \in Nat /\ i \in Nat /\ x \in Nat
    BY <1>1, <1>8
  <1>10. MovesAt(fm, fm', k, h - a, t - a, p, i, x)
    BY <1>1, <1>5, <1>8 DEF MovesAt
  <1>11. /\ h - a \in Nat /\ t - a \in Nat
         /\ (h - a) - h = ((t - a) - t) + (p - p) + (i - i) + (x - x)
    BY <1>3, <1>4, <1>8, <1>9
  <1>12. fm'.indexed = IF p > 0 THEN fm.indexed \cup {k} ELSE fm.indexed \ {k}
    BY <1>5, <1>8, IndexStays
  <1> QED
    BY <1>1, <1>5, <1>7, <1>8, <1>9, <1>10, <1>11, <1>12, MoveIsFair

\* A snapshot writes a pool off.
LEMMA SnapshotKeeps ==
    ASSUME BooksOK(fm), NEW k \in FeeTokens, trigger_revenue_share_snapshot(k)
    PROVE  FairStep
  <1>1. /\ DOMAIN fm = BookFields /\ TermsOK(fm)
        /\ fm.wallet \in [PerTrader -> Int] /\ fm.held \in [FeeTokens -> Nat]
        /\ fm.treasury \in [FeeTokens -> Nat] /\ fm.pool \in [FeeTokens -> Nat]
        /\ fm.insurance \in [FeeTokens -> Nat] /\ fm.ownerless \in [FeeTokens -> Nat]
        /\ fm.converted \in [FeeTokens -> Nat]
    BY MoneyFacts
  <1>2. fm' = [fm EXCEPT !.ownerless[k] = @ + fm.pool[k], !.pool[k] = 0,
                         !.indexed = @ \ {k}, !.snapshot = seq]
    BY DEF trigger_revenue_share_snapshot
  <1>3. /\ DOMAIN fm' = BookFields
        /\ fm'.ownerless = [fm.ownerless EXCEPT ![k] = @ + fm.pool[k]]
        /\ fm'.pool = [fm.pool EXCEPT ![k] = 0] /\ fm'.indexed = fm.indexed \ {k}
        /\ fm'.wallet = fm.wallet /\ fm'.treasury = fm.treasury /\ fm'.insurance = fm.insurance
        /\ fm'.held = fm.held /\ fm'.pending = fm.pending /\ fm'.converted = fm.converted
    BY <1>1, <1>2 DEF BookFields
  <1>4. /\ SameTerms(fm, fm') /\ fm'.daily = fm.daily /\ fm'.rebated = fm.rebated
        /\ fm'.failed = fm.failed /\ fm'.queued = fm.queued
    BY <1>1, <1>2 DEF SameTerms, BookFields
  <1>5. TermsOK(fm')
    BY <1>1, <1>4, TermsSame
  <1>6. PICK h, t, p, i, x : /\ h = fm.held[k] /\ t = fm.treasury[k] /\ p = fm.pool[k]
                             /\ i = fm.insurance[k] /\ x = fm.ownerless[k]
    OBVIOUS
  <1>7. h \in Nat /\ t \in Nat /\ p \in Nat /\ i \in Nat /\ x \in Nat
    BY <1>1, <1>6
  <1>8. MovesAt(fm, fm', k, h, t, 0, i, x + p)
    BY <1>1, <1>3, <1>6 DEF MovesAt
  <1>9. /\ x + p \in Nat /\ 0 \in Nat /\ ~ (0 > 0)
        /\ h - h = (t - t) + (0 - p) + (i - i) + ((x + p) - x)
    BY <1>7
  <1> QED
    BY <1>1, <1>3, <1>5, <1>6, <1>7, <1>8, <1>9, MoveIsFair

\* The insurance fund takes a deposit ...
LEMMA InsuranceDepositKeeps ==
    ASSUME BooksOK(fm), NEW u \in Traders, NEW k \in FeeTokens, NEW a,
           deposit_insurance_fund(u, k, a)
    PROVE  FairStep
  <1>1. /\ DOMAIN fm = BookFields /\ TermsOK(fm)
        /\ fm.wallet \in [PerTrader -> Int] /\ fm.held \in [FeeTokens -> Nat]
        /\ fm.treasury \in [FeeTokens -> Nat] /\ fm.pool \in [FeeTokens -> Nat]
        /\ fm.insurance \in [FeeTokens -> Nat] /\ fm.ownerless \in [FeeTokens -> Nat]
        /\ fm.converted \in [FeeTokens -> Nat]
    BY MoneyFacts
  <1>2. /\ a \in 1..fm.wallet[<<u, k>>]
        /\ fm' = [fm EXCEPT !.wallet[<<u, k>>] = @ - a, !.held[k] = @ + a, !.insurance[k] = @ + a]
    BY DEF deposit_insurance_fund
  <1>3. a \in Nat /\ fm.wallet[<<u, k>>] \in Int /\ <<u, k>> \in PerTrader
    <2>1. <<u, k>> \in PerTrader
      BY DEF PerTrader
    <2>2. fm.wallet[<<u, k>>] \in Int
      BY <1>1, <2>1
    <2> QED
      BY <1>2, <2>1, <2>2
  <1>4. /\ DOMAIN fm' = BookFields
        /\ fm'.wallet = [fm.wallet EXCEPT ![<<u, k>>] = @ - a]
        /\ fm'.held = [fm.held EXCEPT ![k] = @ + a]
        /\ fm'.insurance = [fm.insurance EXCEPT ![k] = @ + a]
        /\ fm'.treasury = fm.treasury /\ fm'.pool = fm.pool
        /\ fm'.ownerless = fm.ownerless /\ fm'.pending = fm.pending /\ fm'.indexed = fm.indexed
        /\ fm'.converted = fm.converted
    BY <1>1, <1>2 DEF BookFields
  <1>5. /\ SameTerms(fm, fm') /\ fm'.daily = fm.daily /\ fm'.rebated = fm.rebated
        /\ fm'.failed = fm.failed /\ fm'.queued = fm.queued
    BY <1>1, <1>2 DEF SameTerms, BookFields
  <1>6. TermsOK(fm')
    BY <1>1, <1>5, TermsSame
  <1>7. PICK h, t, p, i, x : /\ h = fm.held[k] /\ t = fm.treasury[k] /\ p = fm.pool[k]
                             /\ i = fm.insurance[k] /\ x = fm.ownerless[k]
    OBVIOUS
  <1>8. h \in Nat /\ t \in Nat /\ p \in Nat /\ i \in Nat /\ x \in Nat
    BY <1>1, <1>7
  <1>9. MovesAt(fm, fm', k, h + a, t, p, i + a, x)
    BY <1>1, <1>4, <1>7 DEF MovesAt
  <1>10. /\ h + a \in Nat /\ i + a \in Nat
         /\ (h + a) - h = (t - t) + (p - p) + ((i + a) - i) + (x - x)
    BY <1>3, <1>8
  <1>11. fm'.wallet \in [PerTrader -> Int]
    BY <1>1, <1>3, <1>4
  <1>12. fm'.indexed = IF p > 0 THEN fm.indexed \cup {k} ELSE fm.indexed \ {k}
    BY <1>4, <1>7, IndexStays
  <1> QED
    BY <1>4, <1>6, <1>7, <1>8, <1>9, <1>10, <1>11, <1>12, MoveIsFair

\* ... and pays a claim.
LEMMA InsurancePayoutKeeps ==
    ASSUME BooksOK(fm), NEW u \in Traders, NEW k \in FeeTokens, NEW a \in Int, NEW c,
           payout_insurance(u, k, a, c)
    PROVE  FairStep
  <1>1. /\ DOMAIN fm = BookFields /\ TermsOK(fm)
        /\ fm.wallet \in [PerTrader -> Int] /\ fm.held \in [FeeTokens -> Nat]
        /\ fm.treasury \in [FeeTokens -> Nat] /\ fm.pool \in [FeeTokens -> Nat]
        /\ fm.insurance \in [FeeTokens -> Nat] /\ fm.ownerless \in [FeeTokens -> Nat]
        /\ fm.converted \in [FeeTokens -> Nat]
    BY MoneyFacts
  <1>2. /\ a > 0 /\ a <= fm.insurance[k] /\ a <= fm.held[k]
        /\ fm' = [fm EXCEPT !.insurance[k] = @ - a, !.held[k] = @ - a,
                            !.wallet[<<u, k>>] = @ + a, !.claims = @ \cup {c}]
    BY DEF payout_insurance
  <1>3. <<u, k>> \in PerTrader
    BY DEF PerTrader
  <1>4. /\ DOMAIN fm' = BookFields
        /\ fm'.wallet = [fm.wallet EXCEPT ![<<u, k>>] = @ + a]
        /\ fm'.held = [fm.held EXCEPT ![k] = @ - a]
        /\ fm'.insurance = [fm.insurance EXCEPT ![k] = @ - a]
        /\ fm'.treasury = fm.treasury /\ fm'.pool = fm.pool
        /\ fm'.ownerless = fm.ownerless /\ fm'.pending = fm.pending /\ fm'.indexed = fm.indexed
        /\ fm'.converted = fm.converted
    BY <1>1, <1>2 DEF BookFields
  <1>5. /\ SameTerms(fm, fm') /\ fm'.daily = fm.daily /\ fm'.rebated = fm.rebated
        /\ fm'.failed = fm.failed /\ fm'.queued = fm.queued
    BY <1>1, <1>2 DEF SameTerms, BookFields
  <1>6. TermsOK(fm')
    BY <1>1, <1>5, TermsSame
  <1>7. PICK h, t, p, i, x : /\ h = fm.held[k] /\ t = fm.treasury[k] /\ p = fm.pool[k]
                             /\ i = fm.insurance[k] /\ x = fm.ownerless[k]
    OBVIOUS
  <1>8. h \in Nat /\ t \in Nat /\ p \in Nat /\ i \in Nat /\ x \in Nat
    BY <1>1, <1>7
  <1>9. MovesAt(fm, fm', k, h - a, t, p, i - a, x)
    BY <1>1, <1>4, <1>7 DEF MovesAt
  <1>10. /\ h - a \in Nat /\ i - a \in Nat
         /\ (h - a) - h = (t - t) + (p - p) + ((i - a) - i) + (x - x)
    BY <1>2, <1>7, <1>8
  <1>11. fm'.wallet \in [PerTrader -> Int]
    BY <1>1, <1>3, <1>4
  <1>12. fm'.indexed = IF p > 0 THEN fm.indexed \cup {k} ELSE fm.indexed \ {k}
    BY <1>4, <1>7, IndexStays
  <1> QED
    BY <1>4, <1>6, <1>7, <1>8, <1>9, <1>10, <1>11, <1>12, MoveIsFair

\* What a claim clears of a token.
TakenAt(m, p, k, t) == IF t = k THEN m.pending[<<p, k>>] ELSE 0

ClaimBalanced(m, n, p, k) ==
    \A t \in FeeTokens :
        n.held[t] - m.held[t] = (n.ownerless[t] - m.ownerless[t])
                                - (n.converted[t] - m.converted[t]) - TakenAt(m, p, k, t)

\* A claim balances when the tokens that leave are what it clears less what it leaves
\* without an owner, and what is paid in another token is what the claim was worth there.
LEMMA ClaimKeepsAccounts ==
    ASSUME NEW m, AccountsOK(m), NEW n, DOMAIN n = BookFields, NEW p \in Traders,
           NEW k \in FeeTokens, n.pending = [m.pending EXCEPT ![<<p, k>>] = 0],
           n.treasury = m.treasury, n.pool = m.pool, n.insurance = m.insurance,
           n.indexed = m.indexed, n.wallet \in [PerTrader -> Int],
           n.held \in [FeeTokens -> Nat], n.ownerless \in [FeeTokens -> Nat],
           n.converted \in [FeeTokens -> Nat], ClaimBalanced(m, n, p, k)
    PROVE  AccountsOK(n)
  <1>1. /\ m.pending \in [PerTrader -> Int] /\ m.held \in [FeeTokens -> Nat]
        /\ m.treasury \in [FeeTokens -> Nat] /\ m.pool \in [FeeTokens -> Nat]
        /\ m.insurance \in [FeeTokens -> Nat] /\ m.ownerless \in [FeeTokens -> Nat]
        /\ m.converted \in [FeeTokens -> Nat]
        /\ Indexed(m) /\ \A t \in FeeTokens : BalancedAt(m, t)
    BY DEF AccountsOK, MoneyOK
  <1>2. PICK rest : rest = n.pending
    OBVIOUS
  <1>3. /\ rest \in [PerTrader -> Int]
        /\ Owed(rest, k) = Owed(m.pending, k) - m.pending[<<p, k>>]
        /\ \A t \in FeeTokens \ {k} : Owed(rest, t) = Owed(m.pending, t)
    <2>1. PICK pending \in [PerTrader -> Int] : pending = m.pending
      BY <1>1
    <2>2. rest \in [PerTrader -> Int] /\ Cleared(pending, rest, p, k)
      BY <1>2, <2>1 DEF PerTrader, Cleared
    <2>3. /\ Owed(rest, k) = Owed(pending, k) - pending[<<p, k>>]
          /\ \A t \in FeeTokens \ {k} : Owed(rest, t) = Owed(pending, t)
      BY <2>2, OwedCleared
    <2> QED
      BY <2>1, <2>2, <2>3
  <1>4. MoneyOK(n)
    BY <1>1, <1>2, <1>3 DEF MoneyOK
  <1>5. Indexed(n)
    BY <1>1 DEF Indexed
  <1>6. ASSUME NEW t \in FeeTokens
        PROVE  BalancedAt(n, t)
    <2>1. PICK d : d = TakenAt(m, p, k, t)
      OBVIOUS
    <2>2. d \in Int
      BY <1>1, <2>1 DEF PerTrader, TakenAt
    <2>3. Owed(rest, t) = Owed(m.pending, t) - d /\ Owed(m.pending, t) \in Int
      <3>1. Owed(m.pending, t) \in Int
        BY <1>1, OwedType
      <3>2. CASE t = k
        BY <1>3, <2>1, <3>1, <3>2 DEF TakenAt
      <3>3. CASE t # k
        BY <1>3, <2>1, <3>1, <3>3 DEF TakenAt
      <3> QED
        BY <3>2, <3>3
    <2>4. n.held[t] - m.held[t] =
             (n.ownerless[t] - m.ownerless[t]) - (n.converted[t] - m.converted[t]) - d
      BY <2>1 DEF ClaimBalanced
    <2>5. PICK o, q : o = Owed(m.pending, t) /\ q = Owed(rest, t)
      OBVIOUS
    <2>6. m.held[t] = m.treasury[t] + m.pool[t] + m.insurance[t] + o + m.ownerless[t] - m.converted[t]
      BY <1>1, <2>5 DEF BalancedAt
    <2>7. /\ m.held[t] \in Int /\ m.treasury[t] \in Int /\ m.pool[t] \in Int
          /\ m.insurance[t] \in Int /\ m.ownerless[t] \in Int /\ n.held[t] \in Int
          /\ n.ownerless[t] \in Int /\ o \in Int /\ q = o - d
          /\ m.converted[t] \in Int /\ n.converted[t] \in Int
      BY <1>1, <2>3, <2>5
    <2>8. n.held[t] = m.treasury[t] + m.pool[t] + m.insurance[t] + q + n.ownerless[t] - n.converted[t]
      <3>1. PICK H, T, F, I, U, X, N, V, Y :
               /\ H = m.held[t] /\ T = m.treasury[t] /\ F = m.pool[t] /\ I = m.insurance[t]
               /\ U = m.ownerless[t] /\ X = m.converted[t] /\ N = n.held[t] /\ V = n.ownerless[t]
               /\ Y = n.converted[t]
        OBVIOUS
      <3>2. /\ H \in Int /\ T \in Int /\ F \in Int /\ I \in Int /\ U \in Int /\ X \in Int
            /\ N \in Int /\ V \in Int /\ Y \in Int /\ o \in Int /\ d \in Int /\ q = o - d
            /\ H = T + F + I + o + U - X /\ N - H = (V - U) - (Y - X) - d
        BY <2>2, <2>4, <2>6, <2>7, <3>1
      <3>3. N = T + F + I + q + V - Y
        BY <3>2
      <3> QED
        BY <3>1, <3>3
    <2> QED
      BY <1>2, <2>5, <2>8 DEF BalancedAt
  <1> QED
    BY <1>4, <1>5, <1>6 DEF AccountsOK

\* What a claim is worth, and what it is converted to.
LEMMA ClaimWorth ==
    ASSUME BooksOK(fm), now \in 0..MaxNow, NEW p \in Traders, NEW k \in FeeTokens,
           NEW rate \in ConversionRates
    PROVE  /\ ClaimAmount(p, k) \in Int
           /\ Converted(p, k, ClaimAmount(p, k), rate) \in Nat
           /\ Converted(p, k, ClaimAmount(p, k), rate) > 0 =>
                 /\ fm.currency[p] \in FeeTokens \ {k}
                 /\ Converted(p, k, ClaimAmount(p, k), rate) <= fm.held[fm.currency[p]]
                 /\ Converted(p, k, ClaimAmount(p, k), rate)
                       = (ClaimAmount(p, k) * rate) \div RATE_PRECISION
           /\ fm.pending[<<p, k>>] > 0 => FeeAtLeast(ClaimAmount(p, k), 0) <= fm.pending[<<p, k>>]
  <1>1. TermsOK(fm) /\ fm.pending \in [PerTrader -> Int] /\ fm.held \in [FeeTokens -> Nat]
    BY DEF BooksOK, AccountsOK, MoneyOK
  <1>2. PICK fees, x, cap : /\ fees = fm.daily[<<k, FeeToday>>] /\ x = fm.rebated[<<k, FeeToday>>]
                            /\ cap = fee_amount_floor(fees, fm.max_rebate)
    OBVIOUS
  <1>3. fees \in Int /\ x \in Int /\ fm.pending[<<p, k>>] \in Int
    BY <1>1, <1>2, TodayIsDay DEF TermsOK, PerDay, PerTrader
  <1>4. cap \in Int
    <2>1. fm.max_rebate \in Int
      <3>1. fm.max_rebate \in Bps
        BY <1>1 DEF TermsOK
      <3>2. Bps \subseteq Int
        BY DEF Bps
      <3> QED
        BY <3>1, <3>2
    <2>2. (fees * fm.max_rebate) \div 10000 \in Int
      BY <1>3, <2>1, QuotientType
    <2> QED
      BY <1>2, <2>2 DEF fee_amount_floor
  <1>5. ClaimAmount(p, k) = IF fees > 0 THEN FeeAtMost(fm.pending[<<p, k>>], cap - x)
                                        ELSE fm.pending[<<p, k>>]
    BY <1>2 DEF ClaimAmount
  <1>6. /\ ClaimAmount(p, k) \in Int
        /\ fm.pending[<<p, k>>] > 0 => FeeAtLeast(ClaimAmount(p, k), 0) <= fm.pending[<<p, k>>]
    <2>1. PICK a, d : a = ClaimAmount(p, k) /\ d = fm.pending[<<p, k>>]
      OBVIOUS
    <2>2. d \in Int /\ a = IF fees > 0 THEN FeeAtMost(d, cap - x) ELSE d
      BY <1>3, <1>5, <2>1
    <2>3. a \in Int /\ a <= d
      BY <1>3, <1>4, <2>2 DEF FeeAtMost
    <2>4. d > 0 => FeeAtLeast(a, 0) <= d
      BY <2>2, <2>3 DEF FeeAtLeast
    <2> QED
      BY <2>1, <2>3, <2>4
  <1>7. PICK a, v : a = ClaimAmount(p, k) /\ v = (a * rate) \div RATE_PRECISION
    OBVIOUS
  <1>8. v \in Int
    <2>1. rate \in Int /\ RATE_PRECISION \in Nat \ {0}
      BY CollectorConstants
    <2> QED
      BY <1>6, <1>7, <2>1, QuotientType
  <1>9. Converted(p, k, a, rate) =
           IF /\ a > 0 /\ fm.currency[p] \notin {NoToken, k}
              /\ fr.oracle /\ v > 0 /\ fm.held[fm.currency[p]] >= v
           THEN v ELSE 0
    BY <1>7 DEF Converted
  <1>10. fm.currency[p] \in FeeTokens \cup {NoToken}
    BY <1>1 DEF TermsOK
  <1>11. CASE Converted(p, k, a, rate) > 0
    <2>1. v > 0 /\ fm.currency[p] \notin {NoToken, k} /\ fm.held[fm.currency[p]] >= v
          /\ Converted(p, k, a, rate) = v
      BY <1>9, <1>11
    <2>2. fm.currency[p] \in FeeTokens \ {k}
      BY <1>10, <2>1
    <2>3. fm.held[fm.currency[p]] \in Nat
      BY <1>1, <2>2
    <2> QED
      BY <1>6, <1>7, <1>8, <2>1, <2>2, <2>3
  <1>12. CASE ~ (Converted(p, k, a, rate) > 0)
    <2>1. Converted(p, k, a, rate) = 0
      BY <1>8, <1>9, <1>12
    <2> QED
      BY <1>6, <1>7, <1>12, <2>1
  <1> QED
    BY <1>11, <1>12

\* What a claim leaves alone, and what it takes off the books before it pays.
ClaimTaken(n, p, k, paid) ==
    /\ DOMAIN n = BookFields /\ SameTerms(fm, n)
    /\ n.pending = [fm.pending EXCEPT ![<<p, k>>] = 0]
    /\ n.treasury = fm.treasury /\ n.pool = fm.pool /\ n.insurance = fm.insurance
    /\ n.indexed = fm.indexed /\ n.daily = fm.daily
    /\ n.rebated = [fm.rebated EXCEPT ![<<k, FeeToday>>] =
                        IF fm.daily[<<k, FeeToday>>] > 0 THEN @ + paid ELSE @]
    /\ n.queued = fm.queued /\ n.failed = fm.failed

\* A claim that is paid keeps the terms.
LEMMA ClaimKeepsTerms ==
    ASSUME BooksOK(fm), now \in 0..MaxNow, NEW n, NEW p \in Traders, NEW k \in FeeTokens,
           NEW paid \in Nat, ClaimTaken(n, p, k, paid)
    PROVE  TermsOK(n)
  <1>1. TermsOK(fm)
    BY DEF BooksOK
  <1>2. <<k, FeeToday>> \in PerDay
    BY TodayIsDay DEF PerDay
  <1>3. n.rebated \in [PerDay -> Int]
    <2>1. fm.rebated \in [PerDay -> Int]
      BY <1>1 DEF TermsOK
    <2>2. fm.rebated[<<k, FeeToday>>] \in Int
      BY <1>2, <2>1
    <2>3. PICK x : x = IF fm.daily[<<k, FeeToday>>] > 0 THEN fm.rebated[<<k, FeeToday>>] + paid
                       ELSE fm.rebated[<<k, FeeToday>>]
      OBVIOUS
    <2>4. x \in Int
      BY <2>2, <2>3
    <2>5. n.rebated = [fm.rebated EXCEPT ![<<k, FeeToday>>] = x]
      BY <2>3 DEF ClaimTaken
    <2> QED
      BY <2>1, <2>4, <2>5
  <1>4. /\ SameTerms(fm, n) /\ n.daily = fm.daily /\ n.queued = fm.queued /\ n.failed = fm.failed
    BY DEF ClaimTaken
  <1>5. /\ n.daily \in [PerDay -> Int] /\ n.queued.amount \in Nat /\ n.queued.at \in Int
        /\ DOMAIN n.failed = FailedIds /\ \A i \in FailedIds : FailureOK(n.failed[i])
    BY <1>1, <1>4 DEF TermsOK
  <1> QED
    BY <1>1, <1>3, <1>4, <1>5, TermsStay

PaidOut(m, n, h, w, u, x) ==
    n = [m EXCEPT !.held = h, !.wallet = w, !.ownerless = u, !.converted = x]

\* Paying a claim touches balances only.
LEMMA PaysOut ==
    ASSUME NEW m, NEW p, NEW k, NEW paid, ClaimTaken(m, p, k, paid), NEW h, NEW w, NEW u,
           NEW x, NEW n, PaidOut(m, n, h, w, u, x)
    PROVE  /\ ClaimTaken(n, p, k, paid) /\ n.held = h /\ n.wallet = w /\ n.ownerless = u
           /\ n.converted = x
  <1>1. DOMAIN m = BookFields
    BY DEF ClaimTaken
  <1>2. n.held = h /\ n.wallet = w /\ n.ownerless = u /\ n.converted = x
    BY <1>1 DEF BookFields, PaidOut
  <1> QED
    BY <1>1, <1>2 DEF ClaimTaken, SameTerms, BookFields, PaidOut

\* Claims come out of what was pending.
LEMMA ClaimKeeps ==
    ASSUME BooksOK(fm), now \in 0..MaxNow, NEW p \in Traders, NEW k \in FeeTokens,
           NEW rate \in ConversionRates, claim_fees(p, k, rate)
    PROVE  FairStep
  <1>1. /\ DOMAIN fm = BookFields /\ AccountsOK(fm)
        /\ fm.wallet \in [PerTrader -> Int] /\ fm.held \in [FeeTokens -> Nat]
        /\ fm.treasury \in [FeeTokens -> Nat] /\ fm.ownerless \in [FeeTokens -> Nat]
        /\ fm.converted \in [FeeTokens -> Nat] /\ fm.pending \in [PerTrader -> Int]
    BY MoneyFacts DEF AccountsOK, MoneyOK
  <1>2. PICK a, v, paid, o, c : /\ a = ClaimAmount(p, k) /\ v = Converted(p, k, a, rate)
                                /\ paid = FeeAtLeast(a, 0) /\ o = fm.currency[p]
                                /\ c = fm.pending[<<p, k>>]
    OBVIOUS
  <1>3. /\ a \in Int /\ v \in Nat
        /\ v > 0 => o \in FeeTokens \ {k} /\ v <= fm.held[o] /\ v = (a * rate) \div RATE_PRECISION
    BY <1>2, ClaimWorth
  <1>4. paid \in Nat /\ c \in Nat /\ paid <= c
    <2>1. c \in Int /\ c > 0
      BY <1>1, <1>2 DEF PerTrader, claim_fees
    <2>2. paid <= c
      BY <1>2, <2>1, ClaimWorth
    <2> QED
      BY <1>2, <1>3, <2>1, <2>2 DEF FeeAtLeast
  <1>5. PICK m : m = [fm EXCEPT !.pending[<<p, k>>] = 0,
                                !.rebated[<<k, FeeToday>>] =
                                    IF fm.daily[<<k, FeeToday>>] > 0 THEN @ + paid ELSE @]
    OBVIOUS
  <1>6. /\ ClaimTaken(m, p, k, paid) /\ m.held = fm.held /\ m.wallet = fm.wallet
        /\ m.ownerless = fm.ownerless /\ m.converted = fm.converted
    BY <1>1, <1>5 DEF ClaimTaken, SameTerms, BookFields
  <1>7. \/ /\ v > 0
           /\ fm' = [m EXCEPT !.held[o] = @ - v, !.wallet[<<p, o>>] = @ + v,
                              !.converted[o] = @ + v, !.ownerless[k] = @ + c]
        \/ /\ v = 0 /\ paid <= fm.held[k]
           /\ fm' = [m EXCEPT !.held[k] = @ - paid, !.wallet[<<p, k>>] = @ + paid,
                              !.ownerless[k] = @ + c - paid]
    <2>1. \/ /\ v > 0
             /\ fm' = [m EXCEPT !.held[o] = @ - v, !.wallet[<<p, o>>] = @ + v,
                                !.converted[o] = @ + (a * rate) \div RATE_PRECISION,
                                !.ownerless[k] = @ + c]
          \/ /\ v = 0 /\ paid <= fm.held[k]
             /\ fm' = [m EXCEPT !.held[k] = @ - paid, !.wallet[<<p, k>>] = @ + paid,
                                !.ownerless[k] = @ + c - paid]
      BY <1>2, <1>5 DEF claim_fees
    <2>2. v > 0 => (a * rate) \div RATE_PRECISION = v
      BY <1>3
    <2>3. CASE v > 0
      <3>1. (a * rate) \div RATE_PRECISION = v
        BY <2>2, <2>3
      <3>2. v # 0
        BY <1>3, <2>3
      <3> QED
        BY <2>1, <2>3, <3>1, <3>2
    <2>4. CASE ~ (v > 0)
      BY <2>1, <2>4
    <2> QED
      BY <2>3, <2>4
  <1>8. PICK n : n = fm'
    OBVIOUS
  <1>9. /\ ClaimTaken(n, p, k, paid)
        /\ \/ /\ v > 0
              /\ n.held = [fm.held EXCEPT ![o] = @ - v]
              /\ n.wallet = [fm.wallet EXCEPT ![<<p, o>>] = @ + v]
              /\ n.ownerless = [fm.ownerless EXCEPT ![k] = @ + c]
              /\ n.converted = [fm.converted EXCEPT ![o] = @ + v]
           \/ /\ v = 0 /\ paid <= fm.held[k]
              /\ n.held = [fm.held EXCEPT ![k] = @ - paid]
              /\ n.wallet = [fm.wallet EXCEPT ![<<p, k>>] = @ + paid]
              /\ n.ownerless = [fm.ownerless EXCEPT ![k] = @ + c - paid]
              /\ n.converted = fm.converted
    <2> DOMAIN m = BookFields
      BY <1>6 DEF ClaimTaken
    <2>1. CASE /\ v > 0
               /\ fm' = [m EXCEPT !.held[o] = @ - v, !.wallet[<<p, o>>] = @ + v,
                                  !.converted[o] = @ + v, !.ownerless[k] = @ + c]
      <3>1. PICK h, w, u, x : /\ h = [m.held EXCEPT ![o] = @ - v]
                              /\ w = [m.wallet EXCEPT ![<<p, o>>] = @ + v]
                              /\ u = [m.ownerless EXCEPT ![k] = @ + c]
                              /\ x = [m.converted EXCEPT ![o] = @ + v]
        OBVIOUS
      <3>2. PaidOut(m, n, h, w, u, x)
        BY <1>8, <2>1, <3>1 DEF PaidOut, BookFields
      <3>3. /\ ClaimTaken(n, p, k, paid) /\ n.held = h /\ n.wallet = w /\ n.ownerless = u
            /\ n.converted = x
        BY <1>6, <3>2, PaysOut
      <3> QED
        BY <1>6, <2>1, <3>1, <3>3
    <2>2. CASE /\ v = 0 /\ paid <= fm.held[k]
               /\ fm' = [m EXCEPT !.held[k] = @ - paid, !.wallet[<<p, k>>] = @ + paid,
                                  !.ownerless[k] = @ + c - paid]
      <3>1. PICK h, w, u, x : /\ h = [m.held EXCEPT ![k] = @ - paid]
                              /\ w = [m.wallet EXCEPT ![<<p, k>>] = @ + paid]
                              /\ u = [m.ownerless EXCEPT ![k] = @ + c - paid]
                              /\ x = m.converted
        OBVIOUS
      <3>2. PaidOut(m, n, h, w, u, x)
        BY <1>8, <2>2, <3>1 DEF PaidOut, BookFields
      <3>3. /\ ClaimTaken(n, p, k, paid) /\ n.held = h /\ n.wallet = w /\ n.ownerless = u
            /\ n.converted = x
        BY <1>6, <3>2, PaysOut
      <3> QED
        BY <1>6, <2>2, <3>1, <3>3
    <2> QED
      BY <1>7, <2>1, <2>2
  <1>10. /\ n.wallet \in [PerTrader -> Int] /\ n.held \in [FeeTokens -> Nat]
         /\ n.ownerless \in [FeeTokens -> Nat] /\ n.converted \in [FeeTokens -> Nat]
         /\ ClaimBalanced(fm, n, p, k)
    <2>1. CASE v > 0
      <3>1. o \in FeeTokens \ {k} /\ v <= fm.held[o]
        BY <1>3, <2>1
      <3>2. /\ n.held = [fm.held EXCEPT ![o] = @ - v]
            /\ n.wallet = [fm.wallet EXCEPT ![<<p, o>>] = @ + v]
            /\ n.ownerless = [fm.ownerless EXCEPT ![k] = @ + c]
            /\ n.converted = [fm.converted EXCEPT ![o] = @ + v]
        BY <1>9, <2>1
      <3>3. n.held \in [FeeTokens -> Nat]
        BY <1>1, <1>3, <3>1, <3>2
      <3>4. n.wallet \in [PerTrader -> Int]
        BY <1>1, <1>3, <3>1, <3>2 DEF PerTrader
      <3>5. n.ownerless \in [FeeTokens -> Nat] /\ n.converted \in [FeeTokens -> Nat]
        BY <1>1, <1>3, <1>4, <3>1, <3>2
      <3>6. ASSUME NEW t \in FeeTokens
            PROVE  n.held[t] - fm.held[t] = (n.ownerless[t] - fm.ownerless[t])
                     - (n.converted[t] - fm.converted[t]) - TakenAt(fm, p, k, t)
        <4>1. PICK h, u, x \in Nat : h = fm.held[t] /\ u = fm.ownerless[t] /\ x = fm.converted[t]
          BY <1>1
        <4>2. CASE t = k
          <5>1. n.held[t] = h /\ n.ownerless[t] = u + c /\ n.converted[t] = x /\ TakenAt(fm, p, k, t) = c
            BY <1>1, <1>2, <3>1, <3>2, <4>1, <4>2 DEF TakenAt
          <5>2. h - h = ((u + c) - u) - (x - x) - c
            BY <1>4, <4>1
          <5> QED
            BY <4>1, <5>1, <5>2
        <4>3. CASE t = o
          <5>1. n.held[t] = h - v /\ n.ownerless[t] = u /\ n.converted[t] = x + v /\ TakenAt(fm, p, k, t) = 0
            BY <1>1, <3>1, <3>2, <4>1, <4>3 DEF TakenAt
          <5>2. (h - v) - h = (u - u) - ((x + v) - x) - 0
            BY <1>3, <4>1
          <5> QED
            BY <4>1, <5>1, <5>2
        <4>4. CASE t # k /\ t # o
          <5>1. n.held[t] = h /\ n.ownerless[t] = u /\ n.converted[t] = x /\ TakenAt(fm, p, k, t) = 0
            BY <1>1, <3>1, <3>2, <4>1, <4>4 DEF TakenAt
          <5>2. h - h = (u - u) - (x - x) - 0
            BY <4>1
          <5> QED
            BY <4>1, <5>1, <5>2
        <4> QED
          BY <4>2, <4>3, <4>4
      <3> QED
        BY <3>3, <3>4, <3>5, <3>6 DEF ClaimBalanced
    <2>2. CASE v = 0
      <3>1. paid <= fm.held[k] /\ fm.held[k] \in Nat
        BY <1>1, <1>9, <2>2
      <3>2. /\ n.held = [fm.held EXCEPT ![k] = @ - paid]
            /\ n.wallet = [fm.wallet EXCEPT ![<<p, k>>] = @ + paid]
            /\ n.ownerless = [fm.ownerless EXCEPT ![k] = @ + c - paid]
            /\ n.converted = fm.converted
        BY <1>9, <2>2
      <3>3. n.held \in [FeeTokens -> Nat]
        BY <1>1, <1>4, <3>1, <3>2
      <3>4. n.wallet \in [PerTrader -> Int]
        BY <1>1, <1>4, <3>2 DEF PerTrader
      <3>5. n.ownerless \in [FeeTokens -> Nat] /\ n.converted \in [FeeTokens -> Nat]
        <4>1. \A x \in Nat : x + c - paid \in Nat
          BY <1>4
        <4> QED
          BY <1>1, <3>2, <4>1
      <3>6. ASSUME NEW t \in FeeTokens
            PROVE  n.held[t] - fm.held[t] = (n.ownerless[t] - fm.ownerless[t])
                     - (n.converted[t] - fm.converted[t]) - TakenAt(fm, p, k, t)
        <4>1. PICK h, u, x \in Nat : h = fm.held[t] /\ u = fm.ownerless[t] /\ x = fm.converted[t]
          BY <1>1
        <4>2. CASE t = k
          <5>1. /\ n.held[t] = h - paid /\ n.ownerless[t] = u + c - paid /\ n.converted[t] = x
                /\ TakenAt(fm, p, k, t) = c
            BY <1>1, <1>2, <3>2, <4>1, <4>2 DEF TakenAt
          <5>2. (h - paid) - h = ((u + c - paid) - u) - (x - x) - c
            BY <1>4, <4>1
          <5> QED
            BY <4>1, <5>1, <5>2
        <4>3. CASE t # k
          <5>1. n.held[t] = h /\ n.ownerless[t] = u /\ n.converted[t] = x /\ TakenAt(fm, p, k, t) = 0
            BY <1>1, <3>2, <4>1, <4>3 DEF TakenAt
          <5>2. h - h = (u - u) - (x - x) - 0
            BY <4>1
          <5> QED
            BY <4>1, <5>1, <5>2
        <4> QED
          BY <4>2, <4>3
      <3> QED
        BY <3>3, <3>4, <3>5, <3>6 DEF ClaimBalanced
    <2> QED
      BY <1>3, <2>1, <2>2
  <1>11. AccountsOK(n)
    <2>1. /\ DOMAIN n = BookFields /\ n.pending = [fm.pending EXCEPT ![<<p, k>>] = 0]
          /\ n.treasury = fm.treasury /\ n.pool = fm.pool /\ n.insurance = fm.insurance
          /\ n.indexed = fm.indexed
      BY <1>9 DEF ClaimTaken
    <2> QED
      BY <1>1, <1>10, <2>1, ClaimKeepsAccounts
  <1>12. TermsOK(n)
    BY <1>4, <1>9, ClaimKeepsTerms
  <1>13. BooksOK(fm')
    BY <1>8, <1>11, <1>12 DEF BooksOK
  <1>14. TreasuryKept(fm, fm')
    <2>1. fm'.treasury = fm.treasury
      BY <1>8, <1>9 DEF ClaimTaken
    <2> QED
      BY <1>1, <2>1 DEF TreasuryKept
  <1> QED
    BY <1>13, <1>14, KeptIsWait DEF FairStep

\* Settings of providers and referrals move no money.
LEMMA ClaimTerms ==
    ASSUME BooksOK(fm)
    PROVE  /\ \A p \in Traders, k \in FeeTokens \cup {NoToken} :
                 set_payout_currency(p, k) => TermsOnly(fm, fm')
           /\ \A p, q \in Traders : register_referral(p, q) => TermsOnly(fm, fm')
           /\ \A p, q \in Traders : admin_override_referral(p, q) => TermsOnly(fm, fm')
  <1>1. DOMAIN fm = BookFields /\ TermsOK(fm)
    BY DEF BooksOK, AccountsOK
  <1> USE DEF TermsOnly, SameMoney, TermsOK
  <1>2. ASSUME NEW p \in Traders, NEW k \in FeeTokens \cup {NoToken}, set_payout_currency(p, k)
        PROVE  TermsOnly(fm, fm')
    BY <1>1, <1>2 DEF set_payout_currency, BookFields
  <1>3. ASSUME NEW p \in Traders, NEW q \in Traders, fm' = [fm EXCEPT !.referrer[q] = p]
        PROVE  TermsOnly(fm, fm')
    BY <1>1, <1>3 DEF BookFields
  <1> QED
    BY <1>2, <1>3 DEF register_referral, admin_override_referral

\* A call that moves no money is fair.
LEMMA TermsOnlyFair ==
    ASSUME BooksOK(fm), TermsOnly(fm, fm')
    PROVE  FairStep
  <1>1. BooksOK(fm') /\ TreasuryKept(fm, fm')
    BY TermsOnlyKeeps
  <1> QED
    BY <1>1, KeptIsWait DEF FairStep

\* Every call of providers and referrers is fair.
LEMMA ClaimStepFair ==
    ASSUME BooksOK(fm), now \in 0..MaxNow, ClaimStep
    PROVE  FairStep
  <1>1. ASSUME NEW p \in Traders, NEW k \in FeeTokens, set_payout_currency(p, k)
        PROVE  FairStep
    BY <1>1, ClaimTerms, TermsOnlyFair
  <1>2. ASSUME NEW p \in Traders, NEW k \in FeeTokens, NEW r \in ConversionRates, claim_fees(p, k, r)
        PROVE  FairStep
    BY <1>2, ClaimKeeps
  <1>3. ASSUME NEW p \in Traders, clear_payout_currency(p)
        PROVE  FairStep
    BY <1>3, ClaimTerms, TermsOnlyFair DEF clear_payout_currency
  <1>4. ASSUME NEW p \in Traders, NEW q \in Traders,
               register_referral(p, q) \/ admin_override_referral(p, q)
        PROVE  FairStep
    BY <1>4, ClaimTerms, TermsOnlyFair
  <1> QED
    BY <1>1, <1>2, <1>3, <1>4 DEF ClaimStep

\* Every call on the treasury, the shares and the insurance fund is fair.
LEMMA TreasuryStepFair ==
    ASSUME BooksOK(fm), now \in 0..MaxNow, TreasuryStep
    PROVE  FairStep
  <1>1. now \in Nat /\ ShareInputs \subseteq Nat /\ WithdrawAmounts \subseteq Int
        /\ InsuranceAmounts \subseteq Int
    BY CollectorConstants, ClockConstants
  <1>2. ASSUME NEW t \in Traders, NEW k \in FeeTokens, NEW a \in WithdrawAmounts,
               queue_withdrawal(t, k, a) \/ withdraw_treasury_fees(t, k, a)
        PROVE  FairStep
    BY <1>1, <1>2, TreasuryTerms, TermsOnlyFair, WithdrawKeeps
  <1>3. ASSUME NEW w \in Waterfalls, set_waterfall_config(w)
        PROVE  FairStep
    BY <1>1, <1>3, TreasuryTerms, TermsOnlyFair
  <1>4. ASSUME NEW k \in FeeTokens, NEW a \in WithdrawAmounts, distribute_waterfall(k, a)
        PROVE  FairStep
    BY <1>1, <1>4, DistributeKeeps
  <1>5. ASSUME NEW k \in FeeTokens, trigger_revenue_share_snapshot(k) \/ trigger_fee_forecast(k)
        PROVE  FairStep
    BY <1>1, <1>5, SnapshotKeeps, TreasuryTerms, TermsOnlyFair
  <1>6. ASSUME NEW c \in Forecasts, set_forecast_config(c)
        PROVE  FairStep
    BY <1>1, <1>6, TreasuryTerms, TermsOnlyFair
  <1>7. ASSUME NEW bps \in ShareInputs,
               \/ set_revenue_share_rate_bps(bps)
               \/ set_max_rebate_bps(bps)
               \/ set_referral_fee_share(bps)
        PROVE  FairStep
    BY <1>1, <1>7, TreasuryTerms, TermsOnlyFair
  <1>8. ASSUME NEW k \in FeeTokens, NEW c \in InsuranceCaps, set_insurance_payout_cap(k, c)
        PROVE  FairStep
    BY <1>1, <1>8, TreasuryTerms, TermsOnlyFair
  <1>9. ASSUME NEW t \in Traders, NEW k \in FeeTokens, NEW a \in InsuranceAmounts,
               deposit_insurance_fund(t, k, a)
        PROVE  FairStep
    BY <1>1, <1>9, InsuranceDepositKeeps
  <1>10. ASSUME NEW t \in Traders, NEW k \in FeeTokens, NEW a \in InsuranceAmounts,
                NEW c \in ClaimIds, payout_insurance(t, k, a, c)
         PROVE  FairStep
    BY <1>1, <1>10, InsurancePayoutKeeps
  <1> QED
    BY <1>2, <1>3, <1>4, <1>5, <1>6, <1>7, <1>8, <1>9, <1>10 DEF TreasuryStep

\* The first books balance: the tokens behind the pending claims are there.
LEMMA InitialBooksOK == BooksOK(InitialBooks)
  <1>1. PICK m : m = InitialBooks
    OBVIOUS
  <1>2. /\ FirstWallet \in Nat /\ FirstPending \in Nat /\ IsFiniteSet(Traders)
        /\ Cardinality(Traders) \in Nat
    BY CollectorConstants, FS_CardinalityType
  <1>3. PICK held : held = FirstPending * Cardinality(Traders)
    OBVIOUS
  <1>4. held \in Nat
    BY <1>2, <1>3
  <1>5. DOMAIN m = BookFields
    BY <1>1 DEF InitialBooks, BookFields
  <1>6. /\ m.wallet = [k \in PerTrader |-> FirstWallet]
        /\ m.pending = [k \in PerTrader |-> FirstPending]
        /\ m.held = [t \in FeeTokens |-> held]
        /\ m.treasury = [t \in FeeTokens |-> 0] /\ m.pool = [t \in FeeTokens |-> 0]
        /\ m.insurance = [t \in FeeTokens |-> 0] /\ m.ownerless = [t \in FeeTokens |-> 0]
        /\ m.converted = [t \in FeeTokens |-> 0] /\ m.indexed = {}
    BY <1>1, <1>3 DEF InitialBooks, PerTrader
  <1>7. MoneyOK(m) /\ Indexed(m)
    BY <1>2, <1>4, <1>6 DEF MoneyOK, Indexed
  <1>8. ASSUME NEW t \in FeeTokens
        PROVE  BalancedAt(m, t)
    <2>1. Claims(m.pending, t) = [p \in Traders |-> FirstPending]
      BY <1>6 DEF Claims, PerTrader
    <2>2. Owed(m.pending, t) = held
      BY <1>2, <1>3, <2>1, SumConstant DEF Owed
    <2> QED
      BY <1>4, <1>6, <2>2 DEF BalancedAt
  <1>9. /\ m.referrer = [t \in Traders |-> NoToken] /\ m.currency = [t \in Traders |-> NoToken]
        /\ m.referral_bps = 0 /\ m.revenue_bps = 2000 /\ m.max_rebate = 8000
        /\ m.daily = [k \in PerDay |-> 0] /\ m.rebated = [k \in PerDay |-> 0]
        /\ m.queued = NoQueue /\ m.failed = [i \in FailedIds |-> NoFailure] /\ m.waterfall = << >>
    BY <1>1 DEF InitialBooks, PerDay
  <1>10. m.referral_bps \in Bps /\ m.revenue_bps \in Bps /\ m.max_rebate \in Bps
    BY <1>9 DEF Bps
  <1>11. m.queued.amount \in Nat /\ m.queued.at \in Int
    BY <1>9 DEF NoQueue, NoTime
  <1>12. WaterfallOK(m.waterfall)
    BY <1>9 DEF WaterfallOK
  <1>13. TermsOK(m)
    BY <1>9, <1>10, <1>11, <1>12 DEF TermsOK, FailureOK
  <1> QED
    BY <1>1, <1>5, <1>7, <1>8, <1>13 DEF BooksOK, AccountsOK

-----------------------------------------------------------------------------
\* The earnings.

\* A list of n elements in their order.
ListsInOrder(f, n, R, S) ==
    /\ n = Cardinality(S) /\ f \in [1..n -> S]
    /\ \A i, j \in 1..n : i < j => <<f[i], f[j]>> \in R

\* A list of all of a finite set's places in such an order names each element once.
LEMMA OrderCovers ==
    ASSUME NEW S, IsFiniteSet(S), NEW R, StrictOrder(R, S), NEW n, NEW f,
           ListsInOrder(f, n, R, S)
    PROVE  /\ \A i, j \in 1..n : f[i] = f[j] => i = j
           /\ \A a \in S : \E i \in 1..n : f[i] = a
  <1>1. n \in Nat
    BY FS_CardinalityType DEF ListsInOrder
  <1>2. ASSUME NEW i \in 1..n, NEW j \in 1..n, f[i] = f[j]
        PROVE  i = j
    <2>1. <<f[i], f[j]>> \notin R /\ <<f[j], f[i]>> \notin R
      BY <1>2 DEF StrictOrder, ListsInOrder
    <2>2. ~ (i < j) /\ ~ (j < i)
      BY <2>1 DEF ListsInOrder
    <2> QED
      BY <2>2
  <1> DEFINE Named == {f[i] : i \in 1..n}
  <1>3. f \in Bijection(1..n, Named)
    <2>1. f \in [1..n -> Named]
      BY DEF ListsInOrder
    <2>2. f \in Injection(1..n, Named)
      BY <1>2, <2>1 DEF Injection, IsInjective
    <2>3. \A t \in Named : \E i \in 1..n : f[i] = t
      OBVIOUS
    <2> QED
      BY <2>1, <2>2, <2>3 DEF Bijection, Surjection, Injection
  <1>4. IsFiniteSet(1..n) /\ Cardinality(1..n) = n
    BY <1>1, FS_Interval
  <1>5. IsFiniteSet(Named) /\ Cardinality(Named) = n
    BY <1>3, <1>4, FS_Bijection DEF ExistsBijection
  <1>6. Named \in SUBSET S
    BY DEF ListsInOrder
  <1>7. Named = S
    BY <1>5, <1>6, FS_Subset DEF ListsInOrder
  <1> QED
    BY <1>2, <1>7

EarningFields == {"policy", "index", "daily", "first", "total"}
EarningDays == Traders \X FeeDays
EarnedOn(e, p) == [d \in FeeDays |-> e.daily[<<p, d>>]]

\* Nothing was earned before the first day or after today.
DaysOK(e, p, today) ==
    /\ e.first[p] <= today
    /\ \A d \in FeeDays : e.daily[<<p, d>>] # 0 => e.first[p] # NoTime /\ e.first[p] <= d /\ d <= today

ShareOK(e, p, today) ==
    /\ e.total[p] = SumFunctionOnSet(EarnedOn(e, p), FeeDays)
    /\ DaysOK(e, p, today)
    /\ e.total[p] > 0 => \E i \in DOMAIN e.index : e.index[i] = p

IndexOK(index) ==
    /\ index \in Seq(Traders)
    /\ \A i, j \in DOMAIN index : index[i] = index[j] => i = j

EarningsOK(e, today) ==
    /\ DOMAIN e = EarningFields
    /\ e.policy[1] \in Int
    /\ e.daily \in [EarningDays -> Nat] /\ e.total \in [Traders -> Nat]
    /\ e.first \in [Traders -> FeeDays \cup {NoTime}]
    /\ IndexOK(e.index)
    /\ \A p \in Traders : ShareOK(e, p, today)

\* The days are finitely many.
LEMMA DaysFinite == IsFiniteSet(FeeDays) /\ FeeDays \subseteq Nat
  <1>1. MaxNow \in Nat /\ FEE_DAY \in Nat \ {0}
    BY CollectorConstants, ClockConstants
  <1>2. MaxNow \div FEE_DAY \in Int
    BY <1>1
  <1> QED
    BY <1>2, FS_Interval DEF FeeDays

\* Nobody has earned anything at first.
LEMMA InitialEarningsOK ==
    ASSUME ReportsInit, NEW today \in Nat
    PROVE  EarningsOK(fe, today)
  <1>1. /\ DOMAIN fe = EarningFields /\ fe.policy = <<3000, 7000>> /\ fe.index = << >>
        /\ fe.daily = [k \in EarningDays |-> 0] /\ fe.first = [p \in Traders |-> NoTime]
        /\ fe.total = [p \in Traders |-> 0]
    BY DEF ReportsInit, EarningFields, EarningDays
  <1>2. fe.policy[1] \in Int
    BY <1>1
  <1>3. IndexOK(fe.index)
    BY <1>1 DEF IndexOK
  <1>4. ASSUME NEW p \in Traders
        PROVE  ShareOK(fe, p, today)
    <2>1. \A d \in FeeDays : fe.daily[<<p, d>>] = 0
      BY <1>1 DEF EarningDays
    <2>2. \A d \in FeeDays : EarnedOn(fe, p)[d] = 0
      BY <2>1 DEF EarnedOn
    <2>3. SumFunctionOnSet(EarnedOn(fe, p), FeeDays) = 0
      BY <2>2, DaysFinite, SumZero
    <2> QED
      BY <1>1, <2>1, <2>3 DEF ShareOK, DaysOK, NoTime
  <1> QED
    BY <1>1, <1>2, <1>3, <1>4 DEF EarningsOK

\* An entry of the index is made once.
LEMMA IndexGrows ==
    ASSUME NEW index, IndexOK(index), NEW p \in Traders, NEW n,
           n = add_provider_to_earnings_index(index, p)
    PROVE  /\ IndexOK(n) /\ \E i \in DOMAIN n : n[i] = p
           /\ \A q : (\E i \in DOMAIN index : index[i] = q) => \E i \in DOMAIN n : n[i] = q
  <1>1. CASE \E i \in DOMAIN index : index[i] = p
    BY <1>1 DEF add_provider_to_earnings_index
  <1>2. CASE ~ \E i \in DOMAIN index : index[i] = p
    <2>1. index \in Seq(Traders) /\ n = Append(index, p)
      BY <1>2 DEF add_provider_to_earnings_index, IndexOK
    <2>2. PICK l \in Nat : l = Len(index) /\ DOMAIN index = 1..l
      BY <2>1
    <2>3. /\ n \in Seq(Traders) /\ DOMAIN n = 1..(l + 1) /\ n[l + 1] = p
          /\ \A i \in 1..l : n[i] = index[i]
      BY <2>1, <2>2
    <2>4. ASSUME NEW i \in 1..(l + 1), NEW j \in 1..(l + 1), n[i] = n[j]
          PROVE  i = j
      <3>1. \A x \in 1..(l + 1) : x = l + 1 \/ x \in 1..l
        BY <2>2
      <3>2. CASE i \in 1..l /\ j \in 1..l
        BY <2>2, <2>3, <2>4, <3>2 DEF IndexOK
      <3>3. CASE i = l + 1 \/ j = l + 1
        BY <1>2, <2>2, <2>3, <2>4, <3>1, <3>3
      <3> QED
        BY <3>1, <3>2, <3>3
    <2>5. IndexOK(n)
      BY <2>3, <2>4 DEF IndexOK
    <2>6. \E i \in DOMAIN n : n[i] = p
      BY <2>2, <2>3
    <2>7. ASSUME NEW q, \E i \in DOMAIN index : index[i] = q
          PROVE  \E i \in DOMAIN n : n[i] = q
      <3>1. PICK i \in 1..l : index[i] = q
        BY <2>2, <2>7
      <3>2. i \in 1..(l + 1) /\ n[i] = q
        BY <2>2, <2>3, <3>1
      <3> QED
        BY <2>3, <3>2
    <2> QED
      BY <2>5, <2>6, <2>7
  <1> QED
    BY <1>1, <1>2

\* Earnings recorded for today keep the days, the totals and the index in step.
LEMMA EarningsRecorded ==
    ASSUME EarningsOK(fe, FeeToday), now \in 0..MaxNow, NEW p \in Traders, NEW a \in Int, a > 0,
           add_provider_daily_fee_shares(p, a)
    PROVE  EarningsOK(fe', FeeToday)
  <1>1. /\ DOMAIN fe = EarningFields /\ fe.policy[1] \in Int
        /\ fe.daily \in [EarningDays -> Nat] /\ fe.total \in [Traders -> Nat]
        /\ fe.first \in [Traders -> FeeDays \cup {NoTime}]
        /\ IndexOK(fe.index) /\ \A q \in Traders : ShareOK(fe, q, FeeToday)
    BY DEF EarningsOK
  <1>2. PICK t \in FeeDays : t = FeeToday
    BY TodayIsDay
  <1>3. PICK n : n = fe'
    OBVIOUS
  <1>4. /\ DOMAIN n = EarningFields /\ n.policy = fe.policy
        /\ n.daily = [fe.daily EXCEPT ![<<p, t>>] = @ + a]
        /\ n.total = [fe.total EXCEPT ![p] = @ + a]
        /\ n.first = [fe.first EXCEPT ![p] = IF @ = NoTime THEN t ELSE @]
        /\ n.index = add_provider_to_earnings_index(fe.index, p)
    BY <1>1, <1>2, <1>3 DEF add_provider_daily_fee_shares, EarningFields
  <1>5. n.daily \in [EarningDays -> Nat]
    BY <1>1, <1>4 DEF EarningDays
  <1>6. n.total \in [Traders -> Nat]
    BY <1>1, <1>4
  <1>7. n.first \in [Traders -> FeeDays \cup {NoTime}]
    BY <1>1, <1>4
  <1>8. /\ IndexOK(n.index) /\ \E i \in DOMAIN n.index : n.index[i] = p
        /\ \A q : (\E i \in DOMAIN fe.index : fe.index[i] = q) =>
                      \E i \in DOMAIN n.index : n.index[i] = q
    <2>1. PICK x, y : x = fe.index /\ y = n.index
      OBVIOUS
    <2>2. IndexOK(x) /\ y = add_provider_to_earnings_index(x, p)
      BY <1>1, <1>4, <2>1
    <2>3. /\ IndexOK(y) /\ \E i \in DOMAIN y : y[i] = p
          /\ \A q : (\E i \in DOMAIN x : x[i] = q) => \E i \in DOMAIN y : y[i] = q
      BY <2>2, IndexGrows
    <2> QED
      BY <2>1, <2>3, Zenon
  <1>9. ASSUME NEW q \in Traders \ {p}
        PROVE  ShareOK(n, q, t)
    <2>1. \A d \in FeeDays : n.daily[<<q, d>>] = fe.daily[<<q, d>>]
      BY <1>1, <1>4 DEF EarningDays
    <2>2. n.total[q] = fe.total[q] /\ n.first[q] = fe.first[q]
      BY <1>1, <1>4
    <2>3. EarnedOn(n, q) = EarnedOn(fe, q)
      BY <2>1 DEF EarnedOn
    <2>4. ShareOK(fe, q, t)
      BY <1>1, <1>2
    <2>5. DaysOK(n, q, t)
      BY <2>1, <2>2, <2>4 DEF ShareOK, DaysOK
    <2>6. n.total[q] > 0 => \E i \in DOMAIN n.index : n.index[i] = q
      BY <1>8, <2>2, <2>4 DEF ShareOK
    <2> QED
      BY <2>2, <2>3, <2>4, <2>5, <2>6 DEF ShareOK
  <1>10. ShareOK(n, p, t)
    <2>1. PICK f, g : f = EarnedOn(fe, p) /\ g = EarnedOn(n, p)
      OBVIOUS
    <2>2. \A d \in FeeDays : f[d] = fe.daily[<<p, d>>] /\ g[d] = n.daily[<<p, d>>]
      BY <2>1 DEF EarnedOn
    <2>3. ASSUME NEW d \in FeeDays
          PROVE  f[d] \in Int /\ g[d] \in Int
      <3>1. <<p, d>> \in EarningDays
        BY DEF EarningDays
      <3>2. fe.daily[<<p, d>>] \in Nat /\ n.daily[<<p, d>>] \in Nat
        BY <1>1, <1>5, <3>1
      <3> QED
        BY <2>2, <3>2
    <2>4. g[t] = f[t] + a
      BY <1>1, <1>4, <2>2 DEF EarningDays
    <2>5. ASSUME NEW d \in FeeDays \ {t}
          PROVE  g[d] = f[d]
      <3>1. <<p, d>> \in EarningDays /\ <<p, d>> # <<p, t>>
        BY DEF EarningDays
      <3>2. n.daily[<<p, d>>] = fe.daily[<<p, d>>]
        BY <1>1, <1>4, <3>1
      <3> QED
        BY <2>2, <3>2
    <2>6. SumFunctionOnSet(g, FeeDays) = SumFunctionOnSet(f, FeeDays) - f[t] + g[t]
      <3>1. /\ IsFiniteSet(FeeDays) /\ \A d \in FeeDays : f[d] \in Int /\ g[d] \in Int
            /\ \A d \in FeeDays \ {t} : g[d] = f[d]
        BY <2>3, <2>5, DaysFinite
      <3> QED
        BY <3>1, SumChanges
    <2>7. SumFunctionOnSet(f, FeeDays) \in Int
      BY <2>3, DaysFinite, SumType
    <2>8. ShareOK(fe, p, t)
      BY <1>1, <1>2
    <2>9. fe.total[p] = SumFunctionOnSet(f, FeeDays)
      BY <2>1, <2>8 DEF ShareOK
    <2>10. n.total[p] = fe.total[p] + a
      BY <1>1, <1>4
    <2>11. n.total[p] = SumFunctionOnSet(g, FeeDays)
      BY <2>3, <2>4, <2>6, <2>7, <2>9, <2>10
    <2>12. DaysOK(n, p, t)
      <3>7. fe.first[p] <= t
        BY <2>8 DEF ShareOK, DaysOK
      <3>8. n.first[p] <= t
        <4>1. n.first[p] = IF fe.first[p] = NoTime THEN t ELSE fe.first[p]
          BY <1>1, <1>4
        <4>2. t \in Nat
          BY DaysFinite
        <4> QED
          BY <3>7, <4>1, <4>2
      <3> SUFFICES ASSUME NEW d \in FeeDays, n.daily[<<p, d>>] # 0
                   PROVE  n.first[p] # NoTime /\ n.first[p] <= d /\ d <= t
        BY <3>8 DEF DaysOK
      <3>1. d \in Nat /\ t \in Nat /\ t # NoTime /\ t <= t
        BY DaysFinite DEF NoTime
      <3>2. n.first[p] = IF fe.first[p] = NoTime THEN t ELSE fe.first[p]
        BY <1>1, <1>4
      <3>3. fe.daily[<<p, d>>] # 0 => fe.first[p] # NoTime /\ fe.first[p] <= d /\ d <= t
        BY <2>8 DEF ShareOK, DaysOK
      <3>4. d # t => fe.daily[<<p, d>>] # 0
        BY <2>2, <2>5
      <3>5. CASE fe.first[p] = NoTime
        BY <3>1, <3>2, <3>3, <3>4, <3>5
      <3>6. CASE fe.first[p] # NoTime
        BY <3>1, <3>2, <3>3, <3>4, <3>6, <3>7
      <3> QED
        BY <3>5, <3>6
    <2> QED
      BY <1>8, <2>1, <2>11, <2>12 DEF ShareOK
  <1>11. \A q \in Traders : ShareOK(n, q, t)
    BY <1>9, <1>10
  <1> QED
    BY <1>1, <1>2, <1>3, <1>4, <1>5, <1>6, <1>7, <1>8, <1>11 DEF EarningsOK

\* Every call about earnings keeps them in step.
LEMMA EarningStepKeeps ==
    ASSUME EarningsOK(fe, FeeToday), now \in 0..MaxNow, EarningStep
    PROVE  EarningsOK(fe', FeeToday)
  <1>1. ASSUME NEW policy \in SplitInputs, set_fee_split_policy(policy)
        PROVE  EarningsOK(fe', FeeToday)
    <2>1. DOMAIN fe = EarningFields
      BY DEF EarningsOK
    <2>2. /\ DOMAIN fe' = EarningFields /\ fe'.policy = policy /\ fe'.daily = fe.daily
          /\ fe'.total = fe.total /\ fe'.first = fe.first /\ fe'.index = fe.index
      BY <1>1, <2>1 DEF set_fee_split_policy, EarningFields
    <2>3. policy[1] \in Int
      BY ReportConstants
    <2>4. ASSUME NEW p \in Traders
          PROVE  ShareOK(fe', p, FeeToday)
      <3>1. ShareOK(fe, p, FeeToday)
        BY DEF EarningsOK
      <3>2. EarnedOn(fe', p) = EarnedOn(fe, p)
        BY <2>2 DEF EarnedOn
      <3> QED
        BY <2>2, <3>1, <3>2 DEF ShareOK, DaysOK
    <2> QED
      BY <2>2, <2>3, <2>4 DEF EarningsOK
  <1>2. ASSUME NEW p \in Traders, NEW a \in EarningAmounts, record_provider_fee_share(p, a)
        PROVE  EarningsOK(fe', FeeToday)
    <2>1. a \in Int
      BY ReportConstants
    <2> QED
      BY <1>2, <2>1, EarningsRecorded DEF record_provider_fee_share
  <1>3. ASSUME NEW p \in Traders, NEW a \in EarningAmounts, record_provider_gross_fee_share(p, a)
        PROVE  EarningsOK(fe', FeeToday)
    <2>1. PICK x : x = split(fe.policy, a)[2]
      OBVIOUS
    <2>2. x \in Int
      <3>1. a \in Int /\ fe.policy[1] \in Int
        BY ReportConstants DEF EarningsOK
      <3>2. PICK q \in Int : q = (a * fe.policy[1]) \div BPS_TOTAL
        BY <3>1, QuotientType DEF BPS_TOTAL
      <3>3. x = a - q
        BY <2>1, <3>2 DEF split
      <3> QED
        BY <3>1, <3>2, <3>3
    <2>3. \/ x > 0 /\ add_provider_daily_fee_shares(p, x)
          \/ fe' = fe
      BY <1>3, <2>1 DEF record_provider_gross_fee_share
    <2>4. CASE x > 0 /\ add_provider_daily_fee_shares(p, x)
      BY <2>2, <2>4, EarningsRecorded
    <2>5. CASE fe' = fe
      BY <2>5
    <2> QED
      BY <2>3, <2>4, <2>5
  <1> QED
    BY <1>1, <1>2, <1>3 DEF EarningStep

\* The days so far stay the days so far as ledgers close.
LEMMA LaterDays ==
    ASSUME NEW e, NEW t \in Nat, EarningsOK(e, t), NEW u \in Nat, t <= u
    PROVE  EarningsOK(e, u)
  <1>1. ASSUME NEW p \in Traders
        PROVE  ShareOK(e, p, u)
    <2>1. ShareOK(e, p, t)
      BY DEF EarningsOK
    <2>2. e.first[p] \in FeeDays \cup {NoTime}
      BY DEF EarningsOK
    <2>3. e.first[p] \in Int
      BY <2>2, DaysFinite DEF NoTime
    <2>4. DaysOK(e, p, u)
      BY <2>1, <2>3, DaysFinite DEF ShareOK, DaysOK
    <2> QED
      BY <2>1, <2>4 DEF ShareOK
  <1> QED
    BY <1>1 DEF EarningsOK

\* The all-time report adds up to the total.
LEMMA ReportIsTotal ==
    ASSUME EarningsOK(fe, FeeToday), now \in 0..MaxNow, NEW p \in Traders
    PROVE  get_provider_earnings_report(p, NoTime) = fe.total[p]
  <1>1. PICK start : start = IF fe.first[p] = NoTime THEN FeeToday ELSE fe.first[p]
    OBVIOUS
  <1>2. PICK J : J = {d \in FeeDays : d \in start..FeeToday}
    OBVIOUS
  <1>3. PICK f : f = EarnedOn(fe, p)
    OBVIOUS
  <1>4. get_provider_earnings_report(p, NoTime) = SumFunctionOnSet(f, J)
    BY <1>1, <1>2, <1>3 DEF get_provider_earnings_report, sum_fee_shares_days, EarnedOn
  <1>5. ShareOK(fe, p, FeeToday) /\ fe.daily \in [EarningDays -> Nat]
        /\ fe.first[p] \in FeeDays \cup {NoTime}
    BY DEF EarningsOK
  <1>6. ASSUME NEW d \in FeeDays
        PROVE  f[d] = fe.daily[<<p, d>>] /\ f[d] \in Int
    <2>1. <<p, d>> \in EarningDays
      BY DEF EarningDays
    <2> QED
      BY <1>3, <1>5, <2>1 DEF EarnedOn
  <1>7. FeeToday \in Nat /\ start \in Nat
    BY <1>1, <1>5, TodayIsDay, DaysFinite
  <1>8. ASSUME NEW d \in FeeDays \ J
        PROVE  f[d] = 0
    <2>1. d \in Nat /\ f[d] = fe.daily[<<p, d>>]
      BY <1>6, DaysFinite
    <2>2. ~ (start <= d /\ d <= FeeToday)
      BY <1>2, <1>7, <2>1
    <2>3. fe.daily[<<p, d>>] # 0 => fe.first[p] # NoTime /\ fe.first[p] <= d /\ d <= FeeToday
      BY <1>5 DEF ShareOK, DaysOK
    <2> QED
      BY <1>1, <2>1, <2>2, <2>3
  <1>9. J \in SUBSET FeeDays /\ IsFiniteSet(FeeDays)
    BY <1>2, DaysFinite
  <1>10. SumFunctionOnSet(f, FeeDays) = SumFunctionOnSet(f, J)
    <2>1. \A d \in J : f[d] \in Int /\ f[d] = f[d]
      BY <1>6, <1>9
    <2>2. \A d \in FeeDays \ J : f[d] = 0
      BY <1>8
    <2> QED
      BY <1>9, <2>1, <2>2, SumRestricts
  <1> QED
    BY <1>3, <1>4, <1>5, <1>10 DEF ShareOK

\* The leaderboard names everyone with earnings once, best first.
LEMMA BoardIsRanking ==
    ASSUME EarningsOK(fe, FeeToday), NEW board, board = get_provider_earnings_leaderboard
    PROVE  /\ Range(board) = {p \in Traders : fe.total[p] > 0}
           /\ \A i, j \in DOMAIN board : i < j => board[i] # board[j]
                                                /\ fe.total[board[i]] >= fe.total[board[j]]
  <1> DEFINE worth(i) == fe.total[fe.index[i]]
             earners == {i \in DOMAIN fe.index : fe.total[fe.index[i]] > 0}
             better(i, j) == \/ fe.total[fe.index[i]] > fe.total[fe.index[j]]
                             \/ fe.total[fe.index[i]] = fe.total[fe.index[j]] /\ i < j
             n == Cardinality(earners)
             ranked(o) == \A x, y \in DOMAIN o : x < y => better(o[x], o[y])
             order == CHOOSE o \in [1..n -> earners] : ranked(o)
             R == {pair \in earners \X earners : better(pair[1], pair[2])}
  <1>1. fe.index \in Seq(Traders) /\ fe.total \in [Traders -> Nat]
        /\ \A i, j \in DOMAIN fe.index : fe.index[i] = fe.index[j] => i = j
    BY DEF EarningsOK, IndexOK
  <1>2. PICK l \in Nat : DOMAIN fe.index = 1..l
    BY <1>1
  <1>3. earners \in SUBSET (1..l) /\ IsFiniteSet(1..l)
    BY <1>2, FS_Interval
  <1>4. IsFiniteSet(earners)
    BY <1>3, FS_Subset
  <1>5. \A i \in earners : worth(i) \in Nat /\ i \in Nat /\ fe.index[i] \in Traders
    BY <1>1, <1>2
  <1>6. StrictOrder(R, earners)
    <2>1. \A i, j \in earners : <<i, j>> \in R <=> better(i, j)
      OBVIOUS
    <2>2. \A i, j \in earners : i # j => better(i, j) \/ better(j, i)
      BY <1>5
    <2>3. \A i \in earners : ~ better(i, i)
      BY <1>5
    <2>4. \A i, j, k \in earners : better(i, j) /\ better(j, k) => better(i, k)
      BY <1>5
    <2> HIDE DEF R, earners, better
    <2> QED
      BY <2>1, <2>2, <2>3, <2>4 DEF StrictOrder
  <1>7. \A i, j \in earners : <<i, j>> \in R <=> better(i, j)
    OBVIOUS
  <1>8. board = [k \in DOMAIN order |-> fe.index[order[k]]]
    BY DEF get_provider_earnings_leaderboard
  <1> HIDE DEF earners, R, better
  <1>9. \E o \in [1..n -> earners] : ranked(o)
    <2>1. PICK o \in [1..n -> earners] :
             \A x, y \in 1..n : x < y => <<o[x], o[y]>> \in R
      BY <1>4, <1>6, OrderExists
    <2>2. ranked(o)
      BY <1>7, <2>1
    <2> QED
      BY <2>2
  <1> HIDE DEF ranked
  <1>10. order \in [1..n -> earners] /\ ranked(order)
    BY <1>9
  <1> HIDE DEF order
  <1>11. \A x, y \in 1..n : x < y => better(order[x], order[y]) /\ <<order[x], order[y]>> \in R
    BY <1>7, <1>10 DEF ranked
  <1>12. /\ \A x, y \in 1..n : order[x] = order[y] => x = y
         /\ \A a \in earners : \E x \in 1..n : order[x] = a
    <2>1. PICK S, f, m : S = earners /\ f = order /\ m = n
      OBVIOUS
    <2>2. IsFiniteSet(S) /\ StrictOrder(R, S)
      BY <1>4, <1>6, <2>1
    <2>3. ListsInOrder(f, m, R, S)
      BY <1>10, <1>11, <2>1 DEF ListsInOrder
    <2>4. /\ \A x, y \in 1..m : f[x] = f[y] => x = y
          /\ \A a \in S : \E x \in 1..m : f[x] = a
      BY <2>2, <2>3, OrderCovers
    <2> QED
      BY <2>1, <2>4
  <1>13. DOMAIN board = 1..n /\ \A x \in 1..n : board[x] = fe.index[order[x]] /\ order[x] \in earners
    BY <1>8, <1>10
  <1>14. ASSUME NEW x \in 1..n, NEW y \in 1..n, x < y
         PROVE  board[x] # board[y] /\ fe.total[board[x]] >= fe.total[board[y]]
    <2>1. PICK i, j : i = order[x] /\ j = order[y]
      OBVIOUS
    <2>2. i \in earners /\ j \in earners /\ board[x] = fe.index[i] /\ board[y] = fe.index[j]
      BY <1>13, <2>1
    <2>3. i # j
      BY <1>12, <1>14, <2>1
    <2>4. better(i, j)
      BY <1>11, <1>14, <2>1
    <2>5. fe.index[i] # fe.index[j]
      BY <1>1, <2>2, <2>3 DEF earners
    <2>6. fe.total[fe.index[i]] >= fe.total[fe.index[j]]
      BY <1>5, <2>2, <2>4 DEF better
    <2> QED
      BY <2>2, <2>5, <2>6
  <1>15. Range(board) = {p \in Traders : fe.total[p] > 0}
    <2>1. ASSUME NEW x \in 1..n
          PROVE  board[x] \in Traders /\ fe.total[board[x]] > 0
      BY <1>5, <1>13 DEF earners
    <2>2. ASSUME NEW p \in Traders, fe.total[p] > 0
          PROVE  \E x \in 1..n : board[x] = p
      <3>1. PICK i \in DOMAIN fe.index : fe.index[i] = p
        BY <2>2 DEF EarningsOK, ShareOK
      <3>2. i \in earners
        BY <2>2, <3>1 DEF earners
      <3>3. PICK x \in 1..n : order[x] = i
        BY <1>12, <3>2
      <3> QED
        BY <1>13, <3>1, <3>3
    <2> QED
      BY <1>13, <2>1, <2>2 DEF Range
  <1> QED
    BY <1>13, <1>14, <1>15

-----------------------------------------------------------------------------
\* The fee collector.

FeesInv ==
    /\ now \in 0..MaxNow
    /\ RatesOK(fr) /\ BooksOK(fm) /\ EarningsOK(fe, FeeToday)

\* The collector starts with its defaults and the claims an earlier version left.
LEMMA FeesInitInv == FeesInit => FeesInv
  <1> SUFFICES ASSUME FeesInit
               PROVE  FeesInv
    OBVIOUS
  <1>1. now \in 0..MaxNow
    BY ClockConstants DEF FeesInit, ClockInit
  <1>2. FeeToday \in Nat
    BY <1>1, TodayIsDay, DaysFinite
  <1>3. RatesOK(fr) /\ BooksOK(fm)
    BY InitialRatesOK, InitialBooksOK DEF FeesInit, FeeRatesInit, CollectorInit
  <1>4. EarningsOK(fe, FeeToday)
    BY <1>2, InitialEarningsOK DEF FeesInit
  <1> QED
    BY <1>1, <1>3, <1>4 DEF FeesInv

\* What a call does to the books rests on a request of its own when it pays from the
\* treasury, and every step keeps the invariant.
LEMMA FeesNextInv == FeesInv /\ [FeesNext]_feesVars => FeesInv' /\ (fm' = fm \/ WaitStep)
  <1> SUFFICES ASSUME FeesInv, [FeesNext]_feesVars
               PROVE  FeesInv' /\ (fm' = fm \/ WaitStep)
    OBVIOUS
  <1>1. now \in 0..MaxNow /\ RatesOK(fr) /\ BooksOK(fm) /\ EarningsOK(fe, FeeToday)
    BY DEF FeesInv
  <1>2. ASSUME now' = now, RatesOK(fr'), BooksOK(fm'), EarningsOK(fe', FeeToday)
        PROVE  FeesInv'
    BY <1>1, <1>2 DEF FeesInv, FeeToday
  <1>3. CASE UNCHANGED clockVars /\ FeeSettingStep /\ UNCHANGED <<fm, fe>>
    BY <1>1, <1>2, <1>3, SettingKeepsRates DEF clockVars
  <1>4. CASE UNCHANGED clockVars /\ CollectStep /\ UNCHANGED fe
    <2>1. RatesOK(fr') /\ BooksOK(fm') /\ TreasuryKept(fm, fm')
      BY <1>1, <1>4, CollectKeeps
    <2>2. WaitStep
      BY <1>1, <2>1, KeptIsWait
    <2>3. now' = now /\ EarningsOK(fe', FeeToday)
      BY <1>1, <1>4 DEF clockVars
    <2> QED
      BY <1>2, <2>1, <2>2, <2>3
  <1>5. CASE UNCHANGED clockVars /\ (TreasuryStep \/ ClaimStep) /\ UNCHANGED <<fr, fe>>
    <2>1. FairStep
      BY <1>1, <1>5, TreasuryStepFair, ClaimStepFair
    <2>2. now' = now /\ RatesOK(fr') /\ EarningsOK(fe', FeeToday)
      BY <1>1, <1>5 DEF clockVars
    <2> QED
      BY <1>2, <2>1, <2>2 DEF FairStep
  <1>6. CASE UNCHANGED clockVars /\ EarningStep /\ UNCHANGED <<fr, fm>>
    <2>1. EarningsOK(fe', FeeToday)
      BY <1>1, <1>6, EarningStepKeeps
    <2>2. now' = now /\ RatesOK(fr') /\ BooksOK(fm') /\ fm' = fm
      BY <1>1, <1>6 DEF clockVars
    <2> QED
      BY <1>2, <2>1, <2>2
  <1>7. CASE CloseLedger /\ UNCHANGED <<fr, fm, fe>>
    <2>1. now' \in 0..MaxNow /\ now <= now'
      BY <1>1, <1>7, ClockConstants DEF CloseLedger
    <2>2. FEE_DAY \in Nat \ {0}
      BY CollectorConstants
    <2>3. \A a \in Nat, b \in Nat, d \in Nat \ {0} :
             a <= b => a \div d \in Nat /\ b \div d \in Nat /\ a \div d <= b \div d
      OBVIOUS
    <2>4. FeeToday \in Nat /\ FeeToday' \in Nat /\ FeeToday <= FeeToday'
      <3>1. now \in Nat /\ now' \in Nat
        BY <1>1, <2>1, ClockConstants
      <3>2. /\ now \div FEE_DAY \in Nat /\ now' \div FEE_DAY \in Nat
            /\ now \div FEE_DAY <= now' \div FEE_DAY
        BY <2>1, <2>2, <2>3, <3>1
      <3> QED
        BY <3>2 DEF FeeToday
    <2>5. EarningsOK(fe, FeeToday')
      BY <1>1, <2>4, LaterDays
    <2>6. fr' = fr /\ fm' = fm /\ fe' = fe
      BY <1>7
    <2> QED
      BY <1>1, <2>1, <2>5, <2>6 DEF FeesInv
  <1>8. CASE UNCHANGED feesVars
    BY <1>1, <1>2, <1>8 DEF feesVars, clockVars
  <1> QED
    BY <1>3, <1>4, <1>5, <1>6, <1>7, <1>8 DEF FeesNext

\* The invariant says what the runs check.
LEMMA FeesInvSound == FeesInv => FeesSound
  <1> SUFFICES ASSUME FeesInv
               PROVE  FeesSound
    OBVIOUS
  <1>1. now \in 0..MaxNow /\ RatesOK(fr) /\ BooksOK(fm) /\ EarningsOK(fe, FeeToday)
    BY DEF FeesInv
  <1>2. FeesAccounted
    <2>1. ASSUME NEW t \in FeeTokens
          PROVE  PendingOf(t) = Owed(fm.pending, t)
      BY DEF PendingOf, Owed, Claims
    <2>2. \A t \in FeeTokens : BalancedAt(fm, t)
      BY <1>1 DEF BooksOK, AccountsOK
    <2>3. /\ fm.held \in [FeeTokens -> Nat] /\ fm.treasury \in [FeeTokens -> Nat]
          /\ fm.pool \in [FeeTokens -> Nat] /\ fm.insurance \in [FeeTokens -> Nat]
          /\ fm.ownerless \in [FeeTokens -> Nat] /\ fm.converted \in [FeeTokens -> Nat]
      BY <1>1, MoneyFacts
    <2> QED
      BY <2>1, <2>2, <2>3 DEF FeesAccounted, BalancedAt
  <1>3. PoolIndexed
    BY <1>1, MoneyFacts DEF PoolIndexed
  <1>4. RatesBounded
    <2>1. load_tx_fee_config.at = fr.version => load_tx_fee_config.optimization = fr.optimization
      BY <1>1, LoadsEntry DEF EntryOK
    <2> QED
      BY <1>1, <2>1, RateInRange DEF RatesBounded, MIN_FEE_RATE_BPS, MAX_FEE_RATE_BPS
  <1>5. EarningsAgree
    <2>1. PICK board : board = get_provider_earnings_leaderboard
      OBVIOUS
    <2>2. \A p \in Traders : get_provider_earnings_report(p, NoTime) = fe.total[p]
      BY <1>1, ReportIsTotal
    <2>3. /\ Range(board) = {p \in Traders : fe.total[p] > 0}
          /\ \A i, j \in DOMAIN board : i < j => board[i] # board[j]
                                               /\ fe.total[board[i]] >= fe.total[board[j]]
      BY <1>1, <2>1, BoardIsRanking
    <2> QED
      BY <2>1, <2>2, <2>3 DEF EarningsAgree
  <1> QED
    BY <1>2, <1>3, <1>4, <1>5 DEF FeesSound

\* The collector's tokens are accounted for, the pool index, the reports and the ranking
\* agree with the books, and no rate leaves its range, for every number of traders,
\* tokens, days and cache slots, every setting the admin may try and every behaviour.
\* About fee_collector's lib.rs, storage.rs, fee_cache.rs and reports.rs.
THEOREM FeesSoundAlways == FeesSpec => []FeesSound
  <1>1. FeesInit => FeesInv
    BY FeesInitInv
  <1>2. FeesInv /\ [FeesNext]_feesVars => FeesInv'
    BY FeesNextInv
  <1>3. FeesInv => FeesSound
    BY FeesInvSound
  <1> QED
    BY <1>1, <1>2, <1>3, PTL DEF FeesSpec

\* No treasury withdrawal is paid without a request of its own that is a day old, and
\* paying it uses the request up, whatever other calls come between.
\* About the single-slot queue of queue_withdrawal and withdraw_treasury_fees.
THEOREM WithdrawalsWaitAlways == FeesSpec => WithdrawalsWait
  <1>1. FeesInit => FeesInv
    BY FeesInitInv
  <1>2. FeesInv /\ [FeesNext]_feesVars => FeesInv' /\ (fm' = fm \/ WaitStep)
    BY FeesNextInv
  <1>3. FeesInv /\ [FeesNext]_feesVars => [WaitStep]_fm
    BY <1>2
  <1> QED
    BY <1>1, <1>2, <1>3, PTL DEF FeesSpec, WithdrawalsWait, WaitStep

=============================================================================
