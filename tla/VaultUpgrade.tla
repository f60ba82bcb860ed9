----------------------------- MODULE VaultUpgrade ---------------------------
(***************************************************************************)
(* What changes when stake_vault is upgraded: the batched move of the      *)
(* positions from the V1 to the V2 layout (stake_vault/src/migration.rs),  *)
(* the code and layout versions (storage_version.rs,                       *)
(* shared/src/version.rs, the two upgrade entry points of lib.rs), and the *)
(* named slash strategies (slash_strategy.rs).  The V2 map is the one      *)
(* deposit_stake writes, so deposits and batches interleave.               *)
(***************************************************************************)
EXTENDS Integers, SequencesExt, FiniteSets

CONSTANTS
    OldStakers,        \* providers with or without a V1 position
    OldStakes,         \* the V1 maps to start from: provider -> balance
    AddressRank,       \* the order of the addresses, in which a map's keys come
    MigrationBatches, TopUps,
    DepositLock,       \* locked_until after a deposit
    Versions, Layouts, \* versions an upgrade may name
    FirstVersion,      \* STAKE_VAULT_VERSION
    StrategyNames, StrategyConfigs,
    Balances,          \* balances a slash amount is computed for
    I128_LIMIT,        \* i128::MAX
    MaxBatches, MaxTopUps  \* bounds on batches and deposits

ASSUME UpgradeConstants ==
    /\ IsFiniteSet(OldStakers)
    /\ \A old \in OldStakes : DOMAIN old \subseteq OldStakers /\ \A p \in DOMAIN old : old[p] \in Nat
    /\ AddressRank \in [OldStakers -> Nat]
    /\ MigrationBatches \subseteq Nat /\ TopUps \subseteq Nat \ {0} /\ DepositLock \in Nat
    /\ Versions \subseteq Nat /\ Layouts \subseteq Nat /\ FirstVersion \in Nat
    /\ \A c \in StrategyConfigs :
          c.minor_bps \in Nat /\ c.major_bps \in Nat /\ c.critical_bps \in Nat
    /\ Balances \subseteq Nat /\ I128_LIMIT \in Nat

VARIABLES
    mig,  \* StakesV1, StakesV2, MigrationState; history: added, all that was deposited,
          \* and before, how much of it preceded the provider's move
    ver,  \* contract version and LayoutVersion
    strat \* StrategyNames and Strategy(name)

INITIAL_LAYOUT_VERSION == 1

NoStake == [balance |-> 0, locked_until |-> 0]

UpgradeInit ==
    /\ \E old \in OldStakes :
          mig = [v1 |-> old, v2 |-> [p \in OldStakers |-> NoStake],
                 migrated |-> <<>>, complete |-> FALSE, batch_number |-> 0,
                 pending_recovery |-> <<>>, total_v1_providers |-> 0,
                 added |-> [p \in OldStakers |-> 0],
                 before |-> [p \in OldStakers |-> 0], deposits |-> 0]
    /\ ver = [code |-> FirstVersion, layout |-> INITIAL_LAYOUT_VERSION]
    /\ strat = [names |-> <<>>, config |-> <<>>]

----------------------------------------------------------------------------
\* Migration
is_in_vec(s, p) == Contains(s, p)

remove_from_vec(s, p) == SelectSeq(s, LAMBDA x : x # p)

\* Mutant: only providers in recovery are skipped, so a batch starts over.
to_migrate_Again(m) == {p \in DOMAIN m.v1 : ~ is_in_vec(m.pending_recovery, p)}

\* The providers a batch still has to move
to_migrate(m) ==
    {p \in DOMAIN m.v1 : ~ is_in_vec(m.migrated, p) /\ ~ is_in_vec(m.pending_recovery, p)}

\* batch is the beginning of pending in the order of the keys
in_key_order(batch, pending) ==
    /\ \A i, j \in DOMAIN batch : i < j => AddressRank[batch[i]] < AddressRank[batch[j]]
    /\ \A i \in DOMAIN batch, p \in pending \ Range(batch) :
          AddressRank[batch[i]] < AddressRank[p]

\* Complete once every provider counted in V1 is migrated
accounted(m) ==
    [m EXCEPT !.complete =
        /\ Len(m.migrated) + Len(m.pending_recovery) >= m.total_v1_providers
        /\ m.pending_recovery = <<>>]

\* The providers of batch, written to V2 with what balance gives them
moved(m, batch, balance) ==
    [m EXCEPT !.v2 = [p \in OldStakers |-> IF Contains(batch, p)
                                           THEN [balance |-> balance[p], locked_until |-> 0]
                                           ELSE @[p]],
              !.before = [p \in OldStakers |-> IF Contains(batch, p) THEN m.added[p] ELSE @[p]],
              !.migrated = @ \o batch]

\* The value read back is the one put into the map before, so the mismatch that
\* would fill pending_recovery does not occur.
migrate_stakes_v1_to_v2(batch_size) ==
    LET counted == [mig EXCEPT !.total_v1_providers = Cardinality(DOMAIN mig.v1),
                               !.batch_number = @ + 1]
        n == Cardinality(to_migrate(mig))
        length == IF batch_size < n THEN batch_size ELSE n
    IN  /\ ~ mig.complete /\ mig.batch_number < MaxBatches
        /\ \E batch \in [1..length -> to_migrate(mig)] :
              /\ in_key_order(batch, to_migrate(mig))
              /\ mig' = accounted(moved(counted, batch, mig.v1))
        /\ UNCHANGED <<ver, strat>>

\* For a provider in recovery only; see migrate_stakes_v1_to_v2.
recover_migration_entry(p, verified_balance) ==
    /\ is_in_vec(mig.pending_recovery, p)
    /\ mig' = accounted(moved([mig EXCEPT !.pending_recovery = remove_from_vec(@, p)],
                              <<p>>, [q \in {p} |-> verified_balance]))
    /\ UNCHANGED <<ver, strat>>

\* What deposit_stake does to the V2 map between two batches
deposit_v2(p, amount) ==
    /\ mig.deposits < MaxTopUps
    /\ mig' = [mig EXCEPT !.v2[p] = [balance |-> @.balance + amount, locked_until |-> DepositLock],
                          !.added[p] = @ + amount, !.deposits = @ + 1]
    /\ UNCHANGED <<ver, strat>>

----------------------------------------------------------------------------
\* Versions
guard_upgrade(new_version) == new_version > ver.code

upgrade(new_version) ==
    /\ guard_upgrade(new_version)
    /\ ver' = [ver EXCEPT !.code = new_version]
    /\ UNCHANGED <<mig, strat>>

\* Mutant: the layout may skip versions.
guard_storage_upgrade_AnyNewer(next_layout_version, required_keys) ==
    next_layout_version > ver.layout /\ required_keys = {}

\* The contract stores nothing under a bare symbol, so a required key is never found.
guard_storage_upgrade(next_layout_version, required_keys) ==
    next_layout_version = ver.layout + 1 /\ required_keys = {}

upgrade_with_migration_guard(new_version, next_layout_version, required_keys) ==
    /\ guard_upgrade(new_version)
    /\ guard_storage_upgrade(next_layout_version, required_keys)
    /\ ver' = [code |-> new_version, layout |-> next_layout_version]
    /\ UNCHANGED <<mig, strat>>

----------------------------------------------------------------------------
\* Slash strategies

\* Mutant: the order of the severities is not checked.
validate_Unordered(c) ==
    /\ c.minor_bps <= 10000 /\ c.major_bps <= 10000 /\ c.critical_bps <= 10000
    /\ c.risk_window_secs # 0

validate(c) ==
    /\ c.minor_bps <= 10000 /\ c.major_bps <= 10000 /\ c.critical_bps <= 10000
    /\ c.minor_bps <= c.major_bps /\ c.major_bps <= c.critical_bps
    /\ c.risk_window_secs # 0

set_slash_strategy(name, c) ==
    /\ validate(c)
    /\ strat' = [names |-> IF Contains(strat.names, name) THEN strat.names
                           ELSE Append(strat.names, name),
                 config |-> [x \in DOMAIN strat.config \cup {name} |->
                               IF x = name THEN c ELSE strat.config[x]]]
    /\ UNCHANGED <<mig, ver>>

list_slash_strategies == strat.names

get_slash_strategy(name) == strat.config[name]

saturated_bps(balance, bps) ==
    IF balance * bps > I128_LIMIT THEN I128_LIMIT ELSE (balance * bps) \div 10000

\* At least one unit of a positive balance, at most all of it
compute_slash_amount(name, balance, severity) ==
    LET c == get_slash_strategy(name)
        bps == CASE severity = 0 -> c.minor_bps
                 [] severity = 1 -> c.major_bps
                 [] OTHER -> c.critical_bps
        amount == saturated_bps(balance, bps)
        least == IF balance > 0 THEN 1 ELSE 0
        raised == IF amount < least THEN least ELSE amount
    IN  IF raised > balance THEN balance ELSE raised

----------------------------------------------------------------------------
UpgradeNext ==
    \/ \E n \in MigrationBatches : migrate_stakes_v1_to_v2(n)
    \/ \E p \in OldStakers, n \in TopUps : deposit_v2(p, n)
    \/ \E v \in Versions : upgrade(v)
    \/ \E v \in Versions, l \in Layouts, k \in SUBSET {"stakes"} :
          upgrade_with_migration_guard(v, l, k)
    \/ \E name \in StrategyNames, c \in StrategyConfigs : set_slash_strategy(name, c)

upgradeVars == <<mig, ver, strat>>

UpgradeSpec == UpgradeInit /\ [][UpgradeNext]_upgradeVars

\* Whatever the size of the batches and whoever deposits between them, a position
\* is moved once, and the migration is complete only when nobody is left.  What a
\* moved position holds is its V1 balance and the deposits since, with their lock;
\* what was deposited before the move is overwritten by it, lock and all, and what
\* was deposited by somebody not moved yet is untouched.  About
\* migrate_stakes_v1_to_v2, which sets the V2 entry without reading it.
EachMovedOnce ==
    /\ IsInjective(mig.migrated)
    /\ \A p \in OldStakers :
          LET moved_p == p \in Range(mig.migrated)
              since   == mig.added[p] - (IF moved_p THEN mig.before[p] ELSE 0)
          IN  /\ mig.v2[p].balance = since + (IF moved_p THEN mig.v1[p] ELSE 0)
              /\ mig.v2[p].locked_until = IF since > 0 THEN DepositLock ELSE 0
    /\ mig.complete => Range(mig.migrated) = DOMAIN mig.v1

\* A layout version is reached through every version below it, each with code of
\* its own.  About upgrade and upgrade_with_migration_guard.
LayoutBehindCode == ver.layout - INITIAL_LAYOUT_VERSION <= ver.code - FirstVersion

\* Under every strategy set so far a worse offence never costs less, and no amount
\* exceeds the balance, also where the multiplication saturates.  About validate
\* and compute_slash_amount.
SlashesOrdered ==
    \A i \in DOMAIN strat.names, b \in Balances :
        LET cost(s) == compute_slash_amount(strat.names[i], b, s)
        IN  0 <= cost(0) /\ cost(0) <= cost(1) /\ cost(1) <= cost(2) /\ cost(2) <= b

\* An upgrade moves every position once, and what it costs a depositor is exactly
\* what was deposited before the move; the layout never runs ahead of the code, and
\* no strategy punishes a worse offence less.  About migration.rs,
\* storage_version.rs and slash_strategy.rs.
UpgradeSound == EachMovedOnce /\ LayoutBehindCode /\ SlashesOrdered
=============================================================================
