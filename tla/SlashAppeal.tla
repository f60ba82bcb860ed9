---------------------------- MODULE SlashAppeal ----------------------------
(***************************************************************************)
(* Delegation, slashing and slash appeals of stake_vault                   *)
(* (stake_vault/src/lib.rs, issues #688, #689, #815, #816).  A slash takes *)
(* its share of the provider's own and delegated stake; the tokens are     *)
(* burned at once, or parked until an appeal is resolved when an appeal    *)
(* window is configured.  The two batch calls run item by item and swallow *)
(* the error of an item, whatever it has written already.                  *)
(***************************************************************************)
EXTENDS StakeCore, TLC

CONSTANTS
    SlashTiers,                      \* tier configurations callers pass
    SlashCooldowns,                  \* ledger counts the admin passes
    AppealWindows,                   \* windows the admin passes
    InitAppealWindows,               \* windows set right after deployment; 0: none
    InitSlashCooldown,               \* cooldown set right after deployment
    BatchSizes,                      \* lengths of the batches callers pass
    MAX_APPEAL_WINDOW_SECS,
    MAX_BATCH_SIZE,
    MaxSlashes                       \* bound: slashes in a behaviour

Severities == {"Minor", "Major", "Critical"}

ASSUME SlashConstants ==
    /\ SlashTiers \subseteq [Severities -> Nat]
    /\ SlashCooldowns \subseteq Nat /\ InitSlashCooldown \in Nat
    /\ AppealWindows \subseteq Nat /\ InitAppealWindows \subseteq Nat
    /\ BatchSizes \subseteq Nat
    /\ MAX_APPEAL_WINDOW_SECS \in Nat
    /\ MAX_BATCH_SIZE \in Nat
    /\ MaxSlashes \in Nat

VARIABLES
    delegated,        \* ProviderDelegatedStakes(provider)[delegator]
    totalDelegated,   \* ProviderTotalDelegated(provider)
    slashes,          \* per slash id: SlashRecord, SlashAppeal, SlashedFundsHeld
    lastSlash,        \* LastSlashLedger(provider): ledger + 1, 0 when missing
    slashTiers,       \* SlashTierConfig
    slashCooldown,    \* SlashCooldownLedgers
    appealWindow      \* AppealWindowSecs

slashParams == <<slashTiers, slashCooldown, appealWindow>>
slashVars == <<delegated, totalDelegated, slashes, lastSlash, slashParams>>

\* appeal is the status of the SlashAppeal ("None": not filed), held is 0 when
\* the entry is missing.  History: ledger, the ledger of the slash; window, the
\* appeal window then; settled, the tokens burned for it plus the stake credited
\* back for it.
SlashFile ==
    [provider : Stakers, slash_amount : Nat, slashed_at : Nat,
     appeal : {"None", "Pending", "Upheld", "Reversed"}, held : Nat,
     ledger : Nat, window : Nat, settled : Nat]

SlashTypeOK ==
    /\ delegated \in [Stakers -> [Stakers -> Nat]]
    /\ totalDelegated \in [Stakers -> Nat]
    /\ slashes \in Seq(SlashFile)
    /\ lastSlash \in [Stakers -> Nat]
    /\ slashTiers \in [Severities -> 0 .. BPS_DENOMINATOR]
    /\ slashCooldown \in Nat
    /\ appealWindow \in Nat

default_config ==
    [v \in Severities |->
        CASE v = "Minor" -> 500 [] v = "Major" -> 3000 [] v = "Critical" -> 10000]

SlashInit ==
    /\ delegated = [p \in Stakers |-> [d \in Stakers |-> 0]]
    /\ totalDelegated = [p \in Stakers |-> 0]
    /\ slashes = <<>>
    /\ lastSlash = [p \in Stakers |-> 0]
    /\ slashTiers = default_config
    /\ slashCooldown = InitSlashCooldown
    /\ appealWindow \in InitAppealWindows

----------------------------------------------------------------------------
\* Nothing returns a delegation to its delegator: it only grows or is slashed.
delegate_stake(d, p, amount) ==
    /\ now <= LastInputAt
    /\ ~paused
    /\ amount > 0
    /\ delegated[p][d] + amount <= I128_MAX
    /\ totalDelegated[p] + amount <= I128_MAX
    /\ delegated' = [delegated EXCEPT ![p][d] = @ + amount]
    /\ totalDelegated' = [totalDelegated EXCEPT ![p] = @ + amount]
    /\ transfer_in(d, amount)
    /\ UNCHANGED <<slashes, lastSlash, slashParams,
                   paused, stakeVars, paramVars, call>>

\* At least one token of a position that is not empty, at most all of it.
SlashOf(x, bps) ==
    IF x = 0 THEN 0
    ELSE LET s == apply_multiplier_bps(x, bps)
         IN  IF s < 1 THEN 1 ELSE IF s > x THEN x ELSE s

\* Mutant: the cooldown ends a ledger early.
SlashCooledDown_Early(p) ==
    lastSlash[p] > 0 => SatSub(seq, lastSlash[p] - 1) + 1 >= slashCooldown

SlashCooledDown(p) ==
    lastSlash[p] > 0 => SatSub(seq, lastSlash[p] - 1) >= slashCooldown

CanSlash(p) == SlashCooledDown(p) /\ balance(p) # 0

delegated_slash(p, bps) ==
    LET d_slash == [d \in Stakers |-> SlashOf(delegated[p][d], bps)]
    IN  SumFunctionOnSet(d_slash, Stakers)

\* Mutant: the provider's delegated total is not reduced.
take_stakes_OldTotal(p, bps) ==
    /\ stake' = [stake EXCEPT ![p].balance = @ - SlashOf(@, bps)]
    /\ delegated' = [delegated EXCEPT ![p] =
                        [d \in Stakers |-> @[d] - SlashOf(@[d], bps)]]
    /\ UNCHANGED totalDelegated

\* Mutant: delegators keep what is taken from the total.
take_stakes_SparesDelegators(p, bps) ==
    /\ stake' = [stake EXCEPT ![p].balance = @ - SlashOf(@, bps)]
    /\ totalDelegated' = [totalDelegated EXCEPT ![p] = @ - delegated_slash(p, bps)]
    /\ UNCHANGED delegated

\* The slash of the provider's own stake and of every delegation to it.
take_stakes(p, bps) ==
    /\ stake' = [stake EXCEPT ![p].balance = @ - SlashOf(@, bps)]
    /\ delegated' = [delegated EXCEPT ![p] =
                        [d \in Stakers |-> @[d] - SlashOf(@[d], bps)]]
    /\ totalDelegated' = [totalDelegated EXCEPT ![p] =
                              SatSub(@, delegated_slash(p, bps))]

\* The writes of do_slash.  outcome says what became of the tokens: "parked"
\* when an appeal window is set, else "burned", or "failed" when the burn
\* returned an error after everything else was written.
do_slash(p, sev, outcome) ==
    LET bps    == slashTiers[sev]
        amount == SlashOf(balance(p), bps) + delegated_slash(p, bps)
    IN  /\ CanSlash(p)
        /\ Len(slashes) < MaxSlashes
        /\ outcome = "parked" <=> appealWindow > 0
        /\ take_stakes(p, bps)
        /\ slashes' = Append(slashes,
               [provider |-> p, slash_amount |-> amount, slashed_at |-> now,
                appeal |-> "None",
                held |-> IF outcome = "parked" THEN amount ELSE 0,
                ledger |-> seq, window |-> appealWindow,
                settled |-> IF outcome = "burned" THEN amount ELSE 0])
        /\ lastSlash' = [lastSlash EXCEPT ![p] = seq + 1]
        /\ outcome = "burned" => vaultBal >= amount
        /\ vaultBal' = IF outcome = "burned" THEN vaultBal - amount ELSE vaultBal
        /\ UNCHANGED <<slashParams, paused, lastStakeLedger, depositedAt,
                       requestedAt, rate, paramVars, wallet>>

\* Called by the signal registry; a failed burn rolls the call back.
slash_stake(p, sev) ==
    /\ \E outcome \in {"parked", "burned"} : do_slash(p, sev, outcome)
    /\ UNCHANGED call

----------------------------------------------------------------------------
\* Appeals.

\* Mutant: the window is not asked.
appeal_slash_AnyTime(id) ==
    /\ slashes[id].appeal = "None"
    /\ slashes' = [slashes EXCEPT ![id].appeal = "Pending"]
    /\ UNCHANGED <<delegated, totalDelegated, lastSlash, slashParams, coreVars>>

appeal_slash(id) ==
    /\ appealWindow # 0
    /\ now <= SatAdd(slashes[id].slashed_at, appealWindow)
    /\ slashes[id].appeal = "None"
    /\ slashes' = [slashes EXCEPT ![id].appeal = "Pending"]
    /\ UNCHANGED <<delegated, totalDelegated, lastSlash, slashParams, coreVars>>

\* Mutant: a resolved appeal can be resolved again.
Unresolved_Never(f) == f.appeal # "None"

Unresolved(f) == f.appeal = "Pending"

\* Mutant: the entry of what is held stays after the burn.
uphold_KeepsHeld(id) ==
    LET f == slashes[id]
    IN  /\ Unresolved(f)
        /\ vaultBal >= f.held
        /\ vaultBal' = vaultBal - f.held
        /\ slashes' = [slashes EXCEPT ![id].appeal = "Upheld", ![id].settled = @ + f.held]
        /\ UNCHANGED <<stake, wallet>>

\* The slash stands: what is held is burned.
uphold(id) ==
    LET f == slashes[id]
    IN  /\ Unresolved(f)
        /\ vaultBal >= f.held
        /\ vaultBal' = vaultBal - f.held
        /\ slashes' = [slashes EXCEPT ![id].appeal = "Upheld", ![id].held = 0,
                                      ![id].settled = @ + f.held]
        /\ UNCHANGED <<stake, wallet>>

\* A batch goes on after the burn failed: the held entry is already removed, the
\* appeal not yet written.
uphold_failed_burn(id) ==
    /\ Unresolved(slashes[id])
    /\ slashes[id].held > 0
    /\ slashes' = [slashes EXCEPT ![id].held = 0]
    /\ UNCHANGED <<stake, tokenVars>>

\* The slash is reversed: its provider is credited what is held, or the recorded
\* amount when nothing is held.
reverse(id) ==
    LET f      == slashes[id]
        amount == IF f.held > 0 THEN f.held ELSE f.slash_amount
    IN  /\ Unresolved(f)
        /\ stake' = [stake EXCEPT ![f.provider].balance =
                         IF @ + amount > I128_MAX THEN I128_MAX ELSE @ + amount]
        /\ slashes' = [slashes EXCEPT ![id].appeal = "Reversed", ![id].held = 0,
                                      ![id].settled = @ + amount]
        /\ UNCHANGED tokenVars

\* What do_resolve_appeal leaves alone.
AppealFrame ==
    UNCHANGED <<delegated, totalDelegated, lastSlash, slashParams, paused,
                lastStakeLedger, depositedAt, requestedAt, rate, paramVars>>

do_resolve_appeal(id, upheld) ==
    /\ id \in DOMAIN slashes
    /\ IF upheld THEN uphold(id) ELSE reverse(id)
    /\ AppealFrame

resolve_appeal(id, upheld) ==
    /\ ~MultisigOn
    /\ do_resolve_appeal(id, upheld)
    /\ UNCHANGED call

----------------------------------------------------------------------------
\* Batches.  The items are drawn one by one; `call` counts those left.

NextItem == call' = IF call.left = 1 THEN NoCall ELSE [call EXCEPT !.left = @ - 1]

NothingWritten == UNCHANGED <<slashVars, paused, stakeVars, paramVars, tokenVars>>

start_batch(op, n) ==
    /\ n > 0
    /\ n <= MAX_BATCH_SIZE
    /\ call' = [op |-> op, left |-> n]
    /\ NothingWritten

batch_slash_stake(n) == start_batch("batch_slash", n)

batch_slash_item(p, sev) ==
    /\ call.op = "batch_slash"
    /\ NextItem
    /\ \/ \E outcome \in {"parked", "burned", "failed"} : do_slash(p, sev, outcome)
       \/ ~CanSlash(p) /\ NothingWritten

\* The admin alone, whatever the multi-sig says.
batch_resolve_appeal(n) == start_batch("batch_resolve", n)

batch_resolve_item(id, upheld) ==
    /\ call.op = "batch_resolve"
    /\ NextItem
    /\ \/ do_resolve_appeal(id, upheld)
       \/ upheld /\ uphold_failed_burn(id) /\ AppealFrame

\* An entry that does not exist or is already resolved.
batch_resolve_skip == call.op = "batch_resolve" /\ NextItem /\ NothingWritten

----------------------------------------------------------------------------
\* Parameters.

\* Mutant: only the order is validated.
validate_slash_tiers_NoCap(t) ==
    t["Minor"] <= t["Major"] /\ t["Major"] <= t["Critical"]

validate_slash_tiers(t) ==
    /\ t["Critical"] <= BPS_DENOMINATOR
    /\ t["Minor"] <= t["Major"]
    /\ t["Major"] <= t["Critical"]

set_slash_tiers(t) ==
    /\ validate_slash_tiers(t)
    /\ slashTiers' = t
    /\ UNCHANGED <<delegated, totalDelegated, slashes, lastSlash,
                   slashCooldown, appealWindow, coreVars>>

configure_slash_tiers(t) == ~MultisigOn /\ set_slash_tiers(t)

governance_configure_slash_tiers(t) == governance # {} /\ set_slash_tiers(t)

set_slash_cooldown(n) ==
    /\ slashCooldown' = n
    /\ UNCHANGED <<delegated, totalDelegated, slashes, lastSlash,
                   slashTiers, appealWindow, coreVars>>

put_appeal_window(w) ==
    /\ w <= MAX_APPEAL_WINDOW_SECS
    /\ appealWindow' = w
    /\ UNCHANGED <<delegated, totalDelegated, slashes, lastSlash,
                   slashTiers, slashCooldown, coreVars>>

set_appeal_window(w) == ~MultisigOn /\ put_appeal_window(w)

SlashOps ==
    \/ \E d, p \in Stakers, a \in Amounts : delegate_stake(d, p, a)
    \/ \E p \in Stakers, v \in Severities : slash_stake(p, v)
    \/ \E id \in DOMAIN slashes : appeal_slash(id)
    \/ \E id \in DOMAIN slashes, b \in BOOLEAN : resolve_appeal(id, b)
    \/ \E n \in BatchSizes : batch_slash_stake(n)
    \/ \E n \in BatchSizes : batch_resolve_appeal(n)
    \/ \E t \in SlashTiers : configure_slash_tiers(t)
    \/ \E t \in SlashTiers : governance_configure_slash_tiers(t)
    \/ \E n \in SlashCooldowns : set_slash_cooldown(n)
    \/ \E w \in AppealWindows : set_appeal_window(w)

SlashLoop ==
    \/ \E p \in Stakers, v \in Severities : batch_slash_item(p, v)
    \/ \E id \in DOMAIN slashes, b \in BOOLEAN : batch_resolve_item(id, b)
    \/ batch_resolve_skip

SlashStep ==
    /\ UNCHANGED <<clockVars, msVars>>
    /\ \/ Idle /\ SlashOps
       \/ SlashLoop

SlashNext ==
    \/ CoreStep /\ UNCHANGED slashVars
    \/ SlashStep

allSlashVars == <<allCoreVars, slashVars>>

SlashSystemInit == CoreSystemInit /\ SlashInit

SlashSpec == SlashSystemInit /\ [][SlashNext]_allSlashVars

----------------------------------------------------------------------------
DelegatedTo(p) == SumFunctionOnSet(delegated[p], Stakers)

TotalDelegated == SumFunctionOnSet([p \in Stakers |-> DelegatedTo(p)], Stakers)

TotalOf(field) ==
    SumFunctionOnSet([id \in DOMAIN slashes |-> slashes[id][field]], DOMAIN slashes)

\* The books: what the vault holds is the stakes, the delegations and, of every
\* slash, the part that was neither burned nor credited back.  Holds through
\* failed burns and through items of a batch that fail half way.
BooksExact ==
    vaultBal = TotalStaked + TotalDelegated
                 + TotalOf("slash_amount") - TotalOf("settled")

PositionsPayable == vaultBal >= TotalStaked + TotalDelegated + TotalOf("held")

\* A slash burned at once, when no window was set, and later appealed and
\* reversed: do_resolve_appeal credits tokens that are gone.
SettledTwice(f) == f.window = 0 /\ f.appeal = "Reversed" /\ f.settled > f.slash_amount

\* Every position the vault records can be paid, as long as no slash was burned
\* at once and reversed afterwards: stakes, delegations and parked tokens never
\* add up to more than the vault holds.
Solvent == (\A id \in DOMAIN slashes : ~SettledTwice(slashes[id])) => PositionsPayable

\* A slash whose tokens were parked is settled once: what is still parked for it
\* and what was burned or credited back never exceed what it took.  One that was
\* burned at once parks nothing and is burned once; only its reversal, under a
\* window set later, credits it a second time.
SettledOnce ==
    \A id \in DOMAIN slashes :
        LET f == slashes[id]
        IN  \/ f.held + f.settled <= f.slash_amount
            \/ SettledTwice(f) /\ f.held = 0 /\ f.settled <= 2 * f.slash_amount

\* do_resolve_appeal: "Reversed - tokens are still in the vault; credit provider's
\* stake", so that a reversal leaves every recorded position payable.
ReversalsFunded == PositionsPayable

\* The two records of a provider's delegations agree, through partial slashes
\* that round every delegation on its own.
DelegationSums ==
    \A p \in Stakers : totalDelegated[p] = DelegatedTo(p)

SlashSpacedStep ==
    Len(slashes') > Len(slashes) =>
        \A id \in DOMAIN slashes :
            slashes[id].provider = Last(slashes').provider =>
                seq - slashes[id].ledger >= slashCooldown

\* A provider is not slashed again before the cooldown has passed since each of
\* its earlier slashes, in one batch, across batches, or by single calls.
SlashesSpaced == [][SlashSpacedStep]_allSlashVars

AppealStep ==
    \A id \in DOMAIN slashes :
        LET was == slashes[id]
            is  == slashes'[id]
        IN  /\ is.appeal # was.appeal =>
                   \/ was.appeal = "None" /\ is.appeal = "Pending"
                   \/ was.appeal = "Pending" /\ is.appeal \in {"Upheld", "Reversed"}
            /\ was.appeal = "None" /\ is.appeal = "Pending" =>
                   appealWindow # 0 /\ now <= SatAdd(was.slashed_at, appealWindow)
            /\ was.appeal \in {"Upheld", "Reversed"} => is = was

\* An appeal is filed once, within the window in force when it is filed, counted
\* from the slash; it is resolved once, and its resolution stands.
AppealsFinal == [][AppealStep]_allSlashVars

\* Slashing under failing burns, appeals and batches, with and without an appeal
\* window: a provider's delegated total is the sum of its delegations, a slash is
\* settled once unless it was burned at once and reversed later, and without such
\* a slash the vault can pay every position.  About slash_stake, batch_slash_stake
\* and resolve_appeal.
SlashesSound == SlashTypeOK /\ Solvent /\ DelegationSums /\ SettledOnce

\* Two slashes of a provider are a cooldown apart, and an appeal is filed once,
\* inside the window, and resolved once.  About do_slash, appeal_slash,
\* do_resolve_appeal and their batches.
SlashesByRule == SlashesSpaced /\ AppealsFinal

----------------------------------------------------------------------------
\* For TLC: stakers are interchangeable, and tiers that are valid, out of order and
\* above 100%.
StakerSymmetry == Permutations(Stakers)
MCTiers == {[Minor |-> 0, Major |-> 5000, Critical |-> 5000],
            [Minor |-> 5000, Major |-> 0, Critical |-> 10000],
            [Minor |-> 0, Major |-> 0, Critical |-> 10001]}
============================================================================
