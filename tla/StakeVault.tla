---------------------------- MODULE StakeVault ----------------------------
(***************************************************************************)
(* stake_vault as one contract: stakes, unstake queue, slashing and        *)
(* appeals, emergency unstakes and the multi-sig whose execute_action      *)
(* dispatches to the privileged operations of the other parts.             *)
(***************************************************************************)
EXTENDS UnstakeQueue, SlashAppeal, Eligibility

\* A decoded payload: the action discriminator and its arguments.  Tiers are read
\* as u32, a window as u64.
ASSUME PayloadAssumption ==
    /\ Payloads \subseteq [tag : STRING, args : Seq(Int)]
    /\ \A p \in Payloads :
          /\ p.tag = "CONFIGURE_SLASH_TIERS" => \A i \in 1..3 : p.args[i] \in Nat
          /\ p.tag = "SET_APPEAL_WINDOW" => p.args[1] \in Nat

vaultVars == <<coreVars, queueVars, slashVars, emVars>>

allVars == <<clockVars, msVars, vaultVars>>

----------------------------------------------------------------------------
TiersOf(args) ==
    [v \in Severities |->
        CASE v = "Minor" -> args[1] [] v = "Major" -> args[2] [] v = "Critical" -> args[3]]

\* The writes of the actions that only concern the parameters of StakeCore.
dispatch_core(tag, args) ==
    \/ tag = "PAUSE" /\ put_paused(TRUE)
    \/ tag = "UNPAUSE" /\ put_paused(FALSE)
    \/ tag = "SET_MINIMUM_STAKE" /\ put_minimum_stake(args[1])
    \/ tag = "SET_MINIMUM_STAKE_DURATION" /\ put_minimum_stake_duration(args[1])
    \/ tag = "SET_WITHDRAWAL_COOLDOWN" /\ put_withdrawal_cooldown(args[1])

dispatch_slash(tag, args) ==
    \/ tag = "CONFIGURE_SLASH_TIERS" /\ set_slash_tiers(TiersOf(args))
    \/ tag = "SET_APPEAL_WINDOW" /\ put_appeal_window(args[1])
    \/ /\ tag = "RESOLVE_APPEAL"
       /\ do_resolve_appeal(args[1], args[2] = 1)
       /\ UNCHANGED call

\* Anybody may execute an approved proposal.  When the privileged work fails,
\* as it does for an unknown tag, the proposal stays pending.
execute_action(id) ==
    LET p == proposals[id].payload
    IN  /\ run_proposal(id)
        /\ UNCHANGED <<clockVars, queueVars, emVars>>
        /\ \/ dispatch_core(p.tag, p.args) /\ UNCHANGED <<call, slashVars>>
           \/ dispatch_slash(p.tag, p.args)

MultisigOps ==
    \/ \E cfg \in MSConfigs : set_multisig_config(cfg)
    \/ clear_multisig_config
    \/ \E a \in Signers, payload \in Payloads : propose(a, payload)
    \/ \E a \in Signers, id \in DOMAIN proposals : approve(a, id)

VaultNext ==
    \/ CoreStep /\ UNCHANGED <<queueVars, slashVars, emVars>>
    \/ QueueStep /\ UNCHANGED <<slashVars, emVars>>
    \/ SlashStep /\ UNCHANGED <<queueVars, emVars>>
    \/ EmStep /\ UNCHANGED <<queueVars, slashVars>>
    \/ Idle /\ MultisigOps /\ UNCHANGED <<clockVars, vaultVars>>
    \/ Idle /\ \E id \in DOMAIN proposals : execute_action(id)

VaultInit == CoreSystemInit /\ QueueInit /\ SlashInit /\ EmInit

VaultSpec == VaultInit /\ [][VaultNext]_allVars

----------------------------------------------------------------------------
AnExecution == executions' # executions

ProtectedStep ==
    MultisigOn =>
        /\ <<minStake, minDuration, cooldown, appealWindow, maxQueue>>'
               # <<minStake, minDuration, cooldown, appealWindow, maxQueue>>
               => AnExecution
        /\ <<paused, slashTiers>>' # <<paused, slashTiers>>
               => AnExecution \/ governance # {}

\* While a multi-sig is configured the parameters it protects change only by
\* executing a proposal; the pause switch and the slash tiers also by the
\* governance contract.
ParamsByMultisig == [][ProtectedStep]_allVars

----------------------------------------------------------------------------
\* For TLC: five areas of the contract, one of which a behaviour follows, and the
\* proposals that are made.  "books": no parameter changes; "multisig": privileged
\* operations, without queue and emergency exits; "slash": slashing and appeals;
\* "entitlements": what one staker's stake entitles to, with exits a single admin
\* approves; "emergency": one staker's emergency exits under both rosters.
CONSTANTS s1, s2
MCConfigs ==
    {[signers |-> <<s1, s2>>, threshold |-> 2, proposal_timeout_secs |-> 1]}
Act(tag, args) == [tag |-> tag, args |-> args]
MCPayloads ==
    {Act("PAUSE", <<>>), Act("UNPAUSE", <<>>),
     Act("SET_MINIMUM_STAKE", <<1>>), Act("SET_MINIMUM_STAKE_DURATION", <<1>>),
     Act("CONFIGURE_SLASH_TIERS", <<5000, 5000, 5000>>),
     Act("CONFIGURE_SLASH_TIERS", <<5000, 0, 5000>>),
     Act("SET_APPEAL_WINDOW", <<2>>), Act("SET_APPEAL_WINDOW", <<9>>),
     Act("SET_WITHDRAWAL_COOLDOWN", <<0>>),
     Act("RESOLVE_APPEAL", <<1, 0>>), Act("RESOLVE_APPEAL", <<1, 1>>),
     Act("UNKNOWN", <<>>)}

VARIABLES
    area,  \* the area this behaviour follows
    left   \* bound: steps left in the multisig area

\* Bounds of an area: the deposits made, the last time for one, the end of time,
\* and the number of slashes.
AreaBounds ==
    [books        |-> [deposits |-> {2}, last |-> 1, end |-> 2, slashes |-> 1],
     multisig     |-> [deposits |-> {2}, last |-> 1, end |-> 2, slashes |-> 1],
     slash        |-> [deposits |-> {2}, last |-> 1, end |-> 3, slashes |-> 2],
     entitlements |-> [deposits |-> {1}, last |-> 2, end |-> 3, slashes |-> 0],
     emergency    |-> [deposits |-> {1}, last |-> 2, end |-> 3, slashes |-> 0]]

WithinBounds ==
    LET b == AreaBounds[area]
    IN  /\ now' <= b.end /\ Len(slashes') <= b.slashes
        /\ \A s \in Stakers :
              wallet'[s] < wallet[s] => now <= b.last /\ wallet[s] - wallet'[s] \in b.deposits

params == <<minStake, minDuration, cooldown, appealWindow, maxQueue, paused,
            slashTiers, governance>>

\* Only one staker has done anything.
Untouched(s) == /\ stake[s].balance = 0 /\ depositedAt[s] = NoTime
                /\ ~Requested(s) /\ belowSince[s] = NoTime
OneStaker == \E a \in Stakers : \A s \in Stakers \ {a} : Untouched(s)

MCVaultInit ==
    /\ VaultInit /\ EligibilityInit
    /\ area \in DOMAIN AreaBounds /\ left = IF area = "multisig" THEN 7 ELSE 0
    /\ area = "multisig" => appealWindow > 0

MCVaultNext ==
    /\ area' = area
    /\ \/ /\ area = "books" /\ VaultNext
          /\ UNCHANGED <<msVars, params, eligibilityVars, left, emCooldown>>
          /\ emConfig'.required < 2
       \/ /\ area = "multisig" /\ left > 0 /\ left' = left - 1
          /\ VaultNext
          /\ UNCHANGED <<queueTail, emVars, eligibilityVars>> /\ minDuration' \in {0, 1}
       \/ /\ area = "slash"
          /\ \/ CoreStep /\ UNCHANGED <<slashVars, paused, paramVars>>
             \/ SlashStep
          /\ UNCHANGED <<queueVars, emVars, eligibilityVars, slashCooldown, left>>
       \/ /\ area \in {"entitlements", "emergency"} /\ EntNext /\ OneStaker'
          /\ UNCHANGED <<queueVars, slashVars, paused, cooldown, left>>
          /\ area = "entitlements" => emConfig'.required < 2 /\ UNCHANGED emCooldown
          /\ area = "emergency" => UNCHANGED <<belowSince, lockTiers, minStake>>
    /\ WithinBounds

MCVaultSpec == MCVaultInit /\ [][MCVaultNext]_<<allVars, eligibilityVars, area, left>>
============================================================================
