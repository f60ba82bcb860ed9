------------------------- MODULE EmergencyUnstake -------------------------
(***************************************************************************)
(* The emergency early-unstake of stake_vault                              *)
(* (stake_vault/src/emergency_unstake.rs, issues #754 and #1026): a staker *)
(* asks, configured admins approve, and the approval that completes the    *)
(* threshold pays the stake out at once, less a penalty that is burned,    *)
(* past the stake lock and every other protection of a withdrawal.         *)
(***************************************************************************)
EXTENDS StakeCore

CONSTANTS
    EmAdmins,        \* addresses that may be configured as admins
    EmConfigs,       \* configurations the vault's admin passes
    EmCooldowns,     \* cooldowns the vault's admin passes
    InitEmCooldown   \* cooldown set right after deployment

ASSUME EmergencyConstants ==
    /\ EmConfigs \subseteq [admins : Seq(EmAdmins), required : Nat,
                            penalty_bps : Nat, timeout_secs : Nat]
    /\ EmCooldowns \subseteq Nat
    /\ InitEmCooldown \in Nat

VARIABLES
    emConfig,     \* EmergencyMultiSigConfig
    emRequest,    \* EmergencyRequest(staker)
    emCooldown,   \* EmergencyCooldownSecs
    lastEm,       \* LastEmergencyUnstakeAt(staker)
    exitBy        \* history: the admins whose approvals carried the last exit

emVars == <<emConfig, emRequest, emCooldown, lastEm, exitBy>>

NoEmConfig ==
    [admins |-> <<>>, required |-> 0, penalty_bps |-> 0, timeout_secs |-> 0]

\* asked_under is history: the cooldown in force when the request was made.
NoRequest == [requested_at |-> NoTime, approvals |-> <<>>, asked_under |-> 0]

EmTypeOK ==
    /\ emConfig \in EmConfigs \cup {NoEmConfig}
    /\ emRequest \in [Stakers -> [requested_at : Nat \cup {NoTime},
                                  approvals : Seq(EmAdmins),
                                  asked_under : Nat]]
    /\ emCooldown \in Nat
    /\ lastEm \in [Stakers -> Nat \cup {NoTime}]
    /\ exitBy \in [Stakers -> Seq(EmAdmins)]

EmInit ==
    /\ emConfig = NoEmConfig
    /\ emRequest = [s \in Stakers |-> NoRequest]
    /\ emCooldown = InitEmCooldown
    /\ lastEm = [s \in Stakers |-> NoTime]
    /\ exitBy = [s \in Stakers |-> <<>>]

----------------------------------------------------------------------------
\* The list may name an admin twice, and the multi-sig is not asked.
configure(cfg) ==
    /\ cfg.required # 0
    /\ cfg.required <= Len(cfg.admins)
    /\ cfg.penalty_bps <= BPS_DENOMINATOR
    /\ emConfig' = cfg
    /\ UNCHANGED <<emRequest, emCooldown, lastEm, exitBy, coreVars>>

set_cooldown(secs) ==
    /\ emCooldown' = secs
    /\ UNCHANGED <<emConfig, emRequest, lastEm, exitBy, coreVars>>

CooldownRemaining(s) ==
    IF emCooldown = 0 \/ lastEm[s] = NoTime THEN 0
    ELSE SatSub(SatAdd(lastEm[s], emCooldown), now)

Requested(s) == emRequest[s] # NoRequest

\* Mutant: the cooldown is not asked.
request_NoCooldown(s) ==
    /\ emConfig # NoEmConfig
    /\ ~Requested(s)
    /\ emRequest' = [emRequest EXCEPT ![s] = [requested_at |-> now,
                                              approvals |-> <<>>,
                                              asked_under |-> emCooldown]]
    /\ UNCHANGED <<emConfig, emCooldown, lastEm, exitBy, coreVars>>

request(s) ==
    /\ emConfig # NoEmConfig
    /\ ~Requested(s)
    /\ CooldownRemaining(s) = 0
    /\ emRequest' = [emRequest EXCEPT ![s] = [requested_at |-> now,
                                              approvals |-> <<>>,
                                              asked_under |-> emCooldown]]
    /\ UNCHANGED <<emConfig, emCooldown, lastEm, exitBy, coreVars>>

TimedOut(s) ==
    /\ emConfig.timeout_secs > 0
    /\ now > SatAdd(emRequest[s].requested_at, emConfig.timeout_secs)

Penalty(gross) ==
    LET p == apply_multiplier_bps(gross, emConfig.penalty_bps)
    IN  IF p > gross THEN gross ELSE p

\* Mutant: the penalty is burned and paid out as well.
execute_early_unstake_Gross(s) ==
    LET gross == balance(s)
    IN  /\ gross # 0
        /\ vaultBal >= gross
        /\ stake' = [stake EXCEPT ![s] = [balance |-> 0, locked_until |-> 0]]
        /\ vaultBal' = vaultBal - gross - Penalty(gross)
        /\ wallet' = [wallet EXCEPT ![s] = @ + gross]

\* Mutant: the position is not emptied.
execute_early_unstake_Keeps(s) ==
    LET gross == balance(s)
    IN  /\ gross # 0
        /\ vaultBal >= gross
        /\ stake' = [stake EXCEPT ![s].locked_until = 0]
        /\ vaultBal' = vaultBal - gross
        /\ wallet' = [wallet EXCEPT ![s] = @ + (gross - Penalty(gross))]

\* The position is emptied, its lock cleared, the penalty burned and the rest
\* paid.
execute_early_unstake(s) ==
    LET gross == balance(s)
    IN  /\ gross # 0
        /\ vaultBal >= gross
        /\ stake' = [stake EXCEPT ![s] = [balance |-> 0, locked_until |-> 0]]
        /\ vaultBal' = vaultBal - gross
        /\ wallet' = [wallet EXCEPT ![s] = @ + (gross - Penalty(gross))]

\* Mutant: an admin may approve again.
MayApprove_Again(a, s) ==
    /\ a \in Range(emConfig.admins)
    /\ Requested(s)
    /\ ~TimedOut(s)

\* Mutant: a request never times out.
MayApprove_Late(a, s) ==
    /\ a \in Range(emConfig.admins)
    /\ Requested(s)
    /\ a \notin Range(emRequest[s].approvals)

\* A late approval fails; that it also removes the request is rolled back.
MayApprove(a, s) ==
    /\ a \in Range(emConfig.admins)
    /\ Requested(s)
    /\ ~TimedOut(s)
    /\ a \notin Range(emRequest[s].approvals)

\* Mutant: the staker's own request counts as an approval.
Completes_CountsStaker(s) == Len(emRequest[s].approvals) + 2 >= emConfig.required

Completes(s) == Len(emRequest[s].approvals) + 1 >= emConfig.required

\* An approval below the threshold is recorded.
approve_more(a, s) ==
    /\ MayApprove(a, s)
    /\ ~Completes(s)
    /\ emRequest' = [emRequest EXCEPT ![s].approvals = Append(@, a)]
    /\ UNCHANGED <<emConfig, emCooldown, lastEm, exitBy, coreVars>>

\* The approval that completes the threshold executes the request.
approve_last(a, s) ==
    /\ MayApprove(a, s)
    /\ Completes(s)
    /\ execute_early_unstake(s)
    /\ emRequest' = [emRequest EXCEPT ![s] = NoRequest]
    /\ lastEm' = [lastEm EXCEPT ![s] = now]
    /\ exitBy' = [exitBy EXCEPT ![s] = Append(emRequest[s].approvals, a)]
    /\ UNCHANGED <<emConfig, emCooldown, paused, lastStakeLedger, depositedAt,
                   requestedAt, rate, paramVars, call>>

expire_request(s) ==
    /\ emConfig # NoEmConfig
    /\ Requested(s)
    /\ TimedOut(s)
    /\ emRequest' = [emRequest EXCEPT ![s] = NoRequest]
    /\ UNCHANGED <<emConfig, emCooldown, lastEm, exitBy, coreVars>>

EmOps ==
    \/ \E cfg \in EmConfigs : configure(cfg)
    \/ \E secs \in EmCooldowns : set_cooldown(secs)
    \/ \E s \in Stakers : request(s)
    \/ \E a \in EmAdmins, s \in Stakers : approve_more(a, s)
    \/ \E a \in EmAdmins, s \in Stakers : approve_last(a, s)
    \/ \E s \in Stakers : expire_request(s)

EmStep ==
    /\ Idle
    /\ UNCHANGED <<clockVars, msVars>>
    /\ EmOps

EmNext ==
    \/ CoreStep /\ UNCHANGED emVars
    \/ EmStep

allEmVars == <<allCoreVars, emVars>>

EmSpec == CoreSystemInit /\ EmInit /\ [][EmNext]_allEmVars

----------------------------------------------------------------------------
Executes(s) == Requested(s) /\ lastEm'[s] = now /\ emRequest'[s] = NoRequest
                 /\ stake' # stake

SpacedStep ==
    \A s \in Stakers :
        Executes(s) /\ lastEm[s] # NoTime =>
            emRequest[s].requested_at >= lastEm[s] + emRequest[s].asked_under

\* An emergency exit rests on a request made after the previous exit of the same
\* account by at least the cooldown then in force: no request outlives an exit,
\* is filed early, or is used twice, whatever happens to the cooldown later.
EmergenciesSpaced == [][SpacedStep]_allEmVars

\* Every approval, recorded or completing, is by an admin configured at that moment.
ApprovedStep ==
    \A s \in Stakers :
        /\ Executes(s) =>
              LET by == exitBy'[s]
              IN  /\ by # <<>> /\ Front(by) = emRequest[s].approvals
                  /\ IsInjective(by) /\ Len(by) >= emConfig.required
                  /\ Last(by) \in Range(emConfig.admins)
                  /\ emConfig.timeout_secs > 0 =>
                        now <= SatAdd(emRequest[s].requested_at, emConfig.timeout_secs)
        /\ Len(emRequest'[s].approvals) > Len(emRequest[s].approvals) =>
              Last(emRequest'[s].approvals) \in Range(emConfig.admins)

\* emergency_unstake.rs: a request executes once as many admins as required have
\* approved it: different admins, the completing one among them, each configured
\* when it approved, counted against the configuration in force now, and not after
\* the timeout that configuration sets.
QuorumOfApprovals == [][ApprovedStep]_allEmVars

\* An emergency unstake rests on a quorum of different admins approving in time and
\* on a request made a cooldown after the exit before.  About request, approve and
\* configure of emergency_unstake.rs.
EmergenciesByRule == []EmTypeOK /\ EmergenciesSpaced /\ QuorumOfApprovals
============================================================================
