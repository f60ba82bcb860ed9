----------------------------- MODULE Multisig -----------------------------
(***************************************************************************)
(* The N-of-M approval flow shared by the contracts                        *)
(* (shared/src/multisig.rs) as stake_vault drives it: set_multisig_config, *)
(* propose_action, approve_action, execute_action.  A payload is opaque    *)
(* here; StakeVault gives execute_action its meaning.                      *)
(***************************************************************************)
EXTENDS LedgerClock, FiniteSets, SequencesExt

CONSTANTS
    Signers,                        \* addresses that propose and approve
    MSConfigs,                      \* configurations the admin may pass
    Payloads,                       \* encoded actions
    MAX_SIGNERS,
    DEFAULT_PROPOSAL_TIMEOUT_SECS,
    MaxProposals                    \* bound: proposals in a behaviour

ASSUME MultisigConstants ==
    /\ MSConfigs \subseteq [signers : Seq(Signers), threshold : Nat,
                            proposal_timeout_secs : Nat]
    /\ MAX_SIGNERS \in Nat
    /\ DEFAULT_PROPOSAL_TIMEOUT_SECS \in Nat
    /\ MaxProposals \in Nat

VARIABLES
    msConfig,   \* MultisigStorageKey::Config
    proposals,  \* MultisigStorageKey::Proposal(id), ids 1 .. Len(proposals)
    executions  \* history: times each proposal's payload was run

msVars == <<msConfig, proposals, executions>>

NoConfig == [signers |-> <<>>, threshold |-> 0, proposal_timeout_secs |-> 0]

MultisigOn == msConfig # NoConfig

Proposal ==
    [proposer : Signers, payload : Payloads, approvals : Seq(Signers),
     status : {"Pending", "Executed"}, expires_at : Nat]

MSTypeOK ==
    /\ msConfig \in MSConfigs \cup {NoConfig}
    /\ proposals \in Seq(Proposal)
    /\ executions \in Seq(Nat)
    /\ Len(executions) = Len(proposals)

MSInit ==
    /\ msConfig = NoConfig
    /\ proposals = <<>>
    /\ executions = <<>>

----------------------------------------------------------------------------
validate_config(cfg) ==
    /\ cfg.threshold > 0
    /\ cfg.threshold <= Len(cfg.signers)
    /\ Len(cfg.signers) <= MAX_SIGNERS
    /\ IsInjective(cfg.signers)

is_signer(a) == a \in Range(msConfig.signers)

set_multisig_config(cfg) ==
    /\ validate_config(cfg)
    /\ msConfig' = cfg
    /\ UNCHANGED <<proposals, executions>>

\* set_multisig_config(None)
clear_multisig_config ==
    /\ msConfig' = NoConfig
    /\ UNCHANGED <<proposals, executions>>

\* The proposer's approval is recorded with the proposal.
propose(a, payload) ==
    LET timeout == IF msConfig.proposal_timeout_secs > 0
                   THEN msConfig.proposal_timeout_secs
                   ELSE DEFAULT_PROPOSAL_TIMEOUT_SECS
    IN  /\ MultisigOn
        /\ is_signer(a)
        /\ Len(proposals) < MaxProposals
        /\ proposals' = Append(proposals,
                            [proposer |-> a, payload |-> payload,
                             approvals |-> <<a>>, status |-> "Pending",
                             expires_at |-> SatAdd(now, timeout)])
        /\ executions' = Append(executions, 0)
        /\ UNCHANGED msConfig

has_approved(p, a) == a \in Range(p.approvals)

\* Mutant: a signer may approve the same proposal again.
approve_Twice(a, id) ==
    /\ MultisigOn
    /\ is_signer(a)
    /\ proposals[id].status # "Executed"
    /\ now <= proposals[id].expires_at
    /\ Len(proposals[id].approvals) < 3
    /\ proposals' = [proposals EXCEPT ![id].approvals = Append(@, a)]
    /\ UNCHANGED <<msConfig, executions>>

\* Mutant: approvals still accumulate on an executed proposal.
approve_Executed(a, id) ==
    /\ MultisigOn
    /\ is_signer(a)
    /\ now <= proposals[id].expires_at
    /\ ~has_approved(proposals[id], a)
    /\ proposals' = [proposals EXCEPT ![id].approvals = Append(@, a)]
    /\ UNCHANGED <<msConfig, executions>>

approve(a, id) ==
    /\ MultisigOn
    /\ is_signer(a)
    /\ proposals[id].status # "Executed"
    /\ now <= proposals[id].expires_at
    /\ ~has_approved(proposals[id], a)
    /\ proposals' = [proposals EXCEPT ![id].approvals = Append(@, a)]
    /\ UNCHANGED <<msConfig, executions>>

\* The threshold is the one configured now, not when the proposal was made.
require_can_execute(id) ==
    /\ MultisigOn
    /\ proposals[id].status # "Executed"
    /\ Len(proposals[id].approvals) >= msConfig.threshold
    /\ now <= proposals[id].expires_at

\* Mutant: the status is left Pending.
mark_executed_Forgets(id) ==
    /\ proposals' = proposals
    /\ executions' = [executions EXCEPT ![id] = @ + 1]
    /\ UNCHANGED msConfig

mark_executed(id) ==
    /\ proposals[id].status # "Executed"
    /\ proposals' = [proposals EXCEPT ![id].status = "Executed"]
    /\ executions' = [executions EXCEPT ![id] = @ + 1]
    /\ UNCHANGED msConfig

\* The approval flow around the privileged work of execute_action, which any
\* authenticated caller may invoke.
run_proposal(id) == require_can_execute(id) /\ mark_executed(id)

MSNext ==
    \/ CloseLedger /\ UNCHANGED msVars
    \/ UNCHANGED clockVars /\ \E cfg \in MSConfigs : set_multisig_config(cfg)
    \/ UNCHANGED clockVars /\ clear_multisig_config
    \/ /\ UNCHANGED clockVars
       /\ \E a \in Signers, payload \in Payloads : propose(a, payload)
    \/ /\ UNCHANGED clockVars
       /\ \E a \in Signers, id \in DOMAIN proposals : approve(a, id)
    \/ UNCHANGED clockVars /\ \E id \in DOMAIN proposals : run_proposal(id)

MSSpec == ClockInit /\ MSInit /\ [][MSNext]_<<clockVars, msVars>>

----------------------------------------------------------------------------
\* A proposal's payload runs at most once, across reconfigurations, repeated
\* approvals and repeated execute_action calls.
RunsAtMostOnce == \A id \in DOMAIN proposals : executions[id] <= 1

\* When a proposal is executed, as many different signers as the threshold asks
\* for have approved it and it has not expired: nobody's approval counts twice.
ExecutedByQuorum ==
    [][\A id \in DOMAIN executions :
          executions'[id] # executions[id] =>
              /\ Cardinality(Range(proposals[id].approvals)) >= msConfig.threshold
              /\ now <= proposals[id].expires_at]_<<clockVars, msVars>>

\* Proposals are never rewritten or deleted: the payload stays what was
\* proposed, approvals only grow, and an executed proposal is frozen.
ProposalsOnlyAccumulate ==
    [][\A id \in DOMAIN proposals :
          /\ id \in DOMAIN proposals'
          /\ proposals'[id].payload = proposals[id].payload
          /\ IsPrefix(proposals[id].approvals, proposals'[id].approvals)
          /\ proposals[id].status = "Executed" =>
                 proposals'[id] = proposals[id]]_<<clockVars, msVars>>

\* A proposal only gathers approvals, runs at most once, and only with a quorum of the
\* configuration in force.  About multisig.rs approve, require_can_execute and
\* mark_executed.
ProposalsByQuorum == [](MSTypeOK /\ RunsAtMostOnce) /\ ProposalsOnlyAccumulate /\ ExecutedByQuorum
============================================================================
