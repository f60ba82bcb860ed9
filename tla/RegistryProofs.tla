--------------------------- MODULE RegistryProofs ---------------------------
(***************************************************************************)
(* Proofs about the administration of the signal registry: the trade fee   *)
(* under multi-sig, and the count of open proposals.                       *)
(***************************************************************************)
EXTENDS SignalStats, FiniteSetTheorems, SequenceTheorems, TLAPS

AdminFields ==
    {"admin", "guardian", "role", "pending", "min_stake", "fee", "risk", "limits", "pause",
     "fee_paused", "multisig", "signers", "threshold", "proposals", "active", "delay", "stats",
     "breaker", "protected"}

ProposalFields == {"payload", "approvals", "status", "executable_at"}

ProposalOK(p) ==
    /\ DOMAIN p = ProposalFields
    /\ p.payload \in CriticalPayloads
    /\ p.status \in {"Pending", "Approved", "Executed", "Cancelled"}

ProposalsOK(ps) == (\E S : ps \in Seq(S)) /\ \A id \in DOMAIN ps : ProposalOK(ps[id])

\* The inductive invariant: the count of open proposals is the number of proposals
\* that are Pending or Approved.
AdminOK(s) ==
    /\ DOMAIN s = AdminFields
    /\ ProposalsOK(s.proposals)
    /\ s.active = Cardinality(OpenProposals(s))
AdminInv == AdminOK(sa)

----------------------------------------------------------------------------
\* Open proposals are finitely many, numbered by their place in the sequence.
LEMMA OpenFinite ==
    ASSUME NEW s, ProposalsOK(s.proposals)
    PROVE  /\ IsFiniteSet(OpenProposals(s))
           /\ Cardinality(OpenProposals(s)) \in Nat
  <1>1. PICK S : s.proposals \in Seq(S)
    BY DEF ProposalsOK
  <1>2. DOMAIN s.proposals = 1 .. Len(s.proposals) /\ Len(s.proposals) \in Nat
    BY <1>1
  <1>3. IsFiniteSet(1 .. Len(s.proposals))
    BY <1>2, FS_Interval
  <1>4. OpenProposals(s) \subseteq 1 .. Len(s.proposals)
    BY <1>2 DEF OpenProposals
  <1> QED
    BY <1>3, <1>4, FS_Subset, FS_CardinalityType

\* A change of a parameter leaves the proposals and the multi-sig switch alone,
\* and of the changes only SetTradeFee touches the fee.
LEMMA DispatchEffect ==
    ASSUME NEW s, DOMAIN s = AdminFields, NEW p, p.act \in CriticalActions
    PROVE  LET d == dispatch_payload(s, p)
           IN  /\ DOMAIN d = AdminFields
               /\ d.proposals = s.proposals /\ d.active = s.active
               /\ d.fee = IF p.act = "SetTradeFee" THEN p.arg ELSE s.fee
  BY DEF dispatch_payload, CriticalActions, AdminFields, set_trade_fee_direct, set_min_stake_direct,
         set_risk_defaults_direct, set_tier_signal_limits_direct, pause_category_direct,
         unpause_category_direct, pause_fee_collection_direct, resume_fee_collection_direct,
         set_guardian_direct, propose_admin_transfer_direct

\* Steps that neither propose nor decide: the proposals stay as they are, and
\* under multi-sig so does the fee.
Unrelated(s, t) ==
    /\ DOMAIN t = AdminFields
    /\ t.proposals = s.proposals /\ t.active = s.active
    /\ s.multisig => t.fee = s.fee

\* Direct changes by an administrator, role hand-overs and the breaker's
\* configuration touch no proposal, and no fee while the multi-sig is on.
LEMMA ChangeUnrelated ==
    ASSUME AdminOK(sa), AdminChangeStep
    PROVE  Unrelated(sa, sa')
  <1> USE DEF AdminOK
  <1>1. PICK c \in Operators :
          \/ \E p \in CriticalPayloads : change_directly(c, p)
          \/ \E r \in Roles, a \in Operators : set_admin_role(c, r, a)
          \/ revoke_guardian(c) \/ accept_admin_transfer(c) \/ cancel_admin_transfer(c)
          \/ disable_self_destruct_protection(c)
          \/ \E cfg \in BreakerInputs : set_circuit_breaker_config(c, cfg)
    BY DEF AdminChangeStep
  <1>2. ASSUME NEW p \in CriticalPayloads, change_directly(c, p)
        PROVE  Unrelated(sa, sa')
    <2>1. p.act \in CriticalActions
      BY RegistryAdminConstants
    <2>2. sa' = dispatch_payload(sa, p) /\ (p.act = "SetTradeFee" => ~ sa.multisig)
      BY <1>2 DEF change_directly, may_directly, set_trade_fee
    <2> QED
      BY <2>1, <2>2, DispatchEffect DEF Unrelated
  <1>3. CASE \E r \in Roles, a \in Operators : set_admin_role(c, r, a)
    BY <1>3 DEF set_admin_role, Unrelated, AdminFields
  <1>4. CASE revoke_guardian(c) \/ accept_admin_transfer(c) \/ cancel_admin_transfer(c)
    BY <1>4 DEF revoke_guardian, accept_admin_transfer, cancel_admin_transfer, Unrelated, AdminFields
  <1>5. CASE disable_self_destruct_protection(c)
             \/ \E cfg \in BreakerInputs : set_circuit_breaker_config(c, cfg)
    BY <1>5 DEF disable_self_destruct_protection, set_circuit_breaker_config, Unrelated, AdminFields
  <1> QED
    BY <1>1, <1>2, <1>3, <1>4, <1>5

\* Neither do the statistics of the circuit breaker.
LEMMA BreakerUnrelated ==
    ASSUME AdminOK(sa), BreakerStep
    PROVE  Unrelated(sa, sa')
  BY DEF AdminOK, BreakerStep, update_circuit_breaker_stats, Unrelated, AdminFields

\* Neither do the calls that configure the multi-sig and its timelock.
LEMMA SignerUnrelated ==
    ASSUME AdminOK(sa), SignerStep
    PROVE  Unrelated(sa, sa')
  BY DEF AdminOK, SignerStep, enable_multisig, disable_multisig, add_multisig_signer,
         remove_multisig_signer, set_timelock_config, Unrelated, AdminFields

\* Such a step keeps the invariant and what the property says of a step.
LEMMA UnrelatedKeeps ==
    ASSUME AdminOK(sa), Unrelated(sa, sa')
    PROVE  AdminOK(sa') /\ FeeStep
  BY DEF AdminOK, Unrelated, FeeStep, OpenProposals

----------------------------------------------------------------------------
\* The proposal's record survives an approval, which leaves it open.
LEMMA SettleOpen ==
    ASSUME NEW p, ProposalOK(p), p.status = "Pending"
    PROVE  /\ ProposalOK(settle_approval(p))
           /\ settle_approval(p).status \in {"Pending", "Approved"}
  BY DEF ProposalOK, ProposalFields, settle_approval

\* A new proposal is one more open one.
LEMMA ProposeKeeps ==
    ASSUME AdminOK(sa), NEW c, NEW payload \in CriticalPayloads, propose(c, payload)
    PROVE  AdminOK(sa') /\ FeeStep
  <1> DEFINE p == [payload |-> payload, approvals |-> <<c>>, status |-> "Pending",
                   executable_at |-> 0]
             q == settle_approval(p)
  <1>1. ProposalOK(q) /\ q.status \in {"Pending", "Approved"}
    <2>1. ProposalOK(p) /\ p.status = "Pending"
      BY DEF ProposalOK, ProposalFields
    <2> QED
      BY <2>1, SettleOpen
  <1>2. sa' = [sa EXCEPT !.proposals = Append(@, q), !.active = @ + 1]
    BY DEF propose
  <1> HIDE DEF q
  <1>3. DOMAIN sa' = AdminFields /\ sa'.proposals = Append(sa.proposals, q)
        /\ sa'.active = sa.active + 1 /\ sa'.fee = sa.fee
    BY <1>2 DEF AdminOK, AdminFields
  <1>4. PICK S : sa.proposals \in Seq(S)
    BY DEF AdminOK, ProposalsOK
  <1> DEFINE n == Len(sa.proposals)
  <1>5. n \in Nat /\ DOMAIN sa.proposals = 1 .. n
    BY <1>4
  <1>6. sa.proposals \in Seq(S \cup {q})
    BY <1>4
  <1>7. /\ sa'.proposals \in Seq(S \cup {q})
        /\ DOMAIN sa'.proposals = 1 .. (n + 1)
        /\ \A i \in 1 .. n : sa'.proposals[i] = sa.proposals[i]
        /\ sa'.proposals[n + 1] = q
    BY <1>3, <1>5, <1>6
  <1>8. ProposalsOK(sa'.proposals)
    BY <1>1, <1>5, <1>7 DEF AdminOK, ProposalsOK
  <1>9. OpenProposals(sa') = OpenProposals(sa) \cup {n + 1} /\ n + 1 \notin OpenProposals(sa)
    BY <1>1, <1>5, <1>7 DEF OpenProposals
  <1>10. Cardinality(OpenProposals(sa')) = Cardinality(OpenProposals(sa)) + 1
    BY <1>9, OpenFinite, FS_AddElement DEF AdminOK
  <1> QED
    BY <1>3, <1>8, <1>10 DEF AdminOK, FeeStep

\* One proposal replaced by another record.
LEMMA ReplaceProposal ==
    ASSUME NEW ps, ProposalsOK(ps), NEW id \in DOMAIN ps, NEW q, ProposalOK(q)
    PROVE  LET rs == [ps EXCEPT ![id] = q]
           IN  /\ ProposalsOK(rs) /\ DOMAIN rs = DOMAIN ps
               /\ rs[id] = q /\ \A i \in DOMAIN ps \ {id} : rs[i] = ps[i]
  <1> DEFINE rs == [ps EXCEPT ![id] = q]
  <1>1. PICK S : ps \in Seq(S)
    BY DEF ProposalsOK
  <1>2. DOMAIN rs = DOMAIN ps /\ rs[id] = q /\ \A i \in DOMAIN ps \ {id} : rs[i] = ps[i]
    OBVIOUS
  <1>3. ps \in Seq(S \cup {q})
    BY <1>1
  <1>4. rs \in Seq(S \cup {q})
    BY <1>3
  <1>5. ProposalsOK(rs)
    BY <1>2, <1>4 DEF ProposalsOK
  <1> QED
    BY <1>2, <1>5

\* An approval appends the caller and may make the proposal Approved: it was
\* Pending before, so the number of open proposals stays.
LEMMA ApproveKeeps ==
    ASSUME AdminOK(sa), NEW c, NEW id \in DOMAIN sa.proposals, approve(c, id)
    PROVE  AdminOK(sa') /\ FeeStep
  <1> DEFINE p == sa.proposals[id]
             q == settle_approval([p EXCEPT !.approvals = Append(@, c)])
  <1>1. p.status = "Pending" /\ sa' = [sa EXCEPT !.proposals[id] = q]
    BY DEF approve
  <1>2. ProposalOK(q) /\ q.status \in {"Pending", "Approved"}
    <2> DEFINE r == [p EXCEPT !.approvals = Append(@, c)]
    <2>1. ProposalOK(p)
      BY DEF AdminOK, ProposalsOK
    <2>2. ProposalOK(r) /\ r.status = "Pending"
      BY <1>1, <2>1 DEF ProposalOK, ProposalFields
    <2> QED
      BY <2>2, SettleOpen
  <1> HIDE DEF q
  <1>3. DOMAIN sa' = AdminFields /\ sa'.proposals = [sa.proposals EXCEPT ![id] = q]
        /\ sa'.active = sa.active /\ sa'.fee = sa.fee
    BY <1>1 DEF AdminOK, AdminFields
  <1>4. /\ ProposalsOK(sa'.proposals) /\ DOMAIN sa'.proposals = DOMAIN sa.proposals
        /\ sa'.proposals[id] = q
        /\ \A i \in DOMAIN sa.proposals \ {id} : sa'.proposals[i] = sa.proposals[i]
    BY <1>2, <1>3, ReplaceProposal DEF AdminOK
  <1>5. OpenProposals(sa') = OpenProposals(sa)
    BY <1>1, <1>2, <1>4 DEF OpenProposals
  <1> QED
    BY <1>3, <1>4, <1>5 DEF AdminOK, FeeStep

\* Cancelling and executing take the proposal out of the open ones.
Closes(s, t, id, status) ==
    /\ DOMAIN t = AdminFields
    /\ t.proposals = [s.proposals EXCEPT ![id] = [@ EXCEPT !.status = status]]
    /\ t.active = Floor0(s.active - 1)

\* Closing an open proposal takes one from the number of open proposals, which
\* is therefore positive, so the saturating subtraction is exact.
LEMMA ClosesKeeps ==
    ASSUME AdminOK(sa), NEW id \in DOMAIN sa.proposals, NEW status \in {"Executed", "Cancelled"},
           sa.proposals[id].status \in {"Pending", "Approved"}, Closes(sa, sa', id, status)
    PROVE  /\ AdminOK(sa')
           /\ sa'.proposals[id].status = status
  <1> DEFINE q == [sa.proposals[id] EXCEPT !.status = status]
  <1>1. ProposalOK(q) /\ q.status = status
    BY DEF AdminOK, ProposalsOK, ProposalOK, ProposalFields
  <1>2. sa'.proposals = [sa.proposals EXCEPT ![id] = q]
    BY DEF Closes
  <1> HIDE DEF q
  <1>3. /\ ProposalsOK(sa'.proposals) /\ DOMAIN sa'.proposals = DOMAIN sa.proposals
        /\ sa'.proposals[id] = q
        /\ \A i \in DOMAIN sa.proposals \ {id} : sa'.proposals[i] = sa.proposals[i]
    BY <1>1, <1>2, ReplaceProposal DEF AdminOK
  <1>4. OpenProposals(sa') = OpenProposals(sa) \ {id} /\ id \in OpenProposals(sa)
    BY <1>1, <1>3 DEF OpenProposals
  <1>5. /\ IsFiniteSet(OpenProposals(sa)) /\ Cardinality(OpenProposals(sa)) \in Nat
        /\ IsFiniteSet(OpenProposals(sa')) /\ Cardinality(OpenProposals(sa')) \in Nat
    BY <1>3, OpenFinite DEF AdminOK
  <1>6. Cardinality(OpenProposals(sa')) = Cardinality(OpenProposals(sa)) - 1
    BY <1>4, <1>5, FS_RemoveElement
  <1>7. sa'.active = Cardinality(OpenProposals(sa'))
    BY <1>5, <1>6 DEF AdminOK, Closes, Floor0
  <1> QED
    BY <1>1, <1>3, <1>7 DEF AdminOK, Closes

\* A cancellation closes the proposal and leaves the fee.
LEMMA CancelKeeps ==
    ASSUME AdminOK(sa), NEW c, NEW id \in DOMAIN sa.proposals, cancel(c, id)
    PROVE  AdminOK(sa') /\ FeeStep
  <1>1. sa.proposals[id].status \in {"Pending", "Approved"}
        /\ sa' = [sa EXCEPT !.proposals[id].status = "Cancelled", !.active = Floor0(@ - 1)]
    BY DEF cancel
  <1>2. Closes(sa, sa', id, "Cancelled") /\ sa'.fee = sa.fee
    BY <1>1 DEF Closes, AdminOK, AdminFields
  <1>3. AdminOK(sa')
    BY <1>1, <1>2, ClosesKeeps
  <1> QED
    BY <1>2, <1>3 DEF FeeStep, AdminOK

\* An executed proposal was approved in an earlier state and its time lock has passed.
LEMMA ExecuteKeeps ==
    ASSUME AdminOK(sa), NEW c, NEW id \in DOMAIN sa.proposals, execute_proposal(c, id)
    PROVE  AdminOK(sa') /\ FeeStep
  <1> DEFINE p == sa.proposals[id]
             s == [sa EXCEPT !.proposals[id].status = "Executed", !.active = Floor0(@ - 1)]
  <1>1. p.status = "Approved" /\ now >= p.executable_at /\ sa' = dispatch_payload(s, p.payload)
    BY DEF execute_proposal, prepare_execution
  <1>2. p.payload \in CriticalPayloads
    BY DEF AdminOK, ProposalsOK, ProposalOK
  <1>3. p.payload.act \in CriticalActions
        /\ p.payload = [act |-> p.payload.act, arg |-> p.payload.arg]
    BY <1>2, RegistryAdminConstants
  <1>4. DOMAIN s = AdminFields /\ s.fee = sa.fee
        /\ s.proposals = [sa.proposals EXCEPT ![id] = [@ EXCEPT !.status = "Executed"]]
        /\ s.active = Floor0(sa.active - 1)
    BY DEF AdminOK, AdminFields
  <1> HIDE DEF s
  <1>5. /\ DOMAIN sa' = AdminFields /\ sa'.proposals = s.proposals /\ sa'.active = s.active
        /\ sa'.fee = IF p.payload.act = "SetTradeFee" THEN p.payload.arg ELSE s.fee
    BY <1>1, <1>3, <1>4, DispatchEffect
  <1>6. Closes(sa, sa', id, "Executed")
    BY <1>4, <1>5 DEF Closes
  <1>7. AdminOK(sa') /\ sa'.proposals[id].status = "Executed"
    BY <1>1, <1>6, ClosesKeeps
  <1>8. ASSUME sa'.fee # sa.fee
        PROVE  p.payload = [act |-> "SetTradeFee", arg |-> sa'.fee]
    BY <1>3, <1>4, <1>5, <1>8
  <1> QED
    BY <1>1, <1>7, <1>8 DEF FeeStep, AdminOK

----------------------------------------------------------------------------
\* No proposal is open in the initial state.
LEMMA AdminInitInv ==
    ASSUME AdminInit
    PROVE  AdminInv
  <1>1. PICK admin \in Operators : sa = init_admin(admin)
    BY DEF AdminInit
  <1>2. DOMAIN sa = AdminFields /\ sa.proposals = <<>> /\ sa.active = 0
    BY <1>1 DEF init_admin, AdminFields
  <1>3. ProposalsOK(sa.proposals)
    <2>1. sa.proposals \in Seq({})
      BY <1>2
    <2> QED
      BY <1>2, <2>1 DEF ProposalsOK
  <1>4. OpenProposals(sa) = {}
    BY <1>2 DEF OpenProposals
  <1> QED
    BY <1>2, <1>3, <1>4, FS_EmptySet DEF AdminInv, AdminOK

\* Every step keeps the invariant and changes the fee as the property allows.
LEMMA AdminStepKeeps ==
    ASSUME AdminInv, AdminStep
    PROVE  AdminInv' /\ FeeStep
  <1> USE DEF AdminInv
  <1>1. CASE AdminChangeStep \/ BreakerStep \/ SignerStep
    BY <1>1, ChangeUnrelated, BreakerUnrelated, SignerUnrelated, UnrelatedKeeps
  <1>2. CASE ProposalStep
    BY <1>2, ProposeKeeps, ApproveKeeps, CancelKeeps, ExecuteKeeps DEF ProposalStep
  <1> QED
    BY <1>1, <1>2 DEF AdminStep

\* Under multi-sig the trade fee of the signal registry changes only in the step that
\* executes an approved proposal for that very fee after its time lock, and the count
\* of open proposals is exact after every call.  About prepare_execution, set_trade_fee
\* and the active count of common/src/multisig.rs.
THEOREM FeeByProposalAlways == AdminSpec => FeeByProposal
  <1>1. AdminInit => AdminInv
    BY AdminInitInv
  <1>2. AdminInv /\ [AdminNext]_<<clockVars, sa>> => AdminInv' /\ [FeeStep]_sa
    <2> SUFFICES ASSUME AdminInv, [AdminNext]_<<clockVars, sa>>
                 PROVE  AdminInv' /\ [FeeStep]_sa
      OBVIOUS
    <2>1. CASE UNCHANGED sa
      BY <2>1 DEF AdminInv, AdminOK, OpenProposals
    <2>2. CASE AdminStep
      BY <2>2, AdminStepKeeps
    <2> QED
      BY <2>1, <2>2 DEF AdminNext
  <1> QED
    BY <1>1, <1>2, PTL DEF AdminSpec, FeeByProposal
============================================================================
