---------------------------- MODULE BridgeProofs ----------------------------
(***************************************************************************)
(* Proofs about the bridge.  What it knows of other chains: the signers'   *)
(* committee can always act, messages keep to their nonces, and transfers  *)
(* count as approved only while they are signed.  What it holds: wrapped   *)
(* tokens are backed by deposits, each used once, the day's volume is      *)
(* exact, and a pool's shares keep their value.                            *)
(***************************************************************************)
EXTENDS BridgeMessages, BridgeTransfers, SumTheorems, FiniteSetTheorems, SequenceTheorems, TLAPS

----------------------------------------------------------------------------
\* The committee
CommitteeProposal ==
    [proposer : SignerPool, type : ProposalType, signatures : SUBSET SignerPool,
     status : {"Pending", "Executed", "Cancelled"}, expiry : Nat]

CommitteeRecord ==
    [signers : [SignerPool -> Nat], required : Nat, proposals : Seq(CommitteeProposal),
     validators : [ValidatorPool -> Nat], min_signatures : Nat, status : {"Active", "Paused"},
     limits : Nat]

\* A roster names an address twice only if the first roster did.
NoNewRepetition(roster, first) ==
    \A a \in DOMAIN roster : roster[a] <= 1 \/ roster[a] <= first[a]

\* The committee's inductive invariant on a stored record g: the quorums are
\* covered by the lengths of the rosters, and no repetition has come in.
CommitteeOK(g) ==
    /\ g \in CommitteeRecord
    /\ NoNewRepetition(g.signers, FirstSigners)
    /\ NoNewRepetition(g.validators, FirstValidators)
    /\ g.required \in 1..len(g.signers)
    /\ g.min_signatures \in 1..len(g.validators)

\* A finite roster has a length.
LEMMA RosterLength ==
    ASSUME NEW P, IsFiniteSet(P), NEW R \in [P -> Nat]
    PROVE  len(R) \in Nat
  BY SumBounds DEF len

\* Naming one more address makes a roster longer by one.
LEMMA RosterWith ==
    ASSUME NEW P, IsFiniteSet(P), NEW R \in [P -> Nat], NEW a \in P, a \notin Named(R),
           NEW F, NoNewRepetition(R, F)
    PROVE  /\ with(R, a) \in [P -> Nat] /\ len(with(R, a)) = len(R) + 1
           /\ NoNewRepetition(with(R, a), F)
  <1> DEFINE W == with(R, a)
  <1>1. R[a] = 0
    BY DEF Named
  <1>2. W \in [P -> Nat] /\ W[a] = 1 /\ \A x \in P \ {a} : W[x] = R[x]
    BY <1>1 DEF with
  <1>3. NoNewRepetition(W, F)
    BY <1>2 DEF NoNewRepetition
  <1> HIDE DEF W
  <1>4. \A x \in P : R[x] \in Int /\ W[x] \in Int
    BY <1>2
  <1>5. SumFunctionOnSet(W, P) = SumFunctionOnSet(R, P) - R[a] + W[a]
    BY <1>2, <1>4, SumChanges
  <1>6. len(W) = SumFunctionOnSet(W, P) /\ len(R) = SumFunctionOnSet(R, P)
    BY <1>2 DEF len
  <1>7. len(R) \in Nat
    BY RosterLength
  <1>8. len(W) = len(R) + 1
    BY <1>1, <1>2, <1>5, <1>6, <1>7
  <1> QED
    BY <1>2, <1>3, <1>8 DEF W

\* Leaving an address out leaves a roster.
LEMMA RosterWithout ==
    ASSUME NEW P, IsFiniteSet(P), NEW R \in [P -> Nat], NEW a \in P,
           NEW F, NoNewRepetition(R, F)
    PROVE  /\ without(R, a) \in [P -> Nat] /\ len(without(R, a)) \in Nat
           /\ NoNewRepetition(without(R, a), F)
  <1>1. without(R, a) \in [P -> Nat] /\ without(R, a)[a] = 0
        /\ \A x \in P \ {a} : without(R, a)[x] = R[x]
    BY DEF without
  <1>2. NoNewRepetition(without(R, a), F)
    BY <1>1 DEF NoNewRepetition
  <1> QED
    BY <1>1, <1>2, RosterLength

\* Where the first roster repeats nobody, a roster is as long as it has members.
LEMMA RosterMembers ==
    ASSUME NEW P, IsFiniteSet(P), NEW R \in [P -> Nat], NEW F \in [P -> Nat],
           NoNewRepetition(R, F), \A a \in P : F[a] <= 1
    PROVE  len(R) = Cardinality(Named(R))
  <1> DEFINE M == Named(R)
             one == [x \in P |-> 1]
  <1>1. M \in SUBSET P /\ (\A x \in M : R[x] = 1) /\ \A x \in P \ M : R[x] = 0
    BY DEF Named, NoNewRepetition
  <1>2. IsFiniteSet(M) /\ Cardinality(M) \in Nat
    BY <1>1, FS_Subset, FS_CardinalityType
  <1>3. (\A x \in M : one[x] = 1) /\ \A x \in M : one[x] \in Int /\ R[x] = one[x]
    BY <1>1
  <1> HIDE DEF M, one
  <1>4. SumFunctionOnSet(R, P) = SumFunctionOnSet(one, M)
    BY <1>1, <1>3, SumRestricts
  <1>5. SumFunctionOnSet(one, M) = 1 * Cardinality(M)
    BY <1>2, <1>3, SumConstant
  <1>6. len(R) = SumFunctionOnSet(R, P)
    BY DEF len
  <1> QED
    BY <1>2, <1>4, <1>5, <1>6 DEF M

ProposalKinds ==
    {"AddValidator", "RemoveValidator", "UpdateRequiredSignatures", "UpdateSecurityLimits",
     "PauseBridge", "UnpauseBridge", "EmergencyWithdraw"}

\* A proposal is of one of the seven kinds, and only validators are added.
LEMMA KindsOfProposals ==
    ASSUME NEW p \in ProposalType
    PROVE  /\ p.kind \in ProposalKinds
           /\ p.kind \in {"AddValidator", "RemoveValidator"} => p.who \in ValidatorPool
           /\ p.kind = "UpdateRequiredSignatures" => p.count \in Nat
  BY BridgeGovernConstants DEF ProposalType, ProposalKinds

\* The parts of a committee's record may be replaced by others that fit.
LEMMA CommitteeParts ==
    ASSUME NEW g, CommitteeOK(g)
    PROVE  /\ \A Q \in Seq(CommitteeProposal) : CommitteeOK([g EXCEPT !.proposals = Q])
           /\ \A V \in [ValidatorPool -> Nat] :
                 NoNewRepetition(V, FirstValidators) /\ g.min_signatures \in 1..len(V)
                     => LET r == [g EXCEPT !.validators = V]
                        IN  CommitteeOK(r) /\ r.proposals = g.proposals
           /\ \A S \in [SignerPool -> Nat] :
                 NoNewRepetition(S, FirstSigners) /\ g.required \in 1..len(S)
                     => CommitteeOK([g EXCEPT !.signers = S])
  BY DEF CommitteeOK, CommitteeRecord

\* Another signature leaves a committee's record.
LEMMA SignatureUpdate ==
    ASSUME NEW g, CommitteeOK(g), NEW id \in 1..Len(g.proposals), NEW sigs \in SUBSET SignerPool
    PROVE  CommitteeOK([g EXCEPT !.proposals[id].signatures = sigs])
  <1> DEFINE P == g.proposals
             P1 == [P EXCEPT ![id].signatures = sigs]
  <1>1. P \in Seq(CommitteeProposal)
    BY DEF CommitteeOK, CommitteeRecord
  <1>2. P[id] \in CommitteeProposal
    BY <1>1, ElementOfSeq
  <1>3. [P[id] EXCEPT !.signatures = sigs] \in CommitteeProposal
    BY <1>2 DEF CommitteeProposal
  <1>4. P1 \in Seq(CommitteeProposal)
    BY <1>1, <1>3, ExceptSeq
  <1>5. [g EXCEPT !.proposals[id].signatures = sigs] = [g EXCEPT !.proposals = P1]
    OBVIOUS
  <1> HIDE DEF P1
  <1> QED
    BY <1>4, <1>5, CommitteeParts

\* So does another status.
LEMMA StatusUpdate ==
    ASSUME NEW g, CommitteeOK(g), NEW id \in 1..Len(g.proposals),
           NEW st \in {"Pending", "Executed", "Cancelled"}
    PROVE  CommitteeOK([g EXCEPT !.proposals[id].status = st])
  <1> DEFINE P == g.proposals
             P1 == [P EXCEPT ![id].status = st]
  <1>1. P \in Seq(CommitteeProposal)
    BY DEF CommitteeOK, CommitteeRecord
  <1>2. P[id] \in CommitteeProposal
    BY <1>1, ElementOfSeq
  <1>3. [P[id] EXCEPT !.status = st] \in CommitteeProposal
    BY <1>2 DEF CommitteeProposal
  <1>4. P1 \in Seq(CommitteeProposal)
    BY <1>1, <1>3, ExceptSeq
  <1>5. [g EXCEPT !.proposals[id].status = st] = [g EXCEPT !.proposals = P1]
    OBVIOUS
  <1> HIDE DEF P1
  <1> QED
    BY <1>4, <1>5, CommitteeParts

\* A proposal that may still be applied leaves quorums that can be reached.  The
\* checks are against bg; g may hold one more signature.
LEMMA ApplyKeeps ==
    ASSUME NEW g, CommitteeOK(g), g.signers = bg.signers, g.validators = bg.validators,
           g.min_signatures = bg.min_signatures,
           NEW p \in ProposalType, Applicable(p)
    PROVE  CommitteeOK(apply_proposal(g, p)) /\ apply_proposal(g, p).proposals = g.proposals
  <1> DEFINE r == apply_proposal(g, p)
  <1>1. g \in CommitteeRecord
        /\ g.signers \in [SignerPool -> Nat] /\ g.validators \in [ValidatorPool -> Nat]
        /\ NoNewRepetition(g.validators, FirstValidators)
        /\ g.required \in 1..len(g.signers) /\ g.min_signatures \in 1..len(g.validators)
    BY DEF CommitteeOK, CommitteeRecord
  <1>0. len(g.signers) \in Nat /\ len(g.validators) \in Nat
    BY <1>1, RosterLength, BridgeGovernConstants
  <1>2. CASE p.kind = "AddValidator"
    <2> DEFINE V == with(g.validators, p.who)
    <2>1. r = [g EXCEPT !.validators = V]
      BY <1>2 DEF apply_proposal
    <2>2. p.who \in ValidatorPool /\ p.who \notin Named(g.validators)
      BY <1>2, KindsOfProposals DEF Applicable
    <2>3. V \in [ValidatorPool -> Nat] /\ NoNewRepetition(V, FirstValidators)
          /\ len(V) = len(g.validators) + 1
      BY <1>1, <2>2, RosterWith, BridgeGovernConstants
    <2>4. g.min_signatures \in 1..len(V)
      BY <1>0, <1>1, <2>3
    <2> HIDE DEF V, r
    <2>6. CommitteeOK(r) /\ r.proposals = g.proposals
      BY <2>1, <2>3, <2>4, CommitteeParts
    <2> QED
      BY <2>6 DEF r
  <1>3. CASE p.kind = "RemoveValidator"
    <2> DEFINE V == without(g.validators, p.who)
    <2>1. r = [g EXCEPT !.validators = V]
      BY <1>3 DEF apply_proposal
    <2>2. len(V) >= g.min_signatures /\ p.who \in ValidatorPool
      BY <1>3, KindsOfProposals DEF Applicable, RemovalAllowed
    <2>3. V \in [ValidatorPool -> Nat] /\ NoNewRepetition(V, FirstValidators) /\ len(V) \in Nat
      BY <1>1, <2>2, RosterWithout, BridgeGovernConstants
    <2>4. g.min_signatures \in 1..len(V)
      BY <1>0, <1>1, <2>2, <2>3
    <2> HIDE DEF V, r
    <2>6. CommitteeOK(r) /\ r.proposals = g.proposals
      BY <2>1, <2>3, <2>4, CommitteeParts
    <2> QED
      BY <2>6 DEF r
  <1>4. CASE p.kind = "UpdateRequiredSignatures"
    <2>1. r = [g EXCEPT !.required = p.count]
      BY <1>4 DEF apply_proposal
    <2>2. p.count \in 1..len(g.signers) /\ p.count \in Nat
      BY <1>0, <1>4 DEF Applicable
    <2> HIDE DEF r
    <2>3. CommitteeOK(r) /\ r.proposals = g.proposals
      BY <1>1, <2>1, <2>2 DEF CommitteeOK, CommitteeRecord
    <2> QED
      BY <2>3 DEF r
  <1>5. CASE p.kind \in {"UpdateSecurityLimits", "PauseBridge", "UnpauseBridge", "EmergencyWithdraw"}
    <2>1. \/ r = [g EXCEPT !.limits = 1]
          \/ r = [g EXCEPT !.status = "Paused"]
          \/ r = [g EXCEPT !.status = "Active"]
          \/ r = g
      BY <1>5 DEF apply_proposal
    <2> HIDE DEF r
    <2>2. CommitteeOK(r) /\ r.proposals = g.proposals
      BY <1>1, <2>1 DEF CommitteeOK, CommitteeRecord
    <2> QED
      BY <2>2 DEF r
  <1> QED
    BY <1>2, <1>3, <1>4, <1>5, KindsOfProposals DEF ProposalKinds

\* So does its execution.
LEMMA ExecuteKeeps ==
    ASSUME NEW g, CommitteeOK(g), g.signers = bg.signers, g.validators = bg.validators,
           g.min_signatures = bg.min_signatures,
           NEW id \in 1..Len(g.proposals), Executable(g, id)
    PROVE  CommitteeOK(executed_proposal(g, id))
  <1> DEFINE a == apply_proposal(g, g.proposals[id].type)
  <1>1. g.proposals[id].type \in ProposalType /\ Applicable(g.proposals[id].type)
    <2>1. g.proposals \in Seq(CommitteeProposal)
      BY DEF CommitteeOK, CommitteeRecord
    <2>2. g.proposals[id] \in CommitteeProposal
      BY <2>1, ElementOfSeq
    <2> QED
      BY <2>2 DEF CommitteeProposal, Executable
  <1>2. CommitteeOK(a) /\ a.proposals = g.proposals
    BY <1>1, ApplyKeeps
  <1>3. executed_proposal(g, id) = [a EXCEPT !.proposals[id].status = "Executed"]
    BY DEF executed_proposal
  <1>4. id \in 1..Len(a.proposals)
    BY <1>2
  <1> HIDE DEF a
  <1>5. CommitteeOK([a EXCEPT !.proposals[id].status = "Executed"])
    BY <1>2, <1>4, StatusUpdate
  <1> QED
    BY <1>3, <1>5

\* Every call of the committee keeps its quorums reachable.
LEMMA CommitteeStep ==
    ASSUME CommitteeOK(bg), ClockTypeOK, BridgeGovernStep
    PROVE  CommitteeOK(bg')
  <1>1. /\ bg \in CommitteeRecord /\ bg.signers \in [SignerPool -> Nat]
        /\ NoNewRepetition(bg.signers, FirstSigners)
        /\ bg.required \in 1..len(bg.signers)
        /\ bg.proposals \in Seq(CommitteeProposal)
    BY DEF CommitteeOK, CommitteeRecord
  <1>0. len(bg.signers) \in Nat
    BY <1>1, RosterLength, BridgeGovernConstants
  <1>2. ASSUME NEW s \in SignerPool, NEW p \in ProposalType, create_bridge_proposal(s, p)
        PROVE  CommitteeOK(bg')
    <2> DEFINE gp == GovernanceProposal(s, p)
    <2>1. gp \in CommitteeProposal
      <3>1. now + PROPOSAL_EXPIRY_SECONDS \in Nat /\ {s} \in SUBSET SignerPool
        BY BridgeGovernConstants DEF ClockTypeOK
      <3> QED
        BY <3>1 DEF GovernanceProposal, CommitteeProposal
    <2>2. bg' = [bg EXCEPT !.proposals = Append(bg.proposals, gp)]
      BY <1>2 DEF create_bridge_proposal
    <2> HIDE DEF gp
    <2>3. Append(bg.proposals, gp) \in Seq(CommitteeProposal)
      BY <1>1, <2>1
    <2> QED
      BY <1>1, <2>2, <2>3 DEF CommitteeOK, CommitteeRecord
  <1>3. ASSUME NEW id \in BridgeProposalIds, NEW s \in SignerPool, sign_bridge_proposal(id, s)
        PROVE  CommitteeOK(bg')
    <2> DEFINE sigs == bg.proposals[id].signatures \cup {s}
               signed == [bg EXCEPT !.proposals[id].signatures = sigs]
    <2>1. id \in 1..Len(bg.proposals) /\ bg.proposals[id] \in CommitteeProposal
      BY <1>1, <1>3, ElementOfSeq DEF BridgeProposalIds
    <2>2. sigs \in SUBSET SignerPool
      BY <2>1 DEF CommitteeProposal
    <2>3. bg' = signed \/ (Executable(signed, id) /\ bg' = executed_proposal(signed, id))
      BY <1>3 DEF sign_bridge_proposal, get_proposal
    <2>4. /\ signed.signers = bg.signers /\ signed.validators = bg.validators
          /\ signed.min_signatures = bg.min_signatures
          /\ signed.proposals = [bg.proposals EXCEPT ![id].signatures = sigs]
      BY <1>1 DEF CommitteeRecord
    <2>5. Len(signed.proposals) = Len(bg.proposals)
      BY <1>1, <2>4
    <2> HIDE DEF sigs
    <2>6. CommitteeOK(signed)
      BY <2>1, <2>2, SignatureUpdate
    <2> HIDE DEF signed
    <2> QED
      BY <2>1, <2>3, <2>4, <2>5, <2>6, ExecuteKeeps
  <1>4. ASSUME NEW id \in BridgeProposalIds, NEW s \in SignerPool, cancel_proposal(id, s)
        PROVE  CommitteeOK(bg')
    BY <1>4, StatusUpdate DEF cancel_proposal, BridgeProposalIds
  <1>5. ASSUME NEW id \in BridgeProposalIds, execute_bridge_proposal(id)
        PROVE  CommitteeOK(bg')
    BY <1>5, ExecuteKeeps DEF execute_bridge_proposal, BridgeProposalIds
  <1>6. ASSUME NEW id \in BridgeProposalIds, emergency_execute_proposal(id)
        PROVE  CommitteeOK(bg')
    BY <1>5, <1>6 DEF emergency_execute_proposal
  <1>7. ASSUME NEW s \in SignerPool, add_signer(s)
        PROVE  CommitteeOK(bg')
    <2> DEFINE S == with(bg.signers, s)
    <2>1. s \notin Named(bg.signers) /\ bg' = [bg EXCEPT !.signers = S]
      BY <1>7 DEF add_signer
    <2>2. S \in [SignerPool -> Nat] /\ NoNewRepetition(S, FirstSigners)
          /\ len(S) = len(bg.signers) + 1
      BY <1>1, <2>1, RosterWith, BridgeGovernConstants
    <2>3. bg.required \in 1..len(S)
      BY <1>0, <1>1, <2>2
    <2> HIDE DEF S
    <2> QED
      BY <2>1, <2>2, <2>3, CommitteeParts
  <1>8. ASSUME NEW s \in SignerPool, remove_signer(s)
        PROVE  CommitteeOK(bg')
    <2> DEFINE S == without(bg.signers, s)
    <2>1. len(S) >= bg.required /\ bg' = [bg EXCEPT !.signers = S]
      BY <1>8 DEF remove_signer
    <2>2. S \in [SignerPool -> Nat] /\ NoNewRepetition(S, FirstSigners) /\ len(S) \in Nat
      BY <1>1, RosterWithout, BridgeGovernConstants
    <2>3. bg.required \in 1..len(S)
      BY <1>0, <1>1, <2>1, <2>2
    <2> HIDE DEF S
    <2> QED
      BY <2>1, <2>2, <2>3, CommitteeParts
  <1> QED
    BY <1>2, <1>3, <1>4, <1>5, <1>6, <1>7, <1>8 DEF BridgeGovernStep

\* The clock only runs forward.
LEMMA ClockSteps ==
    ASSUME ClockTypeOK, CloseLedger \/ UNCHANGED <<now, seq>>
    PROVE  ClockTypeOK'
  BY ClockConstants DEF ClockTypeOK, CloseLedger

CommitteeInv == ClockTypeOK /\ CommitteeOK(bg)

\* Whoever proposes, signs, joins or leaves in whatever order, and however late a
\* proposal is executed, the quorums of signers and of validators stay within the
\* rosters' lengths, and reachable where the first roster repeats nobody.
\* About bridge/src/governance.rs.
THEOREM QuorumAlwaysReachable == CrossChainSpec => []QuorumReachable
  <1>1. CrossChainInit => CommitteeInv
    <2>1. <<>> \in Seq(CommitteeProposal)
      OBVIOUS
    <2>2. FirstSigners \in [SignerPool -> Nat] /\ FirstValidators \in [ValidatorPool -> Nat]
          /\ FirstRequired \in 1..len(FirstSigners) /\ FirstMinSignatures \in 1..len(FirstValidators)
      BY BridgeGovernConstants
    <2>3. NoNewRepetition(FirstSigners, FirstSigners) /\ NoNewRepetition(FirstValidators, FirstValidators)
      BY <2>2 DEF NoNewRepetition
    <2>6. len(FirstSigners) \in Nat /\ len(FirstValidators) \in Nat
      BY <2>2, RosterLength, BridgeGovernConstants
    <2>7. FirstRequired \in Nat /\ FirstMinSignatures \in Nat
      BY <2>2, <2>6
    <2>4. BridgeGovernInit => bg \in CommitteeRecord
      BY <2>1, <2>2, <2>7 DEF BridgeGovernInit, CommitteeRecord
    <2>5. BridgeGovernInit => CommitteeOK(bg)
      BY <2>2, <2>3, <2>4 DEF BridgeGovernInit, CommitteeOK
    <2> QED
      BY <2>5 DEF CrossChainInit, ClockInit, CommitteeInv, ClockTypeOK
  <1>2. CommitteeInv /\ [CrossChainNext]_crossChainVars => CommitteeInv'
    <2> SUFFICES ASSUME CommitteeInv, [CrossChainNext]_crossChainVars
                 PROVE  CommitteeInv'
      OBVIOUS
    <2>1. CASE BridgeGovernStep /\ UNCHANGED <<now, seq, mq, mon>>
      BY <2>1, CommitteeStep, ClockSteps DEF CommitteeInv
    <2>2. CASE UNCHANGED bg /\ (CloseLedger \/ UNCHANGED <<now, seq>>)
      BY <2>2, ClockSteps DEF CommitteeInv
    <2> QED
      BY <2>1, <2>2 DEF CrossChainNext, crossChainVars
  <1>3. CommitteeInv => QuorumReachable
    <2> SUFFICES ASSUME CommitteeInv
                 PROVE  QuorumReachable
      OBVIOUS
    <2>1. /\ bg.signers \in [SignerPool -> Nat] /\ NoNewRepetition(bg.signers, FirstSigners)
          /\ bg.validators \in [ValidatorPool -> Nat]
          /\ NoNewRepetition(bg.validators, FirstValidators)
          /\ bg.required \in 1..len(bg.signers) /\ bg.min_signatures \in 1..len(bg.validators)
      BY DEF CommitteeInv, CommitteeOK, CommitteeRecord
    <2>2. (\A s \in SignerPool : FirstSigners[s] <= 1) => len(bg.signers) = Cardinality(Named(bg.signers))
      BY <2>1, RosterMembers, BridgeGovernConstants
    <2>3. (\A v \in ValidatorPool : FirstValidators[v] <= 1)
             => len(bg.validators) = Cardinality(Named(bg.validators))
      BY <2>1, RosterMembers, BridgeGovernConstants
    <2>4. len(bg.signers) \in Nat /\ len(bg.validators) \in Nat
      BY <2>1, RosterLength, BridgeGovernConstants
    <2> QED
      BY <2>1, <2>2, <2>3, <2>4 DEF QuorumReachable
  <1> QED
    BY <1>1, <1>2, <1>3, PTL DEF CrossChainSpec

----------------------------------------------------------------------------
\* The messages
OpenStatus == {"Pending", "Relayed", "Failed"}

Message ==
    [chain : TargetChains, status : OpenStatus \cup {"Delivered"}, nonce : Nat, sent_at : Nat,
     callback : BOOLEAN]

\* The invariant of the stored messages ms under the two counters of every chain:
\* an undelivered message has a nonce that was given out and is still expected, no
\* two of a chain have the same, none is missing, and a delivered one lies below.
NonceRanges(ms, out, exp) ==
    \A id \in DOMAIN ms :
        /\ ms[id].status \in OpenStatus
              => exp[ms[id].chain] <= ms[id].nonce /\ ms[id].nonce < out[ms[id].chain]
        /\ ms[id].status = "Delivered" => ms[id].nonce < exp[ms[id].chain]

NoncesUnique(ms) ==
    \A id, jd \in DOMAIN ms :
        ms[id].status \in OpenStatus /\ ms[jd].status \in OpenStatus
        /\ ms[id].chain = ms[jd].chain /\ ms[id].nonce = ms[jd].nonce => id = jd

NoncesComplete(ms, out, exp) ==
    \A c \in TargetChains, n \in Nat :
        exp[c] <= n /\ n < out[c]
            => \E id \in DOMAIN ms :
                  ms[id].status \in OpenStatus /\ ms[id].chain = c /\ ms[id].nonce = n

NonceTypes(ms, out, exp) ==
    /\ ms \in Seq(Message \cup {NoMessage})
    /\ out \in [TargetChains -> Nat] /\ exp \in [TargetChains -> Nat]
    /\ \A c \in TargetChains : exp[c] <= out[c]

NoncesOK(ms, out, exp) ==
    /\ NonceTypes(ms, out, exp) /\ NonceRanges(ms, out, exp) /\ NoncesUnique(ms)
    /\ NoncesComplete(ms, out, exp)

\* A stored entry that is not removed is a message.
LEMMA StoredMessage ==
    ASSUME NEW ms \in Seq(Message \cup {NoMessage}), NEW id \in DOMAIN ms,
           ms[id].status # "Removed" \/ ms[id] # NoMessage
    PROVE  ms[id] \in Message
  <1>1. ms[id] \in Message \cup {NoMessage}
    OBVIOUS
  <1>2. NoMessage.status = "Removed"
    BY DEF NoMessage
  <1> QED
    BY <1>1, <1>2

\* A message that fails, is retried or relayed keeps its place among the nonces.
LEMMA OpenStaysOpen ==
    ASSUME NEW ms, NEW out, NEW exp, NoncesOK(ms, out, exp), NEW id \in DOMAIN ms,
           ms[id].status \in OpenStatus, NEW st \in OpenStatus
    PROVE  NoncesOK([ms EXCEPT ![id].status = st], out, exp)
  <1> DEFINE t == [ms EXCEPT ![id].status = st]
  <1>1. ms \in Seq(Message \cup {NoMessage}) /\ DOMAIN ms = 1..Len(ms)
    BY LenProperties DEF NoncesOK, NonceTypes
  <1>2. ms[id] \in Message
    BY <1>1, StoredMessage DEF OpenStatus
  <1>3. [ms[id] EXCEPT !.status = st] \in Message
    BY <1>2 DEF Message
  <1>4. /\ t \in Seq(Message \cup {NoMessage}) /\ DOMAIN t = DOMAIN ms
        /\ \A j \in DOMAIN ms : t[j] = IF j = id THEN [ms[id] EXCEPT !.status = st] ELSE ms[j]
    BY <1>1, <1>3, ExceptSeq
  <1>5. /\ t[id].status = st /\ t[id].chain = ms[id].chain /\ t[id].nonce = ms[id].nonce
        /\ \A j \in DOMAIN ms : j # id => t[j] = ms[j]
    BY <1>2, <1>4 DEF Message
  <1>6. \A j \in DOMAIN ms :
           /\ t[j].chain = ms[j].chain /\ t[j].nonce = ms[j].nonce
           /\ (t[j].status \in OpenStatus <=> ms[j].status \in OpenStatus)
           /\ (t[j].status = "Delivered" <=> ms[j].status = "Delivered")
    BY <1>5 DEF OpenStatus
  <1> HIDE DEF t
  <1>7. NonceTypes(t, out, exp)
    BY <1>4 DEF NoncesOK, NonceTypes
  <1>8. NonceRanges(t, out, exp)
    BY <1>4, <1>6 DEF NoncesOK, NonceRanges
  <1>9. NoncesUnique(t)
    BY <1>4, <1>6 DEF NoncesOK, NoncesUnique
  <1>10. NoncesComplete(t, out, exp)
    BY <1>4, <1>6 DEF NoncesOK, NoncesComplete
  <1> QED
    BY <1>7, <1>8, <1>9, <1>10 DEF NoncesOK, t

\* Sending takes the next nonce of the chain and gives it to one new message.
LEMMA SendKeeps ==
    ASSUME NEW ms, NEW out, NEW exp, NoncesOK(ms, out, exp), NEW m \in Message,
           m.status = "Pending", m.nonce = out[m.chain]
    PROVE  NoncesOK(Append(ms, m), [out EXCEPT ![m.chain] = @ + 1], exp)
  <1> DEFINE t == Append(ms, m)
             o == [out EXCEPT ![m.chain] = @ + 1]
             new == Len(ms) + 1
  <1>1. ms \in Seq(Message \cup {NoMessage}) /\ DOMAIN ms = 1..Len(ms) /\ Len(ms) \in Nat
        /\ out \in [TargetChains -> Nat] /\ exp \in [TargetChains -> Nat]
        /\ \A c \in TargetChains : exp[c] <= out[c]
    BY LenProperties DEF NoncesOK, NonceTypes
  <1>2. /\ t \in Seq(Message \cup {NoMessage}) /\ DOMAIN t = 1..new /\ t[new] = m
        /\ \A j \in DOMAIN ms : t[j] = ms[j]
    BY <1>1
  <1>3. \A j \in DOMAIN t : j \in DOMAIN ms \/ j = new
    BY <1>1, <1>2
  <1>4. new \notin DOMAIN ms /\ new \in DOMAIN t /\ \A j \in DOMAIN ms : j \in DOMAIN t
    BY <1>1, <1>2
  <1>5. m.chain \in TargetChains /\ m.nonce \in Nat /\ "Pending" \in OpenStatus
    BY DEF Message, OpenStatus
  <1>6. /\ o \in [TargetChains -> Nat] /\ o[m.chain] = out[m.chain] + 1
        /\ \A c \in TargetChains : c # m.chain => o[c] = out[c]
        /\ \A c \in TargetChains : out[c] <= o[c] /\ exp[c] <= o[c]
        /\ \A c \in TargetChains : out[c] \in Nat /\ exp[c] \in Nat /\ o[c] \in Nat
    BY <1>1, <1>5
  <1>7. \A j \in DOMAIN ms : ms[j].status \in OpenStatus => ms[j] \in Message
    BY <1>1, StoredMessage DEF OpenStatus
  <1>8. \A j \in DOMAIN ms : ms[j].status \in OpenStatus
           => /\ ms[j].chain \in TargetChains /\ ms[j].nonce \in Nat
              /\ exp[ms[j].chain] <= ms[j].nonce /\ ms[j].nonce < out[ms[j].chain]
    BY <1>7 DEF NoncesOK, NonceRanges, Message
  <1> HIDE DEF t, o, new
  <1>9. NonceTypes(t, o, exp)
    BY <1>1, <1>2, <1>6 DEF NonceTypes
  <1>10. NonceRanges(t, o, exp)
    <2>1. ASSUME NEW j \in DOMAIN t, t[j].status \in OpenStatus
          PROVE  exp[t[j].chain] <= t[j].nonce /\ t[j].nonce < o[t[j].chain]
      <3>1. CASE j \in DOMAIN ms
        <4>1. t[j] = ms[j] /\ ms[j].chain \in TargetChains /\ ms[j].nonce \in Nat
              /\ exp[ms[j].chain] <= ms[j].nonce /\ ms[j].nonce < out[ms[j].chain]
          BY <1>2, <1>8, <2>1, <3>1
        <4>2. out[ms[j].chain] <= o[ms[j].chain] /\ out[ms[j].chain] \in Nat /\ o[ms[j].chain] \in Nat
          BY <1>6, <4>1
        <4> QED
          BY <4>1, <4>2
      <3>2. CASE j = new
        BY <1>1, <1>2, <1>5, <1>6, <3>2
      <3> QED
        BY <1>3, <3>1, <3>2
    <2>2. ASSUME NEW j \in DOMAIN t, t[j].status = "Delivered"
          PROVE  t[j].nonce < exp[t[j].chain]
      <3>1. j \in DOMAIN ms
        BY <1>2, <1>3, <2>2
      <3> QED
        BY <1>2, <2>2, <3>1 DEF NoncesOK, NonceRanges
    <2> QED
      BY <2>1, <2>2 DEF NonceRanges
  <1>11. NoncesUnique(t)
    <2>1. ASSUME NEW i \in DOMAIN t, NEW j \in DOMAIN t,
                 t[i].status \in OpenStatus, t[j].status \in OpenStatus,
                 t[i].chain = t[j].chain, t[i].nonce = t[j].nonce
          PROVE  i = j
      <3>1. CASE i \in DOMAIN ms /\ j \in DOMAIN ms
        BY <1>2, <2>1, <3>1 DEF NoncesOK, NoncesUnique
      <3>2. \A x \in DOMAIN ms : t[x].status \in OpenStatus /\ t[x].chain = m.chain => t[x].nonce # m.nonce
        BY <1>2, <1>5, <1>6, <1>8
      <3> QED
        BY <1>2, <1>3, <2>1, <3>1, <3>2
    <2> QED
      BY <2>1 DEF NoncesUnique
  <1>12. NoncesComplete(t, o, exp)
    <2>1. ASSUME NEW c \in TargetChains, NEW n \in Nat, exp[c] <= n, n < o[c]
          PROVE  \E id \in DOMAIN t :
                    t[id].status \in OpenStatus /\ t[id].chain = c /\ t[id].nonce = n
      <3>1. CASE n < out[c]
        <4>1. PICK id \in DOMAIN ms :
                ms[id].status \in OpenStatus /\ ms[id].chain = c /\ ms[id].nonce = n
          BY <2>1, <3>1 DEF NoncesOK, NoncesComplete
        <4> QED
          BY <1>2, <1>4, <4>1
      <3>2. CASE ~ (n < out[c])
        <4>1. c = m.chain /\ n = m.nonce
          BY <1>5, <1>6, <2>1, <3>2
        <4> QED
          BY <1>2, <1>4, <1>5, <4>1
      <3> QED
        BY <3>1, <3>2
    <2> QED
      BY <2>1 DEF NoncesComplete
  <1> QED
    BY <1>9, <1>10, <1>11, <1>12 DEF NoncesOK, t, o

\* A delivery in order closes the lowest open nonce of the chain, whether the
\* message waits for its callback or is removed.
LEMMA DeliveryKeeps ==
    ASSUME NEW ms, NEW out, NEW exp, NoncesOK(ms, out, exp), NEW id \in DOMAIN ms,
           ms[id].status \in OpenStatus, ms[id].nonce = exp[ms[id].chain],
           NEW m \in {[ms[id] EXCEPT !.status = "Delivered"], NoMessage}
    PROVE  NoncesOK([ms EXCEPT ![id] = m], out, [exp EXCEPT ![ms[id].chain] = @ + 1])
  <1> DEFINE t == [ms EXCEPT ![id] = m]
             ch == ms[id].chain
             e == [exp EXCEPT ![ch] = @ + 1]
  <1>1. ms \in Seq(Message \cup {NoMessage}) /\ DOMAIN ms = 1..Len(ms)
        /\ out \in [TargetChains -> Nat] /\ exp \in [TargetChains -> Nat]
        /\ \A c \in TargetChains : exp[c] <= out[c]
    BY LenProperties DEF NoncesOK, NonceTypes
  <1>2. ms[id] \in Message /\ ch \in TargetChains
    BY <1>1, StoredMessage DEF OpenStatus, Message
  <1>3. m \in Message \cup {NoMessage} /\ m.status \notin OpenStatus
        /\ (m.status = "Delivered" => m.chain = ch /\ m.nonce = exp[ch])
    BY <1>2 DEF Message, NoMessage, OpenStatus
  <1>4. /\ t \in Seq(Message \cup {NoMessage}) /\ DOMAIN t = DOMAIN ms
        /\ \A j \in DOMAIN ms : t[j] = IF j = id THEN m ELSE ms[j]
    BY <1>1, <1>3, ExceptSeq
  <1>5. exp[ch] < out[ch]
    BY <1>2 DEF NoncesOK, NonceRanges
  <1>6. /\ e \in [TargetChains -> Nat] /\ e[ch] = exp[ch] + 1
        /\ \A c \in TargetChains : c # ch => e[c] = exp[c]
        /\ \A c \in TargetChains : exp[c] <= e[c] /\ e[c] <= out[c]
        /\ \A c \in TargetChains : out[c] \in Nat /\ exp[c] \in Nat /\ e[c] \in Nat
    BY <1>1, <1>2, <1>5
  <1>7. \A j \in DOMAIN ms : ms[j].status \in OpenStatus \cup {"Delivered"}
           => ms[j].chain \in TargetChains /\ ms[j].nonce \in Nat
    <2>1. \A j \in DOMAIN ms : ms[j].status \in OpenStatus \cup {"Delivered"} => ms[j] \in Message
      BY <1>1, StoredMessage DEF OpenStatus
    <2> QED
      BY <2>1 DEF Message
  <1> HIDE DEF t, e
  <1>8. NonceTypes(t, out, e)
    BY <1>1, <1>4, <1>6 DEF NonceTypes
  <1>9. NonceRanges(t, out, e)
    <2>1. ASSUME NEW j \in DOMAIN t, t[j].status \in OpenStatus
          PROVE  e[t[j].chain] <= t[j].nonce /\ t[j].nonce < out[t[j].chain]
      <3>1. j # id /\ t[j] = ms[j]
        BY <1>3, <1>4, <2>1
      <3>2. /\ exp[ms[j].chain] <= ms[j].nonce /\ ms[j].nonce < out[ms[j].chain]
            /\ ms[j].chain \in TargetChains /\ ms[j].nonce \in Nat
        BY <1>4, <1>7, <2>1, <3>1 DEF NoncesOK, NonceRanges
      <3>3. ms[j].chain = ch => ms[j].nonce # exp[ch]
        BY <1>4, <2>1, <3>1 DEF NoncesOK, NoncesUnique
      <3> QED
        BY <1>6, <3>1, <3>2, <3>3
    <2>2. ASSUME NEW j \in DOMAIN t, t[j].status = "Delivered"
          PROVE  t[j].nonce < e[t[j].chain]
      <3>1. CASE j = id
        BY <1>2, <1>3, <1>4, <1>6, <2>2, <3>1
      <3>2. CASE j # id
        <4>1. t[j] = ms[j] /\ ms[j].nonce < exp[ms[j].chain]
              /\ ms[j].chain \in TargetChains /\ ms[j].nonce \in Nat
          BY <1>4, <1>7, <2>2, <3>2 DEF NoncesOK, NonceRanges
        <4> QED
          BY <1>6, <4>1
      <3> QED
        BY <3>1, <3>2
    <2> QED
      BY <2>1, <2>2 DEF NonceRanges
  <1>10. NoncesUnique(t)
    BY <1>3, <1>4 DEF NoncesOK, NoncesUnique
  <1>11. NoncesComplete(t, out, e)
    <2>1. ASSUME NEW c \in TargetChains, NEW n \in Nat, e[c] <= n, n < out[c]
          PROVE  \E j \in DOMAIN t :
                    t[j].status \in OpenStatus /\ t[j].chain = c /\ t[j].nonce = n
      <3>1. exp[c] <= n
        BY <1>6, <2>1
      <3>2. PICK j \in DOMAIN ms :
              ms[j].status \in OpenStatus /\ ms[j].chain = c /\ ms[j].nonce = n
        BY <2>1, <3>1 DEF NoncesOK, NoncesComplete
      <3>3. j # id
        BY <1>6, <2>1, <3>2
      <3> QED
        BY <1>4, <3>2, <3>3
    <2> QED
      BY <2>1 DEF NoncesComplete
  <1> QED
    BY <1>8, <1>9, <1>10, <1>11 DEF NoncesOK, t, e

\* A callback removes a message that holds no open nonce.
LEMMA CallbackKeeps ==
    ASSUME NEW ms, NEW out, NEW exp, NoncesOK(ms, out, exp), NEW id \in DOMAIN ms,
           ms[id].status = "Delivered"
    PROVE  NoncesOK([ms EXCEPT ![id] = NoMessage], out, exp)
  <1> DEFINE t == [ms EXCEPT ![id] = NoMessage]
  <1>1. ms \in Seq(Message \cup {NoMessage}) /\ DOMAIN ms = 1..Len(ms)
    BY LenProperties DEF NoncesOK, NonceTypes
  <1>2. NoMessage.status \notin OpenStatus \cup {"Delivered"}
    BY DEF NoMessage, OpenStatus
  <1>3. /\ t \in Seq(Message \cup {NoMessage}) /\ DOMAIN t = DOMAIN ms
        /\ \A j \in DOMAIN ms : t[j] = IF j = id THEN NoMessage ELSE ms[j]
    BY <1>1, ExceptSeq
  <1>4. ms[id].status \notin OpenStatus
    BY DEF OpenStatus
  <1> HIDE DEF t
  <1>5. NonceTypes(t, out, exp)
    BY <1>3 DEF NoncesOK, NonceTypes
  <1>6. NonceRanges(t, out, exp) /\ NoncesUnique(t)
    BY <1>2, <1>3 DEF NoncesOK, NonceRanges, NoncesUnique
  <1>7. NoncesComplete(t, out, exp)
    BY <1>3, <1>4 DEF NoncesOK, NoncesComplete
  <1> QED
    BY <1>5, <1>6, <1>7 DEF NoncesOK, t

QueueFields == {"messages", "bridge_for", "outbound", "expected"}

MessagesOK ==
    /\ DOMAIN mq = QueueFields
    /\ NoncesOK(mq.messages, mq.outbound, mq.expected)

\* Every call on messages keeps the nonces accounted for.
LEMMA MessageStepKeeps ==
    ASSUME MessagesOK, ClockTypeOK, MessageStep
    PROVE  MessagesOK'
  <1> DEFINE ms == mq.messages
  <1>1. NoncesOK(ms, mq.outbound, mq.expected) /\ DOMAIN mq = QueueFields
    BY DEF MessagesOK
  <1>2. ms \in Seq(Message \cup {NoMessage}) /\ DOMAIN ms = 1..Len(ms)
        /\ mq.outbound \in [TargetChains -> Nat] /\ mq.expected \in [TargetChains -> Nat]
    BY <1>1, LenProperties DEF NoncesOK, NonceTypes
  <1>3. ASSUME NEW c \in TargetChains, register_bridge_for_chain(c)
        PROVE  MessagesOK'
    BY <1>1, <1>3 DEF register_bridge_for_chain, MessagesOK, QueueFields
  <1>4. ASSUME NEW c \in TargetChains, NEW b \in BOOLEAN, send_cross_chain_message(c, b)
        PROVE  MessagesOK'
    <2> DEFINE m == [chain |-> c, status |-> "Pending", nonce |-> mq.outbound[c],
                     sent_at |-> now, callback |-> b]
    <2>1. m \in Message /\ m.status = "Pending" /\ m.nonce = mq.outbound[m.chain] /\ m.chain = c
      BY <1>2 DEF Message, OpenStatus, ClockTypeOK
    <2>2. mq' = [mq EXCEPT !.messages = Append(@, m), !.outbound[c] = @ + 1]
      BY <1>4 DEF send_cross_chain_message
    <2> HIDE DEF m
    <2>3. /\ mq'.messages = Append(ms, m) /\ mq'.outbound = [mq.outbound EXCEPT ![c] = @ + 1]
          /\ mq'.expected = mq.expected /\ DOMAIN mq' = QueueFields
      BY <1>1, <2>2 DEF QueueFields
    <2>4. NoncesOK(Append(ms, m), [mq.outbound EXCEPT ![m.chain] = @ + 1], mq.expected)
      BY <1>1, <2>1, SendKeeps
    <2> QED
      BY <2>1, <2>3, <2>4 DEF MessagesOK
  <1>5. ASSUME NEW id \in MessageIds
        PROVE  id \in DOMAIN ms /\ ms[id] \in Message
               /\ (ms[id].status \in OpenStatus \/ ms[id].status = "Delivered")
    <2>1. id \in DOMAIN ms /\ ms[id] # NoMessage
      BY <1>2, <1>5 DEF MessageIds
    <2>2. ms[id] \in Message
      BY <1>2, <2>1, StoredMessage
    <2> QED
      BY <2>1, <2>2 DEF Message
  <1>6. ASSUME NEW id \in MessageIds, NEW st \in OpenStatus, ms[id].status \in OpenStatus,
               mq' = [mq EXCEPT !.messages[id].status = st]
        PROVE  MessagesOK'
    <2>1. /\ mq'.messages = [ms EXCEPT ![id].status = st] /\ mq'.outbound = mq.outbound
          /\ mq'.expected = mq.expected /\ DOMAIN mq' = QueueFields
      BY <1>1, <1>6 DEF QueueFields
    <2>2. NoncesOK([ms EXCEPT ![id].status = st], mq.outbound, mq.expected)
      BY <1>1, <1>5, <1>6, OpenStaysOpen
    <2> QED
      BY <2>1, <2>2 DEF MessagesOK
  <1>7. ASSUME NEW id \in MessageIds, NEW v \in ValidatorPool, confirm_message_delivery(id, v)
        PROVE  MessagesOK'
    <2> DEFINE m == IF ms[id].callback THEN [ms[id] EXCEPT !.status = "Delivered"] ELSE NoMessage
               ch == ms[id].chain
    <2>1. /\ ms[id].status \in OpenStatus /\ ms[id].nonce = mq.expected[ch]
          /\ mq' = [mq EXCEPT !.expected[ch] = @ + 1, !.messages[id] = m]
      BY <1>7 DEF confirm_message_delivery, InOrder, OpenStatus
    <2>2. m \in {[ms[id] EXCEPT !.status = "Delivered"], NoMessage}
      OBVIOUS
    <2> HIDE DEF m, ch
    <2>3. /\ mq'.messages = [ms EXCEPT ![id] = m] /\ mq'.outbound = mq.outbound
          /\ mq'.expected = [mq.expected EXCEPT ![ch] = @ + 1] /\ DOMAIN mq' = QueueFields
      BY <1>1, <2>1 DEF QueueFields
    <2>4. NoncesOK([ms EXCEPT ![id] = m], mq.outbound, [mq.expected EXCEPT ![ch] = @ + 1])
      BY <1>1, <1>5, <2>1, <2>2, DeliveryKeeps DEF ch
    <2> QED
      BY <2>3, <2>4 DEF MessagesOK
  <1>8. ASSUME NEW id \in MessageIds, NEW v \in ValidatorPool, receive_message_callback(id, v)
        PROVE  MessagesOK'
    <2>1. ms[id].status = "Delivered" /\ mq' = [mq EXCEPT !.messages[id] = NoMessage]
      BY <1>8 DEF receive_message_callback
    <2>2. /\ mq'.messages = [ms EXCEPT ![id] = NoMessage] /\ mq'.outbound = mq.outbound
          /\ mq'.expected = mq.expected /\ DOMAIN mq' = QueueFields
      BY <1>1, <2>1 DEF QueueFields
    <2>3. NoncesOK([ms EXCEPT ![id] = NoMessage], mq.outbound, mq.expected)
      BY <1>1, <1>5, <2>1, CallbackKeeps
    <2> QED
      BY <2>2, <2>3 DEF MessagesOK
  <1>9. ASSUME NEW id \in MessageIds,
               \/ \E v \in ValidatorPool : relay_message_to_target_chain(id, v)
               \/ mark_message_failed(id) \/ retry_failed_message(id) \/ expire_timed_out_message(id)
        PROVE  MessagesOK'
    <2>1. \E st \in OpenStatus : mq' = [mq EXCEPT !.messages[id].status = st]
      BY <1>9 DEF relay_message_to_target_chain, mark_message_failed, retry_failed_message,
                  expire_timed_out_message, OpenStatus
    <2>2. ms[id].status \in OpenStatus
      BY <1>5, <1>9 DEF relay_message_to_target_chain, mark_message_failed, retry_failed_message,
                        expire_timed_out_message, NotCompleted, OpenStatus
    <2> QED
      BY <1>6, <2>1, <2>2
  <1> QED
    BY <1>3, <1>4, <1>7, <1>8, <1>9 DEF MessageStep

\* Counting: the open messages of a chain are as many as its open nonces.
LEMMA NoncesCounted ==
    ASSUME MessagesOK
    PROVE  NoncesAccounted
  <1> DEFINE ms == mq.messages
  <1>1. /\ NoncesOK(ms, mq.outbound, mq.expected)
        /\ ms \in Seq(Message \cup {NoMessage}) /\ DOMAIN ms = 1..Len(ms)
    BY LenProperties DEF MessagesOK, NoncesOK, NonceTypes
  <1>2. \A id \in DOMAIN ms : ms[id].status \in OpenStatus \cup {"Delivered"}
           => ms[id] # NoMessage /\ ms[id].chain \in TargetChains /\ ms[id].nonce \in Nat
    <2>1. \A id \in DOMAIN ms : ms[id].status \in OpenStatus \cup {"Delivered"}
             => ms[id] # NoMessage /\ ms[id] \in Message
      BY <1>1, StoredMessage DEF OpenStatus, NoMessage
    <2> QED
      BY <2>1 DEF Message
  <1> SUFFICES ASSUME NEW c \in TargetChains
               PROVE  LET of(S) == {id \in MessageIds : mq.messages[id].chain = c
                                                        /\ mq.messages[id].status \in S}
                          waiting == of({"Pending", "Relayed", "Failed"})
                          nonces(S) == {mq.messages[id].nonce : id \in S}
                      IN  /\ nonces(waiting) = mq.expected[c]..(mq.outbound[c] - 1)
                          /\ Cardinality(waiting) = mq.outbound[c] - mq.expected[c]
                          /\ nonces(of({"Delivered"})) \subseteq 0..(mq.expected[c] - 1)
    BY DEF NoncesAccounted
  <1> DEFINE W == {id \in MessageIds : ms[id].chain = c /\ ms[id].status \in OpenStatus}
             D == {id \in MessageIds : ms[id].chain = c /\ ms[id].status \in {"Delivered"}}
             lo == mq.expected[c]
             hi == mq.outbound[c]
  <1>3. lo \in Nat /\ hi \in Nat /\ lo <= hi
    BY <1>1 DEF NoncesOK, NonceTypes
  <1>4. /\ W = {id \in DOMAIN ms : ms[id].chain = c /\ ms[id].status \in OpenStatus}
        /\ D = {id \in DOMAIN ms : ms[id].chain = c /\ ms[id].status = "Delivered"}
    BY <1>1, <1>2 DEF MessageIds
  <1> HIDE DEF W, D
  <1>5. \A id \in W : ms[id].nonce \in lo..(hi - 1)
    BY <1>1, <1>2, <1>3, <1>4 DEF NoncesOK, NonceRanges
  <1>6. \A n \in lo..(hi - 1) : \E id \in W : ms[id].nonce = n
    BY <1>1, <1>3, <1>4 DEF NoncesOK, NoncesComplete
  <1>7. \A id, jd \in W : ms[id].nonce = ms[jd].nonce => id = jd
    BY <1>1, <1>4 DEF NoncesOK, NoncesUnique
  <1>8. {ms[id].nonce : id \in W} = lo..(hi - 1)
    BY <1>5, <1>6
  <1>9. Cardinality(W) = hi - lo
    <2> DEFINE f == [id \in W |-> ms[id].nonce]
               I == lo..(hi - 1)
    <2>1. f \in [W -> I]
      BY <1>5
    <2>2. \A id, jd \in W : f[id] = f[jd] => id = jd
      BY <1>7
    <2>3. \A n \in I : \E id \in W : f[id] = n
      BY <1>6
    <2>4. IsFiniteSet(I) /\ Cardinality(I) = hi - lo
      <3>1. lo \in Int /\ hi - 1 \in Int
        BY <1>3
      <3>2. /\ IsFiniteSet(lo..(hi - 1))
            /\ Cardinality(lo..(hi - 1)) = IF lo > hi - 1 THEN 0 ELSE (hi - 1) - lo + 1
        BY <3>1, FS_Interval
      <3>3. (IF lo > hi - 1 THEN 0 ELSE (hi - 1) - lo + 1) = hi - lo
        BY <1>3
      <3> QED
        BY <3>2, <3>3
    <2> HIDE DEF f, I
    <2>5. f \in Injection(W, I) /\ f \in Surjection(W, I)
      BY <2>1, <2>2, <2>3 DEF Injection, Surjection, IsInjective
    <2>6. Cardinality(W) = Cardinality(I)
      BY <2>4, <2>5, FS_Injection
    <2> QED
      BY <2>4, <2>6
  <1>10. {ms[id].nonce : id \in D} \subseteq 0..(lo - 1)
    <2>1. \A id \in D : ms[id].nonce \in Nat /\ ms[id].nonce < lo
      BY <1>1, <1>2, <1>4 DEF NoncesOK, NonceRanges
    <2> QED
      BY <1>3, <2>1
  <1> QED
    BY <1>8, <1>9, <1>10 DEF W, D, OpenStatus

----------------------------------------------------------------------------
\* Monitored transfers
MonitorFields ==
    {"txs", "transfers", "window", "tripped", "breaker", "fee_config", "treasury_set", "multiplier",
     "stats", "daily_transfers", "analytics", "validators"}

TransferFields == {"amount", "fee_paid", "status", "signatures", "created_at"}

MonitoredTx ==
    [block : Nat, confirmations : Nat, status : {"None", "Pending", "Confirming", "Finalized",
                                                 "Reorged", "Failed"}, first_seen : Nat]

\* An approved transfer keeps its signatures.
SignedOK(t) ==
    /\ DOMAIN t = TransferFields
    /\ IsFiniteSet(t.signatures)
    /\ t.status \in {"ValidatorApproved", "Minting"} => Cardinality(t.signatures) >= 2

\* Every signature of a validator was on time or late.
CountedOK(a) ==
    /\ DOMAIN a = {"signatures", "on_time", "late", "avg_response", "uptime"}
    /\ a.on_time \in Nat /\ a.late \in Nat /\ a.signatures = a.on_time + a.late

\* The invariant of a monitoring record m.
MonitorOK(m) ==
    /\ DOMAIN m = MonitorFields
    /\ m.txs \in [MonitoredIds -> MonitoredTx]
    /\ DOMAIN m.transfers = MonitoredIds /\ \A i \in MonitoredIds : SignedOK(m.transfers[i])
    /\ DOMAIN m.validators = ValidatorPool /\ \A v \in ValidatorPool : CountedOK(m.validators[v])
    /\ m.breaker \in BreakerConfigs
    /\ m.window \in Seq(Nat) /\ \E c \in BreakerConfigs : Len(m.window) <= c.window_size

\* A field the invariant does not speak of may hold anything.
LEMMA OtherFields ==
    ASSUME NEW m, MonitorOK(m), NEW x
    PROVE  /\ MonitorOK([m EXCEPT !.fee_config = x]) /\ MonitorOK([m EXCEPT !.treasury_set = x])
           /\ MonitorOK([m EXCEPT !.multiplier = x]) /\ MonitorOK([m EXCEPT !.stats = x])
           /\ MonitorOK([m EXCEPT !.daily_transfers = x]) /\ MonitorOK([m EXCEPT !.analytics = x])
           /\ MonitorOK([m EXCEPT !.tripped = x])
  BY DEF MonitorOK, MonitorFields

\* A transaction's entry may be replaced by another.
LEMMA TxReplaced ==
    ASSUME NEW m, MonitorOK(m), NEW i \in MonitoredIds, NEW t \in MonitoredTx
    PROVE  /\ MonitorOK([m EXCEPT !.txs[i] = t])
           /\ [m EXCEPT !.txs[i] = t].transfers = m.transfers
  <1>1. [m.txs EXCEPT ![i] = t] \in [MonitoredIds -> MonitoredTx]
    BY DEF MonitorOK
  <1> QED
    BY <1>1 DEF MonitorOK, MonitorFields

\* A transfer may be replaced by one that is as well signed.
LEMMA TransferReplaced ==
    ASSUME NEW m, MonitorOK(m), NEW i \in MonitoredIds, NEW t, SignedOK(t)
    PROVE  MonitorOK([m EXCEPT !.transfers[i] = t])
  <1>1. DOMAIN [m.transfers EXCEPT ![i] = t] = MonitoredIds
        /\ \A j \in MonitoredIds : SignedOK([m.transfers EXCEPT ![i] = t][j])
    BY DEF MonitorOK
  <1> HIDE DEF SignedOK
  <1> QED
    BY <1>1 DEF MonitorOK, MonitorFields

\* The latency window is cut to the size in force.
LEMMA WindowKept ==
    ASSUME NEW m, MonitorOK(m), NEW latency \in Nat
    PROVE  MonitorOK(record_finality_latency(m, latency))
  <1> DEFINE longer == Append(m.window, latency)
             size == m.breaker.window_size
             window == IF Len(longer) > size
                       THEN SubSeq(longer, Len(longer) - size + 1, Len(longer)) ELSE longer
  <1>1. m.window \in Seq(Nat) /\ m.breaker \in BreakerConfigs
    BY DEF MonitorOK
  <1>2. size \in Nat
    BY <1>1, BridgeMonitorConstants
  <1>3. longer \in Seq(Nat) /\ Len(longer) \in Nat /\ DOMAIN longer = 1..Len(longer)
    BY <1>1
  <1> HIDE DEF longer, size
  <1>4. window \in Seq(Nat) /\ Len(window) <= size
    <2>1. CASE Len(longer) > size
      <3>1. \A i \in (Len(longer) - size + 1) .. Len(longer) : longer[i] \in Nat
        BY <1>2, <1>3, <2>1
      <3>2. Len(longer) - size + 1 \in Int /\ Len(longer) \in Int
        BY <1>2, <1>3
      <3>3. /\ SubSeq(longer, Len(longer) - size + 1, Len(longer)) \in Seq(Nat)
            /\ Len(SubSeq(longer, Len(longer) - size + 1, Len(longer)))
                  = IF Len(longer) - size + 1 <= Len(longer)
                    THEN Len(longer) - (Len(longer) - size + 1) + 1 ELSE 0
        BY <3>1, <3>2, SubSeqProperties
      <3> QED
        BY <1>2, <1>3, <2>1, <3>3
    <2>2. CASE ~ (Len(longer) > size)
      BY <1>2, <1>3, <2>2
    <2> QED
      BY <2>1, <2>2
  <1> HIDE DEF window
  <1>5. PICK b : record_finality_latency(m, latency) = [m EXCEPT !.window = window, !.tripped = b]
    BY DEF record_finality_latency, window, longer, size
  <1>6. MonitorOK([m EXCEPT !.window = window, !.tripped = b])
    BY <1>1, <1>4 DEF MonitorOK, MonitorFields, size
  <1> QED
    BY <1>5, <1>6

\* Every call of monitoring.rs and analytics.rs keeps the invariant.
LEMMA MonitorStepKeeps ==
    ASSUME MonitorOK(mon), ClockTypeOK, MonitorStep
    PROVE  MonitorOK(mon')
  <1>1. /\ DOMAIN mon = MonitorFields /\ mon.txs \in [MonitoredIds -> MonitoredTx]
        /\ DOMAIN mon.transfers = MonitoredIds /\ \A i \in MonitoredIds : SignedOK(mon.transfers[i])
        /\ DOMAIN mon.validators = ValidatorPool /\ \A v \in ValidatorPool : CountedOK(mon.validators[v])
        /\ now \in Nat
    BY DEF MonitorOK, ClockTypeOK
  <1>2. ASSUME NEW i \in MonitoredIds, NEW b \in SourceBlocks, monitor_source_transaction(i, b)
        PROVE  MonitorOK(mon')
    <2> DEFINE t == [block |-> b, confirmations |-> 0, status |-> "Pending", first_seen |-> now]
    <2>1. t \in MonitoredTx
      BY <1>1, BridgeMonitorConstants DEF MonitoredTx
    <2>2. mon' = [mon EXCEPT !.txs[i] = t]
      BY <1>2 DEF monitor_source_transaction
    <2> HIDE DEF t
    <2> QED
      BY <2>1, <2>2, TxReplaced
  <1>3. ASSUME NEW i \in MonitoredTxs, NEW b \in SourceBlocks,
               update_transaction_confirmation_count(i, b)
        PROVE  MonitorOK(mon')
    <2> DEFINE n == SatSub(b, mon.txs[i].block)
               t == [mon.txs[i] EXCEPT !.confirmations = n]
               counted == [mon EXCEPT !.txs[i].confirmations = n]
    <2>1. i \in MonitoredIds /\ mon.txs[i] \in MonitoredTx
      BY <1>1, <1>3 DEF MonitoredTxs
    <2>2. n \in Nat
      BY <2>1, BridgeMonitorConstants DEF SatSub, MonitoredTx
    <2> HIDE DEF n
    <2>3. /\ t \in MonitoredTx
          /\ \A st \in {"Finalized", "Confirming"} : [t EXCEPT !.status = st] \in MonitoredTx
      BY <2>1, <2>2 DEF MonitoredTx
    <2>4. counted = [mon EXCEPT !.txs[i] = t] /\ counted.txs[i] = t
      BY <1>1, <2>1 DEF MonitorFields
    <2> HIDE DEF t
    <2>5. MonitorOK(counted)
      BY <2>1, <2>3, <2>4, TxReplaced
    <2>6. \/ mon' = mark_as_finalized(counted, i)
          \/ mon' = [counted EXCEPT !.txs[i].status = "Confirming"]
      BY <1>3 DEF update_transaction_confirmation_count, n
    <2> HIDE DEF counted
    <2>7. \A st \in {"Finalized", "Confirming"} : MonitorOK([counted EXCEPT !.txs[i].status = st])
      <3> SUFFICES ASSUME NEW st \in {"Finalized", "Confirming"}
                   PROVE  MonitorOK([counted EXCEPT !.txs[i].status = st])
        OBVIOUS
      <3>1. [counted EXCEPT !.txs[i].status = st] = [counted EXCEPT !.txs[i] = [t EXCEPT !.status = st]]
        BY <2>4
      <3>2. [t EXCEPT !.status = st] \in MonitoredTx
        BY <2>3
      <3> QED
        BY <2>1, <2>5, <3>1, <3>2, TxReplaced
    <2>8. MonitorOK(mark_as_finalized(counted, i))
      <3>1. SatSub(now, t.first_seen) \in Nat
        BY <1>1, <2>3 DEF SatSub, MonitoredTx
      <3>2. mark_as_finalized(counted, i)
               = record_finality_latency([counted EXCEPT !.txs[i].status = "Finalized"],
                                         SatSub(now, t.first_seen))
        BY <2>4 DEF mark_as_finalized
      <3> QED
        BY <2>7, <3>1, <3>2, WindowKept
    <2> QED
      BY <2>6, <2>7, <2>8
  <1>4. ASSUME NEW i \in MonitoredTxs, handle_reorg(i)
        PROVE  MonitorOK(mon')
    <2> DEFINE t == [mon.txs[i] EXCEPT !.confirmations = 0, !.status = "Reorged"]
               x == IF i \in CreatedTransfers
                    THEN [mon.transfers[i] EXCEPT !.status = "Pending", !.signatures = {}]
                    ELSE mon.transfers[i]
    <2>1. i \in MonitoredIds /\ mon.txs[i] \in MonitoredTx /\ SignedOK(mon.transfers[i])
      BY <1>1, <1>4 DEF MonitoredTxs
    <2>2. t \in MonitoredTx
      BY <2>1 DEF MonitoredTx
    <2>3. SignedOK(x)
      BY <2>1, FS_EmptySet DEF SignedOK, TransferFields
    <2>4. mon' = [[mon EXCEPT !.txs[i] = t] EXCEPT !.transfers[i] = x]
      BY <1>1, <1>4, <2>1 DEF handle_reorg, MonitorFields
    <2> HIDE DEF t, x
    <2>5. MonitorOK([mon EXCEPT !.txs[i] = t])
      BY <2>1, <2>2, TxReplaced
    <2> QED
      BY <2>1, <2>3, <2>4, <2>5, TransferReplaced
  <1>5. ASSUME NEW i \in MonitoredTxs, mark_transaction_failed(i)
        PROVE  MonitorOK(mon')
    <2> DEFINE t == [mon.txs[i] EXCEPT !.status = "Failed"]
               x == IF i \in CreatedTransfers
                    THEN [mon.transfers[i] EXCEPT !.status = "Failed"]
                    ELSE mon.transfers[i]
    <2>1. i \in MonitoredIds /\ mon.txs[i] \in MonitoredTx /\ SignedOK(mon.transfers[i])
      BY <1>1, <1>5 DEF MonitoredTxs
    <2>2. t \in MonitoredTx
      BY <2>1 DEF MonitoredTx
    <2>3. SignedOK(x)
      BY <2>1 DEF SignedOK, TransferFields
    <2>4. mon' = [[mon EXCEPT !.txs[i] = t] EXCEPT !.transfers[i] = x]
      BY <1>1, <1>5, <2>1 DEF mark_transaction_failed, MonitorFields
    <2> HIDE DEF t, x
    <2>5. MonitorOK([mon EXCEPT !.txs[i] = t])
      BY <2>1, <2>2, TxReplaced
    <2> QED
      BY <2>1, <2>3, <2>4, <2>5, TransferReplaced
  <1>6. ASSUME clear_circuit_breaker
        PROVE  MonitorOK(mon')
    <2>1. <<>> \in Seq(Nat) /\ \E c \in BreakerConfigs : Len(<<>>) <= c.window_size
      BY BridgeMonitorConstants
    <2> QED
      BY <1>6, <2>1 DEF clear_circuit_breaker, MonitorOK, MonitorFields
  <1>7. ASSUME NEW c \in BreakerConfigs, set_latency_circuit_breaker_config(c)
        PROVE  MonitorOK(mon')
    BY <1>7 DEF set_latency_circuit_breaker_config, MonitorOK, MonitorFields
  <1>8. ASSUME NEW i \in MonitoredIds, NEW a, NEW f, create_bridge_transfer(i, a, f)
        PROVE  MonitorOK(mon')
    <2> DEFINE x == [amount |-> a, fee_paid |-> f, status |-> "Pending", signatures |-> {},
                     created_at |-> now]
    <2>1. SignedOK(x)
      BY FS_EmptySet DEF SignedOK, TransferFields
    <2>2. mon' = [mon EXCEPT !.transfers[i] = x]
      BY <1>8 DEF create_bridge_transfer
    <2> HIDE DEF x
    <2> QED
      BY <2>1, <2>2, TransferReplaced
  <1>9. ASSUME NEW i \in CreatedTransfers, NEW v \in ValidatorPool, NEW g \in Signatures,
               add_validator_signature(i, v, g)
        PROVE  MonitorOK(mon')
    <2> DEFINE t == mon.transfers[i]
               sigs == t.signatures \cup {g}
               st == IF Cardinality(sigs) >= 2 THEN "ValidatorApproved" ELSE t.status
               x == [t EXCEPT !.signatures = sigs, !.status = st]
               a == update_validator_analytics(v, t.created_at)
               m == [mon EXCEPT !.transfers[i] = x]
    <2>1. i \in MonitoredIds /\ SignedOK(t) /\ CountedOK(mon.validators[v])
      BY <1>1, <1>9 DEF CreatedTransfers
    <2>2. IsFiniteSet(sigs) /\ Cardinality(sigs) \in Nat /\ Cardinality(t.signatures) \in Nat
          /\ Cardinality(sigs) >= Cardinality(t.signatures)
      <3>1. IsFiniteSet(t.signatures) /\ Cardinality(t.signatures) \in Nat
        BY <2>1, FS_CardinalityType DEF SignedOK
      <3> QED
        BY <3>1, FS_AddElement
    <2>3. SignedOK(x)
      <3>1. DOMAIN x = TransferFields /\ x.signatures = sigs /\ x.status = st
        BY <2>1 DEF SignedOK, TransferFields
      <3>2. st \in {"ValidatorApproved", "Minting"} => Cardinality(sigs) >= 2
        BY <2>1, <2>2 DEF SignedOK
      <3> HIDE DEF x, sigs, st
      <3> QED
        BY <2>2, <3>1, <3>2 DEF SignedOK
    <2>4. CountedOK(a)
      BY <2>1 DEF CountedOK, update_validator_analytics
    <2>5. mon' = [m EXCEPT !.validators[v] = a]
      BY <1>1, <1>9, <2>1 DEF add_validator_signature, MonitorFields
    <2> HIDE DEF x, a
    <2>6. MonitorOK(m)
      BY <2>1, <2>3, TransferReplaced
    <2> HIDE DEF m
    <2>7. MonitorOK([m EXCEPT !.validators[v] = a])
      <3>1. DOMAIN [m.validators EXCEPT ![v] = a] = ValidatorPool
            /\ \A w \in ValidatorPool : CountedOK([m.validators EXCEPT ![v] = a][w])
        BY <2>4, <2>6 DEF MonitorOK
      <3> QED
        BY <2>6, <3>1 DEF MonitorOK, MonitorFields
    <2> QED
      BY <2>5, <2>7
  <1>10. ASSUME NEW i \in CreatedTransfers, approve_transfer_for_minting(i)
         PROVE  MonitorOK(mon')
    <2> DEFINE x == [mon.transfers[i] EXCEPT !.status = "Minting"]
    <2>1. i \in MonitoredIds /\ SignedOK(mon.transfers[i])
          /\ mon.transfers[i].status = "ValidatorApproved"
      BY <1>1, <1>10 DEF CreatedTransfers, approve_transfer_for_minting
    <2>2. SignedOK(x)
      BY <2>1 DEF SignedOK, TransferFields
    <2>3. mon' = [mon EXCEPT !.transfers[i] = x]
      BY <1>10 DEF approve_transfer_for_minting
    <2> HIDE DEF x
    <2> QED
      BY <2>1, <2>2, <2>3, TransferReplaced
  <1>11. ASSUME NEW i \in CreatedTransfers, complete_transfer(i)
         PROVE  MonitorOK(mon')
    <2> DEFINE x == [mon.transfers[i] EXCEPT !.status = "Complete"]
               y == update_transfer_analytics(mon.analytics, mon.transfers[i])
               m == [mon EXCEPT !.transfers[i] = x]
    <2>1. i \in MonitoredIds /\ SignedOK(mon.transfers[i])
      BY <1>1, <1>11 DEF CreatedTransfers
    <2>2. SignedOK(x)
      BY <2>1 DEF SignedOK, TransferFields
    <2>3. mon' = [m EXCEPT !.analytics = y]
      BY <1>1, <1>11 DEF complete_transfer, MonitorFields
    <2> HIDE DEF x, y
    <2>4. MonitorOK(m)
      BY <2>1, <2>2, TransferReplaced
    <2> HIDE DEF m
    <2> QED
      BY <2>3, <2>4, OtherFields
  <1> QED
    BY <1>2, <1>3, <1>4, <1>5, <1>6, <1>7, <1>8, <1>9, <1>10, <1>11 DEF MonitorStep

\* The calls of fees.rs write none of it.
LEMMA FeeStepKeeps ==
    ASSUME MonitorOK(mon), FeeStep
    PROVE  MonitorOK(mon')
  <1>1. DOMAIN mon = MonitorFields
    BY DEF MonitorOK
  <1>2. ASSUME NEW i, NEW n, collect_bridge_fee(i, n)
        PROVE  MonitorOK(mon')
    <2> DEFINE total == mon.stats.collected + calculate_bridge_fee(n)
               count == mon.stats.count + 1
               x == [mon.stats EXCEPT !.collected = total, !.count = count, !.avg_fee = total \div count]
               m == [mon EXCEPT !.stats = x]
    <2>1. mon' = [m EXCEPT !.daily_transfers = mon.daily_transfers + 1]
      BY <1>1, <1>2 DEF collect_bridge_fee, MonitorFields
    <2> HIDE DEF x
    <2>2. MonitorOK(m)
      BY OtherFields
    <2> HIDE DEF m
    <2> QED
      BY <2>1, <2>2, OtherFields
  <1>3. ASSUME NEW i, refund_bridge_fee(i)
        PROVE  MonitorOK(mon')
    <2> DEFINE x == [mon.stats EXCEPT !.collected = @ - mon.transfers[i].fee_paid]
    <2>1. mon' = [mon EXCEPT !.stats = x]
      BY <1>3 DEF refund_bridge_fee
    <2> HIDE DEF x
    <2> QED
      BY <2>1, OtherFields
  <1>4. ASSUME distribute_validator_rewards
        PROVE  MonitorOK(mon')
    <2> DEFINE x == [mon.stats EXCEPT !.to_validators = @ + validator_share]
    <2>1. mon' = [mon EXCEPT !.stats = x]
      BY <1>4 DEF distribute_validator_rewards
    <2> HIDE DEF x
    <2> QED
      BY <2>1, OtherFields
  <1>5. ASSUME allocate_to_treasury
        PROVE  MonitorOK(mon')
    <2> DEFINE x == [mon.stats EXCEPT !.to_treasury = @ + treasury_share]
    <2>1. mon' = [mon EXCEPT !.stats = x]
      BY <1>5 DEF allocate_to_treasury
    <2> HIDE DEF x
    <2> QED
      BY <2>1, OtherFields
  <1>6. ASSUME NEW x, set_bridge_fee_config(x) \/ set_chain_fee_multiplier(x)
        PROVE  MonitorOK(mon')
    <2>1. mon' = [mon EXCEPT !.fee_config = x] \/ mon' = [mon EXCEPT !.multiplier = x]
      BY <1>6 DEF set_bridge_fee_config, set_chain_fee_multiplier
    <2>2. MonitorOK([mon EXCEPT !.fee_config = x]) /\ MonitorOK([mon EXCEPT !.multiplier = x])
      BY OtherFields
    <2> QED
      BY <2>1, <2>2
  <1>7. ASSUME set_bridge_treasury
        PROVE  MonitorOK(mon')
    BY <1>7, OtherFields DEF set_bridge_treasury
  <1>8. ASSUME adjust_bridge_fees_dynamically
        PROVE  MonitorOK(mon')
    <2> DEFINE u == calculate_bridge_utilization
               bps == mon.fee_config.base_fee_bps
               lower == IF SatSub(bps, 5) > 10 THEN SatSub(bps, 5) ELSE 10
               higher == IF bps + 5 < 100 THEN bps + 5 ELSE 100
               x == [mon.fee_config EXCEPT !.base_fee_bps =
                        IF u <= 3000 THEN lower ELSE IF u >= 7000 THEN higher ELSE bps]
    <2>1. mon' = [mon EXCEPT !.fee_config = x]
      BY <1>8 DEF adjust_bridge_fees_dynamically
    <2> HIDE DEF x
    <2> QED
      BY <2>1, OtherFields
  <1> QED
    BY <1>2, <1>3, <1>4, <1>5, <1>6, <1>7, <1>8 DEF FeeStep

----------------------------------------------------------------------------
CrossChainInv == ClockTypeOK /\ MessagesOK /\ MonitorOK(mon)

\* While committee, messages and monitoring run side by side, no message is lost,
\* delivered twice or ahead of another, and a transfer counts as approved only with
\* its two signatures, whatever reorganisations, failures, time-outs and retries
\* come in between.  About messaging.rs and monitoring.rs.
THEOREM CrossChainAlwaysSound == CrossChainSpec => []CrossChainSound
  <1>1. CrossChainInit => CrossChainInv
    <2> SUFFICES ASSUME CrossChainInit
                 PROVE  CrossChainInv
      OBVIOUS
    <2>1. ClockTypeOK
      BY DEF CrossChainInit, ClockInit, ClockTypeOK
    <2>2. MessagesOK
      BY DEF CrossChainInit, MessagesInit, MessagesOK, QueueFields, NoncesOK, NonceTypes, NonceRanges,
             NoncesUnique, NoncesComplete
    <2>3. MonitorOK(mon)
      <3>1. NoTx \in MonitoredTx /\ SignedOK(NoBridgeTransfer) /\ CountedOK(NoValidatorAnalytics)
        BY FS_EmptySet DEF NoTx, MonitoredTx, NoBridgeTransfer, SignedOK, TransferFields,
                           NoValidatorAnalytics, CountedOK
      <3>2. (CHOOSE c \in BreakerConfigs : TRUE) \in BreakerConfigs
        BY BridgeMonitorConstants
      <3>3. <<>> \in Seq(Nat) /\ \E c \in BreakerConfigs : Len(<<>>) <= c.window_size
        BY BridgeMonitorConstants
      <3> QED
        BY <3>1, <3>2, <3>3 DEF CrossChainInit, MonitorInit, MonitorOK, MonitorFields
    <2> QED
      BY <2>1, <2>2, <2>3 DEF CrossChainInv
  <1>2. CrossChainInv /\ [CrossChainNext]_crossChainVars => CrossChainInv'
    <2> SUFFICES ASSUME CrossChainInv, [CrossChainNext]_crossChainVars
                 PROVE  CrossChainInv'
      OBVIOUS
    <2>1. ClockTypeOK'
      BY ClockSteps DEF CrossChainInv, CrossChainNext, crossChainVars
    <2>2. MessagesOK'
      <3>1. CASE MessageStep
        BY <3>1, MessageStepKeeps DEF CrossChainInv
      <3>2. CASE UNCHANGED mq
        BY <3>2 DEF CrossChainInv, MessagesOK
      <3> QED
        BY <3>1, <3>2 DEF CrossChainNext, crossChainVars
    <2>3. MonitorOK(mon')
      <3>1. CASE MonitorStep
        BY <3>1, MonitorStepKeeps DEF CrossChainInv
      <3>2. CASE FeeStep
        BY <3>2, FeeStepKeeps DEF CrossChainInv
      <3>3. CASE UNCHANGED mon
        BY <3>3 DEF CrossChainInv
      <3> QED
        BY <3>1, <3>2, <3>3 DEF CrossChainNext, crossChainVars
    <2> QED
      BY <2>1, <2>2, <2>3 DEF CrossChainInv
  <1>3. CrossChainInv => CrossChainSound
    <2> SUFFICES ASSUME CrossChainInv
                 PROVE  CrossChainSound
      OBVIOUS
    <2>1. ApprovedBySignatures
      BY DEF CrossChainInv, MonitorOK, SignedOK, CountedOK, ApprovedBySignatures
    <2> QED
      BY <2>1, NoncesCounted DEF CrossChainInv, CrossChainSound
  <1> QED
    BY <1>1, <1>2, <1>3, PTL DEF CrossChainSpec

----------------------------------------------------------------------------
\* The transfers.  The books are sums over the stored transfers: what one of them
\* added to the minted supply, and to the volume of day d.
TransferKept == {"kind", "user", "route", "amount", "tx", "created_at"}
TransferAll == TransferKept \cup {"approvals", "status", "executed_at", "retryable"}

StoredOK(t) ==
    /\ DOMAIN t = TransferAll
    /\ t.user \in BridgeUsers /\ t.route \in Routes
    /\ t.amount \in Nat /\ t.created_at \in Nat

NetOf(t) ==
    (IF t.kind = "LockMint" /\ t.status = "Completed" THEN t.amount ELSE 0)
        - (IF t.kind = "BurnUnlock" THEN t.amount ELSE 0)
DayOf(t, d) == IF day_bucket(t.created_at) = d THEN t.amount ELSE 0

StoredAll(ts) == ts \in Seq(Range(ts)) /\ \A i \in DOMAIN ts : StoredOK(ts[i])
NetTerms(ts) == [i \in DOMAIN ts |-> NetOf(ts[i])]
DayTerms(ts, d) == [i \in DOMAIN ts |-> DayOf(ts[i], d)]
NetIn(ts) == SumFunctionOnSet(NetTerms(ts), DOMAIN ts)
DayIn(ts, d) == SumFunctionOnSet(DayTerms(ts, d), DOMAIN ts)

\* The terms are integers.
LEMMA TermsType ==
    ASSUME NEW t, StoredOK(t), NEW d
    PROVE  NetOf(t) \in Int /\ DayOf(t, d) \in Nat
  BY DEF StoredOK, NetOf, DayOf

\* A list of transfers is indexed from 1, and its sums are integers.
LEMMA SumsType ==
    ASSUME NEW ts, StoredAll(ts), NEW d
    PROVE  /\ Len(ts) \in Nat /\ DOMAIN ts = 1..Len(ts) /\ IsFiniteSet(DOMAIN ts)
           /\ NetIn(ts) \in Int /\ DayIn(ts, d) \in Nat
  <1>1. Len(ts) \in Nat /\ DOMAIN ts = 1..Len(ts)
    BY DEF StoredAll
  <1>2. PICK D : D = DOMAIN ts /\ IsFiniteSet(D)
    BY <1>1, FS_Interval
  <1>3. PICK f, g : f = NetTerms(ts) /\ g = DayTerms(ts, d)
    OBVIOUS
  <1>4. ASSUME NEW i \in D
        PROVE  f[i] \in Int /\ g[i] \in Nat
    <2>1. StoredOK(ts[i]) /\ f[i] = NetOf(ts[i]) /\ g[i] = DayOf(ts[i], d)
      BY <1>2, <1>3 DEF StoredAll, NetTerms, DayTerms
    <2> QED
      BY <2>1, TermsType
  <1>5. SumFunctionOnSet(f, D) \in Int
    BY <1>2, <1>4, SumType
  <1>6. SumFunctionOnSet(g, D) \in Nat
    BY <1>2, <1>4, SumBounds
  <1> QED
    BY <1>1, <1>2, <1>3, <1>5, <1>6 DEF NetIn, DayIn

\* A new transfer adds its terms.
LEMMA StoreAppends ==
    ASSUME NEW ts, StoredAll(ts), NEW e, StoredOK(e), NEW d
    PROVE  /\ StoredAll(Append(ts, e))
           /\ NetIn(Append(ts, e)) = NetIn(ts) + NetOf(e)
           /\ DayIn(Append(ts, e), d) = DayIn(ts, d) + DayOf(e, d)
  <1>1. PICK us : us = Append(ts, e)
    OBVIOUS
  <1>2. PICK n \in Nat : n = Len(ts)
    BY SumsType
  <1>3. PICK S : ts \in Seq(S) /\ e \in S
    <2>1. ts \in Seq(Range(ts) \cup {e})
      BY DEF StoredAll
    <2> QED
      BY <2>1
  <1>4. /\ us \in Seq(S) /\ DOMAIN ts = 1..n /\ DOMAIN us = 1..(n + 1)
        /\ us[n + 1] = e /\ \A i \in 1..n : us[i] = ts[i]
    BY <1>1, <1>2, <1>3
  <1>5. StoredAll(us)
    <2>1. ASSUME NEW i \in 1..(n + 1)
          PROVE  StoredOK(us[i])
      <3>1. i = n + 1 \/ i \in 1..n
        OBVIOUS
      <3> QED
        BY <1>4, <3>1 DEF StoredAll
    <2>2. us \in [1..(n + 1) -> Range(us)]
      BY <1>4 DEF Range
    <2>3. us \in Seq(Range(us))
      BY <2>2
    <2> QED
      BY <1>4, <2>1, <2>3 DEF StoredAll
  <1>6. PICK f, g, p, q : /\ f = NetTerms(ts) /\ g = NetTerms(us)
                          /\ p = DayTerms(ts, d) /\ q = DayTerms(us, d)
    OBVIOUS
  <1>7. /\ \A i \in 1..n : f[i] = NetOf(ts[i]) /\ p[i] = DayOf(ts[i], d)
        /\ \A i \in 1..(n + 1) : g[i] = NetOf(us[i]) /\ q[i] = DayOf(us[i], d)
    BY <1>4, <1>6 DEF NetTerms, DayTerms
  <1>8. \A i \in 1..(n + 1) : g[i] \in Int /\ q[i] \in Int
    BY <1>4, <1>5, <1>7, TermsType DEF StoredAll
  <1>9. \A i \in 1..n : g[i] = f[i] /\ q[i] = p[i]
    BY <1>4, <1>7
  <1>10. g[n + 1] = NetOf(e) /\ q[n + 1] = DayOf(e, d)
    BY <1>4, <1>7
  <1>11. SumFunctionOnSet(g, 1..(n + 1)) = SumFunctionOnSet(f, 1..n) + g[n + 1]
    BY <1>8, <1>9, SumAppends
  <1>12. SumFunctionOnSet(q, 1..(n + 1)) = SumFunctionOnSet(p, 1..n) + q[n + 1]
    BY <1>8, <1>9, SumAppends
  <1> QED
    BY <1>1, <1>4, <1>5, <1>6, <1>10, <1>11, <1>12 DEF NetIn, DayIn

\* A revised transfer replaces its terms.
LEMMA StoreRevises ==
    ASSUME NEW ts, StoredAll(ts), NEW id \in DOMAIN ts, NEW e, StoredOK(e), NEW d
    PROVE  LET us == [ts EXCEPT ![id] = e]
           IN  /\ StoredAll(us)
               /\ NetIn(us) = NetIn(ts) - NetOf(ts[id]) + NetOf(e)
               /\ DayIn(us, d) = DayIn(ts, d) - DayOf(ts[id], d) + DayOf(e, d)
  <1>1. PICK us : us = [ts EXCEPT ![id] = e]
    OBVIOUS
  <1>2. PICK n, I : n \in Nat /\ n = Len(ts) /\ DOMAIN ts = I /\ I = 1..n /\ IsFiniteSet(I)
    BY SumsType
  <1>3. DOMAIN us = I /\ us[id] = e /\ \A i \in I \ {id} : us[i] = ts[i]
    BY <1>1, <1>2
  <1>4. us = [i \in I |-> us[i]]
    BY <1>1, <1>2
  <1>5. StoredAll(us)
    <2>1. us \in [I -> Range(us)]
      BY <1>3, <1>4 DEF Range
    <2>2. us \in Seq(Range(us))
      BY <1>2, <2>1
    <2> QED
      BY <1>2, <1>3, <2>2 DEF StoredAll
  <1>6. PICK a \in I : a = id
    BY <1>2
  <1>7. PICK f, g, p, q : /\ f = NetTerms(ts) /\ g = NetTerms(us)
                          /\ p = DayTerms(ts, d) /\ q = DayTerms(us, d)
    OBVIOUS
  <1>8. \A i \in I : /\ f[i] = NetOf(ts[i]) /\ p[i] = DayOf(ts[i], d)
                        /\ g[i] = NetOf(us[i]) /\ q[i] = DayOf(us[i], d)
    BY <1>2, <1>3, <1>7 DEF NetTerms, DayTerms
  <1>9. \A i \in I : f[i] \in Int /\ g[i] \in Int /\ p[i] \in Int /\ q[i] \in Int
    <2>1. \A i \in I : StoredOK(ts[i]) /\ StoredOK(us[i])
      BY <1>2, <1>3, <1>5 DEF StoredAll
    <2> QED
      BY <1>8, <2>1, TermsType
  <1>10. \A i \in I \ {a} : g[i] = f[i] /\ q[i] = p[i]
    BY <1>3, <1>6, <1>8
  <1>11. /\ f[a] = NetOf(ts[id]) /\ p[a] = DayOf(ts[id], d)
         /\ g[a] = NetOf(e) /\ q[a] = DayOf(e, d)
    BY <1>3, <1>6, <1>8
  <1>12. SumFunctionOnSet(g, I) = SumFunctionOnSet(f, I) - f[a] + g[a]
    <2>1. \A i \in I : f[i] \in Int /\ g[i] \in Int
      BY <1>9
    <2>2. \A i \in I \ {a} : g[i] = f[i]
      BY <1>10
    <2>3. IsFiniteSet(I)
      BY <1>2
    <2> QED
      BY <2>1, <2>2, <2>3, SumChanges
  <1>13. SumFunctionOnSet(q, I) = SumFunctionOnSet(p, I) - p[a] + q[a]
    <2>1. \A i \in I : p[i] \in Int /\ q[i] \in Int
      BY <1>9
    <2>2. \A i \in I \ {a} : q[i] = p[i]
      BY <1>10
    <2>3. IsFiniteSet(I)
      BY <1>2
    <2> QED
      BY <2>1, <2>2, <2>3, SumChanges
  <1>14. /\ NetIn(us) = NetIn(ts) - NetOf(ts[id]) + NetOf(e)
         /\ DayIn(us, d) = DayIn(ts, d) - DayOf(ts[id], d) + DayOf(e, d)
    BY <1>2, <1>3, <1>7, <1>11, <1>12, <1>13 DEF NetIn, DayIn
  <1> QED
    BY <1>1, <1>5, <1>14

\* Later times are in later days.
LEMMA DaysInOrder ==
    ASSUME NEW a \in Nat, NEW b \in Nat, a <= b
    PROVE  day_bucket(a) \in Int /\ day_bucket(b) \in Int /\ day_bucket(a) <= day_bucket(b)
  <1>1. PICK d \in Nat \ {0} : d = DAY_SECONDS
    BY BridgeConstants
  <1>2. a \div d \in Nat /\ b \div d \in Nat /\ a \div d <= b \div d
    OBVIOUS
  <1>3. PICK p \in Nat, q \in Nat : p = a \div d /\ q = b \div d /\ p <= q
    BY <1>2
  <1>4. p * d \in Int /\ q * d \in Int /\ p * d <= q * d
    BY <1>3
  <1> QED
    BY <1>1, <1>3, <1>4 DEF day_bucket

\* The books at time t.  Beyond what BridgeBooks says, every deposit that was used
\* is in the replay lock, and the day that is counted is the last one with a
\* transfer, so that a day begun afresh starts from nothing.
Holdings == BridgeUsers \X WrappedAssets

TokensOK(ts, bal, minted) ==
    /\ bal \in [Holdings -> Nat]
    /\ minted = NetIn(ts) /\ minted = SumFunctionOnSet(bal, Holdings)

DepositsOK(ts, rp) ==
    /\ \A i \in DOMAIN ts : ts[i].kind = "LockMint" => ReplayKey(ts[i]) \in rp
    /\ \A i, j \in DOMAIN ts :
          i # j /\ ts[i].kind = "LockMint" /\ ts[j].kind = "LockMint"
              => ReplayKey(ts[i]) # ReplayKey(ts[j])

DayOK(ts, day, t) ==
    /\ day.day_start \in Int /\ day.total \in Nat
    /\ day.day_start <= day_bucket(t)
    /\ \A i \in DOMAIN ts : day_bucket(ts[i].created_at) <= day.day_start
    /\ day.total = DayIn(ts, day.day_start) /\ day.total <= DailyTransferLimit

BridgeFields ==
    {"transfers", "replay", "consumed", "deployment", "governed", "paused", "assets", "chains",
     "balance", "total_minted", "daily", "buffer", "threshold", "routes", "windows"}

BridgeOK(b, t) ==
    /\ DOMAIN b = BridgeFields
    /\ StoredAll(b.transfers)
    /\ TokensOK(b.transfers, b.balance, b.total_minted)
    /\ DepositsOK(b.transfers, b.replay)
    /\ DayOK(b.transfers, b.daily, t)

\* Changing one balance changes their sum by as much.
LEMMA HoldingsChange ==
    ASSUME NEW bal \in [Holdings -> Nat], NEW k \in Holdings, NEW n \in Nat
    PROVE  LET new == [bal EXCEPT ![k] = n]
           IN  /\ new \in [Holdings -> Nat]
               /\ SumFunctionOnSet(bal, Holdings) \in Int
               /\ SumFunctionOnSet(new, Holdings) = SumFunctionOnSet(bal, Holdings) - bal[k] + n
  <1>1. IsFiniteSet(Holdings)
    BY BridgeConstants, FS_Product DEF Holdings
  <1>2. PICK new : new = [bal EXCEPT ![k] = n]
    OBVIOUS
  <1>3. /\ new \in [Holdings -> Nat] /\ new[k] = n
        /\ \A x \in Holdings : bal[x] \in Int /\ new[x] \in Int
        /\ \A x \in Holdings \ {k} : new[x] = bal[x]
    BY <1>2
  <1>4. SumFunctionOnSet(new, Holdings) = SumFunctionOnSet(bal, Holdings) - bal[k] + new[k]
    BY <1>1, <1>3, SumChanges
  <1>5. SumFunctionOnSet(bal, Holdings) \in Int
    BY <1>1, <1>3, SumType
  <1> QED
    BY <1>2, <1>3, <1>4, <1>5

\* A transfer initiated at time t is counted for the day of t.
LEMMA DayCharged ==
    ASSUME NEW ts, StoredAll(ts), NEW e, StoredOK(e), NEW t \in Nat, e.created_at = t,
           NEW day, DayOK(ts, day, t), NEW new,
           new.day_start = day_bucket(t),
           new.total = (IF day.day_start = day_bucket(t) THEN day.total ELSE 0) + e.amount,
           new.total <= DailyTransferLimit
    PROVE  DayOK(Append(ts, e), new, t)
  <1>1. PICK d : d = day_bucket(t)
    OBVIOUS
  <1>2. d \in Int /\ e.amount \in Nat
    BY <1>1, DaysInOrder DEF StoredOK
  <1>3. PICK us, n : n \in Nat /\ us = Append(ts, e) /\ n = Len(ts) /\ DOMAIN ts = 1..n
    BY SumsType
  <1>4. DOMAIN us = 1..(n + 1) /\ us[n + 1] = e /\ \A i \in 1..n : us[i] = ts[i]
    <2>1. ts \in Seq(Range(ts) \cup {e})
      BY DEF StoredAll
    <2> QED
      BY <1>3, <2>1
  <1>5. DayIn(us, d) = DayIn(ts, d) + DayOf(e, d) /\ DayOf(e, d) = e.amount
    BY <1>1, <1>3, StoreAppends DEF DayOf
  <1>6. DayIn(ts, d) = IF day.day_start = d THEN day.total ELSE 0
    <2>1. CASE day.day_start = d
      BY <2>1 DEF DayOK
    <2>2. CASE day.day_start # d
      <3>1. PICK f, I : f = DayTerms(ts, d) /\ I = DOMAIN ts /\ IsFiniteSet(I)
        BY SumsType
      <3>2. ASSUME NEW i \in I
            PROVE  f[i] = 0
        <4>1. day_bucket(ts[i].created_at) <= day.day_start /\ day.day_start <= d /\ d \in Int
              /\ day.day_start \in Int
          BY <1>1, <1>2, <3>1 DEF DayOK
        <4>2. day_bucket(ts[i].created_at) \in Int
          BY <3>1, DaysInOrder DEF StoredAll, StoredOK
        <4>3. day_bucket(ts[i].created_at) # d
          BY <2>2, <4>1, <4>2
        <4> QED
          BY <3>1, <4>3 DEF DayTerms, DayOf
      <3>3. SumFunctionOnSet(f, I) = 0
        BY <3>1, <3>2, SumZero
      <3> QED
        BY <2>2, <3>1, <3>3 DEF DayIn
    <2> QED
      BY <2>1, <2>2
  <1>7. \A i \in DOMAIN us : day_bucket(us[i].created_at) <= d
    <2>1. ASSUME NEW i \in 1..(n + 1)
          PROVE  day_bucket(us[i].created_at) <= d
      <3>1. CASE i = n + 1
        BY <1>1, <1>2, <1>4, <3>1
      <3>2. CASE i \in 1..n
        <4>1. /\ day_bucket(ts[i].created_at) <= day.day_start /\ day.day_start <= d
              /\ day.day_start \in Int
          BY <1>1, <1>3, <3>2 DEF DayOK
        <4>2. day_bucket(ts[i].created_at) \in Int
          <5>1. PICK c \in Nat : c = ts[i].created_at
            BY <1>3, <3>2 DEF StoredAll, StoredOK
          <5> QED
            BY <5>1, DaysInOrder
        <4>3. day_bucket(ts[i].created_at) <= d
          BY <1>2, <4>1, <4>2
        <4> QED
          BY <1>4, <3>2, <4>3
      <3>3. i = n + 1 \/ i \in 1..n
        BY <1>3
      <3> QED
        BY <3>1, <3>2, <3>3
    <2> QED
      BY <1>4, <2>1
  <1>8. new.total = DayIn(us, new.day_start)
    BY <1>1, <1>5, <1>6
  <1>9. new.total \in Nat
    BY <1>2 DEF DayOK
  <1> QED
    BY <1>1, <1>2, <1>3, <1>7, <1>8, <1>9 DEF DayOK

\* Closing a ledger leaves the books in order.
LEMMA LaterOK ==
    ASSUME NEW b, NEW t \in Nat, NEW u \in Nat, t <= u, BridgeOK(b, t)
    PROVE  BridgeOK(b, u)
  <1>1. day_bucket(t) \in Int /\ day_bucket(u) \in Int /\ day_bucket(t) <= day_bucket(u)
    BY DaysInOrder
  <1> QED
    BY <1>1 DEF BridgeOK, DayOK

\* What initiating a transfer e does to the record.
Charges(b, c, e, t) ==
    /\ DOMAIN c = BridgeFields
    /\ c.transfers = Append(b.transfers, e)
    /\ c.daily.day_start = day_bucket(t)
    /\ c.daily.total = (IF b.daily.day_start = day_bucket(t) THEN b.daily.total ELSE 0) + e.amount
    /\ c.daily.total <= DailyTransferLimit
    /\ StoredOK(e) /\ e.created_at = t /\ e.status = "PendingValidators"

\* Initiating a transfer whose deposit is fresh, or which is a burn, keeps the deposits.
LEMMA DepositsAppend ==
    ASSUME NEW ts, StoredAll(ts), NEW e, StoredOK(e), NEW rp, NEW new, DepositsOK(ts, rp),
           e.kind = "LockMint" => ReplayKey(e) \notin rp /\ ReplayKey(e) \in new,
           rp \subseteq new
    PROVE  DepositsOK(Append(ts, e), new)
  <1>1. PICK us, n : n \in Nat /\ us = Append(ts, e) /\ n = Len(ts) /\ DOMAIN ts = 1..n
    BY SumsType
  <1>2. DOMAIN us = 1..(n + 1) /\ us[n + 1] = e /\ \A i \in 1..n : us[i] = ts[i]
    <2>1. ts \in Seq(Range(ts) \cup {e})
      BY DEF StoredAll
    <2> QED
      BY <1>1, <2>1
  <1>3. \A i \in 1..(n + 1) : i = n + 1 \/ i \in 1..n
    BY <1>1
  <1>4. \A i \in 1..n : ts[i].kind = "LockMint" => ReplayKey(ts[i]) \in rp
    BY <1>1 DEF DepositsOK
  <1>5. ASSUME NEW i \in 1..(n + 1), us[i].kind = "LockMint"
        PROVE  ReplayKey(us[i]) \in new
    BY <1>2, <1>3, <1>4, <1>5
  <1>6. ASSUME NEW i \in 1..(n + 1), NEW j \in 1..(n + 1), i # j,
               us[i].kind = "LockMint", us[j].kind = "LockMint"
        PROVE  ReplayKey(us[i]) # ReplayKey(us[j])
    <2>1. CASE i \in 1..n /\ j \in 1..n
      BY <1>1, <1>2, <1>6, <2>1 DEF DepositsOK
    <2>2. CASE i = n + 1 /\ j \in 1..n
      BY <1>2, <1>4, <1>6, <2>2
    <2>3. CASE j = n + 1 /\ i \in 1..n
      BY <1>2, <1>4, <1>6, <2>3
    <2> QED
      BY <1>3, <1>6, <2>1, <2>2, <2>3
  <1> QED
    BY <1>1, <1>2, <1>5, <1>6 DEF DepositsOK

\* Initiating a lock-mint touches no balance.
LEMMA LockMintOK ==
    ASSUME NEW b, NEW c, NEW e, NEW t \in Nat, BridgeOK(b, t), Charges(b, c, e, t),
           e.kind = "LockMint", ReplayKey(e) \notin b.replay,
           c.replay = b.replay \cup {ReplayKey(e)},
           c.balance = b.balance, c.total_minted = b.total_minted
    PROVE  BridgeOK(c, t)
  <1>1. /\ StoredAll(b.transfers) /\ StoredOK(e)
        /\ DayOK(b.transfers, b.daily, t) /\ DepositsOK(b.transfers, b.replay)
        /\ TokensOK(b.transfers, b.balance, b.total_minted)
    BY DEF BridgeOK, Charges
  <1>2. DayOK(c.transfers, c.daily, t)
    BY <1>1, DayCharged DEF Charges
  <1>3. DepositsOK(c.transfers, c.replay)
    BY <1>1, DepositsAppend DEF Charges
  <1>4. StoredAll(c.transfers) /\ NetIn(c.transfers) = NetIn(b.transfers) + NetOf(e)
    BY <1>1, StoreAppends DEF Charges
  <1>5. NetOf(e) = 0 /\ NetIn(b.transfers) \in Int
    <2>1. NetOf(e) = 0
      BY DEF Charges, NetOf
    <2>2. NetIn(b.transfers) \in Int
      BY <1>1, SumsType
    <2> QED
      BY <2>1, <2>2
  <1>6. TokensOK(c.transfers, c.balance, c.total_minted)
    <2>1. NetIn(c.transfers) = NetIn(b.transfers)
      BY <1>4, <1>5
    <2> QED
      BY <1>1, <2>1 DEF TokensOK
  <1> QED
    BY <1>2, <1>3, <1>4, <1>6 DEF BridgeOK, Charges

\* Initiating a burn-unlock burns at once.
LEMMA BurnUnlockOK ==
    ASSUME NEW b, NEW c, NEW e, NEW t \in Nat, BridgeOK(b, t), Charges(b, c, e, t),
           e.kind = "BurnUnlock", c.replay = b.replay,
           NEW k \in Holdings, b.balance[k] >= e.amount,
           c.balance = [b.balance EXCEPT ![k] = b.balance[k] - e.amount],
           c.total_minted = b.total_minted - e.amount
    PROVE  BridgeOK(c, t)
  <1>1. /\ StoredAll(b.transfers) /\ StoredOK(e)
        /\ DayOK(b.transfers, b.daily, t) /\ DepositsOK(b.transfers, b.replay)
        /\ TokensOK(b.transfers, b.balance, b.total_minted)
    BY DEF BridgeOK, Charges
  <1>2. DayOK(c.transfers, c.daily, t)
    BY <1>1, DayCharged DEF Charges
  <1>3. DepositsOK(c.transfers, c.replay)
    BY <1>1, DepositsAppend DEF Charges
  <1>4. StoredAll(c.transfers) /\ NetIn(c.transfers) = NetIn(b.transfers) + NetOf(e)
    BY <1>1, StoreAppends DEF Charges
  <1>5. NetOf(e) = - e.amount /\ NetIn(b.transfers) \in Int /\ e.amount \in Nat
    BY <1>1, SumsType DEF NetOf, StoredOK
  <1>6. TokensOK(c.transfers, c.balance, c.total_minted)
    <2>1. PICK n \in Nat : n = b.balance[k] - e.amount
      BY <1>1, <1>5 DEF TokensOK
    <2>2. PICK bal \in [Holdings -> Nat] : bal = b.balance
      BY <1>1 DEF TokensOK
    <2>3. /\ c.balance \in [Holdings -> Nat]
          /\ SumFunctionOnSet(bal, Holdings) \in Int
          /\ SumFunctionOnSet(c.balance, Holdings) = SumFunctionOnSet(bal, Holdings) - bal[k] + n
      BY <2>1, <2>2, HoldingsChange
    <2>4. bal[k] \in Nat
      BY <2>2
    <2>5. /\ b.total_minted = NetIn(b.transfers)
          /\ b.total_minted = SumFunctionOnSet(bal, Holdings)
      BY <1>1, <2>2 DEF TokensOK
    <2>6. c.total_minted = NetIn(c.transfers)
      BY <1>4, <1>5, <2>5
    <2>7. c.total_minted = SumFunctionOnSet(c.balance, Holdings)
      BY <1>5, <2>1, <2>2, <2>3, <2>4, <2>5
    <2> QED
      BY <2>3, <2>6, <2>7 DEF TokensOK
  <1> QED
    BY <1>2, <1>3, <1>4, <1>6 DEF BridgeOK, Charges

\* What a later call on transfer id does: e takes its place, with another status.
Revises(b, c, id, e) ==
    /\ DOMAIN c = BridgeFields /\ id \in DOMAIN b.transfers
    /\ c.transfers = [b.transfers EXCEPT ![id] = e]
    /\ DOMAIN e = TransferAll
    /\ \A x \in TransferKept : e[x] = b.transfers[id][x]
    /\ c.replay = b.replay /\ c.daily = b.daily

\* Such a call keeps the deposits and the day's volume, and adds to the supply what
\* it adds to the minted amount of the transfer.
LEMMA RevisedOK ==
    ASSUME NEW b, NEW c, NEW id, NEW e, NEW t \in Nat, BridgeOK(b, t), Revises(b, c, id, e),
           TokensOK(b.transfers, b.balance, b.total_minted)
             => \/ /\ c.balance = b.balance /\ c.total_minted = b.total_minted
                   /\ NetOf(e) = NetOf(b.transfers[id])
                \/ /\ c.balance \in [Holdings -> Nat]
                   /\ SumFunctionOnSet(c.balance, Holdings)
                         = b.total_minted + NetOf(e) - NetOf(b.transfers[id])
                   /\ c.total_minted = b.total_minted + NetOf(e) - NetOf(b.transfers[id])
    PROVE  BridgeOK(c, t)
  <1>1. PICK ts, us, old : ts = b.transfers /\ us = c.transfers /\ old = b.transfers[id]
    OBVIOUS
  <1>2. /\ StoredAll(ts) /\ id \in DOMAIN ts /\ StoredOK(old) /\ old = ts[id]
        /\ us = [ts EXCEPT ![id] = e]
    BY <1>1 DEF BridgeOK, Revises, StoredAll
  <1>3. /\ e.kind = old.kind /\ e.user = old.user /\ e.route = old.route
        /\ e.amount = old.amount /\ e.tx = old.tx /\ e.created_at = old.created_at
    BY <1>1 DEF Revises, TransferKept
  <1>4. StoredOK(e)
    BY <1>2, <1>3 DEF StoredOK, Revises
  <1>5. /\ StoredAll(us) /\ NetIn(us) = NetIn(ts) - NetOf(old) + NetOf(e)
        /\ \A d : DayIn(us, d) = DayIn(ts, d) - DayOf(old, d) + DayOf(e, d)
    <2>1. StoredAll(ts) /\ id \in DOMAIN ts
      BY <1>2
    <2>2. ASSUME NEW d
          PROVE  /\ StoredAll([ts EXCEPT ![id] = e])
                 /\ NetIn([ts EXCEPT ![id] = e]) = NetIn(ts) - NetOf(ts[id]) + NetOf(e)
                 /\ DayIn([ts EXCEPT ![id] = e], d) = DayIn(ts, d) - DayOf(ts[id], d) + DayOf(e, d)
      BY <1>4, <2>1, StoreRevises
    <2> QED
      BY <1>2, <2>2, Zenon
  <1>6. DOMAIN us = DOMAIN ts /\ us[id] = e /\ \A i \in DOMAIN ts : i # id => us[i] = ts[i]
    BY <1>2
  <1>7. DepositsOK(us, c.replay)
    <2>1. ReplayKey(e) = ReplayKey(old)
      BY <1>3 DEF ReplayKey
    <2>2. \A i \in DOMAIN ts : us[i].kind = ts[i].kind /\ ReplayKey(us[i]) = ReplayKey(ts[i])
      BY <1>2, <1>3, <1>6, <2>1
    <2>3. DepositsOK(ts, b.replay) /\ c.replay = b.replay
      BY <1>1 DEF BridgeOK, Revises
    <2> QED
      BY <1>6, <2>2, <2>3 DEF DepositsOK
  <1>8. DayOK(us, c.daily, t)
    <2>1. PICK d : d = b.daily.day_start
      OBVIOUS
    <2>2. DayIn(us, d) = DayIn(ts, d) - DayOf(old, d) + DayOf(e, d)
      BY <1>5
    <2>3. DayOf(old, d) = DayOf(e, d)
      BY <1>3 DEF DayOf
    <2>4. DayIn(ts, d) \in Nat /\ DayOf(e, d) \in Nat
      <3>1. DayIn(ts, d) \in Nat
        BY <1>2, SumsType
      <3>2. DayOf(e, d) \in Nat
        BY <1>4, TermsType
      <3> QED
        BY <3>1, <3>2
    <2>5. DayIn(us, d) = DayIn(ts, d)
      BY <2>2, <2>3, <2>4
    <2>6. DayOK(ts, b.daily, t) /\ c.daily = b.daily
      BY <1>1 DEF BridgeOK, Revises
    <2>7. \A i \in DOMAIN us : us[i].created_at = ts[i].created_at
      BY <1>2, <1>3, <1>6
    <2> QED
      BY <1>6, <2>1, <2>5, <2>6, <2>7 DEF DayOK
  <1>9. TokensOK(us, c.balance, c.total_minted)
    <2>1. TokensOK(ts, b.balance, b.total_minted)
      BY <1>1 DEF BridgeOK
    <2>2. NetIn(ts) \in Int /\ NetOf(old) \in Int /\ NetOf(e) \in Int
      <3>1. NetIn(ts) \in Int
        BY <1>2, SumsType
      <3>2. NetOf(old) \in Int /\ NetOf(e) \in Int
        BY <1>2, <1>4, TermsType
      <3> QED
        BY <3>1, <3>2
    <2>3. b.total_minted = NetIn(ts)
      BY <2>1 DEF TokensOK
    <2>4. CASE /\ c.balance = b.balance /\ c.total_minted = b.total_minted
               /\ NetOf(e) = NetOf(old)
      <3>1. NetIn(us) = NetIn(ts)
        BY <1>5, <2>2, <2>4
      <3> QED
        BY <2>1, <2>4, <3>1 DEF TokensOK
    <2>5. CASE /\ c.balance \in [Holdings -> Nat]
               /\ SumFunctionOnSet(c.balance, Holdings) = b.total_minted + NetOf(e) - NetOf(old)
               /\ c.total_minted = b.total_minted + NetOf(e) - NetOf(old)
      <3>1. NetIn(us) = b.total_minted + NetOf(e) - NetOf(old)
        BY <1>5, <2>2, <2>3
      <3> QED
        BY <2>5, <3>1 DEF TokensOK
    <2> QED
      BY <1>1, <2>1, <2>4, <2>5
  <1> QED
    BY <1>1, <1>5, <1>7, <1>8, <1>9 DEF BridgeOK, Revises

\* A new transfer of the model fits the lists.
LEMMA NewTransfer ==
    ASSUME NEW kind, NEW user \in BridgeUsers, NEW route \in Routes, NEW amount \in Nat, NEW tx,
           now \in Nat
    PROVE  LET e == BridgeTransfer(kind, user, route, amount, tx)
           IN  /\ StoredOK(e) /\ e.created_at = now /\ e.status = "PendingValidators"
               /\ e.kind = kind /\ e.amount = amount
  BY DEF BridgeTransfer, StoredOK, TransferAll, TransferKept

\* What validate_amount_and_limits writes.
LEMMA ChargedFields ==
    ASSUME DOMAIN br = BridgeFields, NEW amount, NEW route
    PROVE  LET c == charged(br, amount, route)
           IN  /\ DOMAIN c = BridgeFields
               /\ c.transfers = br.transfers /\ c.replay = br.replay
               /\ c.balance = br.balance /\ c.total_minted = br.total_minted
               /\ c.daily.day_start = day_bucket(now) /\ c.daily.total = DayVolume + amount
  BY DEF charged, BridgeFields

\* initiate_lock_mint keeps the books.
LEMMA InitiateLockMintOK ==
    ASSUME now \in Nat, BridgeOK(br, now), NEW u \in BridgeUsers, NEW r \in Routes,
           NEW a \in TransferAmounts, NEW tx, initiate_lock_mint(u, r, a, tx)
    PROVE  BridgeOK(br', now)
  <1>1. PICK e : e = BridgeTransfer("LockMint", u, r, a, tx)
    OBVIOUS
  <1>2. PICK c : c = charged(br, a, r)
    OBVIOUS
  <1>3. /\ a > 0 /\ DayVolume + a <= DailyTransferLimit /\ ReplayKey(e) \notin br.replay
        /\ br' = [c EXCEPT !.transfers = Append(@, e), !.replay = @ \cup {ReplayKey(e)}]
    BY <1>1, <1>2 DEF initiate_lock_mint, WithinLimits
  <1>4. a \in Nat
    BY <1>3, BridgeConstants
  <1>5. /\ StoredOK(e) /\ e.created_at = now /\ e.status = "PendingValidators"
        /\ e.kind = "LockMint" /\ e.amount = a
    BY <1>1, <1>4, NewTransfer
  <1>6. /\ DOMAIN c = BridgeFields
        /\ c.transfers = br.transfers /\ c.replay = br.replay
        /\ c.balance = br.balance /\ c.total_minted = br.total_minted
        /\ c.daily.day_start = day_bucket(now) /\ c.daily.total = DayVolume + a
    BY <1>2, ChargedFields DEF BridgeOK
  <1>7. /\ DOMAIN br' = BridgeFields
        /\ (br').transfers = Append(br.transfers, e) /\ (br').replay = br.replay \cup {ReplayKey(e)}
        /\ (br').balance = br.balance /\ (br').total_minted = br.total_minted
        /\ (br').daily = c.daily
    BY <1>3, <1>6 DEF BridgeFields
  <1>8. Charges(br, br', e, now)
    BY <1>3, <1>5, <1>6, <1>7 DEF Charges, DayVolume
  <1> QED
    BY <1>3, <1>5, <1>7, <1>8, LockMintOK

\* initiate_burn_unlock keeps the books.
LEMMA InitiateBurnUnlockOK ==
    ASSUME now \in Nat, BridgeOK(br, now), NEW u \in BridgeUsers, NEW r \in Routes,
           NEW a \in TransferAmounts, initiate_burn_unlock(u, r, a)
    PROVE  BridgeOK(br', now)
  <1>1. PICK e, tx : tx = <<"", Len(br.transfers) + 1>> /\ e = BridgeTransfer("BurnUnlock", u, r, a, tx)
    OBVIOUS
  <1>2. PICK c, k : c = charged(br, a, r) /\ k = <<u, r[3]>>
    OBVIOUS
  <1>3. /\ a > 0 /\ DayVolume + a <= DailyTransferLimit /\ br.balance[k] >= a
        /\ br' = [c EXCEPT !.balance[k] = @ - a, !.total_minted = @ - a,
                           !.transfers = Append(@, e)]
    BY <1>1, <1>2 DEF initiate_burn_unlock, WithinLimits
  <1>4. a \in Nat /\ k \in Holdings
    <2>1. r[3] \in WrappedAssets
      BY DEF Routes
    <2> QED
      BY <1>2, <1>3, <2>1, BridgeConstants DEF Holdings
  <1>5. /\ StoredOK(e) /\ e.created_at = now /\ e.status = "PendingValidators"
        /\ e.kind = "BurnUnlock" /\ e.amount = a
    <2>1. a \in Nat /\ e = BridgeTransfer("BurnUnlock", u, r, a, tx)
      BY <1>1, <1>4
    <2> QED
      BY <2>1, NewTransfer
  <1>6. /\ DOMAIN c = BridgeFields
        /\ c.transfers = br.transfers /\ c.replay = br.replay
        /\ c.balance = br.balance /\ c.total_minted = br.total_minted
        /\ c.daily.day_start = day_bucket(now) /\ c.daily.total = DayVolume + a
    BY <1>2, ChargedFields DEF BridgeOK
  <1>7. /\ DOMAIN br' = BridgeFields
        /\ (br').transfers = Append(br.transfers, e) /\ (br').replay = br.replay
        /\ (br').balance = [br.balance EXCEPT ![k] = br.balance[k] - a]
        /\ (br').total_minted = br.total_minted - a
        /\ (br').daily = c.daily
    BY <1>3, <1>6 DEF BridgeFields
  <1>8. Charges(br, br', e, now)
    BY <1>3, <1>5, <1>6, <1>7 DEF Charges, DayVolume
  <1>9. PICK c1 : c1 = br'
    OBVIOUS
  <1>10. /\ Charges(br, c1, e, now) /\ e.kind = "BurnUnlock" /\ c1.replay = br.replay
         /\ k \in Holdings /\ br.balance[k] >= e.amount
         /\ c1.balance = [br.balance EXCEPT ![k] = br.balance[k] - e.amount]
         /\ c1.total_minted = br.total_minted - e.amount
    BY <1>3, <1>4, <1>5, <1>7, <1>8, <1>9
  <1>11. BridgeOK(c1, now)
    BY <1>10, BurnUnlockOK
  <1> QED
    BY <1>9, <1>11

\* A call that changes the status of a transfer and mints nothing.
Restates(b, c, id) ==
    \E e : /\ DOMAIN e = TransferAll /\ \A x \in TransferKept : e[x] = b.transfers[id][x]
           /\ NetOf(e) = NetOf(b.transfers[id])
           /\ c = [b EXCEPT !.transfers = [b.transfers EXCEPT ![id] = e]]

\* Approvals, failures, retries and an executed burn-unlock are such calls.
LEMMA CallsRestate ==
    ASSUME DOMAIN br = BridgeFields, NEW id \in DOMAIN br.transfers,
           DOMAIN br.transfers[id] = TransferAll,
           \/ \E v \in Validators : approve(v, id)
           \/ execute_burn_unlock(id)
           \/ \E again \in BOOLEAN : mark_transfer_failed(id, again)
           \/ retry_transfer(id)
    PROVE  Restates(br, br', id)
  <1>1. PICK old, ts : old = br.transfers[id] /\ ts = br.transfers
    OBVIOUS
  <1> USE DEF BridgeFields, TransferAll, TransferKept, get_transfer
  <1>2. ASSUME NEW v \in Validators, approve(v, id)
        PROVE  Restates(br, br', id)
    <2>1. PICK n, s : n = old.approvals \cup {v}
                      /\ s = IF has_quorum(n) THEN "ReadyToExecute" ELSE old.status
      OBVIOUS
    <2>2. PICK e : e = [old EXCEPT !.approvals = n, !.status = s]
      OBVIOUS
    <2>3. /\ old.status # "Completed" /\ s # "Completed"
          /\ br' = [br EXCEPT !.transfers[id].approvals = n, !.transfers[id].status = s]
      BY <1>1, <1>2, <2>1 DEF approve
    <2>4. br' = [br EXCEPT !.transfers = [ts EXCEPT ![id] = e]]
      BY <1>1, <2>2, <2>3
    <2>5. DOMAIN e = TransferAll /\ (\A x \in TransferKept : e[x] = old[x]) /\ e.status = s
      BY <1>1, <2>2
    <2>6. NetOf(e) = NetOf(old)
      BY <2>3, <2>5 DEF NetOf
    <2> QED
      BY <1>1, <2>4, <2>5, <2>6 DEF Restates
  <1>3. ASSUME execute_burn_unlock(id)
        PROVE  Restates(br, br', id)
    <2>1. PICK e : e = [old EXCEPT !.status = "Completed", !.executed_at = now]
      OBVIOUS
    <2>2. /\ old.kind = "BurnUnlock"
          /\ br' = [br EXCEPT !.transfers[id].status = "Completed", !.transfers[id].executed_at = now]
      BY <1>1, <1>3 DEF execute_burn_unlock
    <2>3. br' = [br EXCEPT !.transfers = [ts EXCEPT ![id] = e]]
      BY <1>1, <2>1, <2>2
    <2>4. DOMAIN e = TransferAll /\ \A x \in TransferKept : e[x] = old[x]
      BY <1>1, <2>1
    <2>5. NetOf(e) = NetOf(old)
      BY <2>2, <2>4 DEF NetOf
    <2> QED
      BY <1>1, <2>3, <2>4, <2>5 DEF Restates
  <1>4. ASSUME NEW again \in BOOLEAN, mark_transfer_failed(id, again)
        PROVE  Restates(br, br', id)
    <2>1. PICK e : e = [old EXCEPT !.status = "Failed", !.retryable = again]
      OBVIOUS
    <2>2. /\ old.status # "Completed"
          /\ br' = [br EXCEPT !.transfers[id].status = "Failed", !.transfers[id].retryable = again]
      BY <1>1, <1>4 DEF mark_transfer_failed
    <2>3. br' = [br EXCEPT !.transfers = [ts EXCEPT ![id] = e]]
      BY <1>1, <2>1, <2>2
    <2>4. DOMAIN e = TransferAll /\ (\A x \in TransferKept : e[x] = old[x]) /\ e.status = "Failed"
      BY <1>1, <2>1
    <2>5. NetOf(e) = NetOf(old)
      BY <2>2, <2>4 DEF NetOf
    <2> QED
      BY <1>1, <2>3, <2>4, <2>5 DEF Restates
  <1>5. ASSUME retry_transfer(id)
        PROVE  Restates(br, br', id)
    <2>1. PICK e : e = [old EXCEPT !.status = "ReadyToExecute", !.retryable = FALSE]
      OBVIOUS
    <2>2. /\ old.status = "Failed"
          /\ br' = [br EXCEPT !.transfers[id].status = "ReadyToExecute", !.transfers[id].retryable = FALSE]
      BY <1>1, <1>5 DEF retry_transfer
    <2>3. br' = [br EXCEPT !.transfers = [ts EXCEPT ![id] = e]]
      BY <1>1, <2>1, <2>2
    <2>4. /\ DOMAIN e = TransferAll /\ \A x \in TransferKept : e[x] = old[x]
          /\ e.status = "ReadyToExecute"
      BY <1>1, <2>1
    <2>5. NetOf(e) = NetOf(old)
      BY <2>2, <2>4 DEF NetOf
    <2> QED
      BY <1>1, <2>3, <2>4, <2>5 DEF Restates
  <1> QED
    BY <1>2, <1>3, <1>4, <1>5

\* So they keep the books.
LEMMA StatusOK ==
    ASSUME NEW b, NEW c, NEW id, NEW t \in Nat, BridgeOK(b, t), id \in DOMAIN b.transfers,
           Restates(b, c, id)
    PROVE  BridgeOK(c, t)
  <1>1. PICK e : /\ DOMAIN e = TransferAll /\ \A x \in TransferKept : e[x] = b.transfers[id][x]
                 /\ NetOf(e) = NetOf(b.transfers[id])
                 /\ c = [b EXCEPT !.transfers = [b.transfers EXCEPT ![id] = e]]
    BY DEF Restates
  <1>2. DOMAIN b = BridgeFields
    BY DEF BridgeOK
  <1>3. /\ Revises(b, c, id, e) /\ c.balance = b.balance /\ c.total_minted = b.total_minted
    BY <1>1, <1>2 DEF Revises, BridgeFields
  <1> QED
    BY <1>1, <1>3, RevisedOK

\* An executed lock-mint mints its amount.
LEMMA ExecuteLockMintOK ==
    ASSUME now \in Nat, BridgeOK(br, now), NEW id \in DOMAIN br.transfers, execute_lock_mint(id)
    PROVE  BridgeOK(br', now)
  <1>1. PICK old, ts, k, cons : /\ old = br.transfers[id] /\ ts = br.transfers
                                /\ k = <<old.user, old.route[3]>>
                                /\ cons = IF old.tx[1] = "" THEN br.consumed
                                          ELSE br.consumed \cup {ConsumedKey(old)}
    OBVIOUS
  <1>2. /\ StoredOK(old) /\ DOMAIN br = BridgeFields
        /\ br.balance \in [Holdings -> Nat] /\ br.total_minted = SumFunctionOnSet(br.balance, Holdings)
    BY <1>1 DEF BridgeOK, StoredAll, TokensOK
  <1>3. /\ old.kind = "LockMint" /\ old.status = "ReadyToExecute"
        /\ br' = [br EXCEPT !.balance[k] = @ + old.amount, !.total_minted = @ + old.amount,
                            !.transfers[id].status = "Completed",
                            !.transfers[id].executed_at = now, !.consumed = cons]
    BY <1>1, <1>2 DEF execute_lock_mint, get_transfer, BridgeFields
  <1>4. PICK e : e = [old EXCEPT !.status = "Completed", !.executed_at = now]
    OBVIOUS
  <1>5. /\ DOMAIN old = TransferAll /\ old.amount \in Nat /\ k \in Holdings
    <2>1. old.route[3] \in WrappedAssets /\ old.user \in BridgeUsers
      BY <1>2 DEF StoredOK, Routes
    <2> QED
      BY <1>1, <1>2, <2>1 DEF StoredOK, Holdings
  <1>6. PICK c : c = br'
    OBVIOUS
  <1>7. /\ c.transfers = [br.transfers EXCEPT ![id] = e]
        /\ DOMAIN c = BridgeFields /\ c.replay = br.replay /\ c.daily = br.daily
        /\ c.balance = [br.balance EXCEPT ![k] = br.balance[k] + old.amount]
        /\ c.total_minted = br.total_minted + old.amount
    BY <1>1, <1>2, <1>3, <1>4, <1>5, <1>6 DEF BridgeFields, TransferAll, TransferKept
  <1>8. /\ DOMAIN e = TransferAll /\ \A x \in TransferKept : e[x] = old[x]
        /\ e.status = "Completed"
    BY <1>4, <1>5 DEF TransferAll, TransferKept
  <1>9. Revises(br, c, id, e)
    BY <1>1, <1>7, <1>8 DEF Revises
  <1>10. NetOf(old) = 0 /\ NetOf(e) = old.amount
    BY <1>3, <1>5, <1>8 DEF NetOf, TransferKept
  <1>11. /\ c.balance \in [Holdings -> Nat]
         /\ SumFunctionOnSet(c.balance, Holdings) = br.total_minted + old.amount
    <2>1. PICK n \in Nat, bal \in [Holdings -> Nat] : n = br.balance[k] + old.amount /\ bal = br.balance
      BY <1>2, <1>5
    <2>2. /\ c.balance \in [Holdings -> Nat]
          /\ SumFunctionOnSet(bal, Holdings) \in Int
          /\ SumFunctionOnSet(c.balance, Holdings) = SumFunctionOnSet(bal, Holdings) - bal[k] + n
      BY <1>5, <1>7, <2>1, HoldingsChange
    <2>3. bal[k] \in Nat
      BY <1>5, <2>1
    <2> QED
      BY <1>2, <1>5, <2>1, <2>2, <2>3
  <1>12. br.total_minted \in Int
    <2>1. StoredAll(br.transfers) /\ br.total_minted = NetIn(br.transfers)
      BY DEF BridgeOK, TokensOK
    <2> QED
      BY <2>1, SumsType
  <1>13. /\ SumFunctionOnSet(c.balance, Holdings) = br.total_minted + NetOf(e) - NetOf(br.transfers[id])
         /\ c.total_minted = br.total_minted + NetOf(e) - NetOf(br.transfers[id])
    <2>1. NetOf(br.transfers[id]) = 0
      BY <1>1, <1>10
    <2>2. PICK a \in Nat, m \in Int : a = old.amount /\ m = br.total_minted
      BY <1>5, <1>12
    <2>3. /\ SumFunctionOnSet(c.balance, Holdings) = m + a
          /\ c.total_minted = m + a /\ NetOf(e) = a
      BY <1>7, <1>10, <1>11, <2>2
    <2>4. m + a = m + a - 0
      OBVIOUS
    <2> QED
      BY <2>1, <2>2, <2>3, <2>4
  <1>14. BridgeOK(c, now)
    BY <1>9, <1>11, <1>13, RevisedOK
  <1> QED
    BY <1>6, <1>14

\* The admin's settings touch none of this.
Settings(b, c) ==
    /\ DOMAIN c = BridgeFields /\ c.transfers = b.transfers /\ c.replay = b.replay
    /\ c.balance = b.balance /\ c.total_minted = b.total_minted /\ c.daily = b.daily

\* So they keep the books.
LEMMA SettingsOK ==
    ASSUME now \in Nat, BridgeOK(br, now), BridgeAdminStep
    PROVE  BridgeOK(br', now)
  <1>1. PICK c : c = br'
    OBVIOUS
  <1>2. DOMAIN br = BridgeFields
    BY DEF BridgeOK
  <1>3. /\ DOMAIN c = BridgeFields /\ c.transfers = br.transfers /\ c.replay = br.replay
        /\ c.balance = br.balance /\ c.total_minted = br.total_minted /\ c.daily = br.daily
    <2> USE <1>1, <1>2 DEF BridgeFields
    <2>1. ASSUME \/ \E x \in WrappedAssets : register_wrapped_asset(x)
                 \/ set_governance
                 \/ \E p \in BOOLEAN : apply_governance_pause(p)
                 \/ \E l \in Buffers : update_liquidity_buffer(l)
                 \/ \E bps \in Thresholds : set_reserve_threshold(bps)
          PROVE  Settings(br, c)
      BY <2>1 DEF register_wrapped_asset, set_governance, apply_governance_pause,
                  update_liquidity_buffer, set_reserve_threshold, Settings
    <2>2. ASSUME \/ \E x \in Chains : add_supported_chain(x) \/ remove_supported_chain(x)
                 \/ \E d \in Deployments : set_deployment_id(d)
          PROVE  Settings(br, c)
      BY <2>2 DEF add_supported_chain, remove_supported_chain, set_deployment_id, Settings
    <2>3. ASSUME NEW r \in Routes, NEW l \in RouteLimits, set_withdrawal_route_limit(r, l)
          PROVE  Settings(br, c)
      <3>1. PICK rs, ws : c = [br EXCEPT !.routes = rs, !.windows = ws]
        BY <2>3 DEF set_withdrawal_route_limit
      <3> QED
        BY <3>1 DEF Settings
    <2> QED
      BY <2>1, <2>2, <2>3 DEF BridgeAdminStep, Settings
  <1>4. BridgeOK(c, now)
    BY <1>3 DEF BridgeOK
  <1> QED
    BY <1>1, <1>4

\* A bridge starts with empty books.
LEMMA BridgeStartsOK ==
    ASSUME ClockInit, BridgeInit
    PROVE  BridgeOK(br, now)
  <1>1. /\ br.transfers = <<>> /\ br.balance = [k \in Holdings |-> 0] /\ br.total_minted = 0
        /\ br.daily = [day_start |-> day_bucket(now), total |-> 0] /\ DOMAIN br = BridgeFields
    BY DEF BridgeInit, BridgeFields, Holdings
  <1>2. StoredAll(<<>>) /\ DOMAIN <<>> = {}
    BY DEF StoredAll
  <1>3. ASSUME NEW f
        PROVE  SumFunctionOnSet(f, {}) = 0
    BY SumZero, FS_EmptySet
  <1>4. NetIn(<<>>) = 0 /\ \A d : DayIn(<<>>, d) = 0
    BY <1>2, <1>3 DEF NetIn, DayIn
  <1>5. SumFunctionOnSet(br.balance, Holdings) = 0 /\ br.balance \in [Holdings -> Nat]
    <2>1. IsFiniteSet(Holdings)
      BY BridgeConstants, FS_Product DEF Holdings
    <2>2. PICK f : f = br.balance
      OBVIOUS
    <2>3. \A k \in Holdings : f[k] = 0
      BY <1>1, <2>2
    <2>4. SumFunctionOnSet(f, Holdings) = 0
      BY <2>1, <2>3, SumZero
    <2> QED
      BY <1>1, <2>2, <2>4
  <1>6. TokensOK(br.transfers, br.balance, br.total_minted)
    BY <1>1, <1>4, <1>5 DEF TokensOK
  <1>7. DepositsOK(br.transfers, br.replay)
    BY <1>1, <1>2 DEF DepositsOK
  <1>8. DayOK(br.transfers, br.daily, now)
    <2>1. day_bucket(now) \in Int /\ now \in Nat
      BY DaysInOrder DEF ClockInit
    <2> QED
      BY <1>1, <1>2, <1>4, <2>1, BridgeConstants DEF DayOK
  <1> QED
    BY <1>1, <1>2, <1>6, <1>7, <1>8 DEF BridgeOK

BridgeInv == ClockTypeOK /\ BridgeOK(br, now)

\* Every step keeps the books in order.
LEMMA BridgeStepOK ==
    ASSUME BridgeInv, [BridgeNext]_<<now, seq, br, pools>>
    PROVE  BridgeInv'
  <1> USE DEF BridgeInv, ClockTypeOK
  <1>1. CASE TransferStep /\ UNCHANGED <<now, seq, pools>>
    <2>1. BridgeOK(br', now)
      <3>1. ASSUME NEW u \in BridgeUsers, NEW r \in Routes, NEW a \in TransferAmounts,
                   \/ \E tx \in SourceTxs : initiate_lock_mint(u, r, a, tx)
                   \/ initiate_burn_unlock(u, r, a)
            PROVE  BridgeOK(br', now)
        BY <3>1, InitiateLockMintOK, InitiateBurnUnlockOK
      <3>2. TransferIds = DOMAIN br.transfers /\ DOMAIN br = BridgeFields
            /\ \A id \in DOMAIN br.transfers : DOMAIN br.transfers[id] = TransferAll
        BY SumsType DEF BridgeOK, TransferIds, StoredAll, StoredOK
      <3>3. ASSUME NEW id \in TransferIds, execute_lock_mint(id)
            PROVE  BridgeOK(br', now)
        BY <3>2, <3>3, ExecuteLockMintOK
      <3>4. ASSUME NEW id \in TransferIds,
                   \/ \E v \in Validators : approve(v, id)
                   \/ execute_burn_unlock(id)
                   \/ \E again \in BOOLEAN : mark_transfer_failed(id, again)
                   \/ retry_transfer(id)
            PROVE  BridgeOK(br', now)
        <4>1. Restates(br, br', id)
          BY <3>2, <3>4, CallsRestate
        <4> QED
          BY <3>2, <3>4, <4>1, StatusOK
      <3> QED
        BY <1>1, <3>1, <3>3, <3>4 DEF TransferStep
    <2> QED
      BY <1>1, <2>1
  <1>2. CASE BridgeAdminStep /\ UNCHANGED <<now, seq, pools>>
    <2>1. BridgeOK(br', now)
      BY <1>2, SettingsOK
    <2> QED
      BY <1>2, <2>1
  <1>3. CASE CloseLedger /\ UNCHANGED <<br, pools>>
    <2>1. now' \in Nat /\ seq' \in Nat \ {0} /\ now <= now'
      BY <1>3, ClockConstants DEF CloseLedger
    <2>2. BridgeOK(br, now')
      BY <2>1, LaterOK
    <2> QED
      BY <1>3, <2>1, <2>2
  <1>4. CASE UNCHANGED <<now, seq, br>>
    BY <1>4
  <1> QED
    BY <1>1, <1>2, <1>3, <1>4 DEF BridgeNext

\* The amounts of some of the transfers add up to the sum over all that counts the
\* others as zero.
LEMMA AmountIsSum ==
    ASSUME StoredAll(br.transfers), NEW ids \in SUBSET TransferIds, NEW f,
           \A i \in TransferIds : f[i] = IF i \in ids THEN br.transfers[i].amount ELSE 0
    PROVE  AmountOf(ids) = SumFunctionOnSet(f, TransferIds)
  <1>1. PICK I : I = TransferIds /\ IsFiniteSet(I)
    BY SumsType DEF TransferIds
  <1>2. PICK g : g = [i \in ids |-> br.transfers[i].amount]
    OBVIOUS
  <1>3. \A i \in ids : g[i] \in Int /\ f[i] = g[i]
    <2>1. DOMAIN br.transfers = TransferIds
      BY SumsType DEF TransferIds
    <2>2. \A i \in TransferIds : br.transfers[i].amount \in Nat
      BY <2>1 DEF StoredAll, StoredOK
    <2> QED
      BY <1>2, <2>2
  <1>4. \A i \in I \ ids : f[i] = 0
    BY <1>1
  <1>5. SumFunctionOnSet(f, I) = SumFunctionOnSet(g, ids)
    <2>1. ids \in SUBSET I
      BY <1>1
    <2> QED
      BY <1>1, <1>3, <1>4, <2>1, SumRestricts
  <1> QED
    BY <1>1, <1>2, <1>5 DEF AmountOf, get_transfer

\* The books in order are what BridgeBooks says.
LEMMA BooksFromInv ==
    ASSUME BridgeInv
    PROVE  BridgeBooks
  <1>1. PICK ts, I : ts = br.transfers /\ I = TransferIds
    OBVIOUS
  <1>2. /\ StoredAll(ts) /\ TokensOK(ts, br.balance, br.total_minted)
        /\ DepositsOK(ts, br.replay) /\ DayOK(ts, br.daily, now)
    BY <1>1 DEF BridgeInv, BridgeOK
  <1>3. DOMAIN ts = I /\ IsFiniteSet(I)
    BY <1>1, <1>2, SumsType DEF TransferIds
  <1>4. \A i \in I : ts[i].amount \in Nat
    BY <1>2, <1>3 DEF StoredAll, StoredOK
  <1>5. SumFunction(br.balance) = br.total_minted
    <2>1. DOMAIN br.balance = Holdings
      BY <1>2 DEF TokensOK
    <2> QED
      BY <1>2, <2>1 DEF TokensOK, SumFunction
  <1>6. br.total_minted = AmountOf(Completed("LockMint")) - AmountOf(Burned)
    <2>1. PICK C, B : C = Completed("LockMint") /\ B = Burned
      OBVIOUS
    <2>2. /\ C \in SUBSET TransferIds /\ B \in SUBSET TransferIds
          /\ \A i \in I : /\ i \in C <=> ts[i].kind = "LockMint" /\ ts[i].status = "Completed"
                          /\ i \in B <=> ts[i].kind = "BurnUnlock"
      BY <1>1, <2>1 DEF Completed, Burned, get_transfer
    <2>3. PICK f, g, h :
            /\ f = [i \in I |-> IF i \in C THEN ts[i].amount ELSE 0]
            /\ g = [i \in I |-> IF i \in B THEN ts[i].amount ELSE 0]
            /\ h = NetTerms(ts)
      OBVIOUS
    <2>4. AmountOf(C) = SumFunctionOnSet(f, I) /\ AmountOf(B) = SumFunctionOnSet(g, I)
      <3>1. /\ \A i \in TransferIds : f[i] = IF i \in C THEN br.transfers[i].amount ELSE 0
            /\ \A i \in TransferIds : g[i] = IF i \in B THEN br.transfers[i].amount ELSE 0
        BY <1>1, <2>3
      <3> QED
        BY <1>1, <1>2, <2>2, <3>1, AmountIsSum
    <2>5. ASSUME NEW i \in I
          PROVE  f[i] \in Int /\ g[i] \in Int /\ h[i] = f[i] - g[i]
      <3>1. h[i] = NetOf(ts[i])
        BY <1>3, <2>3 DEF NetTerms
      <3> QED
        BY <1>4, <2>2, <2>3, <3>1 DEF NetOf
    <2>6. SumFunctionOnSet(h, I) = SumFunctionOnSet(f, I) - SumFunctionOnSet(g, I)
      <3>1. IsFiniteSet(I)
        BY <1>3
      <3> QED
        BY <2>5, <3>1, SumSubtracts
    <2>7. br.total_minted = SumFunctionOnSet(h, I)
      BY <1>2, <1>3, <2>3 DEF TokensOK, NetIn
    <2> QED
      BY <2>1, <2>4, <2>6, <2>7
  <1>7. \A i, j \in TransferIds :
           i # j /\ get_transfer(i).kind = "LockMint" /\ get_transfer(j).kind = "LockMint"
               => ReplayKey(get_transfer(i)) # ReplayKey(get_transfer(j))
    BY <1>1, <1>2, <1>3 DEF DepositsOK, get_transfer
  <1>8. DailyVolumeExact
    <2>1. PICK d, today : /\ d = br.daily.day_start
                          /\ today = {i \in TransferIds : day_bucket(get_transfer(i).created_at) = d}
      OBVIOUS
    <2>2. PICK f : f = DayTerms(ts, d)
      OBVIOUS
    <2>3. \A i \in TransferIds : f[i] = IF i \in today THEN br.transfers[i].amount ELSE 0
      BY <1>1, <1>3, <2>1, <2>2 DEF DayTerms, DayOf, get_transfer
    <2>4. AmountOf(today) = SumFunctionOnSet(f, I)
      <3>1. today \in SUBSET TransferIds /\ StoredAll(br.transfers)
        BY <1>1, <1>2, <2>1
      <3> QED
        BY <1>1, <2>3, <3>1, AmountIsSum
    <2>5. br.daily.total = SumFunctionOnSet(f, I) /\ br.daily.total <= DailyTransferLimit
      BY <1>2, <1>3, <2>1, <2>2 DEF DayOK, DayIn
    <2> QED
      BY <2>1, <2>4, <2>5 DEF DailyVolumeExact
  <1> QED
    BY <1>5, <1>6, <1>7, <1>8 DEF BridgeBooks, WrappedBacked

\* Wrapped tokens are backed by executed deposits, each used once, and the day's
\* volume is exact, through approvals, failures, retries, changes of the deployment
\* id and midnight.
THEOREM BridgeBooksAlways == BridgeSpec => []BridgeBooks
  <1>1. ClockInit /\ BridgeInit => BridgeInv
    BY BridgeStartsOK DEF BridgeInv, ClockInit, ClockTypeOK
  <1>2. BridgeInv /\ [BridgeNext]_<<now, seq, br, pools>> => BridgeInv'
    BY BridgeStepOK
  <1>3. BridgeInv => BridgeBooks
    BY BooksFromInv
  <1> QED
    BY <1>1, <1>2, <1>3, PTL DEF BridgeSpec

----------------------------------------------------------------------------
\* The pools.  Arithmetic first: what the floor divisions leave to the pool.

\* A quotient times its divisor does not exceed the dividend.
LEMMA FloorBelow ==
    ASSUME NEW n \in Nat, NEW d \in Nat \ {0}
    PROVE  n \div d \in Nat /\ (n \div d) * d <= n
  OBVIOUS

\* Products of ordered naturals are ordered.
LEMMA TimesOrdered ==
    ASSUME NEW a \in Nat, NEW b \in Nat, NEW c \in Nat, NEW d \in Nat, a <= b, c <= d
    PROVE  a * c \in Nat /\ b * d \in Nat /\ a * c <= b * d
  <1>1. PICK x \in Nat, y \in Nat : b = a + x /\ d = c + y
    <2>1. b - a \in Nat /\ d - c \in Nat /\ b = a + (b - a) /\ d = c + (d - c)
      OBVIOUS
    <2> QED
      BY <2>1
  <1>2. b * d = a * c + (a * y + x * c + x * y)
    BY <1>1
  <1>3. a * c \in Nat /\ a * y \in Nat /\ x * c \in Nat /\ x * y \in Nat
    BY <1>1
  <1> QED
    BY <1>2, <1>3

\* If neither reserve falls per share, neither does their sum nor their product.
LEMMA PerShare ==
    ASSUME NEW a \in Nat, NEW b \in Nat, NEW l \in Nat,
           NEW c \in Nat, NEW d \in Nat, NEW m \in Nat,
           a * m <= c * l, b * m <= d * l
    PROVE  /\ (a + b) * m <= (c + d) * l
           /\ (a * b) * m * m <= (c * d) * l * l
  <1>1. (a + b) * m = a * m + b * m /\ (c + d) * l = c * l + d * l
    OBVIOUS
  <1>2. PICK p \in Nat, q \in Nat, r \in Nat, s \in Nat :
          p = a * m /\ q = c * l /\ r = b * m /\ s = d * l
    OBVIOUS
  <1>3. p * r <= q * s
    BY <1>2, TimesOrdered
  <1>4. (a * b) * m * m = p * r /\ (c * d) * l * l = q * s
    BY <1>2
  <1> QED
    BY <1>1, <1>2, <1>3, <1>4

\* A deposit whose shares are at most its part of a reserve does not dilute it.
LEMMA AddShare ==
    ASSUME NEW a \in Nat \ {0}, NEW l \in Nat, NEW x \in Nat, NEW n \in Nat, n <= (x * l) \div a
    PROVE  a * (l + n) <= (a + x) * l
  <1>1. PICK q \in Nat : q = (x * l) \div a /\ q * a <= x * l
    <2>1. PICK y \in Nat : y = x * l
      OBVIOUS
    <2> QED
      BY <2>1, FloorBelow
  <1>2. n * a <= q * a /\ n * a \in Nat /\ q * a \in Nat
    BY <1>1, TimesOrdered
  <1>3. a * (l + n) = a * l + n * a /\ (a + x) * l = a * l + x * l
    OBVIOUS
  <1>4. a * l \in Nat /\ x * l \in Nat
    OBVIOUS
  <1> QED
    BY <1>1, <1>2, <1>3, <1>4

\* A redemption pays at most its part of a reserve.
LEMMA RemoveShare ==
    ASSUME NEW a \in Nat, NEW l \in Nat \ {0}, NEW n \in Nat, n <= l
    PROVE  LET out == (a * n) \div l
           IN  /\ out \in Nat /\ out <= a
               /\ a * (l - n) <= (a - out) * l
               /\ n = l => out = a
  <1>1. PICK y \in Nat : y = a * n
    OBVIOUS
  <1>2. PICK out \in Nat : out = (a * n) \div l /\ out * l <= a * n
    BY <1>1, FloorBelow
  <1>3. a * (l - n) = a * l - a * n /\ (a - out) * l = a * l - out * l
    OBVIOUS
  <1>4. a * (l - n) <= (a - out) * l
    <2>1. PICK p \in Nat, q \in Nat : p = a * l /\ q = out * l
      OBVIOUS
    <2> QED
      BY <1>1, <1>2, <1>3, <2>1
  <1>5. out <= a
    <2>1. a * n <= a * l /\ a * l \in Nat /\ a * n \in Nat
      BY TimesOrdered
    <2>2. out * l <= a * l
      BY <1>2, <2>1
    <2>3. ASSUME out > a
          PROVE  FALSE
      <3>1. out >= a + 1 /\ a + 1 \in Nat
        BY <2>3
      <3>2. (a + 1) * l <= out * l
        BY <3>1, TimesOrdered
      <3>3. (a + 1) * l = a * l + l
        OBVIOUS
      <3> QED
        BY <2>1, <2>2, <3>2, <3>3
    <2> QED
      BY <2>3
  <1>6. n = l => out = a
    <2>1. (a * l) \div l = a
      OBVIOUS
    <2> QED
      BY <1>2, <2>1
  <1> QED
    BY <1>2, <1>4, <1>5, <1>6

\* A swap at the constant product leaves the product no smaller.
LEMMA SwapProduct ==
    ASSUME NEW in \in Nat \ {0}, NEW out \in Nat, NEW x \in Nat
    PROVE  LET y == (x * out) \div (in + x)
           IN  y \in Nat /\ y <= out /\ in * out <= (in + x) * (out - y)
  <1>1. PICK d \in Nat \ {0}, z \in Nat : d = in + x /\ z = x * out
    OBVIOUS
  <1>2. PICK y \in Nat : y = (x * out) \div (in + x) /\ y * d <= x * out
    BY <1>1, FloorBelow
  <1>3. (in + x) * (out - y) = in * out + x * out - y * d
    BY <1>1
  <1>4. in * out <= (in + x) * (out - y)
    <2>1. in * out \in Nat /\ y * d \in Nat
      OBVIOUS
    <2> QED
      BY <1>1, <1>2, <1>3, <2>1
  <1>5. y <= out
    <2>1. ASSUME y > out
          PROVE  FALSE
      <3>1. y >= out + 1 /\ out + 1 \in Nat
        BY <2>1
      <3>2. (out + 1) * d <= y * d /\ (out + 1) * d \in Nat /\ y * d \in Nat
        BY <1>1, <3>1, TimesOrdered
      <3>3. (out + 1) * d = x * out + (in * out + d)
        BY <1>1
      <3>4. in * out \in Nat
        OBVIOUS
      <3> QED
        BY <1>1, <1>2, <3>2, <3>3, <3>4
    <2> QED
      BY <2>1
  <1> QED
    BY <1>2, <1>4, <1>5

\* Every natural number has an integer square root.
LEMMA RootExists ==
    ASSUME NEW n \in Nat
    PROVE  integer_sqrt(n) \in Nat
  <1>1. CASE n = 0
    BY <1>1 DEF integer_sqrt
  <1>2. CASE n > 0
    <2> DEFINE T == {r \in Nat : (r + 1) * (r + 1) > n}
    <2>1. n \in T
      <3>1. (n + 1) * (n + 1) = n * n + n + n + 1
        OBVIOUS
      <3>2. n * n \in Nat
        OBVIOUS
      <3> QED
        BY <3>1, <3>2
    <2>2. PICK r \in T : \A m \in T : r <= m
      <3>1. T \in SUBSET Nat /\ T # {}
        BY <2>1
      <3> HIDE DEF T
      <3> QED
        BY <3>1, LeastNat
    <2>3. r # 0
      BY <1>2
    <2>4. r * r <= n
      <3>1. r - 1 \in Nat /\ r - 1 \notin T
        BY <2>2, <2>3
      <3>2. ~ (((r - 1) + 1) * ((r - 1) + 1) > n)
        BY <3>1
      <3>3. (r - 1) + 1 = r
        OBVIOUS
      <3>4. r * r \in Nat
        OBVIOUS
      <3> QED
        BY <3>2, <3>3, <3>4
    <2>5. r \in 1..n
      BY <2>1, <2>2, <2>3
    <2>6. \E x \in 1..n : x * x <= n /\ (x + 1) * (x + 1) > n
      BY <2>4, <2>5
    <2>7. (CHOOSE x \in 1..n : x * x <= n /\ (x + 1) * (x + 1) > n) \in 1..n
      BY <2>6
    <2> QED
      BY <1>2, <2>7 DEF integer_sqrt
  <1> QED
    BY <1>1, <1>2

----------------------------------------------------------------------------
\* A pool's record.
AllBps == 10000
PoolFields == {"type", "fee_bps", "reward_bps", "a", "b", "lp", "position"}
Shares(pos) == [x \in Providers |-> pos[x].lp]

PositionsOK(pos) ==
    /\ DOMAIN pos = Providers
    /\ \A x \in Providers : DOMAIN pos[x] = {"lp", "rewards"} /\ pos[x].lp \in Nat

\* The inductive invariant of a pool p: the shares are the providers' positions, and
\* without shares the reserves are empty, so that the first provider owns all.
PoolOK(p) ==
    /\ DOMAIN p = PoolFields
    /\ p.type \in {"ConstantProduct", "StableSwap"} /\ p.fee_bps \in Nat /\ p.fee_bps <= AllBps
    /\ p.a \in Nat /\ p.b \in Nat /\ p.lp \in Nat
    /\ PositionsOK(p.position)
    /\ p.lp = SumFunctionOnSet(Shares(p.position), Providers)
    /\ p.lp = 0 => p.a = 0 /\ p.b = 0

\* What a step may do to a pool.
ValueKept(p, q) ==
    p.lp > 0 /\ q.lp > 0 =>
        IF p.type = "ConstantProduct"
        THEN Worth(p) * q.lp * q.lp <= Worth(q) * p.lp * p.lp
        ELSE Worth(p) * q.lp <= Worth(q) * p.lp

\* Changing one position changes the sum of the shares by as much.
LEMMA SharesChange ==
    ASSUME NEW pos, NEW new, PositionsOK(pos), PositionsOK(new), NEW x \in Providers,
           \A y \in Providers \ {x} : new[y] = pos[y]
    PROVE  /\ SumFunctionOnSet(Shares(pos), Providers) \in Nat
           /\ pos[x].lp <= SumFunctionOnSet(Shares(pos), Providers)
           /\ SumFunctionOnSet(Shares(new), Providers)
                 = SumFunctionOnSet(Shares(pos), Providers) - pos[x].lp + new[x].lp
  <1>1. PICK f, g : f = Shares(pos) /\ g = Shares(new)
    OBVIOUS
  <1>2. \A y \in Providers : /\ f[y] = pos[y].lp /\ g[y] = new[y].lp
                             /\ f[y] \in Nat /\ g[y] \in Nat
    BY <1>1 DEF Shares, PositionsOK
  <1>3. \A y \in Providers : f[y] \in Int /\ g[y] \in Int
    BY <1>2
  <1>4. \A y \in Providers \ {x} : g[y] = f[y]
    BY <1>2
  <1>5. SumFunctionOnSet(g, Providers) = SumFunctionOnSet(f, Providers) - f[x] + g[x]
    <2>1. IsFiniteSet(Providers)
      BY PoolConstants
    <2> QED
      BY <1>3, <1>4, <2>1, SumChanges
  <1>6. SumFunctionOnSet(f, Providers) \in Nat /\ f[x] <= SumFunctionOnSet(f, Providers)
    <2>1. \A y \in Providers : f[y] \in Nat
      BY <1>2
    <2>2. IsFiniteSet(Providers)
      BY PoolConstants
    <2> QED
      BY <2>1, <2>2, SumBounds
  <1> QED
    BY <1>1, <1>2, <1>5, <1>6

\* create_pool takes any u32 as the fee.  Beyond 10000 a swap can pay more than it
\* takes; the results are about the pools whose fee is at most the whole amount.
FairFee(p) == p.fee_bps <= 10000

\* Between naturals the code's division is the floor.
LEMMA QuotIsFloor ==
    ASSUME NEW m \in Nat, NEW n \in Nat \ {0}
    PROVE  quot(m, n) = m \div n
  BY DEF quot

\* A new pool is empty.
LEMMA NewPoolOK ==
    ASSUME NEW kind \in PoolKinds
    PROVE  /\ DOMAIN LiquidityPool(kind) = PoolFields
           /\ FairFee(LiquidityPool(kind)) => PoolOK(LiquidityPool(kind))
  <1>1. PICK p : p = LiquidityPool(kind)
    OBVIOUS
  <1>2. PICK ty, fee : /\ ty = kind[1] /\ fee = kind[2]
                       /\ ty \in {"ConstantProduct", "StableSwap"} /\ fee \in Nat
    <2>1. kind \in {"ConstantProduct", "StableSwap"} \X Nat \X Nat
      BY PoolConstants
    <2>2. kind[1] \in {"ConstantProduct", "StableSwap"} /\ kind[2] \in Nat
      BY <2>1
    <2> QED
      BY <2>2
  <1>3. /\ DOMAIN p = PoolFields /\ p.type = ty /\ p.fee_bps = fee
        /\ p.a = 0 /\ p.b = 0 /\ p.lp = 0
        /\ p.position = [x \in Providers |-> [lp |-> 0, rewards |-> 0]]
    BY <1>1, <1>2 DEF LiquidityPool, PoolFields
  <1>4. PositionsOK(p.position)
    BY <1>3 DEF PositionsOK
  <1>5. SumFunctionOnSet(Shares(p.position), Providers) = 0
    <2>1. PICK f : f = Shares(p.position)
      OBVIOUS
    <2>2. \A x \in Providers : f[x] = 0
      BY <1>3, <2>1 DEF Shares
    <2>3. IsFiniteSet(Providers)
      BY PoolConstants
    <2>4. SumFunctionOnSet(f, Providers) = 0
      BY <2>2, <2>3, SumZero
    <2> QED
      BY <2>1, <2>4
  <1>6. FairFee(p) => PoolOK(p)
    BY <1>2, <1>3, <1>4, <1>5 DEF PoolOK, FairFee, AllBps
  <1> QED
    BY <1>1, <1>3, <1>6

\* What a call does to the pool: other reserves and shares, one position moved.
Revalues(p, q, x, n) ==
    /\ DOMAIN q = PoolFields /\ q.type = p.type /\ q.fee_bps = p.fee_bps
    /\ PositionsOK(q.position)
    /\ \A y \in Providers \ {x} : q.position[y] = p.position[y]
    /\ q.position[x].lp = p.position[x].lp + n
    /\ q.lp = p.lp + n

\* Then the shares are still the positions.
LEMMA SharesFollow ==
    ASSUME NEW p, NEW q, PoolOK(p), NEW x \in Providers, NEW n \in Int, Revalues(p, q, x, n)
    PROVE  q.lp = SumFunctionOnSet(Shares(q.position), Providers)
  <1>1. PositionsOK(p.position) /\ PositionsOK(q.position)
        /\ \A y \in Providers \ {x} : q.position[y] = p.position[y]
    BY DEF PoolOK, Revalues
  <1>2. /\ SumFunctionOnSet(Shares(p.position), Providers) \in Nat
        /\ SumFunctionOnSet(Shares(q.position), Providers)
              = SumFunctionOnSet(Shares(p.position), Providers) - p.position[x].lp + q.position[x].lp
    BY <1>1, SharesChange
  <1>3. p.position[x].lp \in Nat
    BY <1>1 DEF PositionsOK
  <1>4. /\ q.lp = p.lp + n /\ q.position[x].lp = p.position[x].lp + n
        /\ p.lp = SumFunctionOnSet(Shares(p.position), Providers)
    BY DEF PoolOK, Revalues
  <1> QED
    BY <1>2, <1>3, <1>4

\* The smaller of two numbers, as the library has it.
LEMMA SmallerOf ==
    ASSUME NEW m \in Nat, NEW n \in Nat
    PROVE  Min({m, n}) \in Nat /\ Min({m, n}) <= m /\ Min({m, n}) <= n
  <1>1. \E x \in {m, n} : \A y \in {m, n} : x <= y
    OBVIOUS
  <1>2. /\ Min({m, n}) \in {m, n} /\ \A y \in {m, n} : Min({m, n}) <= y
    BY <1>1 DEF Min
  <1> QED
    BY <1>2

\* add_liquidity on a pool p, as a relation between records.
Adds(p, q, x, m, n) ==
    /\ m > 0 /\ n > 0 /\ (p.lp # 0 => p.a # 0 /\ p.b # 0)
    /\ minted_lp(p, m, n) > 0
    /\ q.a = p.a + m /\ q.b = p.b + n
    /\ Revalues(p, q, x, minted_lp(p, m, n))

\* The shares of a deposit are a natural number: the square root exists, and a pool
\* with shares and an empty reserve makes the call fail.
LEMMA MintedType ==
    ASSUME NEW p, PoolOK(p), NEW m \in Int, NEW n \in Int, m > 0, n > 0,
           p.lp # 0 => p.a # 0 /\ p.b # 0
    PROVE  /\ minted_lp(p, m, n) \in Nat
           /\ p.lp # 0 => /\ minted_lp(p, m, n) <= (m * p.lp) \div p.a
                          /\ minted_lp(p, m, n) <= (n * p.lp) \div p.b
  <1>1. PICK a, b, l, s : a = p.a /\ b = p.b /\ l = p.lp /\ s = minted_lp(p, m, n)
    OBVIOUS
  <1>2. /\ a \in Nat /\ b \in Nat /\ l \in Nat /\ m \in Nat /\ n \in Nat
        /\ (l # 0 => a # 0 /\ b # 0)
    BY <1>1 DEF PoolOK
  <1>3. s \in Nat /\ (l # 0 => s <= (m * l) \div a /\ s <= (n * l) \div b)
    <2>1. CASE l = 0
      <3>1. PICK y \in Nat : y = m * n
        BY <1>2
      <3>2. s = integer_sqrt(y)
        BY <1>1, <2>1, <3>1 DEF minted_lp
      <3> QED
        BY <2>1, <3>2, RootExists
    <2>2. CASE l # 0
      <3>1. PICK y \in Nat, z \in Nat : y = m * l /\ z = n * l
        BY <1>2
      <3>2. y \div a \in Nat /\ z \div b \in Nat
        BY <1>2, <2>2, FloorBelow
      <3>3. PICK u \in Nat, v \in Nat : u = (m * l) \div a /\ v = (n * l) \div b
        BY <3>1, <3>2
      <3>5. quot(m * l, a) = u /\ quot(n * l, b) = v
        BY <1>2, <2>2, <3>1, <3>3, QuotIsFloor
      <3>4. s = Min({u, v})
        BY <1>1, <2>2, <3>5 DEF minted_lp
      <3> QED
        BY <2>2, <3>3, <3>4, SmallerOf
    <2> QED
      BY <2>1, <2>2
  <1> QED
    BY <1>1, <1>3

\* A deposit mints no more than its part of the smaller proportion.
LEMMA AddsOK ==
    ASSUME NEW p, NEW q, PoolOK(p), NEW x \in Providers, NEW m \in Int, NEW n \in Int,
           Adds(p, q, x, m, n)
    PROVE  PoolOK(q) /\ ValueKept(p, q)
  <1>1. PICK a, b, l, s : a = p.a /\ b = p.b /\ l = p.lp /\ s = minted_lp(p, m, n)
    OBVIOUS
  <1>2. /\ a \in Nat /\ b \in Nat /\ l \in Nat /\ m \in Nat /\ n \in Nat
        /\ m > 0 /\ n > 0 /\ s > 0 /\ q.a = a + m /\ q.b = b + n /\ q.lp = l + s
        /\ (l # 0 => a # 0 /\ b # 0) /\ Revalues(p, q, x, s)
    BY <1>1 DEF PoolOK, Adds, Revalues
  <1>3. s \in Nat /\ (l # 0 => s <= (m * l) \div a /\ s <= (n * l) \div b)
    BY <1>1, <1>2, MintedType
  <1>4. q.a \in Nat /\ q.b \in Nat /\ q.lp \in Nat /\ q.lp # 0
    BY <1>2, <1>3
  <1>5. q.lp = SumFunctionOnSet(Shares(q.position), Providers)
    BY <1>2, <1>3, SharesFollow
  <1>6. PoolOK(q)
    BY <1>2, <1>4, <1>5 DEF PoolOK, Revalues
  <1>7. ASSUME l > 0
        PROVE  /\ (a + b) * q.lp <= (q.a + q.b) * l
               /\ (a * b) * q.lp * q.lp <= (q.a * q.b) * l * l
    <2>1. PICK c \in Nat, d \in Nat, k \in Nat : c = a + m /\ d = b + n /\ k = l + s
      BY <1>2, <1>3
    <2>2. a * k <= c * l
      BY <1>2, <1>3, <1>7, <2>1, AddShare
    <2>3. b * k <= d * l
      BY <1>2, <1>3, <1>7, <2>1, AddShare
    <2>4. (a + b) * k <= (c + d) * l /\ (a * b) * k * k <= (c * d) * l * l
      BY <1>2, <2>1, <2>2, <2>3, PerShare
    <2> QED
      BY <1>2, <2>1, <2>4
  <1>8. ValueKept(p, q)
    BY <1>1, <1>2, <1>7 DEF ValueKept, Worth, Revalues
  <1> QED
    BY <1>6, <1>8

\* remove_liquidity on a pool p.
Removes(p, q, x, n) ==
    /\ n > 0 /\ p.position[x].lp >= n /\ p.lp > 0
    /\ q.a = p.a - quot(p.a * n, p.lp) /\ q.b = p.b - quot(p.b * n, p.lp)
    /\ Revalues(p, q, x, - n)

\* A redemption pays no more than its part of each reserve, and the last one pays all.
LEMMA RemovesOK ==
    ASSUME NEW p, NEW q, PoolOK(p), NEW x \in Providers, NEW n \in Int, Removes(p, q, x, n)
    PROVE  PoolOK(q) /\ ValueKept(p, q)
  <1>1. PICK a, b, l : a = p.a /\ b = p.b /\ l = p.lp
    OBVIOUS
  <1>0. /\ a \in Nat /\ b \in Nat /\ l \in Nat \ {0} /\ n \in Nat /\ n > 0
        /\ p.position[x].lp >= n
        /\ q.a = a - quot(a * n, l) /\ q.b = b - quot(b * n, l) /\ q.lp = l + (- n)
        /\ Revalues(p, q, x, - n)
    BY <1>1 DEF PoolOK, Removes, Revalues
  <1>11. quot(a * n, l) = (a * n) \div l /\ quot(b * n, l) = (b * n) \div l
    <2>1. PICK y \in Nat, z \in Nat : y = a * n /\ z = b * n
      BY <1>0
    <2> QED
      BY <1>0, <2>1, QuotIsFloor
  <1>2. /\ a \in Nat /\ b \in Nat /\ l \in Nat \ {0} /\ n \in Nat /\ n > 0
        /\ p.position[x].lp >= n
        /\ q.a = a - (a * n) \div l /\ q.b = b - (b * n) \div l /\ q.lp = l + (- n)
        /\ Revalues(p, q, x, - n)
    BY <1>0, <1>11
  <1>3. n <= l
    <2>1. PositionsOK(p.position) /\ PositionsOK(q.position)
          /\ \A y \in Providers \ {x} : q.position[y] = p.position[y]
      BY <1>2 DEF PoolOK, Revalues
    <2>2. p.position[x].lp <= SumFunctionOnSet(Shares(p.position), Providers)
      BY <2>1, SharesChange
    <2>3. p.position[x].lp \in Nat /\ l = SumFunctionOnSet(Shares(p.position), Providers)
      BY <1>1, <2>1 DEF PositionsOK, PoolOK
    <2> QED
      BY <1>2, <2>2, <2>3
  <1>4. PICK u \in Nat, v \in Nat :
          /\ u = (a * n) \div l /\ u <= a /\ a * (l - n) <= (a - u) * l /\ (n = l => u = a)
          /\ v = (b * n) \div l /\ v <= b /\ b * (l - n) <= (b - v) * l /\ (n = l => v = b)
    <2>1. ASSUME NEW z \in Nat
          PROVE  \E u \in Nat : /\ u = (z * n) \div l /\ u <= z /\ z * (l - n) <= (z - u) * l
                                /\ n = l => u = z
      <3>1. l \in Nat \ {0} /\ n \in Nat /\ n <= l
        BY <1>2, <1>3
      <3> QED
        BY <3>1, RemoveShare
    <2> QED
      BY <1>2, <2>1
  <1>5. PICK c \in Nat, d \in Nat, k \in Nat : c = a - u /\ d = b - v /\ k = l - n
    BY <1>2, <1>3, <1>4
  <1>6. q.a = c /\ q.b = d /\ q.lp = k /\ (k = 0 => c = 0 /\ d = 0)
    BY <1>2, <1>4, <1>5
  <1>7. q.lp = SumFunctionOnSet(Shares(q.position), Providers)
    BY <1>2, SharesFollow
  <1>8. PoolOK(q)
    BY <1>2, <1>6, <1>7 DEF PoolOK, Revalues
  <1>9. (a + b) * k <= (c + d) * l /\ (a * b) * k * k <= (c * d) * l * l
    <2>1. a * k <= c * l /\ b * k <= d * l /\ l \in Nat
      BY <1>2, <1>4, <1>5
    <2> QED
      BY <1>2, <2>1, PerShare
  <1>10. ValueKept(p, q)
    BY <1>1, <1>2, <1>6, <1>9 DEF ValueKept, Worth, Revalues
  <1> QED
    BY <1>8, <1>10

\* swap on a pool p, from one reserve to the other.
Swaps(p, q, x, y) ==
    /\ DOMAIN q = PoolFields /\ q.type = p.type /\ q.fee_bps = p.fee_bps
    /\ q.position = p.position /\ q.lp = p.lp
    /\ \/ p.a > 0 /\ p.b > 0 /\ y = quote_swap(p.type, x, p.a, p.b)
          /\ q.a = p.a + x /\ q.b = p.b - y
       \/ p.a > 0 /\ p.b > 0 /\ y = quote_swap(p.type, x, p.b, p.a)
          /\ q.a = p.a - y /\ q.b = p.b + x

\* What a swap pays: at most the reserve, at most the value it brings.
LEMMA QuoteOK ==
    ASSUME NEW type \in {"ConstantProduct", "StableSwap"}, NEW x \in Nat,
           NEW in \in Nat \ {0}, NEW out \in Nat
    PROVE  LET y == quote_swap(type, x, in, out)
           IN  /\ y \in Nat /\ y <= out
               /\ type = "ConstantProduct" => in * out <= (in + x) * (out - y)
               /\ type = "StableSwap" => y <= x
  <1>1. CASE type = "ConstantProduct"
    <2>1. PICK y : y = (x * out) \div (in + x)
      OBVIOUS
    <2>2. y \in Nat /\ y <= out /\ in * out <= (in + x) * (out - y)
      BY <2>1, SwapProduct
    <2>3. quot(x * out, in + x) = y
      <3>1. PICK m \in Nat, n \in Nat \ {0} : m = x * out /\ n = in + x
        OBVIOUS
      <3> QED
        BY <2>1, <3>1, QuotIsFloor
    <2> QED
      BY <1>1, <2>2, <2>3 DEF quote_swap
  <1>2. CASE type = "StableSwap"
    BY <1>2, SmallerOf DEF quote_swap
  <1> QED
    BY <1>1, <1>2

\* A swap leaves the shares their worth.
LEMMA SwapsOK ==
    ASSUME NEW p, NEW q, PoolOK(p), NEW x \in Nat, NEW y, Swaps(p, q, x, y)
    PROVE  PoolOK(q) /\ ValueKept(p, q)
  <1>1. PICK a, b, l : a = p.a /\ b = p.b /\ l = p.lp
    OBVIOUS
  <1>2. /\ a \in Nat \ {0} /\ b \in Nat \ {0} /\ l \in Nat
        /\ p.type \in {"ConstantProduct", "StableSwap"} /\ q.lp = l
    BY <1>1 DEF PoolOK, Swaps
  <1>3. PICK c \in Nat, d \in Nat :
          /\ q.a = c /\ q.b = d
          /\ p.type = "ConstantProduct" => a * b <= c * d
          /\ p.type = "StableSwap" => a + b <= c + d
    <2>1. CASE y = quote_swap(p.type, x, p.a, p.b) /\ q.a = p.a + x /\ q.b = p.b - y
      <3>1. /\ y \in Nat /\ y <= b
            /\ p.type = "ConstantProduct" => a * b <= (a + x) * (b - y)
            /\ p.type = "StableSwap" => y <= x
        BY <1>1, <1>2, <2>1, QuoteOK
      <3>2. a + x \in Nat /\ b - y \in Nat /\ (y <= x => a + b <= (a + x) + (b - y))
        BY <1>2, <3>1
      <3> QED
        BY <1>1, <2>1, <3>1, <3>2
    <2>2. CASE y = quote_swap(p.type, x, p.b, p.a) /\ q.a = p.a - y /\ q.b = p.b + x
      <3>1. /\ y \in Nat /\ y <= a
            /\ p.type = "ConstantProduct" => b * a <= (b + x) * (a - y)
            /\ p.type = "StableSwap" => y <= x
        BY <1>1, <1>2, <2>2, QuoteOK
      <3>2. /\ b + x \in Nat /\ a - y \in Nat /\ (y <= x => a + b <= (a - y) + (b + x))
            /\ b * a = a * b /\ (b + x) * (a - y) = (a - y) * (b + x)
        BY <1>2, <3>1
      <3> QED
        BY <1>1, <2>2, <3>1, <3>2
    <2> QED
      BY <2>1, <2>2 DEF Swaps
  <1>4. l # 0
    BY <1>1, <1>2 DEF PoolOK
  <1>5. PoolOK(q)
    BY <1>1, <1>2, <1>3, <1>4 DEF PoolOK, Swaps
  <1>6. ASSUME NEW w \in Nat, NEW v \in Nat, w <= v
        PROVE  w * l <= v * l /\ w * l * l <= v * l * l
    <2>1. PICK m \in Nat, n \in Nat : m = w * l /\ n = v * l /\ m <= n
      BY <1>2, <1>6, TimesOrdered
    <2>2. m * l <= n * l
      BY <1>2, <2>1, TimesOrdered
    <2> QED
      BY <2>1, <2>2
  <1>7. ValueKept(p, q)
    <2>1. CASE p.type = "ConstantProduct"
      <3>1. PICK w \in Nat, v \in Nat : w = a * b /\ v = c * d /\ w <= v
        BY <1>2, <1>3, <2>1
      <3>2. (a * b) * l * l <= (c * d) * l * l
        BY <1>6, <3>1
      <3> QED
        BY <1>1, <1>2, <1>3, <2>1, <3>2 DEF ValueKept, Worth, Swaps
    <2>2. CASE p.type = "StableSwap"
      <3>1. PICK w \in Nat, v \in Nat : w = a + b /\ v = c + d /\ w <= v
        BY <1>2, <1>3, <2>2
      <3>2. (a + b) * l <= (c + d) * l
        BY <1>6, <3>1
      <3> QED
        BY <1>1, <1>2, <1>3, <2>2, <3>2 DEF ValueKept, Worth, Swaps
    <2> QED
      BY <1>2, <2>1, <2>2
  <1> QED
    BY <1>5, <1>7

\* What is left of a swap's input after the fee.
LEMMA AfterFee ==
    ASSUME NEW m \in Nat, NEW fee \in Nat, fee <= AllBps
    PROVE  m - (m * fee) \div AllBps \in Nat
  <1>1. AllBps \in Nat \ {0}
    BY DEF AllBps
  <1>2. PICK out \in Nat : out = (m * fee) \div AllBps /\ out <= m
    BY <1>1, RemoveShare
  <1> QED
    BY <1>2

\* A pool that is in order if its fee is fair.
PoolFair(p) == DOMAIN p = PoolFields /\ (FairFee(p) => PoolOK(p))

\* A list of such pools.
PoolsOK(ps) == ps \in Seq(Range(ps)) /\ \A i \in DOMAIN ps : PoolFair(ps[i])

\* A call on pool id replaces it by one with the same fee ...
SamePool(ps, qs, id) ==
    /\ qs = [ps EXCEPT ![id] = qs[id]]
    /\ DOMAIN qs[id] = PoolFields /\ qs[id].fee_bps = ps[id].fee_bps

\* ... which is in order, and whose shares keep their value.
OnePool(ps, qs, id) ==
    /\ qs = [ps EXCEPT ![id] = qs[id]]
    /\ PoolOK(qs[id]) /\ ValueKept(ps[id], qs[id])

\* Whatever the fee of a pool, no call changes it: not add_bridge_liquidity ...
LEMMA AddKeepsFee ==
    ASSUME PoolsOK(pools), NEW id \in DOMAIN pools, NEW p, NEW x, NEW y,
           add_bridge_liquidity(id, p, x, y)
    PROVE  SamePool(pools, pools', id)
  <1>1. DOMAIN pools[id] = PoolFields
    BY DEF PoolsOK, PoolFair
  <1>2. PICK m, z :
          pools' = [pools EXCEPT ![id].a = @ + x, ![id].b = @ + y, ![id].lp = @ + m,
                                 ![id].position[p] = z]
    BY DEF add_bridge_liquidity
  <1> QED
    BY <1>1, <1>2 DEF SamePool, PoolFields

\* ... nor remove_bridge_liquidity ...
LEMMA RemoveKeepsFee ==
    ASSUME PoolsOK(pools), NEW id \in DOMAIN pools, NEW p, NEW n, remove_bridge_liquidity(id, p, n)
    PROVE  SamePool(pools, pools', id)
  <1>1. DOMAIN pools[id] = PoolFields
    BY DEF PoolsOK, PoolFair
  <1>2. PICK u, v, z :
          pools' = [pools EXCEPT ![id].a = @ - u, ![id].b = @ - v, ![id].lp = @ - n,
                                 ![id].position[p] = z]
    BY DEF remove_bridge_liquidity
  <1> QED
    BY <1>1, <1>2 DEF SamePool, PoolFields

\* ... nor swap_bridge_assets.
LEMMA SwapKeepsFee ==
    ASSUME PoolsOK(pools), NEW id \in DOMAIN pools, NEW d \in BOOLEAN,
           NEW n \in PoolAmounts, swap_bridge_assets(id, d, n, 1)
    PROVE  SamePool(pools, pools', id)
  <1>1. PICK p, x : p = pools[id] /\ x = n - (n * p.fee_bps) \div AllBps
    OBVIOUS
  <1>2. DOMAIN p = PoolFields
    BY <1>1 DEF PoolsOK, PoolFair
  <1>3. CASE d
    <2>1. PICK y : y = quote_swap(p.type, x, p.a, p.b)
      OBVIOUS
    <2>2. pools' = [pools EXCEPT ![id].a = @ + x, ![id].b = @ - y]
      BY <1>1, <1>3, <2>1 DEF swap_bridge_assets, AllBps
    <2> QED
      BY <1>1, <1>2, <2>2 DEF SamePool, PoolFields
  <1>4. CASE ~d
    <2>1. PICK y : y = quote_swap(p.type, x, p.b, p.a)
      OBVIOUS
    <2>2. pools' = [pools EXCEPT ![id].a = @ - y, ![id].b = @ + x]
      BY <1>1, <1>4, <2>1 DEF swap_bridge_assets, AllBps
    <2> QED
      BY <1>1, <1>2, <2>2 DEF SamePool, PoolFields
  <1> QED
    BY <1>3, <1>4

\* add_bridge_liquidity is such a call.
LEMMA AddCall ==
    ASSUME PoolsOK(pools), NEW id \in DOMAIN pools, FairFee(pools[id]), NEW x \in Providers,
           NEW m \in PoolAmounts, NEW n \in PoolAmounts, add_bridge_liquidity(id, x, m, n)
    PROVE  OnePool(pools, pools', id)
  <1>1. PICK p, s, w, l :
          /\ p = pools[id] /\ s = minted_lp(p, m, n)
          /\ w = p.position[x].rewards + reward_for_liquidity(m + n, p.reward_bps)
          /\ l = p.position[x].lp + s
    OBVIOUS
  <1>2. PoolOK(p) /\ m \in Int /\ n \in Int
    BY <1>1, PoolConstants DEF PoolsOK, PoolFair
  <1>3. DOMAIN p = PoolFields /\ PositionsOK(p.position)
    BY <1>2 DEF PoolOK
  <1>4. /\ m > 0 /\ n > 0 /\ (p.lp # 0 => p.a # 0 /\ p.b # 0) /\ s > 0
        /\ pools' = [pools EXCEPT ![id].a = @ + m, ![id].b = @ + n, ![id].lp = @ + s,
                                  ![id].position[x] = [lp |-> l, rewards |-> w]]
    BY <1>1 DEF add_bridge_liquidity
  <1>5. PICK z, q : /\ z = [lp |-> l, rewards |-> w]
                    /\ q = [p EXCEPT !.a = @ + m, !.b = @ + n, !.lp = @ + s,
                                     !.position = [@ EXCEPT ![x] = z]]
    OBVIOUS
  <1>6. /\ pools' = [pools EXCEPT ![id] = q]
        /\ DOMAIN q = PoolFields /\ q.type = p.type /\ q.fee_bps = p.fee_bps
        /\ q.a = p.a + m /\ q.b = p.b + n /\ q.lp = p.lp + s
        /\ q.position = [p.position EXCEPT ![x] = z]
        /\ DOMAIN z = {"lp", "rewards"} /\ z.lp = p.position[x].lp + s
    <2>1. pools' = [pools EXCEPT ![id] = q]
      BY <1>1, <1>3, <1>4, <1>5 DEF PoolFields, PositionsOK
    <2>2. DOMAIN z = {"lp", "rewards"} /\ z.lp = l
      BY <1>5
    <2> QED
      BY <1>1, <1>3, <1>5, <2>1, <2>2 DEF PoolFields
  <1>7. s \in Nat
    BY <1>1, <1>2, <1>4, MintedType
  <1>8. /\ PositionsOK(q.position) /\ q.position[x].lp = p.position[x].lp + s
        /\ \A y \in Providers \ {x} : q.position[y] = p.position[y]
    BY <1>3, <1>6, <1>7 DEF PositionsOK
  <1>9. Adds(p, q, x, m, n)
    BY <1>1, <1>4, <1>6, <1>8 DEF Adds, Revalues
  <1>10. PoolOK(q) /\ ValueKept(p, q)
    BY <1>2, <1>9, AddsOK
  <1>11. pools'[id] = q
    BY <1>6
  <1> QED
    BY <1>1, <1>6, <1>10, <1>11 DEF OnePool

\* remove_bridge_liquidity is such a call.
LEMMA RemoveCall ==
    ASSUME PoolsOK(pools), NEW id \in DOMAIN pools, FairFee(pools[id]), NEW x \in Providers,
           NEW n \in PoolAmounts, remove_bridge_liquidity(id, x, n)
    PROVE  OnePool(pools, pools', id)
  <1>1. PICK p, z, w : /\ p = pools[id] /\ z = p.position[x]
                       /\ w = z.rewards - (z.rewards * n) \div z.lp
    OBVIOUS
  <1>2. PoolOK(p) /\ n \in Int
    BY <1>1, PoolConstants DEF PoolsOK, PoolFair
  <1>3. DOMAIN p = PoolFields /\ PositionsOK(p.position)
    BY <1>2 DEF PoolOK
  <1>4. PICK u, v : u = quot(p.a * n, p.lp) /\ v = quot(p.b * n, p.lp)
    OBVIOUS
  <1>5. PICK q : q = [p EXCEPT !.a = @ - u, !.b = @ - v, !.lp = @ - n,
                               !.position = [@ EXCEPT ![x] = [lp |-> z.lp - n, rewards |-> w]]]
    OBVIOUS
  <1>6. /\ n > 0 /\ z.lp >= n /\ p.lp > 0
        /\ pools' = [pools EXCEPT ![id].a = @ - u, ![id].b = @ - v, ![id].lp = @ - n,
                                  ![id].position[x] = [lp |-> z.lp - n, rewards |-> w]]
    BY <1>1, <1>4 DEF remove_bridge_liquidity
  <1>7. pools' = [pools EXCEPT ![id] = q]
    BY <1>1, <1>3, <1>5, <1>6 DEF PoolFields, PositionsOK
  <1>8. /\ DOMAIN q = PoolFields /\ q.type = p.type /\ q.fee_bps = p.fee_bps
        /\ q.a = p.a - u /\ q.b = p.b - v /\ q.lp = p.lp - n
        /\ q.position = [p.position EXCEPT ![x] = [lp |-> z.lp - n, rewards |-> w]]
    BY <1>3, <1>5 DEF PoolFields
  <1>9. z.lp \in Nat /\ z.lp - n \in Nat /\ z.lp - n = z.lp + (- n)
        /\ p.lp \in Nat /\ p.lp - n = p.lp + (- n)
    BY <1>1, <1>2, <1>3, <1>6 DEF PositionsOK, PoolOK
  <1>10. /\ PositionsOK(q.position) /\ q.position[x].lp = z.lp - n
         /\ \A y \in Providers \ {x} : q.position[y] = p.position[y]
    BY <1>3, <1>8, <1>9 DEF PositionsOK
  <1>11. Removes(p, q, x, n)
    BY <1>1, <1>4, <1>6, <1>8, <1>9, <1>10 DEF Removes, Revalues
  <1>12. PoolOK(q) /\ ValueKept(p, q)
    BY <1>2, <1>11, RemovesOK
  <1>13. pools'[id] = q
    BY <1>7
  <1> QED
    BY <1>1, <1>7, <1>12, <1>13 DEF OnePool

\* swap_bridge_assets is such a call.
LEMMA SwapCall ==
    ASSUME PoolsOK(pools), NEW id \in DOMAIN pools, FairFee(pools[id]), NEW d \in BOOLEAN,
           NEW n \in PoolAmounts, swap_bridge_assets(id, d, n, 1)
    PROVE  OnePool(pools, pools', id)
  <1>1. PICK p, x : p = pools[id] /\ x = n - (n * p.fee_bps) \div AllBps
    OBVIOUS
  <1>2. PoolOK(p) /\ n \in Int
    BY <1>1, PoolConstants DEF PoolsOK, PoolFair
  <1>3. DOMAIN p = PoolFields /\ p.fee_bps \in Nat /\ p.fee_bps <= AllBps
    BY <1>2 DEF PoolOK
  <1>4. n > 0
    BY DEF swap_bridge_assets
  <1>5. x \in Nat
    BY <1>1, <1>2, <1>3, <1>4, AfterFee
  <1>6. PICK q, y : Swaps(p, q, x, y) /\ pools' = [pools EXCEPT ![id] = q]
    <2>1. CASE d
      <3>1. PICK y : y = quote_swap(p.type, x, p.a, p.b)
        OBVIOUS
      <3>2. PICK q : q = [p EXCEPT !.a = @ + x, !.b = @ - y]
        OBVIOUS
      <3>3. /\ p.a > 0 /\ p.b > 0
            /\ pools' = [pools EXCEPT ![id].a = @ + x, ![id].b = @ - y]
        BY <1>1, <2>1, <3>1 DEF swap_bridge_assets, AllBps
      <3>4. pools' = [pools EXCEPT ![id] = q]
        BY <1>1, <1>3, <3>2, <3>3 DEF PoolFields
      <3>5. Swaps(p, q, x, y)
        BY <1>3, <3>1, <3>2, <3>3 DEF Swaps, PoolFields
      <3> QED
        BY <3>4, <3>5
    <2>2. CASE ~d
      <3>1. PICK y : y = quote_swap(p.type, x, p.b, p.a)
        OBVIOUS
      <3>2. PICK q : q = [p EXCEPT !.a = @ - y, !.b = @ + x]
        OBVIOUS
      <3>3. /\ p.a > 0 /\ p.b > 0
            /\ pools' = [pools EXCEPT ![id].a = @ - y, ![id].b = @ + x]
        BY <1>1, <2>2, <3>1 DEF swap_bridge_assets, AllBps
      <3>4. pools' = [pools EXCEPT ![id] = q]
        BY <1>1, <1>3, <3>2, <3>3 DEF PoolFields
      <3>5. Swaps(p, q, x, y)
        BY <1>3, <3>1, <3>2, <3>3 DEF Swaps, PoolFields
      <3> QED
        BY <3>4, <3>5
    <2> QED
      BY <2>1, <2>2
  <1>7. PoolOK(q) /\ ValueKept(p, q)
    BY <1>2, <1>5, <1>6, SwapsOK
  <1>8. pools'[id] = q
    BY <1>6
  <1> QED
    BY <1>1, <1>6, <1>7, <1>8 DEF OnePool

\* A pool that is left alone keeps its shares' value.
LEMMA SameValue ==
    ASSUME NEW p, PoolOK(p)
    PROVE  ValueKept(p, p)
  <1>1. PICK w \in Nat, l \in Nat : w = Worth(p) /\ l = p.lp
    <2>1. p.a \in Nat /\ p.b \in Nat /\ p.lp \in Nat
      BY DEF PoolOK
    <2>2. p.a * p.b \in Nat /\ p.a + p.b \in Nat
      BY <2>1
    <2> QED
      BY <2>1, <2>2 DEF Worth
  <1>2. w * l * l \in Nat /\ w * l \in Nat
    OBVIOUS
  <1> QED
    BY <1>1, <1>2 DEF ValueKept

\* From one list of pools to the next: every pool there was keeps its fee, and if
\* that is fair it is in order, and its shares have kept their value.
PoolsKept(ps, qs) ==
    /\ PoolsOK(qs)
    /\ \A i \in 1..Len(ps) : FairFee(ps[i]) => PoolOK(qs[i]) /\ ValueKept(ps[i], qs[i])

\* Nothing changes.
LEMMA PoolsSame ==
    ASSUME NEW ps, PoolsOK(ps)
    PROVE  PoolsKept(ps, ps)
  <1>1. DOMAIN ps = 1..Len(ps)
    BY DEF PoolsOK
  <1> QED
    BY <1>1, SameValue DEF PoolsKept, PoolsOK, PoolFair

\* A call on one pool.
LEMMA OnePoolKept ==
    ASSUME NEW ps, NEW qs, PoolsOK(ps), NEW id \in DOMAIN ps, SamePool(ps, qs, id),
           FairFee(ps[id]) => OnePool(ps, qs, id)
    PROVE  PoolsKept(ps, qs)
  <1>1. PICK n, S, T : n \in Nat /\ n = Len(ps) /\ S = Range(ps) /\ T = Range(qs)
    BY DEF PoolsOK
  <1>2. ps \in Seq(S) /\ DOMAIN ps = 1..n
    BY <1>1 DEF PoolsOK
  <1>3. PICK q : /\ q = qs[id] /\ qs = [ps EXCEPT ![id] = q]
                 /\ DOMAIN q = PoolFields /\ (FairFee(q) <=> FairFee(ps[id]))
                 /\ FairFee(ps[id]) => PoolOK(q) /\ ValueKept(ps[id], q)
    BY DEF OnePool, SamePool, FairFee
  <1>4. /\ DOMAIN qs = 1..n
        /\ \A i \in 1..n : qs[i] = IF i = id THEN q ELSE ps[i]
    BY <1>2, <1>3
  <1>5. \A i \in 1..n : /\ PoolFair(qs[i])
                        /\ FairFee(ps[i]) => PoolOK(qs[i]) /\ ValueKept(ps[i], qs[i])
    <2>1. SUFFICES ASSUME NEW i \in 1..n
                   PROVE  /\ PoolFair(qs[i])
                          /\ FairFee(ps[i]) => PoolOK(qs[i]) /\ ValueKept(ps[i], qs[i])
      OBVIOUS
    <2>2. CASE i = id
      BY <1>3, <2>2 DEF PoolFair
    <2>3. CASE i # id
      <3>1. PICK p : p = ps[i] /\ qs[i] = p /\ PoolFair(p)
        BY <1>2, <1>4, <2>3 DEF PoolsOK
      <3> QED
        BY <3>1, SameValue DEF PoolFair
    <2> QED
      BY <2>2, <2>3
  <1>6. qs \in Seq(T)
    <2>1. \A i \in 1..n : qs[i] \in T
      BY <1>1, <1>4 DEF Range
    <2>2. qs = [i \in 1..n |-> qs[i]]
      BY <1>2, <1>3, <1>4
    <2>3. n \in Nat
      BY <1>1
    <2> QED
      BY <2>1, <2>2, <2>3
  <1>7. PoolsOK(qs)
    <2>1. \A i \in DOMAIN qs : PoolFair(qs[i])
      BY <1>4, <1>5
    <2>2. qs \in Seq(Range(qs))
      BY <1>1, <1>6
    <2> QED
      BY <2>1, <2>2 DEF PoolsOK
  <1>8. \A i \in 1..Len(ps) : FairFee(ps[i]) => PoolOK(qs[i]) /\ ValueKept(ps[i], qs[i])
    BY <1>1, <1>5
  <1> QED
    BY <1>7, <1>8 DEF PoolsKept

\* create_liquidity_pool appends an empty pool.
LEMMA CreateCall ==
    ASSUME PoolsOK(pools), NEW x, NEW y, NEW k \in PoolKinds, create_liquidity_pool(x, y, k)
    PROVE  PoolsKept(pools, pools')
  <1>1. PICK ps, qs, p, S : /\ ps = pools /\ qs = pools' /\ p = LiquidityPool(k) /\ S = Range(ps)
                            /\ qs = Append(ps, p)
    BY DEF create_liquidity_pool
  <1>2. PoolFair(p)
    BY <1>1, NewPoolOK DEF PoolFair
  <1>3. ps \in Seq(S) /\ \A i \in DOMAIN ps : PoolFair(ps[i])
    BY <1>1 DEF PoolsOK
  <1>4. PICK n \in Nat : n = Len(ps) /\ DOMAIN ps = 1..n
    BY <1>3
  <1>5. /\ qs \in Seq(S \cup {p}) /\ DOMAIN qs = 1..(n + 1)
        /\ qs[n + 1] = p /\ \A i \in 1..n : qs[i] = ps[i]
    <2>1. ps \in Seq(S \cup {p})
      BY <1>3
    <2> QED
      BY <1>1, <1>4, <2>1
  <1>6. \A i \in DOMAIN qs : PoolFair(qs[i])
    <2>1. SUFFICES ASSUME NEW i \in 1..(n + 1)
                   PROVE  PoolFair(qs[i])
      BY <1>5
    <2>2. i = n + 1 \/ i \in 1..n
      OBVIOUS
    <2> QED
      BY <1>2, <1>3, <1>4, <1>5, <2>2
  <1>7. qs \in Seq(Range(qs))
    <2>1. PICK T : T = Range(qs)
      OBVIOUS
    <2>2. \A i \in 1..(n + 1) : qs[i] \in T
      BY <1>5, <2>1 DEF Range
    <2>3. qs = [i \in 1..(n + 1) |-> qs[i]]
      BY <1>5
    <2> QED
      BY <2>1, <2>2, <2>3
  <1>8. PoolsOK(qs)
    BY <1>6, <1>7 DEF PoolsOK
  <1>9. \A i \in 1..n : FairFee(ps[i]) => PoolOK(qs[i]) /\ ValueKept(ps[i], qs[i])
    <2>1. SUFFICES ASSUME NEW i \in 1..n, FairFee(ps[i])
                   PROVE  PoolOK(qs[i]) /\ ValueKept(ps[i], qs[i])
      OBVIOUS
    <2>2. PICK u : u = ps[i] /\ qs[i] = u /\ PoolOK(u)
      BY <1>3, <1>4, <1>5, <2>1 DEF PoolFair
    <2> QED
      BY <2>2, SameValue
  <1> QED
    BY <1>1, <1>4, <1>8, <1>9 DEF PoolsKept

\* What a step of the bridge does to the pools.
LEMMA PoolsStepOK ==
    ASSUME PoolsOK(pools), [BridgeNext]_<<now, seq, br, pools>>
    PROVE  PoolsKept(pools, pools')
  <1>1. CASE PoolStep
    <2>1. CASE \E x, y \in WrappedAssets, k \in PoolKinds : create_liquidity_pool(x, y, k)
      BY <2>1, CreateCall
    <2>2. ASSUME NEW id \in 1..Len(pools),
                 \/ \E p \in Providers, x, y \in PoolAmounts : add_bridge_liquidity(id, p, x, y)
                 \/ \E p \in Providers, n \in PoolAmounts : remove_bridge_liquidity(id, p, n)
                 \/ \E d \in BOOLEAN, x \in PoolAmounts : swap_bridge_assets(id, d, x, 1)
          PROVE  PoolsKept(pools, pools')
      <3>1. id \in DOMAIN pools
        BY DEF PoolsOK
      <3>2. ASSUME FairFee(pools[id])
            PROVE  OnePool(pools, pools', id)
        <4>1. CASE \E p \in Providers, x, y \in PoolAmounts : add_bridge_liquidity(id, p, x, y)
          BY <3>1, <3>2, <4>1, AddCall
        <4>2. CASE \E p \in Providers, n \in PoolAmounts : remove_bridge_liquidity(id, p, n)
          BY <3>1, <3>2, <4>2, RemoveCall
        <4>3. CASE \E d \in BOOLEAN, x \in PoolAmounts : swap_bridge_assets(id, d, x, 1)
          BY <3>1, <3>2, <4>3, SwapCall
        <4> QED
          BY <2>2, <4>1, <4>2, <4>3
      <3>3. SamePool(pools, pools', id)
        BY <2>2, <3>1, AddKeepsFee, RemoveKeepsFee, SwapKeepsFee
      <3> QED
        BY <3>1, <3>2, <3>3, OnePoolKept
    <2> QED
      BY <1>1, <2>1, <2>2 DEF PoolStep
  <1>2. CASE UNCHANGED pools
    <2>1. pools' = pools
      BY <1>2
    <2> QED
      BY <2>1, PoolsSame
  <1> QED
    BY <1>1, <1>2 DEF BridgeNext

\* What ShareValueNeverFalls asks of a step.
SharesWorth(p, q) ==
    p.fee_bps <= 10000 =>
        /\ q.lp = SumFunction([x \in Providers |-> q.position[x].lp])
        /\ q.lp = 0 => q.a = 0 /\ q.b = 0
        /\ p.lp > 0 /\ q.lp > 0 =>
              IF p.type = "ConstantProduct"
              THEN Worth(p) * q.lp * q.lp <= Worth(q) * p.lp * p.lp
              ELSE Worth(p) * q.lp <= Worth(q) * p.lp

LEMMA ShareValueOfStep ==
    ASSUME PoolsOK(pools), PoolsKept(pools, pools')
    PROVE  \A id \in 1..Len(pools) : SharesWorth(pools[id], pools'[id])
  <1>1. SUFFICES ASSUME NEW id \in 1..Len(pools), FairFee(pools[id])
                 PROVE  LET p == pools[id]
                            q == pools'[id]
                        IN  /\ q.lp = SumFunction([x \in Providers |-> q.position[x].lp])
                            /\ q.lp = 0 => q.a = 0 /\ q.b = 0
                            /\ ValueKept(p, q)
    BY DEF ValueKept, SharesWorth, FairFee
  <1>2. PICK p, q : p = pools[id] /\ q = pools'[id] /\ PoolOK(q) /\ ValueKept(p, q)
    BY <1>1 DEF PoolsKept
  <1>3. q.lp = SumFunctionOnSet(Shares(q.position), Providers) /\ (q.lp = 0 => q.a = 0 /\ q.b = 0)
    BY <1>2 DEF PoolOK
  <1>4. SumFunction(Shares(q.position)) = SumFunctionOnSet(Shares(q.position), Providers)
    <2>1. DOMAIN Shares(q.position) = Providers
      BY DEF Shares
    <2> QED
      BY <2>1 DEF SumFunction
  <1>5. Shares(q.position) = [x \in Providers |-> q.position[x].lp]
    BY DEF Shares
  <1> QED
    BY <1>2, <1>3, <1>4, <1>5

\* Nobody's share of a pool loses value to another's rounding, for any number of
\* pools, providers and amounts: through deposits, redemptions and swaps in any
\* order, in every pool that charges at most the whole amount, whatever the others
\* charge, the worth per share never falls, and the shares are the positions.
THEOREM ShareValueHolds == BridgeSpec => ShareValueNeverFalls
  <1>1. PoolsInit => PoolsOK(pools)
    BY DEF PoolsInit, PoolsOK, Range
  <1>2. PoolsOK(pools) /\ [BridgeNext]_<<now, seq, br, pools>> => PoolsOK(pools)'
    BY PoolsStepOK DEF PoolsKept
  <1>3. PoolsOK(pools) /\ [BridgeNext]_<<now, seq, br, pools>>
           => [\A id \in 1..Len(pools) : SharesWorth(pools[id], pools'[id])]_pools
    BY PoolsStepOK, ShareValueOfStep
  <1> QED
    BY <1>1, <1>2, <1>3, PTL DEF BridgeSpec, ShareValueNeverFalls, SharesWorth
=============================================================================
