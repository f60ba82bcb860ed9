---------------------------- MODULE LibraryProofs ----------------------------
(***************************************************************************)
(* Proofs about the libraries the vault is built on: the multi-sig flow,   *)
(* the rate limiter, the versions and strategies of an upgrade, and the    *)
(* fee accumulator with the reward buckets.                                *)
(***************************************************************************)
EXTENDS MCLibraries, SumTheorems, FiniteSetTheorems, SequenceTheorems, TLAPS

----------------------------------------------------------------------------
\* A sequence without repetitions has as many members as entries.
LEMMA InjectiveSeqCardinality ==
    ASSUME NEW S, NEW s \in Seq(S), IsInjective(s)
    PROVE  Cardinality(Range(s)) = Len(s)
  <1>1. s \in Surjection(1..Len(s), Range(s)) /\ s \in Injection(1..Len(s), Range(s))
    BY DEF Surjection, Injection, Range, IsInjective
  <1>2. IsFiniteSet(1..Len(s)) /\ Cardinality(1..Len(s)) = Len(s)
    <2>1. Len(s) \in Nat
      OBVIOUS
    <2> QED
      BY <2>1, FS_Interval
  <1> QED
    BY <1>1, <1>2, FS_Surjection

\* Appending a new member keeps a sequence free of repetitions.
LEMMA AppendInjective_New ==
    ASSUME NEW S, NEW s \in Seq(S), NEW a \in S, IsInjective(s), a \notin Range(s)
    PROVE  IsInjective(Append(s, a))
  BY DEF IsInjective, Range

\* A sequence is a prefix of itself and of what is appended to it.
LEMMA PrefixOfAppend ==
    ASSUME NEW S, NEW s \in Seq(S), NEW a \in S
    PROVE  IsPrefix(s, s) /\ IsPrefix(s, Append(s, a))
  <1>1. Len(Append(s, a)) = Len(s) + 1 /\ Len(s) \in Nat
    OBVIOUS
  <1>2. SubSeq(s, 1, Len(s)) = SubSeq(Append(s, a), 1, Len(s))
    OBVIOUS
  <1> QED
    BY <1>1, <1>2 DEF IsPrefix

----------------------------------------------------------------------------
\* The inductive invariant of the multi-sig flow.  That nobody's approval counts
\* twice rests on the list of approvals having no repetitions, and that a payload
\* runs once on the status recording each run.
MSInv ==
    /\ ClockTypeOK
    /\ MSTypeOK
    /\ \A id \in DOMAIN proposals :
          /\ IsInjective(proposals[id].approvals)
          /\ executions[id] = IF proposals[id].status = "Executed" THEN 1 ELSE 0

\* The flow starts without proposals.
LEMMA MSInitInv ==
    ASSUME ClockInit, MSInit
    PROVE  MSInv
  BY DEF ClockInit, MSInit, MSInv, ClockTypeOK, MSTypeOK

\* The ledger closing and a new configuration leave the proposals alone.
LEMMA MSFrameInv ==
    ASSUME MSInv, UNCHANGED <<proposals, executions>>, ClockTypeOK',
           msConfig' \in MSConfigs \cup {NoConfig}
    PROVE  MSInv'
  BY DEF MSInv, MSTypeOK

\* A proposal starts with the approval of its proposer.
LEMMA ProposeInv ==
    ASSUME MSInv, UNCHANGED clockVars, NEW a \in Signers, NEW payload \in Payloads,
           propose(a, payload)
    PROVE  MSInv'
  <1> DEFINE timeout == IF msConfig.proposal_timeout_secs > 0
                        THEN msConfig.proposal_timeout_secs
                        ELSE DEFAULT_PROPOSAL_TIMEOUT_SECS
             new == [proposer |-> a, payload |-> payload, approvals |-> <<a>>,
                     status |-> "Pending", expires_at |-> SatAdd(now, timeout)]
  <1>1. timeout \in Nat
    BY MultisigConstants DEF MSInv, MSTypeOK, NoConfig
  <1>2. SatAdd(now, timeout) \in Nat
    BY <1>1, ClockConstants DEF SatAdd, MSInv, ClockTypeOK
  <1>3. new \in Proposal
    BY <1>2 DEF Proposal
  <1>4. proposals' = Append(proposals, new) /\ executions' = Append(executions, 0)
    BY DEF propose
  <1>5. MSTypeOK' /\ ClockTypeOK'
    BY <1>3, <1>4 DEF MSInv, MSTypeOK, ClockTypeOK, clockVars, propose
  <1>6. IsInjective(<<a>>)
    BY DEF IsInjective
  <1>7. ASSUME NEW id \in DOMAIN proposals'
        PROVE  /\ IsInjective(proposals'[id].approvals)
               /\ executions'[id] = IF proposals'[id].status = "Executed" THEN 1 ELSE 0
    <2>1. CASE id \in DOMAIN proposals
      <3>1. proposals'[id] = proposals[id] /\ executions'[id] = executions[id]
        BY <1>3, <1>4, <2>1 DEF MSInv, MSTypeOK
      <3> QED
        BY <2>1, <3>1 DEF MSInv
    <2>2. CASE id = Len(proposals) + 1
      <3>1. proposals'[id] = new /\ executions'[id] = 0
        BY <1>3, <1>4, <2>2 DEF MSInv, MSTypeOK
      <3> QED
        BY <3>1, <1>6
    <2> QED
      BY <1>3, <1>4, <1>7, <2>1, <2>2 DEF MSInv, MSTypeOK
  <1> QED
    BY <1>5, <1>7 DEF MSInv

\* An approval is appended once per signer.
LEMMA ApproveInv ==
    ASSUME MSInv, UNCHANGED clockVars, NEW a \in Signers, NEW id \in DOMAIN proposals,
           approve(a, id)
    PROVE  MSInv'
  <1>1. proposals[id] \in Proposal /\ proposals[id].approvals \in Seq(Signers)
    <2>1. proposals[id] \in Proposal
      BY DEF MSInv, MSTypeOK
    <2> QED
      BY <2>1 DEF Proposal
  <1>2. IsInjective(Append(proposals[id].approvals, a))
    BY <1>1, AppendInjective_New DEF approve, has_approved, MSInv
  <1>3. proposals' = [proposals EXCEPT ![id] =
                         [proposals[id] EXCEPT !.approvals = Append(proposals[id].approvals, a)]]
    BY DEF approve
  <1>4. [proposals[id] EXCEPT !.approvals = Append(proposals[id].approvals, a)] \in Proposal
    BY <1>1 DEF Proposal
  <1>5. MSTypeOK' /\ ClockTypeOK'
    BY <1>3, <1>4 DEF MSInv, MSTypeOK, ClockTypeOK, clockVars, approve
  <1> QED
    BY <1>1, <1>2, <1>3, <1>5 DEF MSInv, MSTypeOK, approve, Proposal

\* A run is recorded in the status and never repeated.
LEMMA RunInv ==
    ASSUME MSInv, UNCHANGED clockVars, NEW id \in DOMAIN proposals, run_proposal(id)
    PROVE  MSInv'
  <1>1. proposals[id] \in Proposal /\ executions[id] = 0 /\ id \in DOMAIN executions
    BY DEF MSInv, MSTypeOK, run_proposal, mark_executed
  <1>2. [proposals[id] EXCEPT !.status = "Executed"] \in Proposal
    BY <1>1 DEF Proposal
  <1>3. /\ proposals' = [proposals EXCEPT ![id] = [proposals[id] EXCEPT !.status = "Executed"]]
        /\ executions' = [executions EXCEPT ![id] = 1]
    BY <1>1 DEF run_proposal, mark_executed
  <1>4. MSTypeOK' /\ ClockTypeOK'
    BY <1>2, <1>3 DEF MSInv, MSTypeOK, ClockTypeOK, clockVars, run_proposal, mark_executed
  <1> QED
    BY <1>1, <1>3, <1>4 DEF MSInv, MSTypeOK, Proposal

\* Every step of the flow keeps the invariant.
LEMMA MSStepInv ==
    ASSUME MSInv, [MSNext]_<<clockVars, msVars>>
    PROVE  MSInv'
  <1>1. CASE CloseLedger /\ UNCHANGED msVars
    <2>1. ClockTypeOK'
      BY <1>1, ClockConstants DEF CloseLedger, MSInv, ClockTypeOK
    <2> QED
      BY <1>1, <2>1, MSFrameInv DEF msVars, MSInv, MSTypeOK
  <1>2. CASE UNCHANGED clockVars /\ \E cfg \in MSConfigs : set_multisig_config(cfg)
    BY <1>2, MSFrameInv DEF set_multisig_config, clockVars, MSInv, ClockTypeOK
  <1>3. CASE UNCHANGED clockVars /\ clear_multisig_config
    BY <1>3, MSFrameInv DEF clear_multisig_config, clockVars, MSInv, ClockTypeOK
  <1>4. CASE /\ UNCHANGED clockVars
             /\ \E a \in Signers, payload \in Payloads : propose(a, payload)
    BY <1>4, ProposeInv
  <1>5. CASE /\ UNCHANGED clockVars
             /\ \E a \in Signers, id \in DOMAIN proposals : approve(a, id)
    BY <1>5, ApproveInv
  <1>6. CASE UNCHANGED clockVars /\ \E id \in DOMAIN proposals : run_proposal(id)
    BY <1>6, RunInv
  <1>7. CASE UNCHANGED <<clockVars, msVars>>
    BY <1>7, MSFrameInv DEF clockVars, msVars, MSInv, ClockTypeOK, MSTypeOK
  <1> QED
    BY <1>1, <1>2, <1>3, <1>4, <1>5, <1>6, <1>7 DEF MSNext

----------------------------------------------------------------------------
\* One step runs a proposal only with a quorum of different signers in time.
LEMMA RunsNeedQuorum ==
    ASSUME MSInv, [MSNext]_<<clockVars, msVars>>, NEW id \in DOMAIN executions,
           executions'[id] # executions[id]
    PROVE  /\ Cardinality(Range(proposals[id].approvals)) >= msConfig.threshold
           /\ now <= proposals[id].expires_at
  <1>1. id \in DOMAIN proposals /\ proposals[id] \in Proposal
    BY DEF MSInv, MSTypeOK
  <1>2. ~ UNCHANGED executions
    OBVIOUS
  <1>3. ~ \E a \in Signers, payload \in Payloads : propose(a, payload)
    <2>1. ASSUME executions' = Append(executions, 0)
          PROVE  executions'[id] = executions[id]
      BY <2>1 DEF MSInv, MSTypeOK
    <2> QED
      BY <2>1 DEF propose
  <1>4. PICK k \in DOMAIN proposals : run_proposal(k)
    BY <1>2, <1>3 DEF MSNext, msVars, set_multisig_config, clear_multisig_config, approve
  <1>5. id = k
    BY <1>4 DEF run_proposal, mark_executed, MSInv, MSTypeOK
  <1>6. Len(proposals[id].approvals) >= msConfig.threshold /\ now <= proposals[id].expires_at
    BY <1>4, <1>5 DEF run_proposal, require_can_execute
  <1>7. Cardinality(Range(proposals[id].approvals)) = Len(proposals[id].approvals)
    <2>1. proposals[id].approvals \in Seq(Signers) /\ IsInjective(proposals[id].approvals)
      BY <1>1 DEF Proposal, MSInv
    <2> QED
      BY <2>1, InjectiveSeqCardinality
  <1> QED
    BY <1>6, <1>7

\* One step leaves a proposal's payload, its approvals so far and, once it is
\* executed, everything about it.
LEMMA ProposalsKept ==
    ASSUME MSInv, [MSNext]_<<clockVars, msVars>>, NEW id \in DOMAIN proposals
    PROVE  /\ id \in DOMAIN proposals'
           /\ proposals'[id].payload = proposals[id].payload
           /\ IsPrefix(proposals[id].approvals, proposals'[id].approvals)
           /\ proposals[id].status = "Executed" => proposals'[id] = proposals[id]
  <1>1. proposals[id] \in Proposal
    BY DEF MSInv, MSTypeOK
  <1>2. proposals[id].approvals \in Seq(Signers)
    BY <1>1 DEF Proposal
  <1>3. IsPrefix(proposals[id].approvals, proposals[id].approvals)
    BY <1>2 DEF IsPrefix
  <1>4. CASE UNCHANGED proposals
    BY <1>3, <1>4
  <1>5. ASSUME NEW a \in Signers, NEW payload \in Payloads, propose(a, payload)
        PROVE  id \in DOMAIN proposals' /\ proposals'[id] = proposals[id]
    BY <1>5 DEF propose, MSInv, MSTypeOK
  <1>6. ASSUME NEW a \in Signers, NEW k \in DOMAIN proposals, approve(a, k)
        PROVE  /\ id \in DOMAIN proposals'
               /\ \/ proposals'[id] = proposals[id]
                  \/ /\ proposals[id].status # "Executed"
                     /\ proposals'[id].payload = proposals[id].payload
                     /\ proposals'[id].approvals = Append(proposals[id].approvals, a)
    BY <1>1, <1>6 DEF approve, MSInv, MSTypeOK, Proposal
  <1>7. ASSUME NEW k \in DOMAIN proposals, run_proposal(k)
        PROVE  /\ id \in DOMAIN proposals'
               /\ \/ proposals'[id] = proposals[id]
                  \/ /\ proposals[id].status # "Executed"
                     /\ proposals'[id].payload = proposals[id].payload
                     /\ proposals'[id].approvals = proposals[id].approvals
    BY <1>1, <1>7 DEF run_proposal, mark_executed, MSInv, MSTypeOK, Proposal
  <1>8. CASE \E a \in Signers, payload \in Payloads : propose(a, payload)
    BY <1>3, <1>5, <1>8
  <1>9. CASE \E a \in Signers, k \in DOMAIN proposals : approve(a, k)
    BY <1>2, <1>3, <1>6, <1>9, PrefixOfAppend
  <1>10. CASE \E k \in DOMAIN proposals : run_proposal(k)
    BY <1>3, <1>7, <1>10
  <1> QED
    BY <1>4, <1>8, <1>9, <1>10 DEF MSNext, msVars, set_multisig_config, clear_multisig_config

\* multisig.rs: whatever the configurations in between, a proposal only gathers
\* approvals, runs at most once, and only with a quorum of different signers of the
\* configuration in force and before it expires.
THEOREM ProposalsByQuorumAlways == MSSpec => ProposalsByQuorum
  <1>1. ClockInit /\ MSInit => MSInv
    BY MSInitInv
  <1>2. MSInv /\ [MSNext]_<<clockVars, msVars>> => MSInv'
    BY MSStepInv
  <1>3. MSSpec => []MSInv
    BY <1>1, <1>2, PTL DEF MSSpec
  <1>4. MSInv => MSTypeOK /\ RunsAtMostOnce
    <2>1. ASSUME MSInv, NEW id \in DOMAIN proposals
          PROVE  executions[id] <= 1
      BY <2>1 DEF MSInv
    <2> QED
      BY <2>1 DEF MSInv, RunsAtMostOnce
  <1>5. MSInv /\ [MSNext]_<<clockVars, msVars>> =>
            [\A id \in DOMAIN executions :
                executions'[id] # executions[id] =>
                    /\ Cardinality(Range(proposals[id].approvals)) >= msConfig.threshold
                    /\ now <= proposals[id].expires_at]_<<clockVars, msVars>>
    BY RunsNeedQuorum
  <1>6. MSInv /\ [MSNext]_<<clockVars, msVars>> =>
            [\A id \in DOMAIN proposals :
                /\ id \in DOMAIN proposals'
                /\ proposals'[id].payload = proposals[id].payload
                /\ IsPrefix(proposals[id].approvals, proposals'[id].approvals)
                /\ proposals[id].status = "Executed" =>
                       proposals'[id] = proposals[id]]_<<clockVars, msVars>>
    BY ProposalsKept
  <1> QED
    BY <1>3, <1>4, <1>5, <1>6, PTL
       DEF MSSpec, ProposalsByQuorum, ExecutedByQuorum, ProposalsOnlyAccumulate

----------------------------------------------------------------------------
\* The entries of a log inside the stretch of a window that starts at `from`.
Inside(s, from) == {i \in DOMAIN s : s[i] >= from /\ s[i] < from + RL_WINDOW}

\* The entries inside a stretch are finitely many.
LEMMA InsideFinite ==
    ASSUME NEW s \in Seq(Nat), NEW from \in Int
    PROVE  IsFiniteSet(Inside(s, from)) /\ Cardinality(Inside(s, from)) \in Nat
  <1>1. IsFiniteSet(1..Len(s))
    <2>1. Len(s) \in Nat
      OBVIOUS
    <2> QED
      BY <2>1, FS_Interval
  <1>2. Inside(s, from) \in SUBSET (1..Len(s))
    BY DEF Inside
  <1> QED
    BY <1>1, <1>2, FS_Subset, FS_CardinalityType

\* What a new entry changes inside a stretch.
LEMMA InsideAppend ==
    ASSUME NEW s \in Seq(Nat), NEW t \in Nat, NEW from \in Int
    PROVE  /\ Inside(Append(s, t), from) =
                  IF t >= from /\ t < from + RL_WINDOW
                  THEN Inside(s, from) \cup {Len(s) + 1} ELSE Inside(s, from)
           /\ Cardinality(Inside(Append(s, t), from)) =
                  IF t >= from /\ t < from + RL_WINDOW
                  THEN Cardinality(Inside(s, from)) + 1 ELSE Cardinality(Inside(s, from))
  <1> USE RateConstants
  <1>1. Inside(Append(s, t), from) =
            IF t >= from /\ t < from + RL_WINDOW
            THEN Inside(s, from) \cup {Len(s) + 1} ELSE Inside(s, from)
    <2>1. /\ DOMAIN Append(s, t) = DOMAIN s \cup {Len(s) + 1}
          /\ \A i \in DOMAIN s : Append(s, t)[i] = s[i] /\ i # Len(s) + 1
          /\ Append(s, t)[Len(s) + 1] = t
      OBVIOUS
    <2> QED
      BY <2>1 DEF Inside
  <1>2. Len(s) + 1 \notin Inside(s, from)
    BY DEF Inside
  <1> QED
    BY <1>1, <1>2, InsideFinite, FS_AddElement

\* A stretch whose entries lie in two others holds at most as many as both.
LEMMA InsideSplit ==
    ASSUME NEW s \in Seq(Nat), NEW f \in Int, NEW g \in Int, NEW h \in Int,
           Inside(s, f) \subseteq Inside(s, g) \cup Inside(s, h)
    PROVE  Cardinality(Inside(s, f)) <= Cardinality(Inside(s, g)) + Cardinality(Inside(s, h))
  <1> DEFINE A == Inside(s, g)
             B == Inside(s, h)
  <1>1. IsFiniteSet(A) /\ IsFiniteSet(B) /\ Cardinality(A) \in Nat /\ Cardinality(B) \in Nat
    BY InsideFinite
  <1>2. /\ IsFiniteSet(A \cup B)
        /\ Cardinality(A \cup B) = Cardinality(A) + Cardinality(B) - Cardinality(A \cap B)
    BY <1>1, FS_Union
  <1>3. Cardinality(A \cap B) \in Nat
    <2>1. A \cap B \in SUBSET A
      OBVIOUS
    <2> QED
      BY <1>1, <2>1, FS_Subset, FS_CardinalityType
  <1>4. Cardinality(Inside(s, f)) <= Cardinality(A \cup B)
    BY <1>2, FS_Subset
  <1>5. Cardinality(Inside(s, f)) \in Nat
    BY InsideFinite
  <1> QED
    BY <1>1, <1>2, <1>3, <1>4, <1>5

\* A stretch that starts at most a window before ws, in a log that ends within the
\* window from ws, holds at most the actions of the two.
LEMMA StretchCovered ==
    ASSUME NEW s \in Seq(Nat), NEW ws \in Nat, NEW max \in Nat, NEW from \in Int,
           \A i \in DOMAIN s : s[i] < ws + RL_WINDOW,
           Cardinality(Inside(s, ws)) <= max,
           Cardinality(Inside(s, ws - RL_WINDOW)) <= max,
           ws - RL_WINDOW <= from
    PROVE  Cardinality(Inside(s, from)) <= 2 * max
  <1>1. /\ RL_WINDOW \in Nat /\ ws \in Int /\ ws - RL_WINDOW \in Int
        /\ \A i \in DOMAIN s : s[i] \in Nat
    BY RateConstants
  <1>2. Inside(s, from) \subseteq Inside(s, ws - RL_WINDOW) \cup Inside(s, ws)
    BY <1>1 DEF Inside
  <1>3. Cardinality(Inside(s, from))
            <= Cardinality(Inside(s, ws - RL_WINDOW)) + Cardinality(Inside(s, ws))
    BY <1>1, <1>2, InsideSplit
  <1>4. /\ Cardinality(Inside(s, from)) \in Nat /\ Cardinality(Inside(s, ws)) \in Nat
        /\ Cardinality(Inside(s, ws - RL_WINDOW)) \in Nat
    <2>1. ASSUME NEW g \in Int
          PROVE  Cardinality(Inside(s, g)) \in Nat
      BY <2>1, InsideFinite
    <2> QED
      BY <1>1, <2>1
  <1> QED
    BY <1>3, <1>4

\* The inductive invariant of the limiter for one subject with window w, log s and tier
\* max at time t.  A stretch overlaps at most two windows, the one in storage and the
\* one before it, which storage has forgotten: so the invariant keeps what that one left
\* behind, the actions of the stretch that ends where the stored window starts.
SubjectOK(w, s, t, max) ==
    LET inside(from) == Cardinality(Inside(s, from))
    IN  /\ \A i \in DOMAIN s : s[i] <= t
        /\ w.window_start = NoTime => w = NoWindow /\ s = <<>>
        /\ w.window_start # NoTime =>
              /\ w.window_start <= t
              /\ \A i \in DOMAIN s : s[i] < w.window_start + RL_WINDOW
              /\ w.count = inside(w.window_start)
              /\ w.count <= max
              /\ inside(w.window_start - RL_WINDOW) <= max
        /\ \A from \in Int : inside(from) <= 2 * max

LimiterInv ==
    /\ RateTypeOK
    /\ \A u \in Subjects : SubjectOK(window[u], log[u], now, TierMax(u))

\* A tier's limit is a number, and no check of a subject allows more.
LEMMA TierBounds ==
    ASSUME NEW u \in Subjects, NEW first \in Nat, NEW t \in Nat
    PROVE  /\ TierMax(u) \in Nat
           /\ effective_max(first, t, Trust[u]) \in Nat
           /\ effective_max(first, t, Trust[u]) <= TierMax(u)
  BY RateConstants, LimiterConstants DEF TierMax, effective_max

\* Nobody has acted at first.
LEMMA NewSubject ==
    ASSUME NEW t \in Nat, NEW max \in Nat
    PROVE  SubjectOK(NoWindow, <<>>, t, max)
  <1>1. ASSUME NEW from \in Int
        PROVE  Cardinality(Inside(<<>>, from)) = 0
    <2>1. Inside(<<>>, from) = {}
      BY DEF Inside
    <2> QED
      BY <2>1, FS_EmptySet
  <1> QED
    BY <1>1 DEF SubjectOK, NoWindow

\* Time passing changes nothing.
LEMMA SubjectLater ==
    ASSUME NEW w \in RateWindow, NEW s \in Seq(Nat), NEW t \in Nat, NEW max \in Nat,
           SubjectOK(w, s, t, max), NEW later \in Nat, t <= later
    PROVE  SubjectOK(w, s, later, max)
  <1>1. \A i \in DOMAIN s : s[i] \in Nat
    OBVIOUS
  <1>2. w.window_start \in Nat \cup {NoTime}
    BY DEF RateWindow
  <1> QED
    BY <1>1, <1>2 DEF SubjectOK, NoTime

\* An action inside the stored window.
LEMMA RecordInWindow ==
    ASSUME NEW w \in RateWindow, NEW s \in Seq(Nat), NEW t \in Nat, NEW max \in Nat,
           SubjectOK(w, s, t, max), WindowOpen(w, t), w.count < max
    PROVE  SubjectOK([w EXCEPT !.count = @ + 1], Append(s, t), t, max)
  <1> DEFINE ws == w.window_start
             n(from) == Cardinality(Inside(s, from))
             n2(from) == Cardinality(Inside(Append(s, t), from))
             w2 == [w EXCEPT !.count = @ + 1]
  <1> USE RateConstants
  <1>1. ws \in Nat /\ ws <= t /\ t < ws + RL_WINDOW /\ w.count \in Nat /\ ws # NoTime
    BY DEF RateWindow, WindowOpen, SatSub, SubjectOK, NoTime
  <1>2. w2.window_start = ws /\ w2.count = w.count + 1
    BY DEF RateWindow
  <1>3. \A i \in DOMAIN s : s[i] \in Nat /\ s[i] <= t /\ s[i] < ws + RL_WINDOW
    BY <1>1 DEF SubjectOK
  <1>4. \A i \in DOMAIN Append(s, t) :
            Append(s, t)[i] <= t /\ Append(s, t)[i] < ws + RL_WINDOW
    <2>1. /\ DOMAIN Append(s, t) = DOMAIN s \cup {Len(s) + 1}
          /\ \A i \in DOMAIN s : Append(s, t)[i] = s[i]
          /\ Append(s, t)[Len(s) + 1] = t
      OBVIOUS
    <2> QED
      BY <1>1, <1>3, <2>1
  <1>5. n(ws) = w.count /\ n(ws - RL_WINDOW) <= max /\ \A from \in Int : n(from) <= 2 * max
    BY <1>1 DEF SubjectOK
  <1>6. n2(ws) = w.count + 1 /\ n2(ws) <= max
    BY <1>1, <1>5, InsideAppend
  <1>7. n2(ws - RL_WINDOW) <= max
    <2>1. ws - RL_WINDOW \in Int /\ ~ t < (ws - RL_WINDOW) + RL_WINDOW
      BY <1>1
    <2> QED
      BY <1>5, <2>1, InsideAppend
  <1>8. ASSUME NEW from \in Int
        PROVE  n2(from) <= 2 * max
    <2>1. CASE ~ (t >= from /\ t < from + RL_WINDOW)
      BY <1>5, <2>1, InsideAppend
    <2>2. CASE t >= from /\ t < from + RL_WINDOW
      <3>1. Append(s, t) \in Seq(Nat) /\ ws - RL_WINDOW <= from
        BY <1>1, <2>2
      <3>2. \A i \in DOMAIN Append(s, t) : Append(s, t)[i] < ws + RL_WINDOW
        BY <1>4
      <3> HIDE DEF ws
      <3> QED
        BY <1>1, <1>6, <1>7, <3>1, <3>2, StretchCovered
    <2> QED
      BY <2>1, <2>2
  <1> QED
    BY <1>1, <1>2, <1>4, <1>6, <1>7, <1>8 DEF SubjectOK

\* An action that opens a new window.
LEMMA RecordNewWindow ==
    ASSUME NEW w \in RateWindow, NEW s \in Seq(Nat), NEW t \in Nat, NEW max \in Nat,
           SubjectOK(w, s, t, max), ~ WindowOpen(w, t), 0 < max
    PROVE  SubjectOK([window_start |-> t, count |-> 1], Append(s, t), t, max)
  <1> DEFINE ws == w.window_start
             n(from) == Cardinality(Inside(s, from))
             n2(from) == Cardinality(Inside(Append(s, t), from))
  <1> USE RateConstants
  <1>1. ws = NoTime \/ (ws \in Nat /\ ws # NoTime /\ ws + RL_WINDOW <= t)
    BY DEF RateWindow, WindowOpen, SatSub, SubjectOK, NoTime
  <1>2. \A i \in DOMAIN s : s[i] \in Nat /\ s[i] < t
    <2>1. \A i \in DOMAIN s : s[i] \in Nat
      OBVIOUS
    <2>2. CASE ws = NoTime
      BY <2>2 DEF SubjectOK
    <2>3. CASE ws \in Nat /\ ws # NoTime /\ ws + RL_WINDOW <= t
      BY <2>1, <2>3 DEF SubjectOK
    <2> QED
      BY <1>1, <2>2, <2>3
  <1>3. \A i \in DOMAIN Append(s, t) :
            Append(s, t)[i] <= t /\ Append(s, t)[i] < t + RL_WINDOW
    <2>1. /\ DOMAIN Append(s, t) = DOMAIN s \cup {Len(s) + 1}
          /\ \A i \in DOMAIN s : Append(s, t)[i] = s[i]
          /\ Append(s, t)[Len(s) + 1] = t
      OBVIOUS
    <2> QED
      BY <1>2, <2>1
  <1>4. n(t) = 0
    <2>1. Inside(s, t) = {}
      BY <1>2 DEF Inside
    <2> QED
      BY <2>1, FS_EmptySet
  <1>5. n2(t) = 1
    BY <1>4, InsideAppend
  <1>6. n2(t - RL_WINDOW) = n(t - RL_WINDOW) /\ n(t - RL_WINDOW) <= max
    <2>1. t - RL_WINDOW \in Int /\ ~ t < (t - RL_WINDOW) + RL_WINDOW
      OBVIOUS
    <2>2. CASE ws = NoTime
      <3>1. Inside(s, t - RL_WINDOW) = {}
        BY <2>2 DEF SubjectOK, Inside
      <3>2. n(t - RL_WINDOW) = 0
        BY <3>1, FS_EmptySet
      <3> QED
        BY <2>1, <3>2, InsideAppend
    <2>3. CASE ws \in Nat /\ ws # NoTime /\ ws + RL_WINDOW <= t
      <3>1. n(ws) <= max
        BY <2>3 DEF SubjectOK
      <3>2. Inside(s, t - RL_WINDOW) \in SUBSET Inside(s, ws)
        BY <1>2, <2>3 DEF Inside, SubjectOK
      <3>3. IsFiniteSet(Inside(s, ws)) /\ n(ws) \in Nat /\ n(t - RL_WINDOW) \in Nat
        <4>1. ws \in Int
          BY <2>3
        <4> HIDE DEF ws
        <4> QED
          BY <2>1, <4>1, InsideFinite
      <3>4. n(t - RL_WINDOW) <= n(ws)
        BY <3>2, <3>3, FS_Subset
      <3> QED
        BY <2>1, <3>1, <3>3, <3>4, InsideAppend
    <2> QED
      BY <1>1, <2>2, <2>3
  <1>7. ASSUME NEW from \in Int
        PROVE  n2(from) <= 2 * max
    <2>1. CASE ~ (t >= from /\ t < from + RL_WINDOW)
      <3>1. n(from) <= 2 * max
        BY DEF SubjectOK
      <3> QED
        BY <2>1, <3>1, InsideAppend
    <2>2. CASE t >= from /\ t < from + RL_WINDOW
      <3>1. Append(s, t) \in Seq(Nat) /\ t - RL_WINDOW <= from
        BY <2>2
      <3>2. \A i \in DOMAIN Append(s, t) : Append(s, t)[i] < t + RL_WINDOW
        BY <1>3
      <3>3. n2(t) <= max /\ n2(t - RL_WINDOW) <= max
        BY <1>5, <1>6
      <3> QED
        BY <3>1, <3>2, <3>3, StretchCovered
    <2> QED
      BY <2>1, <2>2
  <1> QED
    BY <1>3, <1>5, <1>6, <1>7 DEF SubjectOK, NoTime

\* One action of a subject, allowed by the check of its tier.
LEMMA RecordActionInv ==
    ASSUME LimiterInv, NEW u \in Subjects, record_action(u)
    PROVE  LimiterInv'
  <1>1. /\ now \in Nat /\ now' = now /\ window[u] \in RateWindow /\ log[u] \in Seq(Nat)
        /\ first_action[u] \in Nat /\ ClockTypeOK'
    BY DEF LimiterInv, RateTypeOK, ClockTypeOK, record_action
  <1>2. TierMax(u) \in Nat
    BY <1>1, TierBounds
  <1>3. current_count(window[u], now) < TierMax(u)
    <2>1. current_count(window[u], now) \in Nat
      BY <1>1 DEF current_count, RateWindow
    <2>2. current_count(window[u], now) < effective_max(first_action[u], now, Trust[u])
      BY DEF record_action, check_rate_limit
    <2>3. /\ effective_max(first_action[u], now, Trust[u]) \in Nat
          /\ effective_max(first_action[u], now, Trust[u]) <= TierMax(u)
      BY <1>1, TierBounds
    <2> QED
      BY <1>2, <2>1, <2>2, <2>3
  <1>4. record(window[u], now) \in RateWindow
    BY <1>1 DEF record, RateWindow
  <1>5. RateTypeOK'
    BY <1>1, <1>4 DEF LimiterInv, RateTypeOK, record_action
  <1>6. SubjectOK(window[u], log[u], now, TierMax(u))
    BY DEF LimiterInv
  <1>7. SubjectOK(record(window[u], now), Append(log[u], now), now, TierMax(u))
    <2>1. CASE WindowOpen(window[u], now)
      BY <1>1, <1>2, <1>3, <1>6, <2>1, RecordInWindow DEF record, current_count
    <2>2. CASE ~ WindowOpen(window[u], now)
      BY <1>1, <1>2, <1>3, <1>6, <2>2, RecordNewWindow DEF record, current_count
    <2> QED
      BY <2>1, <2>2
  <1>8. ASSUME NEW v \in Subjects
        PROVE  SubjectOK(window'[v], log'[v], now', TierMax(v))
    <2>1. CASE v = u
      BY <1>1, <1>7, <2>1 DEF record_action, LimiterInv, RateTypeOK
    <2>2. CASE v # u
      BY <1>1, <2>2 DEF record_action, LimiterInv, RateTypeOK
    <2> QED
      BY <2>1, <2>2
  <1> QED
    BY <1>5, <1>8 DEF LimiterInv, TierMax

\* Every step of the limiter keeps the invariant.
LEMMA LimiterStepInv ==
    ASSUME LimiterInv, [RateNext]_rateVars
    PROVE  LimiterInv'
  <1>1. CASE CloseLedger /\ UNCHANGED <<window, first_action, log>>
    <2>1. now \in Nat /\ now' \in Nat /\ now <= now' /\ ClockTypeOK'
      BY <1>1, ClockConstants DEF CloseLedger, LimiterInv, RateTypeOK, ClockTypeOK
    <2>2. ASSUME NEW u \in Subjects
          PROVE  SubjectOK(window'[u], log'[u], now', TierMax(u))
      <3>1. /\ window[u] \in RateWindow /\ log[u] \in Seq(Nat)
            /\ SubjectOK(window[u], log[u], now, TierMax(u))
        BY DEF LimiterInv, RateTypeOK
      <3>2. TierMax(u) \in Nat
        BY <2>1, TierBounds
      <3> QED
        BY <1>1, <2>1, <3>1, <3>2, SubjectLater
    <2> QED
      BY <1>1, <2>1, <2>2 DEF LimiterInv, RateTypeOK, TierMax
  <1>2. CASE \E u \in Subjects : record_action(u)
    BY <1>2, RecordActionInv
  <1>3. CASE UNCHANGED rateVars
    BY <1>3 DEF rateVars, LimiterInv, RateTypeOK, ClockTypeOK, TierMax
  <1> QED
    BY <1>1, <1>2, <1>3 DEF RateNext

\* At first nobody has acted.
LEMMA LimiterInitInv ==
    ASSUME RateInit
    PROVE  LimiterInv
  <1>1. RateTypeOK
    BY DEF RateInit, RateTypeOK, ClockInit, ClockTypeOK, NoWindow, RateWindow
  <1>2. ASSUME NEW u \in Subjects
        PROVE  SubjectOK(window[u], log[u], now, TierMax(u))
    <2>1. now \in Nat
      BY DEF RateInit, ClockInit
    <2>2. TierMax(u) \in Nat
      BY <2>1, TierBounds
    <2> QED
      BY <2>1, <2>2, NewSubject DEF RateInit
  <1> QED
    BY <1>1, <1>2 DEF LimiterInv

\* rate_limiter.rs: the count in storage is the number of actions since the window
\* opened and stays within the subject's tier, and over any stretch as long as a window
\* a subject acts at most twice as often as its tier allows.
THEOREM LimitsHoldAlways == RateSpec => []LimitsHold
  <1>1. RateInit => LimiterInv
    BY LimiterInitInv
  <1>2. LimiterInv /\ [RateNext]_rateVars => LimiterInv'
    BY LimiterStepInv
  <1>3. LimiterInv => LimitsHold
    <2> SUFFICES ASSUME LimiterInv
                 PROVE  LimitsHold
      OBVIOUS
    <2>1. ASSUME NEW u \in Subjects, NEW from \in Int
          PROVE  ActionsSince(u, from) = Cardinality(Inside(log[u], from))
      BY DEF ActionsSince, Inside
    <2>2. ASSUME NEW u \in Subjects, window[u] # NoWindow
          PROVE  /\ window[u].count = ActionsSince(u, window[u].window_start)
                 /\ window[u].count <= TierMax(u)
      <3>1. window[u].window_start \in Int /\ window[u].window_start # NoTime
        BY <2>2 DEF LimiterInv, SubjectOK, RateTypeOK, RateWindow, NoTime
      <3> QED
        BY <2>1, <3>1 DEF LimiterInv, SubjectOK
    <2>3. ASSUME NEW u \in Subjects, NEW from \in 1..now
          PROVE  ActionsSince(u, from) <= 2 * TierMax(u)
      <3>1. from \in Int
        BY DEF LimiterInv, RateTypeOK, ClockTypeOK
      <3> QED
        BY <2>1, <3>1 DEF LimiterInv, SubjectOK
    <2> QED
      BY <2>2, <2>3 DEF LimitsHold, WindowCountsActions, TwiceInAnyStretch
  <1> QED
    BY <1>1, <1>2, <1>3, PTL DEF RateSpec

----------------------------------------------------------------------------
\* The upgrade.  The invariant of the migration: nobody waits for recovery, who is
\* migrated had a V1 position and is listed once, and its V2 position is what V1
\* held and what came since; what came before is lost to the move.
MigRecord ==
    [v1 : OldStakes, v2 : [OldStakers -> [balance : Nat, locked_until : Nat]],
     migrated : Seq(OldStakers), complete : BOOLEAN, batch_number : Nat,
     pending_recovery : {<<>>}, total_v1_providers : Nat,
     added : [OldStakers -> Nat], before : [OldStakers -> Nat], deposits : Nat]

IsMoved(m, p) == p \in Range(m.migrated)

LockAfter(since) == IF since > 0 THEN DepositLock ELSE 0

\* What a provider's V2 position holds, before and after its move.
PositionOK(m, p) ==
    /\ m.before[p] <= m.added[p]
    /\ ~IsMoved(m, p) => /\ m.v2[p].balance = m.added[p]
                         /\ m.v2[p].locked_until = LockAfter(m.added[p])
    /\ IsMoved(m, p) => /\ m.v2[p].balance = m.added[p] - m.before[p] + m.v1[p]
                        /\ m.v2[p].locked_until = LockAfter(m.added[p] - m.before[p])

MovedOnce(m) ==
    /\ IsInjective(m.migrated)
    /\ \A i \in DOMAIN m.migrated : m.migrated[i] \in DOMAIN m.v1
    /\ \A p \in OldStakers : PositionOK(m, p)

AllMoved(m) == m.complete => Range(m.migrated) = DOMAIN m.v1

MigOK(m) == m \in MigRecord /\ MovedOnce(m) /\ AllMoved(m)

\* The V1 map of a vault holds natural balances of finitely many providers.
LEMMA OldMapType ==
    ASSUME NEW old \in OldStakes
    PROVE  /\ DOMAIN old \subseteq OldStakers /\ IsFiniteSet(DOMAIN old)
           /\ \A p \in DOMAIN old : old[p] \in Nat
  <1>1. DOMAIN old \subseteq OldStakers /\ IsFiniteSet(OldStakers)
        /\ \A p \in DOMAIN old : old[p] \in Nat
    BY UpgradeConstants
  <1> QED
    BY <1>1, FS_Subset

\* A deposit adds to a position what it adds to the history.
LEMMA DepositKeeps ==
    ASSUME NEW m, MigOK(m), NEW p \in OldStakers, NEW amount \in TopUps
    PROVE  MigOK([m EXCEPT !.v2[p] = [balance |-> @.balance + amount, locked_until |-> DepositLock],
                           !.added[p] = @ + amount, !.deposits = @ + 1])
  <1> DEFINE r == [m EXCEPT !.v2[p] = [balance |-> @.balance + amount, locked_until |-> DepositLock],
                            !.added[p] = @ + amount, !.deposits = @ + 1]
  <1>1. amount \in Nat /\ amount > 0 /\ DepositLock \in Nat
    BY UpgradeConstants
  <1>2. m \in MigRecord
    BY DEF MigOK
  <1>3. /\ r.v1 = m.v1 /\ r.migrated = m.migrated /\ r.complete = m.complete
        /\ r.before = m.before
        /\ r.v2 = [m.v2 EXCEPT ![p] = [balance |-> @.balance + amount, locked_until |-> DepositLock]]
        /\ r.added = [m.added EXCEPT ![p] = @ + amount]
    BY <1>2 DEF MigRecord
  <1>4. r \in MigRecord
    <2> DEFINE V2 == [m.v2 EXCEPT ![p] = [balance |-> @.balance + amount, locked_until |-> DepositLock]]
               Added == [m.added EXCEPT ![p] = @ + amount]
    <2>1. V2 \in [OldStakers -> [balance : Nat, locked_until : Nat]]
      <3>1. m.v2 \in [OldStakers -> [balance : Nat, locked_until : Nat]] /\ m.v2[p].balance \in Nat
        BY <1>2 DEF MigRecord
      <3> QED
        BY <1>1, <3>1
    <2>2. Added \in [OldStakers -> Nat] /\ m.deposits + 1 \in Nat
      BY <1>1, <1>2 DEF MigRecord
    <2>3. r = [m EXCEPT !.v2 = V2, !.added = Added, !.deposits = @ + 1]
      BY <1>2 DEF MigRecord
    <2> HIDE DEF V2, Added, r
    <2> QED
      BY <1>2, <2>1, <2>2, <2>3 DEF MigRecord
  <1>5. MovedOnce(r)
    <2>1. IsInjective(r.migrated)
      BY <1>3 DEF MigOK, MovedOnce
    <2>2. \A i \in DOMAIN r.migrated : r.migrated[i] \in DOMAIN r.v1
      BY <1>3 DEF MigOK, MovedOnce
    <2>3. ASSUME NEW q \in OldStakers
          PROVE  PositionOK(r, q)
      <3>1. PositionOK(m, q) /\ (IsMoved(r, q) <=> IsMoved(m, q))
        BY <1>3 DEF MigOK, MovedOnce, IsMoved
      <3>2. /\ m.added[q] \in Nat /\ m.before[q] \in Nat
            /\ m.v2[q].balance \in Nat
            /\ m.v2 \in [OldStakers -> [balance : Nat, locked_until : Nat]]
            /\ m.added \in [OldStakers -> Nat]
        BY <1>2 DEF MigRecord
      <3>3. IsMoved(m, q) => m.v1[q] \in Nat
        <4>1. IsMoved(m, q) => q \in DOMAIN m.v1
          BY DEF IsMoved, Range, MigOK, MovedOnce
        <4> QED
          BY <1>2, <4>1, OldMapType DEF MigRecord
      <3> HIDE DEF r
      <3>4. CASE q = p
        <4>1. r.v2[q].balance = m.v2[q].balance + amount /\ r.v2[q].locked_until = DepositLock
              /\ r.added[q] = m.added[q] + amount /\ r.before[q] = m.before[q]
          BY <1>3, <3>2, <3>4
        <4> QED
          BY <1>1, <1>3, <3>1, <3>2, <3>3, <4>1 DEF PositionOK, LockAfter
      <3>5. CASE q # p
        <4>1. r.v2[q] = m.v2[q] /\ r.added[q] = m.added[q] /\ r.before[q] = m.before[q]
          BY <1>3, <3>2, <3>5
        <4> QED
          BY <1>3, <3>1, <4>1 DEF PositionOK
      <3> QED
        BY <3>4, <3>5
    <2> QED
      BY <2>1, <2>2, <2>3 DEF MovedOnce
  <1>6. AllMoved(r)
    BY <1>3 DEF MigOK, AllMoved
  <1> QED
    BY <1>4, <1>5, <1>6 DEF MigOK

\* A list followed by another without repetitions and with other members has no
\* repetitions either.
LEMMA ConcatInjective ==
    ASSUME NEW S, NEW s \in Seq(S), NEW t \in Seq(S), IsInjective(s), IsInjective(t),
           \A i \in DOMAIN s, j \in DOMAIN t : s[i] # t[j]
    PROVE  IsInjective(s \o t)
  <1>1. /\ s \o t \in Seq(S) /\ Len(s \o t) = Len(s) + Len(t) /\ Len(s) \in Nat /\ Len(t) \in Nat
        /\ \A i \in 1 .. Len(s) + Len(t) : (s \o t)[i] = IF i <= Len(s) THEN s[i] ELSE t[i - Len(s)]
        /\ DOMAIN s = 1..Len(s) /\ DOMAIN t = 1..Len(t) /\ DOMAIN (s \o t) = 1..Len(s) + Len(t)
    BY ConcatProperties, LenProperties
  <1>2. ASSUME NEW i \in DOMAIN (s \o t), NEW j \in DOMAIN (s \o t), (s \o t)[i] = (s \o t)[j]
        PROVE  i = j
    <2>1. CASE i <= Len(s) /\ j <= Len(s)
      BY <1>1, <1>2, <2>1 DEF IsInjective
    <2>2. CASE i > Len(s) /\ j > Len(s)
      <3>1. i - Len(s) \in DOMAIN t /\ j - Len(s) \in DOMAIN t
            /\ t[i - Len(s)] = t[j - Len(s)]
        BY <1>1, <1>2, <2>2
      <3>2. i - Len(s) = j - Len(s)
        BY <3>1 DEF IsInjective
      <3> QED
        BY <1>1, <3>2
    <2>3. CASE i <= Len(s) /\ j > Len(s)
      <3>1. i \in DOMAIN s /\ j - Len(s) \in DOMAIN t /\ s[i] = t[j - Len(s)]
        BY <1>1, <1>2, <2>3
      <3> QED
        BY <3>1
    <2>4. CASE i > Len(s) /\ j <= Len(s)
      <3>1. j \in DOMAIN s /\ i - Len(s) \in DOMAIN t /\ s[j] = t[i - Len(s)]
        BY <1>1, <1>2, <2>4
      <3> QED
        BY <3>1
    <2> QED
      BY <1>1, <2>1, <2>2, <2>3, <2>4
  <1> QED
    BY <1>2 DEF IsInjective

\* The batch of a call: a list without repetitions of providers not moved before.
LEMMA BatchFresh ==
    ASSUME NEW m, MigOK(m), NEW n \in Nat, NEW batch \in [1..n -> to_migrate(m)],
           in_key_order(batch, to_migrate(m))
    PROVE  /\ batch \in Seq(OldStakers) /\ Len(batch) = n /\ IsInjective(batch)
           /\ \A i \in DOMAIN batch :
                 batch[i] \in DOMAIN m.v1 /\ \A j \in DOMAIN m.migrated : m.migrated[j] # batch[i]
  <1>1. m \in MigRecord /\ m.v1 \in OldStakes /\ DOMAIN m.v1 \subseteq OldStakers
    BY OldMapType DEF MigOK, MigRecord
  <1>2. batch \in Seq(OldStakers) /\ Len(batch) = n
    <2>1. batch \in [1..n -> OldStakers]
      BY <1>1 DEF to_migrate
    <2> QED
      BY <2>1, SeqDef
  <1>3. ASSUME NEW i \in DOMAIN batch
        PROVE  batch[i] \in DOMAIN m.v1 /\ \A j \in DOMAIN m.migrated : m.migrated[j] # batch[i]
    <2>1. batch[i] \in to_migrate(m)
      OBVIOUS
    <2>2. m.migrated \in Seq(OldStakers) /\ DOMAIN m.migrated = 1..Len(m.migrated)
      BY <1>1, LenProperties DEF MigRecord
    <2> QED
      BY <2>1, <2>2 DEF to_migrate, is_in_vec, Contains
  <1>4. IsInjective(batch)
    <2>1. ASSUME NEW i \in DOMAIN batch, NEW j \in DOMAIN batch, batch[i] = batch[j]
          PROVE  i = j
      <3>1. AddressRank[batch[i]] \in Nat /\ i \in Nat /\ j \in Nat
        BY <1>1, <1>3, UpgradeConstants
      <3>2. ~ (i < j) /\ ~ (j < i)
        BY <2>1, <3>1 DEF in_key_order
      <3> QED
        BY <3>1, <3>2
    <2> QED
      BY <2>1 DEF IsInjective
  <1> QED
    BY <1>2, <1>3, <1>4

\* A batch writes each of its providers once, and the count it ends with says
\* whether anybody is left.
LEMMA BatchKeeps ==
    ASSUME NEW m, MigOK(m), NEW n \in Nat, NEW batch \in [1..n -> to_migrate(m)],
           in_key_order(batch, to_migrate(m))
    PROVE  MigOK(accounted(moved([m EXCEPT !.total_v1_providers = Cardinality(DOMAIN m.v1),
                                           !.batch_number = @ + 1], batch, m.v1)))
  <1> DEFINE c == [m EXCEPT !.total_v1_providers = Cardinality(DOMAIN m.v1), !.batch_number = @ + 1]
             V2 == [p \in OldStakers |-> IF Contains(batch, p)
                                         THEN [balance |-> m.v1[p], locked_until |-> 0]
                                         ELSE m.v2[p]]
             Before == [p \in OldStakers |-> IF Contains(batch, p) THEN m.added[p] ELSE m.before[p]]
             M == m.migrated \o batch
             Complete == Len(M) + Len(m.pending_recovery) >= Cardinality(DOMAIN m.v1)
                         /\ m.pending_recovery = <<>>
             r == accounted(moved(c, batch, m.v1))
  <1>1. /\ m \in MigRecord /\ m.v1 \in OldStakes /\ DOMAIN m.v1 \subseteq OldStakers
        /\ IsFiniteSet(DOMAIN m.v1) /\ \A p \in DOMAIN m.v1 : m.v1[p] \in Nat
    BY OldMapType DEF MigOK, MigRecord
  <1>2. Cardinality(DOMAIN m.v1) \in Nat
    BY <1>1, FS_CardinalityType
  <1>3. /\ batch \in Seq(OldStakers) /\ Len(batch) = n /\ IsInjective(batch)
        /\ \A i \in DOMAIN batch :
              batch[i] \in DOMAIN m.v1 /\ \A j \in DOMAIN m.migrated : m.migrated[j] # batch[i]
    BY BatchFresh
  <1>4. c \in MigRecord /\ c.v1 = m.v1 /\ c.v2 = m.v2 /\ c.added = m.added /\ c.before = m.before
        /\ c.migrated = m.migrated /\ c.pending_recovery = m.pending_recovery
        /\ c.total_v1_providers = Cardinality(DOMAIN m.v1)
    <2> DEFINE K == Cardinality(DOMAIN m.v1)
    <2>1. K \in Nat /\ c = [m EXCEPT !.total_v1_providers = K, !.batch_number = @ + 1]
      BY <1>2
    <2>2. m.batch_number + 1 \in Nat
      BY <1>1 DEF MigRecord
    <2> HIDE DEF K, c
    <2>3. c \in MigRecord /\ c.v1 = m.v1 /\ c.v2 = m.v2 /\ c.added = m.added /\ c.before = m.before
          /\ c.migrated = m.migrated /\ c.pending_recovery = m.pending_recovery
          /\ c.total_v1_providers = K
      BY <1>1, <2>1, <2>2 DEF MigRecord
    <2> QED
      BY <2>3 DEF K
  <1>5. /\ M \in Seq(OldStakers) /\ Len(M) = Len(m.migrated) + Len(batch)
        /\ \A i \in 1 .. Len(m.migrated) + Len(batch) :
              M[i] = IF i <= Len(m.migrated) THEN m.migrated[i] ELSE batch[i - Len(m.migrated)]
        /\ DOMAIN M = 1 .. Len(m.migrated) + Len(batch)
        /\ m.migrated \in Seq(OldStakers) /\ Len(m.migrated) \in Nat
        /\ DOMAIN m.migrated = 1..Len(m.migrated) /\ DOMAIN batch = 1..Len(batch)
    <2>1. m.migrated \in Seq(OldStakers)
      BY <1>1 DEF MigRecord
    <2>2. /\ Len(m.migrated) \in Nat /\ DOMAIN m.migrated = 1..Len(m.migrated)
          /\ Len(batch) \in Nat /\ DOMAIN batch = 1..Len(batch)
      BY <1>3, <2>1, LenProperties
    <2>3. /\ M \in Seq(OldStakers) /\ Len(M) = Len(m.migrated) + Len(batch)
          /\ \A i \in 1 .. Len(m.migrated) + Len(batch) :
                M[i] = IF i <= Len(m.migrated) THEN m.migrated[i] ELSE batch[i - Len(m.migrated)]
      BY <1>3, <2>1, ConcatProperties
    <2> HIDE DEF M
    <2>4. DOMAIN M = 1..Len(M)
      BY <2>3, LenProperties
    <2> QED
      BY <2>1, <2>2, <2>3, <2>4
  <1>6. V2 \in [OldStakers -> [balance : Nat, locked_until : Nat]] /\ Before \in [OldStakers -> Nat]
    <2>1. ASSUME NEW p \in OldStakers
          PROVE  V2[p] \in [balance : Nat, locked_until : Nat] /\ Before[p] \in Nat
      <3>1. m.v2[p] \in [balance : Nat, locked_until : Nat] /\ m.added[p] \in Nat /\ m.before[p] \in Nat
        BY <1>1 DEF MigRecord
      <3>2. CASE Contains(batch, p)
        <4>1. p \in DOMAIN m.v1
          BY <1>3, <3>2, <1>5 DEF Contains
        <4> QED
          BY <1>1, <3>1, <3>2, <4>1
      <3> QED
        BY <3>1, <3>2
    <2> QED
      BY <2>1
  <1>7. Complete \in BOOLEAN
    OBVIOUS
  <1>8. r = [c EXCEPT !.v2 = V2, !.before = Before, !.migrated = M, !.complete = Complete]
    BY <1>4 DEF accounted, moved, MigRecord
  <1>9. /\ r \in MigRecord /\ r.v1 = m.v1 /\ r.v2 = V2 /\ r.added = m.added /\ r.before = Before
        /\ r.migrated = M /\ r.complete = Complete
    <2> HIDE DEF V2, Before, M, Complete, c, r
    <2> QED
      BY <1>4, <1>5, <1>6, <1>7, <1>8 DEF MigRecord
  <1>10. ASSUME NEW i \in DOMAIN M
         PROVE  M[i] \in DOMAIN m.v1
    <2>1. CASE i <= Len(m.migrated)
      BY <1>5, <2>1 DEF MigOK, MovedOnce
    <2>2. CASE i > Len(m.migrated)
      BY <1>3, <1>5, <2>2
    <2> QED
      BY <1>5, <2>1, <2>2
  <1>11. ASSUME NEW p \in OldStakers
         PROVE  IsMoved(r, p) <=> IsMoved(m, p) \/ Contains(batch, p)
    <2>1. IsMoved(m, p) => \E i \in DOMAIN M : M[i] = p
      <3>1. ASSUME NEW i \in DOMAIN m.migrated
            PROVE  i \in DOMAIN M /\ M[i] = m.migrated[i]
        BY <1>3, <1>5, <3>1
      <3> QED
        BY <3>1 DEF IsMoved, Range
    <2>2. Contains(batch, p) => \E i \in DOMAIN M : M[i] = p
      <3>1. ASSUME NEW j \in DOMAIN batch
            PROVE  Len(m.migrated) + j \in DOMAIN M /\ M[Len(m.migrated) + j] = batch[j]
        BY <1>3, <1>5, <3>1
      <3> QED
        BY <1>5, <3>1 DEF Contains
    <2>3. ASSUME NEW i \in DOMAIN M
          PROVE  \/ \E j \in DOMAIN m.migrated : m.migrated[j] = M[i]
                 \/ Contains(batch, M[i])
      <3>1. CASE i <= Len(m.migrated)
        BY <1>5, <3>1
      <3>2. CASE i > Len(m.migrated)
        <4>1. i - Len(m.migrated) \in DOMAIN batch /\ M[i] = batch[i - Len(m.migrated)]
          BY <1>3, <1>5, <3>2
        <4> QED
          BY <1>5, <4>1 DEF Contains
      <3> QED
        BY <1>5, <3>1, <3>2
    <2> HIDE DEF M, r
    <2> QED
      BY <1>9, <2>1, <2>2, <2>3 DEF IsMoved, Range
  <1>12. ASSUME NEW p \in OldStakers
         PROVE  PositionOK(r, p)
    <2>1. PositionOK(m, p)
      BY DEF MigOK, MovedOnce
    <2>2. /\ m.added[p] \in Nat /\ m.before[p] \in Nat
      BY <1>1 DEF MigRecord
    <2>3. CASE Contains(batch, p)
      <3>1. p \in DOMAIN m.v1 /\ IsMoved(r, p)
        BY <1>3, <1>5, <1>11, <2>3 DEF Contains
      <3>2. V2[p] = [balance |-> m.v1[p], locked_until |-> 0] /\ Before[p] = m.added[p]
        BY <2>3
      <3> HIDE DEF V2, Before, M, r
      <3> QED
        BY <1>1, <1>9, <2>2, <3>1, <3>2 DEF PositionOK, LockAfter
    <2>4. CASE ~ Contains(batch, p)
      <3>1. V2[p] = m.v2[p] /\ Before[p] = m.before[p] /\ (IsMoved(r, p) <=> IsMoved(m, p))
        BY <1>11, <2>4
      <3> HIDE DEF V2, Before, M, r
      <3> QED
        BY <1>9, <2>1, <3>1 DEF PositionOK
    <2> QED
      BY <2>3, <2>4
  <1>13. IsInjective(M)
    <2>1. IsInjective(m.migrated)
      BY DEF MigOK, MovedOnce
    <2> QED
      BY <1>3, <1>5, <2>1, ConcatInjective
  <1>14. MovedOnce(r)
    <2> HIDE DEF V2, Before, M, Complete, c, r
    <2> QED
      BY <1>9, <1>10, <1>13, <1>12 DEF MovedOnce
  <1>15. AllMoved(r)
    <2>1. Range(M) \subseteq DOMAIN m.v1
      BY <1>10 DEF Range
    <2>2. Cardinality(Range(M)) = Len(M)
      BY <1>5, <1>13, InjectiveSeqCardinality
    <2>3. ASSUME Complete
          PROVE  Range(M) = DOMAIN m.v1
      <3>1. Len(m.pending_recovery) = 0 /\ Len(M) \in Nat
        BY <1>1, <1>5 DEF MigRecord
      <3>2. Cardinality(Range(M)) >= Cardinality(DOMAIN m.v1)
        BY <2>2, <2>3, <3>1
      <3>3. Cardinality(Range(M)) <= Cardinality(DOMAIN m.v1)
            /\ (Cardinality(DOMAIN m.v1) = Cardinality(Range(M)) => DOMAIN m.v1 = Range(M))
        BY <1>1, <2>1, FS_Subset
      <3> QED
        BY <1>2, <2>2, <3>1, <3>2, <3>3
    <2> QED
      BY <1>9, <2>3 DEF AllMoved
  <1> QED
    BY <1>9, <1>14, <1>15 DEF MigOK

----------------------------------------------------------------------------
\* The share of a balance grows with the basis points, also where it saturates.
LEMMA BpsMonotone ==
    ASSUME NEW b \in Nat, NEW x \in Nat, NEW y \in Nat, x <= y
    PROVE  /\ saturated_bps(b, x) \in Nat /\ saturated_bps(b, y) \in Nat
           /\ saturated_bps(b, x) <= saturated_bps(b, y)
  <1> DEFINE bx == b * x
             by == b * y
  <1>1. bx \in Nat /\ by \in Nat /\ bx <= by
    <2>1. PICK d \in Nat : y = x + d
      <3>1. y - x \in Nat /\ y = x + (y - x)
        OBVIOUS
      <3> QED
        BY <3>1
    <2>2. b * y = b * x + b * d
      BY <2>1
    <2>3. b * x \in Nat /\ b * d \in Nat
      BY <2>1
    <2> QED
      BY <2>2, <2>3
  <1>2. I128_LIMIT \in Nat
    BY UpgradeConstants
  <1> HIDE DEF bx, by
  <1>3. bx \div 10000 \in Nat /\ by \div 10000 \in Nat /\ bx \div 10000 <= by \div 10000
        /\ bx \div 10000 <= bx
    BY <1>1
  <1> QED
    BY <1>1, <1>2, <1>3 DEF saturated_bps, bx, by

StratOK(s) ==
    /\ s.names \in Seq(StrategyNames)
    /\ \A i \in DOMAIN s.names : s.names[i] \in DOMAIN s.config
    /\ \A name \in DOMAIN s.config : s.config[name] \in StrategyConfigs /\ validate(s.config[name])

\* Strategies that passed validate order the offences.
LEMMA ValidatedOrdered ==
    ASSUME StratOK(strat)
    PROVE  SlashesOrdered
  <1> SUFFICES ASSUME NEW i \in DOMAIN strat.names, NEW b \in Balances
               PROVE  LET cost(s) == compute_slash_amount(strat.names[i], b, s)
                      IN  0 <= cost(0) /\ cost(0) <= cost(1) /\ cost(1) <= cost(2) /\ cost(2) <= b
    BY DEF SlashesOrdered
  <1> DEFINE c == strat.config[strat.names[i]]
             lo == saturated_bps(b, c.minor_bps)
             mid == saturated_bps(b, c.major_bps)
             hi == saturated_bps(b, c.critical_bps)
  <1>1. c \in StrategyConfigs /\ validate(c)
    BY DEF StratOK
  <1>2. c.minor_bps \in Nat /\ c.major_bps \in Nat /\ c.critical_bps \in Nat /\ b \in Nat
    BY <1>1, UpgradeConstants
  <1>3. c.minor_bps <= c.major_bps /\ c.major_bps <= c.critical_bps
    BY <1>1 DEF validate
  <1>4. lo \in Nat /\ mid \in Nat /\ hi \in Nat /\ lo <= mid /\ mid <= hi
    BY <1>2, <1>3, BpsMonotone
  <1> DEFINE least == IF b > 0 THEN 1 ELSE 0
             clamp(a) == LET raised == IF a < least THEN least ELSE a
                         IN  IF raised > b THEN b ELSE raised
  <1>5. /\ compute_slash_amount(strat.names[i], b, 0) = clamp(lo)
        /\ compute_slash_amount(strat.names[i], b, 1) = clamp(mid)
        /\ compute_slash_amount(strat.names[i], b, 2) = clamp(hi)
    BY DEF compute_slash_amount, get_slash_strategy
  <1> HIDE DEF lo, mid, hi
  <1>6. 0 <= clamp(lo) /\ clamp(lo) <= clamp(mid) /\ clamp(mid) <= clamp(hi) /\ clamp(hi) <= b
    BY <1>2, <1>4
  <1> QED
    BY <1>5, <1>6

\* Only a strategy that passed validate is stored, and its name is listed once
\* its settings are there.
LEMMA StrategyKeeps ==
    ASSUME StratOK(strat), NEW name \in StrategyNames, NEW c \in StrategyConfigs,
           set_slash_strategy(name, c)
    PROVE  StratOK(strat)'
  <1> DEFINE cfg == [x \in DOMAIN strat.config \cup {name} |-> IF x = name THEN c ELSE strat.config[x]]
             nms == IF Contains(strat.names, name) THEN strat.names ELSE Append(strat.names, name)
  <1>1. strat'.names = nms /\ strat'.config = cfg /\ validate(c)
    BY DEF set_slash_strategy
  <1>2. /\ DOMAIN cfg = DOMAIN strat.config \cup {name}
        /\ \A x \in DOMAIN cfg : cfg[x] = IF x = name THEN c ELSE strat.config[x]
    OBVIOUS
  <1>3. nms \in Seq(StrategyNames)
    BY DEF StratOK
  <1>4. \A i \in DOMAIN nms : nms[i] = name \/ \E j \in DOMAIN strat.names : nms[i] = strat.names[j]
    <2>1. strat.names \in Seq(StrategyNames)
      BY DEF StratOK
    <2>2. /\ DOMAIN Append(strat.names, name) = 1..Len(strat.names) + 1
          /\ DOMAIN strat.names = 1..Len(strat.names) /\ Len(strat.names) \in Nat
          /\ Append(strat.names, name)[Len(strat.names) + 1] = name
          /\ \A j \in 1..Len(strat.names) : Append(strat.names, name)[j] = strat.names[j]
      BY <2>1
    <2> QED
      BY <2>2
  <1> HIDE DEF cfg, nms
  <1> QED
    BY <1>1, <1>2, <1>3, <1>4 DEF StratOK

----------------------------------------------------------------------------
\* The inductive invariant of an upgrade.
UpgradeInv ==
    /\ MigOK(mig)
    /\ ver \in [code : Nat, layout : Nat] /\ LayoutBehindCode
    /\ StratOK(strat)

\* A vault starts with nothing moved and no strategies.
LEMMA UpgradeInitInv ==
    ASSUME UpgradeInit
    PROVE  UpgradeInv
  <1>1. PICK old \in OldStakes :
          mig = [v1 |-> old, v2 |-> [p \in OldStakers |-> NoStake],
                 migrated |-> <<>>, complete |-> FALSE, batch_number |-> 0,
                 pending_recovery |-> <<>>, total_v1_providers |-> 0,
                 added |-> [p \in OldStakers |-> 0],
                 before |-> [p \in OldStakers |-> 0], deposits |-> 0]
    BY DEF UpgradeInit
  <1>2. mig \in MigRecord
    BY <1>1 DEF MigRecord, NoStake
  <1>3. MovedOnce(mig) /\ AllMoved(mig)
    <2>1. /\ mig.migrated = <<>> /\ mig.complete = FALSE
          /\ \A p \in OldStakers : /\ mig.v2[p] = NoStake /\ mig.added[p] = 0
                                    /\ mig.before[p] = 0
      BY <1>1
    <2>2. DOMAIN mig.migrated = {} /\ Range(mig.migrated) = {}
      BY <2>1 DEF Range
    <2> QED
      BY <2>1, <2>2 DEF MovedOnce, AllMoved, IsInjective, PositionOK, IsMoved, LockAfter, NoStake
  <1>4. ver \in [code : Nat, layout : Nat] /\ LayoutBehindCode /\ StratOK(strat)
    BY UpgradeConstants DEF UpgradeInit, LayoutBehindCode, INITIAL_LAYOUT_VERSION, StratOK
  <1> QED
    BY <1>2, <1>3, <1>4 DEF UpgradeInv, MigOK

\* Every step of an upgrade keeps the invariant.
LEMMA UpgradeStepInv ==
    ASSUME UpgradeInv, [UpgradeNext]_upgradeVars
    PROVE  UpgradeInv'
  <1>1. MigOK(mig) /\ ver \in [code : Nat, layout : Nat] /\ LayoutBehindCode /\ StratOK(strat)
    BY DEF UpgradeInv
  <1>2. ASSUME NEW size \in MigrationBatches, migrate_stakes_v1_to_v2(size)
        PROVE  UpgradeInv'
    <2> DEFINE n == Cardinality(to_migrate(mig))
               length == IF size < n THEN size ELSE n
    <2>1. length \in Nat
      <3>1. IsFiniteSet(DOMAIN mig.v1) /\ to_migrate(mig) \subseteq DOMAIN mig.v1
        BY <1>1, OldMapType DEF MigOK, MigRecord, to_migrate
      <3>2. n \in Nat
        BY <3>1, FS_Subset, FS_CardinalityType
      <3> QED
        BY <3>2, UpgradeConstants
    <2>2. PICK batch \in [1..length -> to_migrate(mig)] :
            /\ in_key_order(batch, to_migrate(mig))
            /\ mig' = accounted(moved([mig EXCEPT !.total_v1_providers = Cardinality(DOMAIN mig.v1),
                                                  !.batch_number = @ + 1], batch, mig.v1))
      BY <1>2 DEF migrate_stakes_v1_to_v2
    <2> HIDE DEF n, length
    <2>3. MigOK(mig')
      BY <1>1, <2>1, <2>2, BatchKeeps
    <2> QED
      BY <1>1, <1>2, <2>3 DEF migrate_stakes_v1_to_v2, UpgradeInv, LayoutBehindCode, StratOK
  <1>3. ASSUME NEW p \in OldStakers, NEW amount \in TopUps, deposit_v2(p, amount)
        PROVE  UpgradeInv'
    <2>1. MigOK(mig')
      BY <1>1, <1>3, DepositKeeps DEF deposit_v2
    <2> QED
      BY <1>1, <1>3, <2>1 DEF deposit_v2, UpgradeInv, LayoutBehindCode, StratOK
  <1>4. ASSUME NEW v \in Versions, upgrade(v)
        PROVE  UpgradeInv'
    <2>1. v \in Nat /\ FirstVersion \in Nat
      BY UpgradeConstants
    <2>2. ver' \in [code : Nat, layout : Nat] /\ LayoutBehindCode'
      BY <1>1, <1>4, <2>1 DEF upgrade, guard_upgrade, LayoutBehindCode, INITIAL_LAYOUT_VERSION
    <2> QED
      BY <1>1, <1>4, <2>2 DEF upgrade, UpgradeInv, StratOK
  <1>5. ASSUME NEW v \in Versions, NEW l \in Layouts, NEW k \in SUBSET {"stakes"},
               upgrade_with_migration_guard(v, l, k)
        PROVE  UpgradeInv'
    <2>1. v \in Nat /\ l \in Nat /\ FirstVersion \in Nat
      BY UpgradeConstants
    <2>2. ver' \in [code : Nat, layout : Nat] /\ LayoutBehindCode'
      BY <1>1, <1>5, <2>1 DEF upgrade_with_migration_guard, guard_upgrade, guard_storage_upgrade,
                              LayoutBehindCode, INITIAL_LAYOUT_VERSION
    <2> QED
      BY <1>1, <1>5, <2>2 DEF upgrade_with_migration_guard, UpgradeInv, StratOK
  <1>6. ASSUME NEW name \in StrategyNames, NEW c \in StrategyConfigs, set_slash_strategy(name, c)
        PROVE  UpgradeInv'
    <2>1. StratOK(strat)'
      BY <1>1, <1>6, StrategyKeeps
    <2> QED
      BY <1>1, <1>6, <2>1 DEF set_slash_strategy, UpgradeInv, LayoutBehindCode
  <1>7. ASSUME UNCHANGED upgradeVars
        PROVE  UpgradeInv'
    BY <1>1, <1>7 DEF upgradeVars, UpgradeInv, LayoutBehindCode, StratOK
  <1> QED
    BY <1>2, <1>3, <1>4, <1>5, <1>6, <1>7 DEF UpgradeNext

\* What the invariant says of an upgrade.
LEMMA UpgradeInvSound ==
    ASSUME UpgradeInv
    PROVE  UpgradeSound
  <1>1. mig.migrated \in Seq(OldStakers)
    BY DEF UpgradeInv, MigOK, MigRecord
  <1>2. EachMovedOnce
    <2>1. ASSUME NEW p \in OldStakers
          PROVE  LET done  == p \in Range(mig.migrated)
                     since == mig.added[p] - (IF done THEN mig.before[p] ELSE 0)
                 IN  /\ mig.v2[p].balance = since + (IF done THEN mig.v1[p] ELSE 0)
                     /\ mig.v2[p].locked_until = IF since > 0 THEN DepositLock ELSE 0
      <3>1. PositionOK(mig, p) /\ mig.added[p] \in Nat /\ mig.before[p] \in Nat
        BY DEF UpgradeInv, MigOK, MovedOnce, MigRecord
      <3>2. CASE p \in Range(mig.migrated)
        BY <3>1, <3>2 DEF PositionOK, IsMoved, LockAfter
      <3>3. CASE p \notin Range(mig.migrated)
        BY <3>1, <3>3 DEF PositionOK, IsMoved, LockAfter
      <3> QED
        BY <3>2, <3>3
    <2>2. IsInjective(mig.migrated) /\ (mig.complete => Range(mig.migrated) = DOMAIN mig.v1)
      BY DEF UpgradeInv, MigOK, MovedOnce, AllMoved
    <2> QED
      BY <2>1, <2>2 DEF EachMovedOnce
  <1>3. SlashesOrdered
    BY ValidatedOrdered DEF UpgradeInv
  <1> QED
    BY <1>2, <1>3 DEF UpgradeInv, UpgradeSound

\* For any V1 map, any batch sizes and any deposits between the batches, every
\* position reaches V2 once, holds there what V1 held and what was deposited after
\* its move, and loses exactly what was deposited before it; the layout never runs
\* ahead of the code, and no stored strategy punishes a worse offence less.  About
\* migration.rs, storage_version.rs and slash_strategy.rs.
THEOREM UpgradeSoundAlways == UpgradeSpec => []UpgradeSound
  <1>1. UpgradeInit => UpgradeInv
    BY UpgradeInitInv
  <1>2. UpgradeInv /\ [UpgradeNext]_upgradeVars => UpgradeInv'
    BY UpgradeStepInv
  <1>3. UpgradeInv => UpgradeSound
    BY UpgradeInvSound
  <1> QED
    BY <1>1, <1>2, <1>3, PTL DEF UpgradeSpec

----------------------------------------------------------------------------
\* Fee accrual.

SharesIn(pos) == SumFunctionOnSet([s \in ShareHolders |-> pos[s].shares], ShareHolders)

FeeInv == FeeTypeOK /\ BooksBalance /\ DebtNeverAhead /\ FeesNearlyCovered

\* Rounding down and multiplying back never exceeds what was divided.
LEMMA DivFacts ==
    ASSUME NEW a \in Nat, NEW b \in Nat, b > 0
    PROVE  /\ a \div b \in Nat
           /\ (a \div b) * b <= a
           /\ \A c \in Nat : c <= a * b => c \div b <= a
           /\ \A c \in Nat : c <= a => c \div b <= a \div b
  <1>1. a \div b \in Nat
    OBVIOUS
  <1>2. (a \div b) * b <= a
    OBVIOUS
  <1>3. ASSUME NEW c \in Nat, c <= a * b
        PROVE  c \div b <= a
    <2>1. PICK q \in Nat : q = c \div b
      OBVIOUS
    <2>2. q * b <= c
      BY <2>1
    <2>3. q * b <= a * b
      BY <1>3, <2>2
    <2> QED
      BY <2>1, <2>3
  <1>4. ASSUME NEW c \in Nat, c <= a
        PROVE  c \div b <= a \div b
    BY <1>4
  <1> QED
    BY <1>1, <1>2, <1>3, <1>4

\* What a position of so many shares has earned since the first deposit: a number that
\* only grows with the accumulator.
LEMMA AccumulatedGrows ==
    ASSUME NEW n \in Nat, NEW acc \in Nat, NEW more \in Nat
    PROVE  /\ accumulated_for(n, acc) \in Nat
           /\ accumulated_for(n, acc) <= accumulated_for(n, acc + more)
  <1>1. ACC_PRECISION \in Nat /\ ACC_PRECISION > 0
    BY FeeConstants
  <1>2. PICK i \in Nat : i = n * acc
    OBVIOUS
  <1>3. PICK j \in Nat : j = n * (acc + more)
    OBVIOUS
  <1>4. i <= j
    BY <1>2, <1>3
  <1> QED
    BY <1>1, <1>2, <1>3, <1>4, DivFacts DEF accumulated_for

\* Settling moves what was earned into `realized' and leaves nothing new.
LEMMA SettledIs ==
    ASSUME NEW p \in StakerFeePosition, NEW acc \in Nat
    PROVE  /\ pending(acc, p) \in Nat
           /\ settled(acc, p) = [shares |-> p.shares,
                                 fee_debt |-> accumulated_for(p.shares, acc),
                                 realized |-> pending(acc, p)]
  <1>1. PICK a \in Nat : a = accumulated_for(p.shares, acc)
    <2>1. p.shares \in Nat
      BY DEF StakerFeePosition
    <2> QED
      BY <2>1, AccumulatedGrows
  <1>2. PICK n \in Nat : n = newly_accrued(acc, p)
    <2>1. p.fee_debt \in Nat
      BY DEF StakerFeePosition
    <2> QED
      BY <1>1, <2>1 DEF newly_accrued
  <1>3. pending(acc, p) = p.realized + n /\ pending(acc, p) \in Nat
    BY <1>2 DEF pending, StakerFeePosition
  <1>4. settled(acc, p) = [p EXCEPT !.realized = p.realized + n, !.fee_debt = a]
    BY <1>1, <1>2 DEF settled, StakerFeePosition
  <1> QED
    BY <1>1, <1>3, <1>4 DEF StakerFeePosition

\* A position whose debt is that of its shares has only its realized fees pending.
LEMMA PendingOfSettled ==
    ASSUME NEW n \in Nat, NEW r \in Nat, NEW acc \in Nat
    PROVE  /\ pending(acc, [shares |-> n, fee_debt |-> accumulated_for(n, acc),
                            realized |-> r]) = r
           /\ [shares |-> n, fee_debt |-> accumulated_for(n, acc), realized |-> r]
                 \in StakerFeePosition
  <1>1. accumulated_for(n, acc) \in Nat
    BY AccumulatedGrows
  <1> QED
    BY <1>1 DEF pending, newly_accrued, StakerFeePosition

LEMMA TimesDifference ==
    ASSUME NEW p \in Int, NEW a \in Int, NEW b \in Int
    PROVE  p * (b - a) = p * b - p * a
  OBVIOUS

\* How far rounding can be from the exact share: less than one unit each way.
LEMMA RoundingOff ==
    ASSUME NEW n \in Nat, NEW acc \in Nat, NEW more \in Nat, NEW inc,
           inc = accumulated_for(n, acc + more) - accumulated_for(n, acc)
    PROVE  /\ inc \in Int
           /\ ACC_PRECISION * inc - more * n <= ACC_PRECISION - 1
           /\ -(ACC_PRECISION - 1) <= ACC_PRECISION * inc - more * n
  <1>1. PICK P \in Nat : P = ACC_PRECISION /\ P > 0
    BY FeeConstants
  <1>2. PICK x \in Nat : x = n * acc
    OBVIOUS
  <1>3. PICK w \in Nat : w = more * n
    OBVIOUS
  <1>4. n * (acc + more) = x + w
    BY <1>2, <1>3
  <1>5. PICK a \in Nat : a = x \div P /\ P * a <= x /\ x <= P * a + P - 1
    <2>1. x \div P \in Nat /\ P * (x \div P) <= x /\ x < P * (x \div P) + P
      BY <1>1
    <2> QED
      BY <1>1, <2>1
  <1>6. PICK b \in Nat : b = (x + w) \div P /\ P * b <= x + w /\ x + w <= P * b + P - 1
    <2>1. PICK y \in Nat : y = x + w
      OBVIOUS
    <2>2. y \div P \in Nat /\ P * (y \div P) <= y /\ y < P * (y \div P) + P
      BY <1>1
    <2> QED
      BY <1>1, <2>1, <2>2
  <1>7. inc = b - a
    BY <1>1, <1>2, <1>4, <1>5, <1>6 DEF accumulated_for
  <1>8. P * inc = P * b - P * a
    <2>1. P \in Int /\ a \in Int /\ b \in Int
      OBVIOUS
    <2>2. P * (b - a) = P * b - P * a
      BY <2>1, TimesDifference
    <2> QED
      BY <1>7, <2>2
  <1>9. PICK pa \in Int : pa = P * a
    OBVIOUS
  <1>10. PICK pb \in Int : pb = P * b
    OBVIOUS
  <1>11. /\ pb - pa - w <= P - 1 /\ -(P - 1) <= pb - pa - w
    BY <1>5, <1>6, <1>9, <1>10
  <1> QED
    BY <1>1, <1>3, <1>7, <1>8, <1>9, <1>10, <1>11

\* Two numbers whose multiples differ by less than so many multiples are no further apart.
LEMMA ScaledDistance ==
    ASSUME NEW P \in Nat, P > 0, NEW x \in Int, NEW y \in Int, NEW n \in Nat, NEW w \in Int,
           P * x - w <= (P - 1) * n, -((P - 1) * n) <= P * x - w,
           P * y <= w, w <= P * y + P - 1
    PROVE  x <= y + n /\ y <= x + n
  <1>1. P * (x - y) <= (P - 1) * n + (P - 1)
    BY P * (x - y) = P * x - P * y
  <1>2. P * (y - x) <= (P - 1) * n
    BY P * (y - x) = P * y - P * x
  <1>3. (P - 1) * n + (P - 1) < P * (n + 1)
    <2>1. (P - 1) * n = P * n - n /\ P * (n + 1) = P * n + P
      OBVIOUS
    <2> QED
      BY <2>1
  <1>4. P * (x - y) < P * (n + 1)
    BY <1>1, <1>3
  <1>5. x - y < n + 1
    BY <1>4
  <1>6. (P - 1) * n <= P * n
    BY (P - 1) * n = P * n - n
  <1>7. P * (y - x) <= P * n
    BY <1>2, <1>6
  <1>8. y - x <= n
    BY <1>7
  <1> QED
    BY <1>5, <1>8

IsDistributed(delta, dist) == dist = (delta * state.total_shares) \div ACC_PRECISION

\* A deposit gives every holder its share but for one unit.
LEMMA AccrueNearlyCovers ==
    ASSUME FeeInv, NEW delta \in Nat, NEW dist \in Nat, position' = position,
           state'.acc_fee_per_share = state.acc_fee_per_share + delta,
           IsDistributed(delta, dist)
    PROVE  /\ FeesClaimable \in Int /\ FeesClaimable' \in Int
           /\ Cardinality(ShareHolders) \in Nat
           /\ FeesClaimable' - FeesClaimable <= dist + Cardinality(ShareHolders)
           /\ dist <= FeesClaimable' - FeesClaimable + Cardinality(ShareHolders)
  <1>1. /\ state \in FeeAccrualState /\ position \in [ShareHolders -> StakerFeePosition]
        /\ IsFiniteSet(ShareHolders)
    BY FeeConstants DEF FeeInv, FeeTypeOK
  <1>2. PICK N \in Nat : N = Cardinality(ShareHolders)
    BY <1>1, FS_CardinalityType
  <1>3. PICK P \in Nat : P = ACC_PRECISION /\ P > 0
    BY FeeConstants
  <1>4. PICK acc \in Nat : acc = state.acc_fee_per_share
    BY <1>1 DEF FeeAccrualState
  <1>5. PICK sh : sh = [s \in ShareHolders |-> position[s].shares]
    OBVIOUS
  <1>6. PICK old : old = [s \in ShareHolders |-> PendingOf(s)]
    OBVIOUS
  <1>7. PICK new : new = [s \in ShareHolders |-> PendingOf(s)']
    OBVIOUS
  <1>8. PICK inc : inc = [s \in ShareHolders |->
                             accumulated_for(sh[s], acc + delta) - accumulated_for(sh[s], acc)]
    OBVIOUS
  <1>9. ASSUME NEW s \in ShareHolders
        PROVE  /\ sh[s] \in Nat /\ inc[s] \in Int /\ old[s] \in Int /\ new[s] \in Int
               /\ inc[s] = new[s] - old[s]
               /\ P * inc[s] - delta * sh[s] <= P - 1 /\ -(P - 1) <= P * inc[s] - delta * sh[s]
    <2>1. PICK p \in StakerFeePosition : p = position[s]
      BY <1>1
    <2>2. p.shares \in Nat /\ p.fee_debt \in Nat /\ p.realized \in Nat /\ sh[s] = p.shares
      BY <1>5, <2>1 DEF StakerFeePosition
    <2>3. acc + delta \in Nat
      OBVIOUS
    <2>4. PICK a \in Nat : a = accumulated_for(p.shares, acc)
      BY <2>2, AccumulatedGrows
    <2>5. PICK b \in Nat : b = accumulated_for(p.shares, acc + delta) /\ a <= b
      BY <2>2, <2>3, <2>4, AccumulatedGrows
    <2>6. p.fee_debt <= a
      BY <1>4, <2>1, <2>4 DEF FeeInv, DebtNeverAhead
    <2>7. old[s] = p.realized + (a - p.fee_debt)
      BY <1>4, <1>6, <2>1, <2>2, <2>4, <2>6 DEF PendingOf, pending, newly_accrued
    <2>8. PendingOf(s)' = pending(acc + delta, p)
      BY <1>4, <2>1 DEF PendingOf, pending, newly_accrued, accumulated_for
    <2>9. new[s] = p.realized + (b - p.fee_debt)
      BY <1>7, <2>2, <2>5, <2>6, <2>8 DEF pending, newly_accrued
    <2>10. inc[s] = b - a
      BY <1>8, <2>2, <2>4, <2>5
    <2>11. /\ P * inc[s] - delta * sh[s] <= P - 1
           /\ -(P - 1) <= P * inc[s] - delta * sh[s]
      BY <1>3, <2>2, <2>4, <2>5, <2>10, RoundingOff
    <2> QED
      BY <2>2, <2>7, <2>9, <2>10, <2>11
  <1>10. PICK c \in Int : c = SumFunctionOnSet(old, ShareHolders)
    BY <1>1, <1>9, SumType
  <1>11. PICK d \in Int : d = SumFunctionOnSet(new, ShareHolders)
    BY <1>1, <1>9, SumType
  <1>12. SumFunctionOnSet(inc, ShareHolders) = d - c
    <2>1. \A s \in ShareHolders : new[s] \in Int /\ old[s] \in Int /\ inc[s] = new[s] - old[s]
      BY <1>9
    <2>2. IsFiniteSet(ShareHolders)
      BY <1>1
    <2> QED
      BY <1>10, <1>11, <2>1, <2>2, SumSubtracts
  <1>13. PICK T \in Nat : T = SumFunctionOnSet(sh, ShareHolders) /\ T = state.total_shares
    <2>1. SumFunctionOnSet(sh, ShareHolders) \in Nat
      BY <1>1, <1>9, SumBounds
    <2> QED
      BY <1>5, <2>1 DEF FeeInv, BooksBalance
  <1>14. PICK u : u = [s \in ShareHolders |-> P * inc[s]]
    OBVIOUS
  <1>15. PICK v : v = [s \in ShareHolders |-> delta * sh[s]]
    OBVIOUS
  <1>16. PICK h : h = [s \in ShareHolders |-> u[s] - v[s]]
    OBVIOUS
  <1>17. SumFunctionOnSet(u, ShareHolders) = P * (d - c)
    <2>1. \A s \in ShareHolders : inc[s] \in Int /\ u[s] = P * inc[s]
      BY <1>9, <1>14
    <2>2. IsFiniteSet(ShareHolders) /\ P \in Int
      BY <1>1
    <2>3. SumFunctionOnSet(u, ShareHolders) = P * SumFunctionOnSet(inc, ShareHolders)
      BY <2>1, <2>2, SumScales
    <2> QED
      BY <1>12, <2>3
  <1>18. SumFunctionOnSet(v, ShareHolders) = delta * T
    <2>1. \A s \in ShareHolders : sh[s] \in Int /\ v[s] = delta * sh[s]
      BY <1>9, <1>15
    <2>2. IsFiniteSet(ShareHolders) /\ delta \in Int
      BY <1>1
    <2>3. SumFunctionOnSet(v, ShareHolders) = delta * SumFunctionOnSet(sh, ShareHolders)
      BY <2>1, <2>2, SumScales
    <2> QED
      BY <1>13, <2>3
  <1>19. \A s \in ShareHolders : /\ u[s] \in Int /\ v[s] \in Int /\ h[s] = u[s] - v[s]
                                /\ h[s] \in Int /\ h[s] <= P - 1 /\ -(P - 1) <= h[s]
    <2> TAKE s \in ShareHolders
    <2>1. u[s] = P * inc[s] /\ v[s] = delta * sh[s] /\ h[s] = u[s] - v[s]
      BY <1>14, <1>15, <1>16
    <2>2. u[s] \in Int /\ v[s] \in Int
      BY <1>9, <2>1
    <2>3. u[s] - v[s] <= P - 1 /\ -(P - 1) <= u[s] - v[s]
      BY <1>9, <2>1
    <2> QED
      BY <2>1, <2>2, <2>3
  <1>20. SumFunctionOnSet(h, ShareHolders) = P * (d - c) - delta * T
    <2>1. IsFiniteSet(ShareHolders)
      BY <1>1
    <2>2. \A s \in ShareHolders : u[s] \in Int /\ v[s] \in Int /\ h[s] = u[s] - v[s]
      BY <1>19
    <2>3. SumFunctionOnSet(h, ShareHolders)
            = SumFunctionOnSet(u, ShareHolders) - SumFunctionOnSet(v, ShareHolders)
      BY <2>1, <2>2, SumSubtracts
    <2> QED
      BY <1>17, <1>18, <2>3
  <1>21. /\ SumFunctionOnSet(h, ShareHolders) <= (P - 1) * N
         /\ -((P - 1) * N) <= SumFunctionOnSet(h, ShareHolders)
    <2>1. PICK hi : hi = [s \in ShareHolders |-> P - 1]
      OBVIOUS
    <2>2. PICK lo : lo = [s \in ShareHolders |-> -(P - 1)]
      OBVIOUS
    <2>3. IsFiniteSet(ShareHolders) /\ P - 1 \in Int /\ -(P - 1) \in Int
      BY <1>1
    <2>4. SumFunctionOnSet(hi, ShareHolders) = (P - 1) * N
      BY <1>2, <2>1, <2>3, SumConstant
    <2>5. SumFunctionOnSet(lo, ShareHolders) = (-(P - 1)) * N
      BY <1>2, <2>2, <2>3, SumConstant
    <2>6. \A s \in ShareHolders : h[s] \in Int /\ hi[s] \in Int /\ h[s] <= hi[s]
      BY <1>19, <2>1, <2>3
    <2>7. \A s \in ShareHolders : lo[s] \in Int /\ h[s] \in Int /\ lo[s] <= h[s]
      BY <1>19, <2>2, <2>3
    <2>8. SumFunctionOnSet(h, ShareHolders) <= SumFunctionOnSet(hi, ShareHolders)
      BY <2>3, <2>6, SumMonotone
    <2>9. SumFunctionOnSet(lo, ShareHolders) <= SumFunctionOnSet(h, ShareHolders)
      BY <2>3, <2>7, SumMonotone
    <2>10. (-(P - 1)) * N = -((P - 1) * N)
      OBVIOUS
    <2> QED
      BY <2>4, <2>5, <2>8, <2>9, <2>10
  <1>22. PICK w \in Nat : w = delta * T
    OBVIOUS
  <1>23. P * dist <= w /\ w <= P * dist + P - 1
    <2>1. dist = w \div P
      BY <1>3, <1>13, <1>22 DEF IsDistributed
    <2>2. P * (w \div P) <= w /\ w < P * (w \div P) + P
      BY <1>3
    <2> QED
      BY <2>1, <2>2
  <1>24. d - c <= dist + N /\ dist <= d - c + N
    <2>1. PICK x \in Int : x = d - c
      OBVIOUS
    <2>2. P * x - w <= (P - 1) * N /\ -((P - 1) * N) <= P * x - w
      BY <1>20, <1>21, <1>22, <2>1
    <2>3. dist \in Int /\ w \in Int /\ P > 0
      BY <1>3
    <2>4. x <= dist + N /\ dist <= x + N
      <3>1. P * x - w <= (P - 1) * N
        BY <2>2
      <3>2. -((P - 1) * N) <= P * x - w
        BY <2>2
      <3>3. P * dist <= w
        BY <1>23
      <3>4. w <= P * dist + P - 1
        BY <1>23
      <3>5. dist \in Int
        BY <2>3
      <3>6. w \in Int
        BY <2>3
      <3>7. P > 0
        BY <2>3
      <3> QED
        BY <3>1, <3>2, <3>3, <3>4, <3>5, <3>6, <3>7, ScaledDistance
    <2> QED
      BY <2>1, <2>4
  <1>25. FeesClaimable = c /\ FeesClaimable' = d
    BY <1>6, <1>7, <1>10, <1>11 DEF FeesClaimable
  <1> QED
    BY <1>2, <1>24, <1>25

\* A deposit is divided among the shares to the last unit.
LEMMA AccrueKeeps ==
    ASSUME FeeInv, NEW amount \in FeeAmounts, NEW l \in Ledgers, NEW t \in Ledgers,
           accrue_deposit(amount, l, t)
    PROVE  FeeInv' /\ state'.epoch # state.epoch
  <1>1. /\ state \in FeeAccrualState /\ position' = position /\ feesClaimed' = feesClaimed
        /\ amount \in Nat
    BY FeeConstants DEF FeeInv, FeeTypeOK, accrue_deposit
  <1>2. ACC_PRECISION \in Nat /\ ACC_PRECISION > 0
    BY FeeConstants
  <1>3. PICK pool \in Nat : pool = amount + state.carry
    BY <1>1 DEF FeeAccrualState
  <1>4. PICK total \in Nat : total = state.total_shares
    BY <1>1 DEF FeeAccrualState
  <1>5. PICK delta \in Nat : delta = per_share_delta(pool) /\ delta * total <= pool * ACC_PRECISION
    <2>1. CASE total = 0
      BY <1>2, <1>4, <2>1 DEF per_share_delta
    <2>2. CASE total # 0
      <3>1. PICK w \in Nat : w = pool * ACC_PRECISION
        BY <1>2
      <3>2. total > 0
        BY <2>2
      <3>3. w \div total \in Nat /\ (w \div total) * total <= w
        BY <3>2, DivFacts
      <3>4. per_share_delta(pool) = w \div total
        BY <1>4, <2>2, <3>1 DEF per_share_delta
      <3> QED
        BY <3>1, <3>3, <3>4
    <2> QED
      BY <2>1, <2>2
  <1>6. PICK dist \in Nat : dist = distributed(pool) /\ dist <= pool
    <2>1. PICK w \in Nat : w = delta * total
      OBVIOUS
    <2>2. w \div ACC_PRECISION <= pool /\ w \div ACC_PRECISION \in Nat
      BY <1>2, <1>5, <2>1, DivFacts
    <2> QED
      BY <1>4, <1>5, <2>1, <2>2 DEF distributed
  <1>7. state' = [state EXCEPT !.acc_fee_per_share = @ + delta, !.carry = pool - dist,
                               !.total_deposited = @ + amount, !.total_distributed = @ + dist,
                               !.last_ledger_seq = l, !.last_timestamp = t, !.epoch = @ + 1]
    BY <1>3, <1>5, <1>6 DEF accrue_deposit, carry_after
  <1>8. state' \in FeeAccrualState
    <2>1. /\ state.acc_fee_per_share + delta \in Nat /\ pool - dist \in Nat
          /\ state.total_deposited + amount \in Nat /\ state.total_distributed + dist \in Nat
          /\ state.epoch + 1 \in Nat
      BY <1>1, <1>6 DEF FeeAccrualState
    <2> QED
      BY <1>1, <1>7, <2>1 DEF FeeAccrualState
  <1>9. BooksBalance'
    <2>1. /\ state'.total_deposited = state.total_deposited + amount
          /\ state'.total_distributed = state.total_distributed + dist
          /\ state'.carry = pool - dist /\ state'.total_shares = state.total_shares
      BY <1>1, <1>7 DEF FeeAccrualState
    <2>2. /\ state.total_deposited = state.total_distributed + state.carry
          /\ state.total_distributed \in Nat /\ state.carry \in Nat
      BY <1>1 DEF FeeInv, BooksBalance, FeeAccrualState
    <2>3. state'.total_deposited = state'.total_distributed + state'.carry
      BY <1>1, <1>3, <2>1, <2>2
    <2> QED
      BY <1>1, <2>1, <2>3 DEF FeeInv, BooksBalance
  <1>10. DebtNeverAhead'
    <2> SUFFICES ASSUME NEW s \in ShareHolders
                 PROVE  position[s].fee_debt
                          <= accumulated_for(position[s].shares, state'.acc_fee_per_share)
      BY <1>1 DEF DebtNeverAhead, accumulated_for
    <2>1. PICK n \in Nat : n = position[s].shares
      BY DEF FeeInv, FeeTypeOK, StakerFeePosition
    <2>2. PICK d \in Nat : d = position[s].fee_debt
      BY DEF FeeInv, FeeTypeOK, StakerFeePosition
    <2>3. PICK acc \in Nat : acc = state.acc_fee_per_share
      BY <1>1 DEF FeeAccrualState
    <2>4. state'.acc_fee_per_share = acc + delta
      BY <1>1, <1>7, <2>3 DEF FeeAccrualState
    <2>5. d <= accumulated_for(n, acc)
      BY <2>1, <2>2, <2>3 DEF FeeInv, DebtNeverAhead
    <2>6. /\ accumulated_for(n, acc) <= accumulated_for(n, acc + delta)
          /\ accumulated_for(n, acc) \in Nat /\ accumulated_for(n, acc + delta) \in Nat
      <3>1. acc + delta \in Nat
        OBVIOUS
      <3> QED
        BY <3>1, AccumulatedGrows
    <2> QED
      BY <2>1, <2>2, <2>4, <2>5, <2>6
  <1>11. state'.epoch # state.epoch
    BY <1>1, <1>7 DEF FeeAccrualState
  <1>12. FeesNearlyCovered'
    <2>1. PICK N \in Nat : N = Cardinality(ShareHolders)
      BY FeeConstants, FS_CardinalityType
    <2>2. PICK k \in Nat : k = state.epoch
      BY <1>1 DEF FeeAccrualState
    <2>3. PICK cl \in Nat : cl = feesClaimed
      BY DEF FeeInv, FeeTypeOK
    <2>4. PICK dep \in Nat : dep = state.total_deposited
      BY <1>1 DEF FeeAccrualState
    <2>5. /\ state'.epoch = k + 1 /\ state'.carry = pool - dist
          /\ state'.total_deposited = dep + amount
          /\ state'.acc_fee_per_share = state.acc_fee_per_share + delta
      BY <1>1, <1>7, <2>2, <2>4 DEF FeeAccrualState
    <2>6. IsDistributed(delta, dist)
      BY <1>3, <1>5, <1>6 DEF distributed, IsDistributed
    <2>7. /\ FeesClaimable \in Int /\ FeesClaimable' \in Int
          /\ FeesClaimable' - FeesClaimable <= dist + N
          /\ dist <= FeesClaimable' - FeesClaimable + N
      BY <1>1, <2>1, <2>5, <2>6, AccrueNearlyCovers
    <2>8. PICK c \in Int : c = FeesClaimable
      BY <2>7
    <2>9. PICK d \in Int : d = FeesClaimable'
      BY <2>7
    <2>10. PICK m \in Int : m = k * N
      OBVIOUS
    <2>11. PICK ca \in Nat : ca = state.carry
      BY <1>1 DEF FeeAccrualState
    <2>12. c + cl + ca <= dep + m /\ dep <= c + cl + ca + m
      BY <2>1, <2>2, <2>3, <2>4, <2>8, <2>10, <2>11 DEF FeeInv, FeesNearlyCovered
    <2>13. (k + 1) * N = m + N
      BY <2>10
    <2>14. d - c <= dist + N /\ dist <= d - c + N
      BY <2>7, <2>8, <2>9
    <2>15. pool = amount + ca /\ amount \in Int
      BY <1>1, <1>3, <2>11
    <2>16. /\ d + cl + (pool - dist) <= dep + amount + (m + N)
           /\ dep + amount <= d + cl + (pool - dist) + (m + N)
      BY <2>12, <2>14, <2>15
    <2> QED
      BY <1>1, <2>1, <2>3, <2>5, <2>9, <2>13, <2>16 DEF FeesNearlyCovered
  <1> QED
    BY <1>1, <1>8, <1>9, <1>10, <1>11, <1>12 DEF FeeInv, FeeTypeOK

\* What a holder's step takes from its pending fees it adds to the claimed ones.
ClaimsAddUp(s, r) == r + feesClaimed' = PendingOf(s) + feesClaimed

\* A step of one holder: its new position, with the debt of its shares, and the shares
\* in the vault's total.
LEMMA HolderKeeps ==
    ASSUME FeeInv, NEW s \in ShareHolders, NEW n \in Nat, NEW r \in Nat, feesClaimed' \in Nat,
           ClaimsAddUp(s, r),
           position' = [position EXCEPT ![s] =
               [shares |-> n, fee_debt |-> accumulated_for(n, state.acc_fee_per_share),
                realized |-> r]],
           state' = [state EXCEPT !.total_shares = state.total_shares - position[s].shares + n]
    PROVE  FeeInv' /\ \A q \in ShareHolders : PendingOf(q)' = IF q = s THEN r ELSE PendingOf(q)
  <1>1. /\ state \in FeeAccrualState /\ position \in [ShareHolders -> StakerFeePosition]
        /\ IsFiniteSet(ShareHolders)
    BY FeeConstants DEF FeeInv, FeeTypeOK
  <1>2. PICK acc \in Nat : acc = state.acc_fee_per_share
    BY <1>1 DEF FeeAccrualState
  <1>3. PICK e \in StakerFeePosition :
            /\ e = [shares |-> n, fee_debt |-> accumulated_for(n, acc), realized |-> r]
            /\ pending(acc, e) = r
    <2>1. PICK e : e = [shares |-> n, fee_debt |-> accumulated_for(n, acc), realized |-> r]
      OBVIOUS
    <2>2. e \in StakerFeePosition /\ pending(acc, e) = r
      BY <2>1, PendingOfSettled
    <2> QED
      BY <2>1, <2>2
  <1>4. position' = [position EXCEPT ![s] = e] /\ position' \in [ShareHolders -> StakerFeePosition]
    BY <1>1, <1>2, <1>3
  <1>5. PICK f : f = [q \in ShareHolders |-> position[q].shares]
    OBVIOUS
  <1>6. PICK g : g = [q \in ShareHolders |-> position'[q].shares]
    OBVIOUS
  <1>7. /\ \A q \in ShareHolders : f[q] \in Nat /\ g[q] \in Nat
        /\ \A q \in ShareHolders \ {s} : g[q] = f[q]
        /\ f[s] = position[s].shares /\ g[s] = n
    BY <1>1, <1>3, <1>4, <1>5, <1>6 DEF StakerFeePosition
  <1>8. \A q \in ShareHolders : f[q] \in Int /\ g[q] \in Int
    BY <1>7
  <1>9. /\ SumFunctionOnSet(g, ShareHolders) = SumFunctionOnSet(f, ShareHolders) - f[s] + g[s]
        /\ SumFunctionOnSet(g, ShareHolders) \in Nat
    <2>1. SumFunctionOnSet(g, ShareHolders) = SumFunctionOnSet(f, ShareHolders) - f[s] + g[s]
      <3>1. IsFiniteSet(ShareHolders)
        BY <1>1
      <3>2. \A q \in ShareHolders \ {s} : g[q] = f[q]
        BY <1>7
      <3> QED
        BY <1>8, <3>1, <3>2, SumChanges
    <2>2. SumFunctionOnSet(g, ShareHolders) \in Nat
      <3>1. IsFiniteSet(ShareHolders)
        BY <1>1
      <3> QED
        BY <1>7, <3>1, SumBounds
    <2> QED
      BY <2>1, <2>2
  <1>10. state.total_shares = SumFunctionOnSet(f, ShareHolders)
    BY <1>5 DEF FeeInv, BooksBalance
  <1>11. /\ state' = [state EXCEPT !.total_shares = SumFunctionOnSet(g, ShareHolders)]
         /\ state' \in FeeAccrualState
    BY <1>1, <1>7, <1>9, <1>10 DEF FeeAccrualState
  <1>12. BooksBalance'
    <2>1. /\ state'.total_shares = SumFunctionOnSet(g, ShareHolders)
          /\ state'.total_deposited = state.total_deposited
          /\ state'.total_distributed = state.total_distributed /\ state'.carry = state.carry
      BY <1>1, <1>11 DEF FeeAccrualState
    <2> QED
      BY <1>6, <2>1 DEF FeeInv, BooksBalance
  <1>13. state'.acc_fee_per_share = acc
    BY <1>1, <1>2, <1>11 DEF FeeAccrualState
  <1>14. DebtNeverAhead'
    <2> SUFFICES ASSUME NEW q \in ShareHolders
                 PROVE  position'[q].fee_debt <= accumulated_for(position'[q].shares, acc)
      BY <1>13 DEF DebtNeverAhead, accumulated_for
    <2>1. CASE q = s
      <3>1. accumulated_for(n, acc) \in Nat
        BY AccumulatedGrows
      <3> QED
        BY <1>1, <1>3, <1>4, <2>1, <3>1
    <2>2. CASE q # s
      BY <1>1, <1>2, <1>4, <2>2 DEF FeeInv, DebtNeverAhead
    <2> QED
      BY <2>1, <2>2
  <1>15. ASSUME NEW q \in ShareHolders
         PROVE  PendingOf(q)' = IF q = s THEN r ELSE PendingOf(q)
    <2>1. PendingOf(q)' = pending(acc, position'[q]) /\ PendingOf(q) = pending(acc, position[q])
      BY <1>2, <1>13 DEF PendingOf, pending, newly_accrued, accumulated_for
    <2> QED
      BY <1>1, <1>3, <1>4, <2>1
  <1>16. FeesNearlyCovered'
    <2>1. PICK old : old = [q \in ShareHolders |-> PendingOf(q)]
      OBVIOUS
    <2>2. PICK new : new = [q \in ShareHolders |-> PendingOf(q)']
      OBVIOUS
    <2>3. /\ \A q \in ShareHolders : old[q] \in Int /\ new[q] \in Int
          /\ \A q \in ShareHolders \ {s} : new[q] = old[q]
          /\ new[s] = r /\ old[s] = PendingOf(s)
      <3>1. \A q \in ShareHolders : PendingOf(q) \in Nat
        BY <1>1, <1>2, SettledIs DEF PendingOf
      <3> QED
        BY <1>15, <2>1, <2>2, <3>1
    <2>4. SumFunctionOnSet(new, ShareHolders) = SumFunctionOnSet(old, ShareHolders) - old[s] + new[s]
      <3>1. IsFiniteSet(ShareHolders)
        BY <1>1
      <3>2. \A q \in ShareHolders : old[q] \in Int /\ new[q] \in Int
        BY <2>3
      <3>3. \A q \in ShareHolders \ {s} : new[q] = old[q]
        BY <2>3
      <3> QED
        BY <3>1, <3>2, <3>3, SumChanges
    <2>5. SumFunctionOnSet(old, ShareHolders) \in Int
      BY <1>1, <2>3, SumType
    <2>6. feesClaimed \in Nat /\ old[s] \in Int
      BY <2>3 DEF FeeInv, FeeTypeOK
    <2>7. FeesClaimable' = SumFunctionOnSet(new, ShareHolders)
      BY <2>2 DEF FeesClaimable
    <2>8. FeesClaimable = SumFunctionOnSet(old, ShareHolders)
      BY <2>1 DEF FeesClaimable
    <2>9. FeesClaimable' + feesClaimed' = FeesClaimable + feesClaimed
      BY <2>3, <2>4, <2>5, <2>6, <2>7, <2>8 DEF ClaimsAddUp
    <2>10. /\ state'.carry = state.carry /\ state'.epoch = state.epoch
           /\ state'.total_deposited = state.total_deposited
      BY <1>1, <1>11 DEF FeeAccrualState
    <2> QED
      BY <2>9, <2>10 DEF FeeInv, FeesNearlyCovered
  <1> QED
    BY <1>4, <1>11, <1>12, <1>14, <1>15, <1>16 DEF FeeInv, FeeTypeOK

\* Joining, leaving, settling and claiming keep what everybody can claim.
KeepsPending(s) ==
    \/ PendingOf(s)' = PendingOf(s)
    \/ PendingOf(s)' = 0 /\ feesClaimed' = feesClaimed + PendingOf(s)

\* Every step of the fee accrual keeps the books, and all but a deposit what is pending.
LEMMA FeeStep ==
    ASSUME FeeInv, FeeNext
    PROVE  FeeInv' /\ (state'.epoch = state.epoch => \A s \in ShareHolders : KeepsPending(s))
  <1>1. CASE \E a \in FeeAmounts, l, t \in Ledgers : accrue_deposit(a, l, t)
    BY <1>1, AccrueKeeps
  <1>2. ASSUME NEW s \in ShareHolders
        PROVE  /\ position[s] \in StakerFeePosition /\ state \in FeeAccrualState
               /\ state.acc_fee_per_share \in Nat /\ position[s].shares \in Nat
               /\ feesClaimed \in Nat /\ PendingOf(s) \in Nat
               /\ settled(state.acc_fee_per_share, position[s])
                    = [shares |-> position[s].shares,
                       fee_debt |-> accumulated_for(position[s].shares, state.acc_fee_per_share),
                       realized |-> PendingOf(s)]
    <2>1. /\ position[s] \in StakerFeePosition /\ state \in FeeAccrualState
          /\ state.acc_fee_per_share \in Nat /\ feesClaimed \in Nat
      BY DEF FeeInv, FeeTypeOK, FeeAccrualState
    <2> QED
      BY <2>1, SettledIs DEF PendingOf, StakerFeePosition
  <1>3. ASSUME NEW s \in ShareHolders
        PROVE  state = [state EXCEPT !.total_shares =
                            state.total_shares - position[s].shares + position[s].shares]
    <2>1. state \in FeeAccrualState /\ position[s].shares \in Nat
      BY <1>2
    <2>2. state.total_shares \in Nat
      BY <2>1 DEF FeeAccrualState
    <2>3. state.total_shares - position[s].shares + position[s].shares = state.total_shares
      BY <2>1, <2>2
    <2> QED
      BY <2>1, <2>3 DEF FeeAccrualState
  <1>4. ASSUME NEW s \in ShareHolders, settle(s)
        PROVE  FeeInv' /\ \A q \in ShareHolders : KeepsPending(q)
    <2>1. /\ position' = [position EXCEPT ![s] =
                 [shares |-> position[s].shares,
                  fee_debt |-> accumulated_for(position[s].shares, state.acc_fee_per_share),
                  realized |-> PendingOf(s)]]
          /\ state' = [state EXCEPT !.total_shares =
                           state.total_shares - position[s].shares + position[s].shares]
          /\ feesClaimed' \in Nat /\ ClaimsAddUp(s, PendingOf(s))
      BY <1>2, <1>3, <1>4 DEF settle, ClaimsAddUp
    <2> QED
      BY <1>2, <2>1, HolderKeeps DEF KeepsPending
  <1>5. ASSUME NEW s \in ShareHolders, claim(s)
        PROVE  FeeInv' /\ \A q \in ShareHolders : KeepsPending(q)
    <2>1. /\ position' = [position EXCEPT ![s] =
                 [shares |-> position[s].shares,
                  fee_debt |-> accumulated_for(position[s].shares, state.acc_fee_per_share),
                  realized |-> 0]]
          /\ state' = [state EXCEPT !.total_shares =
                           state.total_shares - position[s].shares + position[s].shares]
          /\ feesClaimed' = feesClaimed + PendingOf(s)
      <3>1. PICK d : d = accumulated_for(position[s].shares, state.acc_fee_per_share)
        OBVIOUS
      <3>2. PICK c : /\ c = settled(state.acc_fee_per_share, position[s])
                     /\ c = [shares |-> position[s].shares, fee_debt |-> d,
                            realized |-> PendingOf(s)]
        BY <1>2, <3>1
      <3>3. c.realized = PendingOf(s) /\ [c EXCEPT !.realized = 0]
                = [shares |-> position[s].shares, fee_debt |-> d, realized |-> 0]
        BY <3>2
      <3>4. /\ position' = [position EXCEPT ![s] = [c EXCEPT !.realized = 0]]
            /\ feesClaimed' = feesClaimed + c.realized /\ state' = state
        BY <1>5, <3>2 DEF claim
      <3> QED
        BY <1>3, <3>1, <3>3, <3>4
    <2>2. /\ feesClaimed' \in Nat /\ 0 \in Nat /\ position[s].shares \in Nat
          /\ ClaimsAddUp(s, 0)
      <3>1. feesClaimed \in Nat /\ PendingOf(s) \in Nat /\ position[s].shares \in Nat
        BY <1>2
      <3> QED
        BY <2>1, <3>1 DEF ClaimsAddUp
    <2> QED
      BY <2>1, <2>2, HolderKeeps DEF KeepsPending
  <1>6. ASSUME NEW s \in ShareHolders, NEW n \in Nat,
               position' = [position EXCEPT ![s] = with_shares(@, n)],
               state' = [state EXCEPT !.total_shares = state.total_shares - position[s].shares + n],
               feesClaimed' = feesClaimed
        PROVE  FeeInv' /\ \A q \in ShareHolders : KeepsPending(q)
    <2>1. with_shares(position[s], n)
            = [shares |-> n, fee_debt |-> accumulated_for(n, state.acc_fee_per_share),
               realized |-> PendingOf(s)]
      <3>1. PICK d : d = accumulated_for(n, state.acc_fee_per_share)
        OBVIOUS
      <3>2. PICK c : c = settled(state.acc_fee_per_share, position[s])
        OBVIOUS
      <3>3. PICK b : c = [shares |-> position[s].shares, fee_debt |-> b,
                          realized |-> PendingOf(s)]
        BY <1>2, <3>2
      <3>4. with_shares(position[s], n) = [c EXCEPT !.shares = n, !.fee_debt = d]
        BY <3>1, <3>2 DEF with_shares
      <3> QED
        BY <3>1, <3>3, <3>4
    <2>2. position' = [position EXCEPT ![s] =
              [shares |-> n, fee_debt |-> accumulated_for(n, state.acc_fee_per_share),
               realized |-> PendingOf(s)]]
      BY <1>6, <2>1
    <2>3. ClaimsAddUp(s, PendingOf(s))
      BY <1>6 DEF ClaimsAddUp
    <2>4. PICK r \in Nat : r = PendingOf(s)
      BY <1>2
    <2>5. /\ position' = [position EXCEPT ![s] =
                 [shares |-> n, fee_debt |-> accumulated_for(n, state.acc_fee_per_share),
                  realized |-> r]]
          /\ ClaimsAddUp(s, r) /\ feesClaimed' \in Nat
      BY <1>2, <1>6, <2>2, <2>3, <2>4
    <2>6. /\ FeeInv'
          /\ \A q \in ShareHolders : PendingOf(q)' = IF q = s THEN r ELSE PendingOf(q)
      BY <1>6, <2>5, HolderKeeps
    <2> QED
      BY <2>4, <2>6 DEF KeepsPending
  <1>7. ASSUME NEW s \in ShareHolders, NEW a \in FeeAmounts, add_shares(s, a)
        PROVE  FeeInv' /\ \A q \in ShareHolders : KeepsPending(q)
    <2>1. PICK n \in Nat : n = position[s].shares + a
      <3>1. a \in Int /\ position[s].shares \in Nat
        BY <1>2, FeeConstants
      <3> QED
        BY <1>7, <3>1 DEF add_shares
    <2>2. state' = [state EXCEPT !.total_shares = state.total_shares - position[s].shares + n]
      <3>1. state.total_shares \in Nat /\ a \in Int /\ position[s].shares \in Nat
        <4>1. state \in FeeAccrualState /\ position[s].shares \in Nat
          BY <1>2
        <4> QED
          BY <4>1, FeeConstants DEF FeeAccrualState
      <3>2. state.total_shares + a = state.total_shares - position[s].shares + n
        BY <2>1, <3>1
      <3> QED
        BY <1>7, <3>2 DEF add_shares
    <2> QED
      BY <1>6, <1>7, <2>1, <2>2 DEF add_shares
  <1>8. ASSUME NEW s \in ShareHolders, NEW a \in FeeAmounts, remove_shares(s, a)
        PROVE  FeeInv' /\ \A q \in ShareHolders : KeepsPending(q)
    <2>1. PICK n \in Nat : n = position[s].shares - a
      <3>1. a \in Int /\ position[s].shares \in Nat
        BY <1>2, FeeConstants
      <3> QED
        BY <1>8, <3>1 DEF remove_shares
    <2>2. state' = [state EXCEPT !.total_shares = state.total_shares - position[s].shares + n]
      <3>1. state.total_shares \in Nat /\ a \in Int /\ position[s].shares \in Nat
        <4>1. state \in FeeAccrualState /\ position[s].shares \in Nat
          BY <1>2
        <4> QED
          BY <4>1, FeeConstants DEF FeeAccrualState
      <3>2. state.total_shares - a = state.total_shares - position[s].shares + n
        BY <2>1, <3>1
      <3> QED
        BY <1>8, <3>2 DEF remove_shares
    <2>3. position' = [position EXCEPT ![s] = with_shares(@, n)]
      BY <1>8, <2>1 DEF remove_shares
    <2> QED
      BY <1>6, <1>8, <2>1, <2>2, <2>3 DEF remove_shares
  <1> QED
    BY <1>1, <1>4, <1>5, <1>7, <1>8 DEF FeeNext

----------------------------------------------------------------------------
\* Reward buckets.

\* Sums over the buckets bs, and which of them are whose.
SumIn(bs, I) == SumFunctionOnSet([id \in DOMAIN bs |-> bs[id].amount], I)
Own(bs, p, a) == {id \in DOMAIN bs : bs[id].provider = p /\ bs[id].asset = a}
PaidIn(bs, c, p, a) == {id \in Own(bs, p, a) : <<p, id>> \in c}

\* What a provider's buckets hold, given which of them have been claimed.
BucketsPaid(bs, c, bal, rec) ==
    \A p \in Providers, a \in Assets :
        /\ bal[<<p, a>>] = SumIn(bs, Own(bs, p, a) \ PaidIn(bs, c, p, a))
        /\ rec[<<p, a>>] = SumIn(bs, PaidIn(bs, c, p, a))

InAsset(f, a) == SumFunctionOnSet(f, Providers \X {a})

RewardInv ==
    /\ RewardTypeOK
    /\ BucketsPaid(buckets, claimedBuckets, providerBal, received)
    /\ AssetsCovered

\* Sets of buckets are finite and hold natural amounts.
LEMMA BucketSets ==
    ASSUME NEW bs \in Seq(Bucket), NEW I \in SUBSET DOMAIN bs
    PROVE  IsFiniteSet(I) /\ \A id \in I : bs[id].amount \in Nat
  <1>1. DOMAIN bs = 1..Len(bs) /\ Len(bs) \in Nat
    OBVIOUS
  <1>2. IsFiniteSet(DOMAIN bs)
    BY <1>1, FS_Interval
  <1>3. IsFiniteSet(I)
    BY <1>2, FS_Subset
  <1>4. \A id \in DOMAIN bs : bs[id] \in Bucket
    OBVIOUS
  <1> QED
    BY <1>3, <1>4 DEF Bucket

\* Taking a bucket out of a set takes its amount out of the sum.
LEMMA TakeBucket ==
    ASSUME NEW bs \in Seq(Bucket), NEW I \in SUBSET DOMAIN bs, NEW id \in I
    PROVE  /\ SumIn(bs, I) = bs[id].amount + SumIn(bs, I \ {id})
           /\ SumIn(bs, I) \in Nat /\ SumIn(bs, I \ {id}) \in Nat /\ bs[id].amount \in Nat
  <1>1. PICK f : f = [j \in DOMAIN bs |-> bs[j].amount]
    OBVIOUS
  <1>2. IsFiniteSet(I) /\ \A j \in I : f[j] \in Nat
    BY <1>1, BucketSets
  <1>3. PICK J \in SUBSET DOMAIN bs : J = I \ {id}
    OBVIOUS
  <1>4. IsFiniteSet(J) /\ \A j \in J : f[j] \in Nat
    BY <1>1, BucketSets
  <1>5. \A j \in I : f[j] \in Int
    BY <1>2
  <1>6. SumFunctionOnSet(f, I) = f[id] + SumFunctionOnSet(f, I \ {id})
    BY <1>2, <1>5, SumTakes
  <1>7. SumFunctionOnSet(f, I) \in Nat
    BY <1>2, SumBounds
  <1>8. SumFunctionOnSet(f, J) \in Nat
    BY <1>4, SumBounds
  <1>9. f[id] = bs[id].amount /\ f[id] \in Nat
    BY <1>1, <1>2
  <1> QED
    BY <1>1, <1>3, <1>6, <1>7, <1>8, <1>9 DEF SumIn

\* The balances in an asset change by what one provider's balance changes.
LEMMA InAssetChanges ==
    ASSUME NEW f \in [Providers \X Assets -> Nat], NEW g \in [Providers \X Assets -> Nat],
           NEW p \in Providers, NEW a \in Assets,
           \A q \in Providers \ {p} : g[<<q, a>>] = f[<<q, a>>]
    PROVE  /\ InAsset(g, a) = InAsset(f, a) - f[<<p, a>>] + g[<<p, a>>]
           /\ InAsset(f, a) \in Nat /\ InAsset(g, a) \in Nat
  <1>1. PICK I : I = Providers \X {a}
    OBVIOUS
  <1>2. IsFiniteSet(I)
    <2>1. IsFiniteSet(Providers) /\ IsFiniteSet({a})
      BY RewardConstants, FS_Singleton
    <2> QED
      BY <1>1, <2>1, FS_Product
  <1>3. /\ \A i \in I : f[i] \in Nat /\ g[i] \in Nat
        /\ \A i \in I : f[i] \in Int /\ g[i] \in Int
    BY <1>1
  <1>4. PICK k \in I : k = <<p, a>>
    BY <1>1
  <1>5. \A i \in I \ {k} : g[i] = f[i]
    BY <1>1, <1>4
  <1>6. SumFunctionOnSet(g, I) = SumFunctionOnSet(f, I) - f[k] + g[k]
    BY <1>2, <1>3, <1>5, SumChanges
  <1>7. SumFunctionOnSet(f, I) \in Nat
    BY <1>2, <1>3, SumBounds
  <1>8. SumFunctionOnSet(g, I) \in Nat
    BY <1>2, <1>3, SumBounds
  <1> QED
    BY <1>1, <1>4, <1>6, <1>7, <1>8 DEF InAsset

\* Balances that are the same in an asset have the same sum there.
LEMMA InAssetSame ==
    ASSUME NEW f, NEW g, NEW a, \A q \in Providers : g[<<q, a>>] = f[<<q, a>>]
    PROVE  InAsset(g, a) = InAsset(f, a)
  <1>1. PICK I : I = Providers \X {a}
    OBVIOUS
  <1>2. IsFiniteSet(I)
    <2>1. IsFiniteSet(Providers) /\ IsFiniteSet({a})
      BY RewardConstants, FS_Singleton
    <2> QED
      BY <1>1, <2>1, FS_Product
  <1>3. \A i \in I : g[i] = f[i]
    BY <1>1
  <1>4. SumFunctionOnSet(g, I) = SumFunctionOnSet(f, I)
    BY <1>2, <1>3, SumAgrees
  <1> QED
    BY <1>1, <1>4 DEF InAsset

\* A deposit makes a bucket of its own and credits its provider.
LEMMA RewardDepositKeeps ==
    ASSUME RewardInv, NEW p \in Providers, NEW a \in Assets, NEW amount \in RewardAmounts,
           deposit_reward(p, a, amount)
    PROVE  RewardInv'
  <1>1. RewardTypeOK /\ amount \in Nat
    BY RewardConstants DEF RewardInv, deposit_reward
  <1>2. PICK n \in Nat : n = Len(buckets) + 1
    BY <1>1 DEF RewardTypeOK
  <1>3. PICK b \in Bucket : b = [provider |-> p, asset |-> a, amount |-> amount]
    BY <1>1 DEF Bucket
  <1>4. /\ buckets' = Append(buckets, b) /\ claimedBuckets' = claimedBuckets
        /\ received' = received
    BY <1>3 DEF deposit_reward
  <1>5. /\ buckets' \in Seq(Bucket) /\ n \notin DOMAIN buckets
        /\ DOMAIN buckets' = DOMAIN buckets \cup {n}
        /\ buckets'[n] = b /\ \A id \in DOMAIN buckets : buckets'[id] = buckets[id]
    <2>1. buckets \in Seq(Bucket)
      BY <1>1 DEF RewardTypeOK
    <2> QED
      BY <1>2, <1>4, <2>1
  <1>6. PICK bal \in Nat : bal = providerBal[<<p, a>>]
    BY <1>1 DEF RewardTypeOK
  <1>7. /\ providerBal' = [providerBal EXCEPT ![<<p, a>>] = bal + amount]
        /\ providerBal' \in [Providers \X Assets -> Nat]
    BY <1>1, <1>6 DEF deposit_reward, RewardTypeOK
  <1>8. PICK tot \in Nat : tot = totalDeposited[a]
    BY <1>1 DEF RewardTypeOK
  <1>9. PICK held \in Nat : held = vaultAssets[a]
    BY <1>1 DEF RewardTypeOK
  <1>10. /\ totalDeposited' = [totalDeposited EXCEPT ![a] = tot + amount]
         /\ vaultAssets' = [vaultAssets EXCEPT ![a] = held + amount]
         /\ totalDeposited' \in [Assets -> Nat] /\ vaultAssets' \in [Assets -> Nat]
    BY <1>1, <1>8, <1>9 DEF deposit_reward, RewardTypeOK
  <1>11. RewardTypeOK'
    <2>1. rewardsPaused' \in BOOLEAN /\ supported' \in SUBSET Assets
      BY <1>1 DEF deposit_reward, RewardTypeOK
    <2>2. claimedBuckets' \subseteq Providers \X (DOMAIN buckets')
      BY <1>1, <1>4, <1>5 DEF RewardTypeOK
    <2>3. received' \in [Providers \X Assets -> Nat]
      BY <1>1, <1>4 DEF RewardTypeOK
    <2> QED
      BY <1>5, <1>7, <1>10, <2>1, <2>2, <2>3 DEF RewardTypeOK
  <1>12. ASSUME NEW I \in SUBSET DOMAIN buckets
         PROVE  SumIn(buckets', I) = SumIn(buckets, I)
    <2>1. IsFiniteSet(I)
      BY <1>1, BucketSets DEF RewardTypeOK
    <2>2. PICK f : f = [id \in DOMAIN buckets |-> buckets[id].amount]
      OBVIOUS
    <2>3. PICK g : g = [id \in DOMAIN buckets' |-> buckets'[id].amount]
      OBVIOUS
    <2>4. \A id \in I : g[id] = f[id]
      BY <1>5, <2>2, <2>3
    <2>5. SumFunctionOnSet(g, I) = SumFunctionOnSet(f, I)
      BY <2>1, <2>4, SumAgrees
    <2> QED
      BY <2>2, <2>3, <2>5 DEF SumIn
  <1>13. \A q \in Providers : <<q, n>> \notin claimedBuckets
    BY <1>1, <1>5 DEF RewardTypeOK
  <1>14. ASSUME NEW q \in Providers, NEW c \in Assets
         PROVE  /\ Own(buckets', q, c) = IF q = p /\ c = a THEN Own(buckets, q, c) \cup {n}
                                         ELSE Own(buckets, q, c)
                /\ Own(buckets, q, c) \in SUBSET DOMAIN buckets
                /\ PaidIn(buckets', claimedBuckets, q, c) = PaidIn(buckets, claimedBuckets, q, c)
    <2>1. Own(buckets, q, c) \in SUBSET DOMAIN buckets
      BY DEF Own
    <2>2. Own(buckets', q, c) = IF q = p /\ c = a THEN Own(buckets, q, c) \cup {n}
                                ELSE Own(buckets, q, c)
      BY <1>3, <1>5 DEF Own
    <2> QED
      BY <1>13, <2>1, <2>2 DEF PaidIn
  <1>15. BucketsPaid(buckets', claimedBuckets, providerBal', received)
    <2> SUFFICES ASSUME NEW q \in Providers, NEW c \in Assets
                 PROVE  /\ providerBal'[<<q, c>>]
                             = SumIn(buckets', Own(buckets', q, c)
                                                 \ PaidIn(buckets', claimedBuckets, q, c))
                        /\ received[<<q, c>>] = SumIn(buckets', PaidIn(buckets', claimedBuckets, q, c))
      BY DEF BucketsPaid
    <2>1. PICK paid : paid = PaidIn(buckets, claimedBuckets, q, c)
      OBVIOUS
    <2>2. PICK open : open = Own(buckets, q, c) \ paid
      OBVIOUS
    <2>3. paid \in SUBSET DOMAIN buckets /\ open \in SUBSET DOMAIN buckets
      BY <1>14, <2>1, <2>2 DEF PaidIn
    <2>4. /\ SumIn(buckets', paid) = SumIn(buckets, paid)
          /\ SumIn(buckets', open) = SumIn(buckets, open)
      BY <1>12, <2>3
    <2>5. providerBal[<<q, c>>] = SumIn(buckets, open) /\ received[<<q, c>>] = SumIn(buckets, paid)
      BY <2>1, <2>2 DEF RewardInv, BucketsPaid
    <2>6. received[<<q, c>>] = SumIn(buckets', PaidIn(buckets', claimedBuckets, q, c))
      BY <1>14, <2>1, <2>4, <2>5
    <2>7. CASE q = p /\ c = a
      <3>1. PICK J : J = Own(buckets', q, c) \ PaidIn(buckets', claimedBuckets, q, c)
        OBVIOUS
      <3>2. J = open \cup {n}
        BY <1>5, <1>14, <2>1, <2>2, <2>3, <2>7, <3>1
      <3>3. J \in SUBSET DOMAIN buckets' /\ n \in J /\ J \ {n} = open
        BY <1>5, <2>3, <3>2
      <3>4. SumIn(buckets', J) = buckets'[n].amount + SumIn(buckets', open)
        BY <1>5, <3>3, TakeBucket
      <3>5. /\ providerBal'[<<q, c>>] = bal + amount /\ bal = SumIn(buckets, open)
            /\ buckets'[n].amount = amount
        BY <1>1, <1>3, <1>5, <1>6, <1>7, <2>5, <2>7 DEF RewardTypeOK
      <3> QED
        BY <1>1, <2>4, <2>6, <3>1, <3>4, <3>5
    <2>8. CASE ~ (q = p /\ c = a)
      <3>1. Own(buckets', q, c) \ PaidIn(buckets', claimedBuckets, q, c) = open
        BY <1>14, <2>1, <2>2, <2>8
      <3>2. providerBal'[<<q, c>>] = providerBal[<<q, c>>]
        BY <1>1, <1>7, <2>8 DEF RewardTypeOK
      <3> QED
        BY <2>4, <2>5, <2>6, <3>1, <3>2
    <2> QED
      BY <2>7, <2>8
  <1>16. AssetsCovered'
    <2> SUFFICES ASSUME NEW c \in Assets
                 PROVE  /\ vaultAssets'[c] = InAsset(providerBal', c)
                        /\ totalDeposited'[c] = vaultAssets'[c] + InAsset(received', c)
      BY DEF AssetsCovered, InAsset
    <2>1. /\ vaultAssets[c] = InAsset(providerBal, c)
          /\ totalDeposited[c] = vaultAssets[c] + InAsset(received, c)
      BY DEF RewardInv, AssetsCovered, InAsset
    <2>2. PICK r \in Nat : r = InAsset(received, c)
      <3>1. received \in [Providers \X Assets -> Nat]
        BY <1>1 DEF RewardTypeOK
      <3> QED
        BY <3>1, InAssetChanges
    <2>3. InAsset(received', c) = r
      BY <1>4, <2>2
    <2>4. CASE c = a
      <3>1. InAsset(providerBal', c) = InAsset(providerBal, c) - bal + (bal + amount)
        <4>1. /\ providerBal \in [Providers \X Assets -> Nat]
              /\ \A q \in Providers \ {p} : providerBal'[<<q, a>>] = providerBal[<<q, a>>]
              /\ providerBal'[<<p, a>>] = bal + amount
          BY <1>1, <1>7 DEF RewardTypeOK
        <4>2. PICK f \in [Providers \X Assets -> Nat] : f = providerBal
          BY <4>1
        <4>3. PICK g \in [Providers \X Assets -> Nat] : g = providerBal'
          BY <1>7
        <4>4. \A q \in Providers \ {p} : g[<<q, a>>] = f[<<q, a>>]
          BY <4>1, <4>2, <4>3
        <4>5. InAsset(g, a) = InAsset(f, a) - f[<<p, a>>] + g[<<p, a>>]
          BY <4>4, InAssetChanges
        <4> QED
          BY <1>6, <2>4, <4>1, <4>2, <4>3, <4>5
      <3>2. vaultAssets'[c] = held + amount /\ totalDeposited'[c] = tot + amount
        BY <1>1, <1>10, <2>4 DEF RewardTypeOK
      <3>3. held = InAsset(providerBal, c) /\ tot = held + r
        BY <1>8, <1>9, <2>1, <2>2, <2>4
      <3>4. held + amount = held - bal + (bal + amount) /\ tot + amount = held + amount + r
        BY <1>1, <3>3
      <3> QED
        BY <2>3, <3>1, <3>2, <3>3, <3>4
    <2>5. CASE c # a
      <3>1. \A q \in Providers : providerBal'[<<q, c>>] = providerBal[<<q, c>>]
        BY <1>1, <1>7, <2>5 DEF RewardTypeOK
      <3>2. InAsset(providerBal', c) = InAsset(providerBal, c)
        BY <3>1, InAssetSame
      <3>3. vaultAssets'[c] = vaultAssets[c] /\ totalDeposited'[c] = totalDeposited[c]
        BY <1>1, <1>10, <2>5 DEF RewardTypeOK
      <3> QED
        BY <2>1, <2>2, <2>3, <3>2, <3>3
    <2> QED
      BY <2>4, <2>5
  <1> QED
    BY <1>4, <1>11, <1>15, <1>16 DEF RewardInv

\* One call of batch_claim_rewards: after the first i ids of the list, the claimed
\* buckets, the balances and the totals to be transferred agree.
ClaimSoFar(p, i, acc) ==
    /\ acc \in [claimed : SUBSET (Providers \X (DOMAIN buckets)),
               bal : [Providers \X Assets -> Nat], totals : [Assets -> Nat]]
    /\ \A q \in Providers \ {p}, id \in DOMAIN buckets :
          <<q, id>> \in acc.claimed <=> <<q, id>> \in claimedBuckets
    /\ \A q \in Providers \ {p}, a \in Assets : acc.bal[<<q, a>>] = providerBal[<<q, a>>]
    /\ \A a \in Assets :
          /\ acc.bal[<<p, a>>] = SumIn(buckets, Own(buckets, p, a) \ PaidIn(buckets, acc.claimed, p, a))
          /\ received[<<p, a>>] + acc.totals[a] = SumIn(buckets, PaidIn(buckets, acc.claimed, p, a))
          /\ providerBal[<<p, a>>] = acc.bal[<<p, a>>] + acc.totals[a]
ClaimOne(p, acc, id) == claim_bucket(acc, p, id)
ClaimFold == INSTANCE FoldTheorems WITH Op <- ClaimOne, P <- ClaimSoFar

\* One id of the list: a bucket is paid at most once, whatever the list repeats.
LEMMA ClaimOneKeeps ==
    ASSUME RewardInv, NEW p \in Providers, NEW i, NEW j, NEW acc, ClaimSoFar(p, i, acc), NEW id
    PROVE  ClaimSoFar(p, j, ClaimOne(p, acc, id))
  <1>1. CASE ~ Claimable(acc, p, id)
    BY <1>1 DEF ClaimSoFar, ClaimOne, claim_bucket
  <1>2. CASE Claimable(acc, p, id)
    <2>1. RewardTypeOK /\ buckets \in Seq(Bucket)
      BY DEF RewardInv, RewardTypeOK
    <2>2. id \in DOMAIN buckets /\ <<p, id>> \notin acc.claimed /\ buckets[id].provider = p
      BY <1>2 DEF Claimable
    <2>3. PICK b \in Assets : b = buckets[id].asset
      <3>1. buckets[id] \in Bucket
        BY <2>1, <2>2
      <3> QED
        BY <3>1 DEF Bucket
    <2>4. PICK m \in Nat : m = buckets[id].amount
      <3>1. buckets[id] \in Bucket
        BY <2>1, <2>2
      <3> QED
        BY <3>1 DEF Bucket
    <2>5. PICK open : open = Own(buckets, p, b) \ PaidIn(buckets, acc.claimed, p, b)
      OBVIOUS
    <2>6. open \in SUBSET DOMAIN buckets /\ id \in open
      BY <2>2, <2>3, <2>5 DEF Own, PaidIn
    <2>7. PICK paid : paid = PaidIn(buckets, acc.claimed, p, b)
      OBVIOUS
    <2>8. PICK J : J = paid \cup {id}
      OBVIOUS
    <2>9. J \in SUBSET DOMAIN buckets /\ id \in J /\ J \ {id} = paid
      BY <2>2, <2>7, <2>8 DEF Own, PaidIn
    <2>10. PICK was \in Nat : was = acc.bal[<<p, b>>] /\ was = SumIn(buckets, open)
      BY <2>5 DEF ClaimSoFar
    <2>11. PICK tot \in Nat : tot = acc.totals[b]
      BY DEF ClaimSoFar
    <2>12. PICK rest \in Nat : rest = SumIn(buckets, open \ {id}) /\ was = m + rest
      BY <2>1, <2>4, <2>6, <2>10, TakeBucket
    <2>13. SumIn(buckets, J) = m + SumIn(buckets, paid) /\ SumIn(buckets, paid) \in Nat
      BY <2>1, <2>4, <2>9, TakeBucket
    <2>14. PICK c : c = acc.claimed \cup {<<p, id>>}
      OBVIOUS
    <2>15. PICK bal : bal = [acc.bal EXCEPT ![<<p, b>>] = rest]
      OBVIOUS
    <2>16. PICK totals : totals = [acc.totals EXCEPT ![b] = tot + m]
      OBVIOUS
    <2>17. ClaimOne(p, acc, id) = [claimed |-> c, bal |-> bal, totals |-> totals]
      <3>1. was - m = rest
        BY <2>12
      <3> QED
        BY <1>2, <2>3, <2>4, <2>10, <2>11, <2>14, <2>15, <2>16, <3>1 DEF ClaimOne, claim_bucket
    <2>18. /\ c \in SUBSET (Providers \X (DOMAIN buckets))
           /\ bal \in [Providers \X Assets -> Nat] /\ totals \in [Assets -> Nat]
      BY <2>2, <2>14, <2>15, <2>16 DEF ClaimSoFar
    <2>19. \A q \in Providers \ {p}, k \in DOMAIN buckets :
              <<q, k>> \in c <=> <<q, k>> \in claimedBuckets
      BY <2>14 DEF ClaimSoFar
    <2>20. \A q \in Providers \ {p}, a \in Assets : bal[<<q, a>>] = providerBal[<<q, a>>]
      BY <2>15 DEF ClaimSoFar
    <2>21. ASSUME NEW a \in Assets
           PROVE  /\ bal[<<p, a>>] = SumIn(buckets, Own(buckets, p, a) \ PaidIn(buckets, c, p, a))
                  /\ received[<<p, a>>] + totals[a] = SumIn(buckets, PaidIn(buckets, c, p, a))
                  /\ providerBal[<<p, a>>] = bal[<<p, a>>] + totals[a]
      <3>1. CASE a = b
        <4>1. /\ Own(buckets, p, a) \ PaidIn(buckets, c, p, a) = open \ {id}
              /\ PaidIn(buckets, c, p, a) = J
          BY <2>2, <2>3, <2>5, <2>7, <2>8, <2>14, <3>1 DEF Own, PaidIn
        <4>2. bal[<<p, a>>] = rest /\ totals[a] = tot + m
          BY <2>15, <2>16, <3>1 DEF ClaimSoFar
        <4>3. PICK r \in Nat : r = received[<<p, a>>]
          BY <2>1 DEF RewardTypeOK
        <4>4. r + tot = SumIn(buckets, paid)
          BY <2>7, <2>11, <3>1, <4>3 DEF ClaimSoFar
        <4>5. providerBal[<<p, a>>] = was + tot
          BY <2>10, <2>11, <3>1 DEF ClaimSoFar
        <4>6. was + tot = rest + (tot + m) /\ r + (tot + m) = m + (r + tot)
          BY <2>12
        <4> QED
          BY <2>12, <2>13, <4>1, <4>2, <4>3, <4>4, <4>5, <4>6
      <3>2. CASE a # b
        <4>1. PaidIn(buckets, c, p, a) = PaidIn(buckets, acc.claimed, p, a)
          BY <2>3, <2>14, <3>2 DEF Own, PaidIn
        <4>2. bal[<<p, a>>] = acc.bal[<<p, a>>] /\ totals[a] = acc.totals[a]
          BY <2>15, <2>16, <3>2 DEF ClaimSoFar
        <4> QED
          BY <4>1, <4>2 DEF ClaimSoFar
      <3> QED
        BY <3>1, <3>2
    <2> QED
      BY <2>17, <2>18, <2>19, <2>20, <2>21 DEF ClaimSoFar
  <1> QED
    BY <1>1, <1>2

\* A claim pays what it takes off the balances.
LEMMA RewardClaimKeeps ==
    ASSUME RewardInv, NEW p \in Providers, NEW ids \in ClaimLists, batch_claim_rewards(p, ids)
    PROVE  RewardInv'
  <1>1. RewardTypeOK /\ ids \in Seq(Nat)
    BY RewardConstants DEF RewardInv
  <1>2. ClaimSoFar(p, 0, ClaimStart(p))
    <2>1. PICK z : z = [a \in Assets |-> 0]
      OBVIOUS
    <2>2. \A a \in Assets : /\ z[a] = 0 /\ received[<<p, a>>] + z[a] = received[<<p, a>>]
                            /\ providerBal[<<p, a>>] = providerBal[<<p, a>>] + z[a]
      BY <1>1, <2>1 DEF RewardTypeOK
    <2>3. z \in [Assets -> Nat]
      BY <2>1
    <2>4. ClaimStart(p) = [claimed |-> claimedBuckets, bal |-> providerBal, totals |-> z]
      BY <2>1 DEF ClaimStart
    <2>5. /\ claimedBuckets \in SUBSET (Providers \X (DOMAIN buckets))
          /\ providerBal \in [Providers \X Assets -> Nat]
      BY <1>1 DEF RewardTypeOK
    <2> QED
      BY <2>2, <2>3, <2>4, <2>5 DEF ClaimSoFar, RewardInv, BucketsPaid
  <1>3. PICK done : done = ClaimFold!Folded(p, ClaimStart(p), ids)
    OBVIOUS
  <1>4. ClaimSoFar(p, Len(ids), done)
    <2>1. Len(ids) \in Nat /\ DOMAIN ids = 1..Len(ids)
      BY <1>1
    <2>2. \A i \in 1..Len(ids) : \A acc :
             ClaimSoFar(p, i - 1, acc) => ClaimSoFar(p, i, ClaimOne(p, acc, ids[i]))
      BY ClaimOneKeeps
    <2> QED
      BY <1>2, <1>3, <2>1, <2>2, ClaimFold!FoldInduction
  <1>5. done = FoldLeft(LAMBDA acc, id : claim_bucket(acc, p, id), ClaimStart(p), ids)
    BY <1>3 DEF ClaimFold!Folded, ClaimOne, FoldLeft, ClaimFold!FoldLeft, MapThenFoldSet,
                ClaimFold!MapThenFoldSet, Max, ClaimFold!Max
  <1>6. /\ claimedBuckets' = done.claimed /\ providerBal' = done.bal
        /\ vaultAssets' = [a \in Assets |-> vaultAssets[a] - done.totals[a]]
        /\ received' = [pa \in Providers \X Assets |->
                           IF pa[1] = p THEN received[pa] + done.totals[pa[2]] ELSE received[pa]]
        /\ UNCHANGED <<rewardsPaused, supported, buckets, totalDeposited>>
    BY <1>5 DEF batch_claim_rewards
  <1>7. /\ done.claimed \in SUBSET (Providers \X (DOMAIN buckets))
        /\ done.bal \in [Providers \X Assets -> Nat] /\ done.totals \in [Assets -> Nat]
    BY <1>4 DEF ClaimSoFar
  <1>8. received' \in [Providers \X Assets -> Nat]
    BY <1>1, <1>6, <1>7 DEF RewardTypeOK
  <1>9. /\ \A a \in Assets : received'[<<p, a>>] = received[<<p, a>>] + done.totals[a]
        /\ \A q \in Providers \ {p}, a \in Assets : received'[<<q, a>>] = received[<<q, a>>]
    BY <1>6
  <1>10. BucketsPaid(buckets, done.claimed, done.bal, received')
    <2> SUFFICES ASSUME NEW q \in Providers, NEW a \in Assets
                 PROVE  /\ done.bal[<<q, a>>]
                             = SumIn(buckets, Own(buckets, q, a)
                                                 \ PaidIn(buckets, done.claimed, q, a))
                        /\ received'[<<q, a>>] = SumIn(buckets, PaidIn(buckets, done.claimed, q, a))
      BY DEF BucketsPaid
    <2>1. CASE q = p
      BY <1>4, <1>9, <2>1 DEF ClaimSoFar
    <2>2. CASE q # p
      <3>1. PaidIn(buckets, done.claimed, q, a) = PaidIn(buckets, claimedBuckets, q, a)
        BY <1>4, <2>2 DEF ClaimSoFar, PaidIn, Own
      <3>2. done.bal[<<q, a>>] = providerBal[<<q, a>>] /\ received'[<<q, a>>] = received[<<q, a>>]
        BY <1>4, <1>9, <2>2 DEF ClaimSoFar
      <3> QED
        BY <3>1, <3>2 DEF RewardInv, BucketsPaid
    <2> QED
      BY <2>1, <2>2
  <1>11. ASSUME NEW a \in Assets
         PROVE  /\ vaultAssets'[a] \in Nat /\ vaultAssets'[a] = InAsset(providerBal', a)
                /\ totalDeposited[a] = vaultAssets'[a] + InAsset(received', a)
    <2>1. PICK f \in [Providers \X Assets -> Nat] : f = providerBal
      BY <1>1 DEF RewardTypeOK
    <2>2. PICK g \in [Providers \X Assets -> Nat] : g = providerBal'
      BY <1>6, <1>7
    <2>3. PICK h \in [Providers \X Assets -> Nat] : h = received
      BY <1>1 DEF RewardTypeOK
    <2>4. PICK k \in [Providers \X Assets -> Nat] : k = received'
      BY <1>8
    <2>5. PICK m \in Nat : m = done.totals[a]
      BY <1>7
    <2>6. /\ \A q \in Providers \ {p} : g[<<q, a>>] = f[<<q, a>>]
          /\ f[<<p, a>>] = g[<<p, a>>] + m
      BY <1>4, <1>6, <2>1, <2>2, <2>5 DEF ClaimSoFar
    <2>7. /\ \A q \in Providers \ {p} : k[<<q, a>>] = h[<<q, a>>]
          /\ k[<<p, a>>] = h[<<p, a>>] + m
      BY <1>9, <2>3, <2>4, <2>5
    <2>8. /\ InAsset(g, a) = InAsset(f, a) - f[<<p, a>>] + g[<<p, a>>]
          /\ InAsset(f, a) \in Nat /\ InAsset(g, a) \in Nat
      BY <2>6, InAssetChanges
    <2>9. /\ InAsset(k, a) = InAsset(h, a) - h[<<p, a>>] + k[<<p, a>>]
          /\ InAsset(h, a) \in Nat /\ InAsset(k, a) \in Nat
      BY <2>7, InAssetChanges
    <2>10. f[<<p, a>>] \in Nat /\ g[<<p, a>>] \in Nat /\ h[<<p, a>>] \in Nat /\ k[<<p, a>>] \in Nat
      OBVIOUS
    <2>11. InAsset(g, a) = InAsset(f, a) - m /\ InAsset(k, a) = InAsset(h, a) + m
      BY <2>6, <2>7, <2>8, <2>9, <2>10
    <2>12. vaultAssets[a] = InAsset(f, a) /\ totalDeposited[a] = vaultAssets[a] + InAsset(h, a)
      BY <2>1, <2>3 DEF RewardInv, AssetsCovered, InAsset
    <2>13. vaultAssets'[a] = vaultAssets[a] - m
      BY <1>6, <2>5
    <2>14. vaultAssets'[a] = InAsset(g, a) /\ totalDeposited[a] = vaultAssets'[a] + InAsset(k, a)
      BY <2>8, <2>9, <2>11, <2>12, <2>13
    <2> QED
      BY <2>2, <2>4, <2>8, <2>14
  <1>12. vaultAssets' \in [Assets -> Nat]
    BY <1>6, <1>11
  <1>13. RewardTypeOK'
    BY <1>1, <1>6, <1>7, <1>8, <1>12 DEF RewardTypeOK
  <1>14. AssetsCovered'
    BY <1>6, <1>11 DEF AssetsCovered, InAsset
  <1> QED
    BY <1>6, <1>10, <1>13, <1>14 DEF RewardInv

\* Every step of the reward buckets keeps their books.
LEMMA RewardStep ==
    ASSUME RewardInv, [RewardNext]_rewardVars
    PROVE  RewardInv'
  <1>1. ASSUME UNCHANGED <<buckets, claimedBuckets, providerBal, totalDeposited, vaultAssets, received>>,
               rewardsPaused' \in BOOLEAN, supported' \in SUBSET Assets
        PROVE  RewardInv'
    BY <1>1 DEF RewardInv, RewardTypeOK, AssetsCovered
  <1>2. rewardsPaused \in BOOLEAN /\ supported \in SUBSET Assets
    BY DEF RewardInv, RewardTypeOK
  <1>3. CASE \E b \in BOOLEAN : set_rewards_paused(b)
    BY <1>1, <1>2, <1>3 DEF set_rewards_paused
  <1>4. CASE \E a \in Assets : add_supported_asset(a)
    BY <1>1, <1>2, <1>4 DEF add_supported_asset
  <1>5. CASE \E p \in Providers, a \in Assets, amount \in RewardAmounts : deposit_reward(p, a, amount)
    BY <1>5, RewardDepositKeeps
  <1>6. CASE \E p \in Providers, ids \in ClaimLists : batch_claim_rewards(p, ids)
    BY <1>6, RewardClaimKeeps
  <1>7. CASE UNCHANGED rewardVars
    BY <1>1, <1>2, <1>7 DEF rewardVars
  <1> QED
    BY <1>3, <1>4, <1>5, <1>6, <1>7 DEF RewardNext

\* The books of the libraries at deployment.
LEMMA LibBooksInit ==
    ASSUME LibInit
    PROVE  FeeInv /\ RewardInv /\ LimiterInv
  <1>1. FeeInv
    <2>1. FeeTypeOK
      BY DEF LibInit, FeeInit, FeeTypeOK, FeeAccrualState, StakerFeePosition
    <2>2. PICK f : f = [s \in ShareHolders |-> position[s].shares]
      OBVIOUS
    <2>3. IsFiniteSet(ShareHolders) /\ \A s \in ShareHolders : f[s] = 0
      BY <2>2, FeeConstants DEF LibInit, FeeInit
    <2>4. SumFunctionOnSet(f, ShareHolders) = 0
      BY <2>3, SumZero
    <2>5. BooksBalance
      BY <2>2, <2>4 DEF LibInit, FeeInit, BooksBalance
    <2>6. accumulated_for(0, 0) \in Nat
      BY AccumulatedGrows
    <2>7. DebtNeverAhead
      BY <2>6 DEF LibInit, FeeInit, DebtNeverAhead
    <2>8. PICK g : g = [s \in ShareHolders |-> PendingOf(s)]
      OBVIOUS
    <2>9. \A s \in ShareHolders : g[s] = 0
      <3> SUFFICES ASSUME NEW s \in ShareHolders
                   PROVE  g[s] = 0
        OBVIOUS
      <3>1. accumulated_for(0, 0) = 0
        BY FeeConstants DEF accumulated_for
      <3> QED
        BY <2>8, <3>1 DEF LibInit, FeeInit, PendingOf, pending, newly_accrued
    <2>10. FeesClaimable = 0
      BY <2>3, <2>8, <2>9, SumZero DEF FeesClaimable
    <2>11. FeesNearlyCovered
      <3>1. Cardinality(ShareHolders) \in Nat
        BY <2>3, FS_CardinalityType
      <3> QED
        BY <2>10, <3>1 DEF FeesNearlyCovered, LibInit, FeeInit
    <2> QED
      BY <2>1, <2>5, <2>7, <2>11 DEF FeeInv
  <1>2. RewardInv
    <2>1. RewardTypeOK
      <3>1. buckets \in Seq(Bucket) /\ claimedBuckets \subseteq Providers \X (DOMAIN buckets)
        BY DEF LibInit, RewardInit
      <3>2. /\ providerBal \in [Providers \X Assets -> Nat]
            /\ received \in [Providers \X Assets -> Nat]
            /\ totalDeposited \in [Assets -> Nat] /\ vaultAssets \in [Assets -> Nat]
        BY DEF LibInit, RewardInit
      <3>3. rewardsPaused \in BOOLEAN /\ supported \in SUBSET Assets
        BY DEF LibInit, RewardInit
      <3> QED
        BY <3>1, <3>2, <3>3 DEF RewardTypeOK
    <2>2. SumIn(buckets, {}) = 0
      BY SumUnfolds, FS_EmptySet DEF SumIn
    <2>3. BucketsPaid(buckets, claimedBuckets, providerBal, received)
      <3> SUFFICES ASSUME NEW p \in Providers, NEW a \in Assets
                   PROVE  /\ providerBal[<<p, a>>]
                               = SumIn(buckets, Own(buckets, p, a)
                                                   \ PaidIn(buckets, claimedBuckets, p, a))
                          /\ received[<<p, a>>]
                               = SumIn(buckets, PaidIn(buckets, claimedBuckets, p, a))
        BY DEF BucketsPaid
      <3>1. Own(buckets, p, a) = {} /\ PaidIn(buckets, claimedBuckets, p, a) = {}
        BY DEF LibInit, RewardInit, Own, PaidIn
      <3>2. providerBal[<<p, a>>] = 0 /\ received[<<p, a>>] = 0
        BY DEF LibInit, RewardInit
      <3> QED
        BY <2>2, <3>1, <3>2
    <2>4. ASSUME NEW f, NEW a \in Assets, f = [pa \in Providers \X Assets |-> 0]
          PROVE  InAsset(f, a) = 0
      <3>1. PICK I : I = Providers \X {a}
        OBVIOUS
      <3>2. IsFiniteSet(Providers) /\ IsFiniteSet({a})
        BY RewardConstants, FS_Singleton
      <3>3. IsFiniteSet(I)
        BY <3>1, <3>2, FS_Product
      <3>4. \A i \in I : f[i] = 0
        BY <2>4, <3>1
      <3> QED
        BY <3>1, <3>3, <3>4, SumZero DEF InAsset
    <2>5. AssetsCovered
      <3>1. \A a \in Assets : InAsset(providerBal, a) = 0 /\ InAsset(received, a) = 0
        BY <2>4 DEF LibInit, RewardInit
      <3> QED
        BY <3>1 DEF LibInit, RewardInit, AssetsCovered, InAsset
    <2> QED
      BY <2>1, <2>3, <2>5 DEF RewardInv
  <1>3. LimiterInv
    BY LimiterInitInv DEF LibInit
  <1> QED
    BY <1>1, <1>2, <1>3

\* A step of one library leaves the books of the others alone.
LEMMA LibBooksStep ==
    ASSUME FeeInv, RewardInv, LimiterInv,
           [LibNext]_<<active, clockVars, feeVars, rewardVars, limiterVars, msVars, upgradeVars>>
    PROVE  /\ FeeInv' /\ RewardInv' /\ LimiterInv'
           /\ \/ UNCHANGED feeVars
              \/ state'.epoch = state.epoch => \A s \in ShareHolders : KeepsPending(s)
  <1>1. ASSUME UNCHANGED feeVars
        PROVE  FeeInv'
    BY <1>1 DEF feeVars, FeeInv, FeeTypeOK, BooksBalance, DebtNeverAhead, accumulated_for,
               FeesNearlyCovered, FeesClaimable, PendingOf, pending, newly_accrued
  <1>2. ASSUME UNCHANGED rewardVars
        PROVE  RewardInv'
    BY <1>2, RewardStep
  <1>3. ASSUME UNCHANGED limiterVars, CloseLedger \/ UNCHANGED clockVars
        PROVE  LimiterInv'
    BY <1>3, LimiterStepInv DEF limiterVars, RateNext, rateVars, clockVars
  <1>4. CASE FeeNext /\ UNCHANGED <<clockVars, rewardVars, limiterVars, msVars, upgradeVars>>
    BY <1>2, <1>3, <1>4, FeeStep
  <1>5. CASE RewardNext /\ UNCHANGED <<clockVars, feeVars, limiterVars, msVars, upgradeVars>>
    BY <1>1, <1>3, <1>5, RewardStep
  <1>6. CASE RateNext /\ UNCHANGED <<feeVars, rewardVars, msVars, upgradeVars>>
    BY <1>1, <1>2, <1>6, LimiterStepInv
  <1>7. CASE MSNext /\ UNCHANGED <<feeVars, rewardVars, limiterVars, upgradeVars>>
    <2>1. CloseLedger \/ UNCHANGED clockVars
      BY <1>7 DEF MSNext
    <2> QED
      BY <1>1, <1>2, <1>3, <1>7, <2>1
  <1>8. CASE UpgradeNext /\ UNCHANGED <<clockVars, feeVars, rewardVars, limiterVars, msVars>>
    BY <1>1, <1>2, <1>3, <1>8
  <1>9. CASE UNCHANGED <<active, clockVars, feeVars, rewardVars, limiterVars, msVars, upgradeVars>>
    BY <1>1, <1>2, <1>3, <1>9
  <1> QED
    BY <1>4, <1>5, <1>6, <1>7, <1>8, <1>9 DEF LibNext

\* The libraries' books: fees deposited are booked as distributed or carried and the shares
\* add up; what is claimed, claimable and carried is what was deposited but for one unit an
\* accrual and holder; joining and leaving change nobody's earnings, a bucket is paid once
\* however often a list names it, and what the vault holds of an asset is what it owes in
\* that asset, for every precision, batch size, set of assets and list of ids.
THEOREM LibraryBooksAlways == LibSpec => LibraryBooks
  <1> DEFINE Inv == FeeInv /\ RewardInv /\ LimiterInv
             all == <<active, clockVars, feeVars, rewardVars, limiterVars, msVars, upgradeVars>>
             Keep == state'.epoch = state.epoch =>
                        \A s \in ShareHolders :
                            \/ PendingOf(s)' = PendingOf(s)
                            \/ PendingOf(s)' = 0 /\ feesClaimed' = feesClaimed + PendingOf(s)
  <1>1. LibInit => Inv
    BY LibBooksInit
  <1>2. Inv /\ [LibNext]_all => Inv' /\ [Keep]_feeVars
    BY LibBooksStep DEF KeepsPending
  <1>3. Inv => LibTypeOK /\ BooksBalance /\ FeesNearlyCovered /\ DebtNeverAhead /\ BucketsPaidOnce /\ AssetsCovered
    BY DEF LibTypeOK, FeeInv, RewardInv, LimiterInv, BucketsPaidOnce, BucketsPaid, Own, PaidIn,
           SumOver, SumIn
  <1> QED
    BY <1>1, <1>2, <1>3, PTL DEF LibSpec, LibraryBooks, ShareChangesKeepPending

=============================================================================
