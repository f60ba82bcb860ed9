----------------------------- MODULE VaultProofs -----------------------------
(***************************************************************************)
(* Proofs about the stake vault.  First the stake positions and the queue  *)
(* alone, for every set of stakers, amounts, delays, limits and queue      *)
(* sizes: type correctness, what a payout needs, and that the queue is     *)
(* first come first served.  Then the vault as one contract: emergency     *)
(* unstakes, slashes, appeals, the queue and the multi-sig share the clock *)
(* and the positions.  Each part's invariant speaks of that part's records *)
(* alone, so that one lemma serves the part's own specification and the    *)
(* compositions it is used in.  Last the books: what the vault holds is    *)
(* the sum of its positions, and every position can be paid.               *)
(***************************************************************************)
EXTENDS StakeVault, Eligibility, LibraryProofs, SumTheorems

----------------------------------------------------------------------------
\* Stake positions.

\* Adding two timestamps, saturating, yields a timestamp not before the first.
LEMMA SatAddNat ==
    ASSUME NEW t \in Nat, NEW d \in Nat
    PROVE  SatAdd(t, d) \in Nat
  BY ClockConstants DEF SatAdd

\* Recording an action keeps a rate window well-formed.
LEMMA RecordType ==
    ASSUME NEW w \in RateWindow, NEW t \in Nat
    PROVE  record(w, t) \in RateWindow
  BY DEF record, RateWindow, WindowOpen

\* The ledger closing keeps the clock well-formed.
LEMMA ClockStep ==
    ASSUME ClockTypeOK, CloseLedger
    PROVE  ClockTypeOK'
  BY ClockConstants DEF ClockTypeOK, CloseLedger

\* deposit_stake keeps the state well-formed.
LEMMA DepositType ==
    ASSUME ClockTypeOK, CoreTypeOK,
           NEW s \in Stakers, NEW a \in Amounts, deposit_stake(s, a)
    PROVE  CoreTypeOK'
  <1>1. a \in Nat /\ a > 0
    BY StakeConstants DEF deposit_stake
  <1>2. SatAdd(now, minDuration) \in Nat
    BY SatAddNat DEF ClockTypeOK, CoreTypeOK
  <1>3. lock_after_deposit(s) \in Nat
    BY <1>2 DEF lock_after_deposit, CoreTypeOK, StakeInfo
  <1>4. stake' \in [Stakers -> StakeInfo]
    BY <1>1, <1>3 DEF deposit_stake, CoreTypeOK, StakeInfo
  <1>5. wallet' \in [Stakers -> Nat] /\ vaultBal' \in Nat
    BY <1>1 DEF deposit_stake, transfer_in, CoreTypeOK
  <1>6. /\ depositedAt' \in [Stakers -> Nat \cup {NoTime}]
        /\ lastStakeLedger' \in [Stakers -> Nat]
    BY DEF deposit_stake, CoreTypeOK, ClockTypeOK
  <1> QED
    BY <1>4, <1>5, <1>6 DEF deposit_stake, CoreTypeOK, paramVars

\* A payout of at most the balance keeps the state well-formed.
LEMMA LeaveType ==
    ASSUME ClockTypeOK, CoreTypeOK,
           NEW s \in Stakers, NEW amount \in Nat, amount <= balance(s),
           leave(s, amount)
    PROVE  CoreTypeOK'
  <1>1. stake' \in [Stakers -> StakeInfo]
    BY DEF leave, CoreTypeOK, StakeInfo, balance
  <1>2. wallet' \in [Stakers -> Nat] /\ vaultBal' \in Nat
    BY DEF leave, transfer_out, CoreTypeOK
  <1>3. requestedAt' \in [Stakers -> Nat \cup {NoTime}]
    BY DEF leave, CoreTypeOK
  <1>4. rate' \in [Stakers -> RateWindow]
    <2>1. record(rate[s], now) \in RateWindow
      BY RecordType DEF CoreTypeOK, ClockTypeOK
    <2> QED
      BY <2>1 DEF leave, CoreTypeOK
  <1> QED
    BY <1>1, <1>2, <1>3, <1>4 DEF leave, CoreTypeOK, paramVars

\* do_withdraw keeps the state well-formed.
LEMMA WithdrawType ==
    ASSUME ClockTypeOK, CoreTypeOK, NEW s \in Stakers, do_withdraw(s)
    PROVE  CoreTypeOK'
  <1>1. balance(s) \in Nat
    BY DEF CoreTypeOK, StakeInfo, balance
  <1> QED
    BY <1>1, LeaveType DEF do_withdraw

\* Every operation of the module keeps the state well-formed.
LEMMA CoreOpsType ==
    ASSUME ClockTypeOK, CoreTypeOK, CoreOps
    PROVE  CoreTypeOK'
  <1>1. CASE \E s \in Stakers, a \in Amounts : deposit_stake(s, a)
    BY <1>1, DepositType
  <1>2. ASSUME NEW s \in Stakers, NEW a \in Amounts, partial_unstake(s, a)
        PROVE  CoreTypeOK'
    <2>1. a \in Nat /\ a <= balance(s)
      BY <1>2, StakeConstants DEF partial_unstake, CoreTypeOK, StakeInfo, balance
    <2> QED
      BY <1>2, <2>1, LeaveType DEF partial_unstake
  <1>3. CASE \E s \in Stakers : withdraw_stake(s)
    BY <1>3, WithdrawType DEF withdraw_stake
  <1>4. CASE \E s \in Stakers : request_withdrawal(s)
    BY <1>4 DEF request_withdrawal, CoreTypeOK, ClockTypeOK, paramVars, tokenVars
  <1>5. CASE \E b \in PauseInputs : set_paused(b)
    BY <1>5, StakeConstants
       DEF set_paused, put_paused, CoreTypeOK, stakeVars, paramVars, tokenVars
  <1>6. CASE \E v \in MinStakes : set_minimum_stake(v)
    BY <1>6, StakeConstants
       DEF set_minimum_stake, put_minimum_stake, CoreTypeOK, stakeVars, tokenVars
  <1>7. CASE \E v \in MinDurations : set_minimum_stake_duration(v)
    BY <1>7, StakeConstants
       DEF set_minimum_stake_duration, put_minimum_stake_duration, CoreTypeOK,
           stakeVars, tokenVars
  <1>8. CASE \E v \in Cooldowns : set_withdrawal_cooldown(v)
    BY <1>8, StakeConstants
       DEF set_withdrawal_cooldown, put_withdrawal_cooldown, CoreTypeOK,
           stakeVars, tokenVars
  <1>9. CASE \E g \in Governances : set_governance(g)
    BY <1>9 DEF set_governance, CoreTypeOK, stakeVars, tokenVars
  <1>10. CASE \E b \in PauseInputs : apply_governance_pause(b)
    BY <1>10, StakeConstants
       DEF apply_governance_pause, put_paused, CoreTypeOK, stakeVars, paramVars,
           tokenVars
  <1> QED
    BY <1>1, <1>2, <1>3, <1>4, <1>5, <1>6, <1>7, <1>8, <1>9, <1>10 DEF CoreOps

\* A step of this module keeps clock and state well-formed.
LEMMA CoreStepType ==
    ASSUME ClockTypeOK, CoreTypeOK, CoreStep
    PROVE  ClockTypeOK' /\ CoreTypeOK'
  <1>1. CASE CoreOps /\ UNCHANGED clockVars
    BY <1>1, CoreOpsType DEF ClockTypeOK, clockVars
  <1>2. CASE CloseLedger /\ UNCHANGED coreVars
    BY <1>2, ClockStep
       DEF CoreTypeOK, coreVars, stakeVars, paramVars, tokenVars
  <1> QED
    BY <1>1, <1>2 DEF CoreStep

\* The state right after initialize is well-formed.
LEMMA CoreInitType ==
    ASSUME ClockInit, CoreInit
    PROVE  ClockTypeOK /\ CoreTypeOK
  <1>1. ClockTypeOK
    BY DEF ClockInit, ClockTypeOK
  <1>2. paused \in BOOLEAN
    BY DEF CoreInit
  <1>3. stake \in [Stakers -> StakeInfo] /\ wallet \in [Stakers -> Nat]
    BY StakeConstants DEF CoreInit, StakeInfo
  <1>4. rate \in [Stakers -> RateWindow]
    BY DEF CoreInit, NoWindow, RateWindow
  <1>5. /\ depositedAt \in [Stakers -> Nat \cup {NoTime}]
        /\ requestedAt \in [Stakers -> Nat \cup {NoTime}]
        /\ lastStakeLedger \in [Stakers -> Nat]
    BY DEF CoreInit
  <1>6. /\ minStake \in Int /\ minDuration \in Nat /\ cooldown \in Nat
        /\ vaultBal \in Nat
    BY StakeConstants DEF CoreInit
  <1>7. governance \in SUBSET Governances
    BY DEF CoreInit
  <1> QED
    BY <1>1, <1>2, <1>3, <1>4, <1>5, <1>6, <1>7 DEF CoreTypeOK

\* Stakes, token balances and delays stay in their ranges: no deposit,
\* withdrawal, request or parameter change makes a balance negative.
THEOREM CoreTypeCorrect == CoreSpec => [](ClockTypeOK /\ CoreTypeOK)
  <1>1. ClockInit /\ CoreInit => ClockTypeOK /\ CoreTypeOK
    BY CoreInitType
  <1>2. ASSUME ClockTypeOK /\ CoreTypeOK, [CoreStep]_allCoreVars
        PROVE  (ClockTypeOK /\ CoreTypeOK)'
    <2>1. CASE CoreStep
      BY <1>2, <2>1, CoreStepType
    <2>2. CASE UNCHANGED allCoreVars
      BY <1>2, <2>2 DEF allCoreVars, clockVars, coreVars, stakeVars, paramVars,
                        tokenVars, ClockTypeOK, CoreTypeOK
    <2> QED
      BY <1>2, <2>1, <2>2
  <1> QED
    BY <1>1, <1>2, PTL DEF CoreSpec, CoreSystemInit
----------------------------------------------------------------------------
\* What a payout needs.

\* Only a payout to s raises the wallet of s.
LEMMA LeavePays ==
    ASSUME CoreTypeOK, NEW r \in Stakers, NEW amount \in Nat, leave(r, amount),
           NEW s \in Stakers, Paid(s)
    PROVE  r = s /\ wallet'[s] - wallet[s] = amount
  BY DEF leave, transfer_out, CoreTypeOK, Paid

\* Whoever is paid by an operation of the module passed every check of a
\* withdrawal of just that amount, the rate limit among them.
LEMMA PaidPassedChecks ==
    ASSUME CoreTypeOK, CoreOps, NEW s \in Stakers, Paid(s)
    PROVE  LET amount == wallet'[s] - wallet[s]
           IN  /\ amount \in Nat
               /\ MayLeave(s, amount)
               /\ RateAllows(s)
               /\ leave(s, amount)
  <1>1. ASSUME NEW r \in Stakers, NEW a \in Amounts, deposit_stake(r, a)
        PROVE  FALSE
    BY <1>1, StakeConstants DEF deposit_stake, transfer_in, CoreTypeOK, Paid
  <1>2. ASSUME NEW r \in Stakers, NEW a \in Amounts, partial_unstake(r, a)
        PROVE  /\ a \in Nat /\ a = wallet'[s] - wallet[s] /\ r = s
               /\ MayLeave(r, a) /\ RateAllows(r) /\ leave(r, a)
    <2>1. a \in Nat
      BY <1>2, StakeConstants DEF partial_unstake
    <2> QED
      BY <1>2, <2>1, LeavePays DEF partial_unstake
  <1>3. ASSUME NEW r \in Stakers, withdraw_stake(r)
        PROVE  /\ balance(r) \in Nat
               /\ balance(r) = wallet'[s] - wallet[s] /\ r = s
               /\ MayLeave(r, balance(r)) /\ RateAllows(r) /\ leave(r, balance(r))
    <2>1. balance(r) \in Nat
      BY DEF CoreTypeOK, StakeInfo, balance
    <2> QED
      BY <1>3, <2>1, LeavePays DEF withdraw_stake, do_withdraw
  <1>4. ASSUME wallet' = wallet
        PROVE  FALSE
    BY <1>4 DEF Paid, CoreTypeOK
  <1>5. \/ \E r \in Stakers, a \in Amounts : partial_unstake(r, a)
        \/ \E r \in Stakers : withdraw_stake(r)
    BY <1>1, <1>4
       DEF CoreOps, request_withdrawal, set_paused, put_paused, set_minimum_stake,
           put_minimum_stake, set_minimum_stake_duration,
           put_minimum_stake_duration, set_withdrawal_cooldown,
           put_withdrawal_cooldown, set_governance, apply_governance_pause,
           tokenVars
  <1> QED
    BY <1>2, <1>3, <1>5

\* A deposit never brings the unlock time of an open position forward.
LEMMA LockGrows ==
    ASSUME ClockTypeOK, CoreTypeOK, NEW s \in Stakers, balance(s) > 0
    PROVE  lock_after_deposit(s) >= stake[s].locked_until
  <1>1. SatAdd(now, minDuration) \in Nat
    BY SatAddNat DEF ClockTypeOK, CoreTypeOK
  <1>2. stake[s].locked_until \in Nat /\ balance(s) # 0
    BY DEF CoreTypeOK, StakeInfo, balance
  <1> QED
    BY <1>1, <1>2 DEF lock_after_deposit

\* Operations of the module never bring the unlock time of an open position
\* forward.
LEMMA LockKept ==
    ASSUME ClockTypeOK, CoreTypeOK, CoreOps, NEW s \in Stakers, balance(s) > 0
    PROVE  stake'[s].locked_until >= stake[s].locked_until
  <1>1. ASSUME NEW r \in Stakers, NEW a \in Amounts, deposit_stake(r, a)
        PROVE  stake'[s].locked_until >= stake[s].locked_until
    BY <1>1, LockGrows DEF deposit_stake, CoreTypeOK, StakeInfo
  <1>2. ASSUME NEW r \in Stakers, NEW a, leave(r, a)
        PROVE  stake'[s].locked_until >= stake[s].locked_until
    BY <1>2 DEF leave, CoreTypeOK, StakeInfo
  <1>3. ASSUME stake' = stake
        PROVE  stake'[s].locked_until >= stake[s].locked_until
    BY <1>3 DEF CoreTypeOK, StakeInfo
  <1>4. CASE \E r \in Stakers, a \in Amounts : partial_unstake(r, a)
    BY <1>2, <1>4 DEF partial_unstake
  <1>5. CASE \E r \in Stakers : withdraw_stake(r)
    BY <1>2, <1>5 DEF withdraw_stake, do_withdraw
  <1>6. CASE \E r \in Stakers : request_withdrawal(r)
    BY <1>3, <1>6 DEF request_withdrawal
  <1>7. CASE \/ \E b \in PauseInputs : set_paused(b)
             \/ \E b \in PauseInputs : apply_governance_pause(b)
    BY <1>3, <1>7 DEF set_paused, apply_governance_pause, put_paused, stakeVars
  <1>8. CASE \/ \E v \in MinStakes : set_minimum_stake(v)
             \/ \E v \in MinDurations : set_minimum_stake_duration(v)
             \/ \E v \in Cooldowns : set_withdrawal_cooldown(v)
             \/ \E g \in Governances : set_governance(g)
    BY <1>3, <1>8
       DEF set_minimum_stake, put_minimum_stake, set_minimum_stake_duration,
           put_minimum_stake_duration, set_withdrawal_cooldown,
           put_withdrawal_cooldown, set_governance, stakeVars
  <1> QED
    BY <1>1, <1>4, <1>5, <1>6, <1>7, <1>8 DEF CoreOps

----------------------------------------------------------------------------
\* The unstake queue.

\* What the loop of process_unstake_queue trusts: an entry between head and tail
\* names a staker whose ticket is that entry, so the records must be known to agree
\* before one of them can be changed.
QueueRecords == QueueTypeOK /\ QueueConsistent

\* The inductive invariant.
QueueInv == ClockTypeOK /\ CoreTypeOK /\ QueueRecords

\* The queue starts empty and consistent.
LEMMA QueueInitRecords ==
    ASSUME QueueInit
    PROVE  QueueRecords
  <1>1. QueueTypeOK
    BY QueueConstants DEF QueueInit, QueueTypeOK
  <1>2. QueueConsistent
    BY QueueConstants DEF QueueInit, QueueConsistent, Tickets, NoTicket
  <1> QED
    BY <1>1, <1>2 DEF QueueRecords

\* A new ticket goes to the tail of the queue.
LEMMA QueueUnstakeRecords ==
    ASSUME QueueRecords, NEW s \in Stakers, queue_unstake(s)
    PROVE  QueueRecords'
  <1>1. QueueTypeOK'
    BY DEF QueueRecords, QueueTypeOK, queue_unstake
  <1>2. /\ queueHead' = queueHead
        /\ queueTail' = queueTail + 1
        /\ queueHead \in Nat /\ queueTail \in Nat /\ MaxTickets \in Nat
        /\ queueHead <= queueTail
        /\ queueTail \in Tickets
    BY QueueConstants DEF QueueRecords, QueueTypeOK, QueueConsistent, queue_unstake
  <1>3. queueHead' <= queueTail' /\ queueTail' <= MaxTickets
    BY <1>2 DEF Tickets
  <1>4. ASSUME NEW t \in Tickets
        PROVE  entry'[t] # NoUser <=> queueHead' <= t /\ t < queueTail'
    BY <1>2, <1>4, QueueConstants
       DEF QueueRecords, QueueTypeOK, QueueConsistent, queue_unstake, Tickets
  <1>5. ASSUME NEW t \in Tickets, NEW r \in Stakers
        PROVE  entry'[t] = r <=> userTicket'[r] = t
    BY <1>2, <1>5, QueueConstants
       DEF QueueRecords, QueueTypeOK, QueueConsistent, queue_unstake, Tickets,
           NoTicket
  <1> QED
    BY <1>1, <1>3, <1>4, <1>5 DEF QueueRecords, QueueConsistent

\* The entry at the head of a queue that is not empty names a staker.
LEMMA HeadIsQueued ==
    ASSUME QueueRecords, queueHead < queueTail
    PROVE  /\ queueHead \in Tickets
           /\ entry[queueHead] \in Stakers
           /\ userTicket[entry[queueHead]] = queueHead
  <1>1. queueHead \in Tickets
    BY QueueConstants DEF QueueRecords, QueueTypeOK, QueueConsistent, Tickets
  <1>2. entry[queueHead] # NoUser
    BY <1>1 DEF QueueRecords, QueueTypeOK, QueueConsistent
  <1>3. entry[queueHead] \in Stakers
    BY <1>1, <1>2 DEF QueueRecords, QueueTypeOK
  <1> QED
    BY <1>1, <1>3 DEF QueueRecords, QueueConsistent

\* The loop serves the staker at the head: orphaned slots do not occur.
LEMMA EntryServed ==
    ASSUME QueueRecords, process_entry
    PROVE  /\ entry[queueHead] \in Stakers /\ queueHead \in Tickets
           /\ userTicket[entry[queueHead]] = queueHead
           /\ serve(entry[queueHead])
  BY HeadIsQueued, QueueConstants DEF process_entry, MoreToProcess

\* Serving the head keeps the records in agreement.
LEMMA ProcessEntryRecords ==
    ASSUME QueueRecords, process_entry
    PROVE  QueueRecords'
  <1> DEFINE s == entry[queueHead]
  <1>1. queueHead \in Tickets /\ s \in Stakers /\ userTicket[s] = queueHead /\ serve(s)
    BY EntryServed
  <1> HIDE DEF s
  <1>2. QueueTypeOK'
    BY <1>1, QueueConstants DEF QueueRecords, QueueTypeOK, serve
  <1>3. /\ queueHead' = queueHead + 1 /\ queueTail' = queueTail
        /\ queueHead \in Nat /\ queueTail \in Nat
        /\ queueHead < queueTail /\ queueTail <= MaxTickets
    BY <1>1 DEF QueueRecords, QueueTypeOK, QueueConsistent, serve, process_entry,
                MoreToProcess
  <1>4. ASSUME NEW t \in Tickets
        PROVE  entry'[t] # NoUser <=> queueHead' <= t /\ t < queueTail'
    BY <1>1, <1>3, <1>4, QueueConstants
       DEF QueueRecords, QueueTypeOK, QueueConsistent, serve, Tickets
  <1>5. ASSUME NEW t \in Tickets, NEW r \in Stakers
        PROVE  entry'[t] = r <=> userTicket'[r] = t
    BY <1>1, <1>3, <1>5, QueueConstants
       DEF QueueRecords, QueueTypeOK, QueueConsistent, serve, Tickets, NoTicket
  <1>6. queueHead' <= queueTail' /\ queueTail' <= MaxTickets
    BY <1>3, QueueConstants
  <1> QED
    BY <1>2, <1>4, <1>5, <1>6 DEF QueueRecords, QueueConsistent

\* Steps that leave the queue's records alone.
LEMMA QueueUntouched ==
    ASSUME QueueRecords, maxQueue' \in Nat,
           UNCHANGED <<queueHead, queueTail, entry, userTicket>>
    PROVE  QueueRecords'
  BY DEF QueueRecords, QueueTypeOK, QueueConsistent

\* Every step of the queue keeps its records.
LEMMA QueueStepRecords ==
    ASSUME QueueRecords, QueueStep
    PROVE  QueueRecords'
  <1>1. CASE \E s \in Stakers : queue_unstake(s)
    BY <1>1, QueueUnstakeRecords
  <1>2. CASE \E size \in QueueSizes : set_max_unstake_queue_size(size)
    BY <1>2, QueueUntouched, QueueConstants DEF set_max_unstake_queue_size
  <1>3. CASE \/ \E limit \in ProcessLimits : process_unstake_queue(limit)
             \/ process_return
    BY <1>3, QueueUntouched
       DEF QueueRecords, QueueTypeOK, process_unstake_queue, process_return, queueVars
  <1>4. CASE process_entry
    BY <1>4, ProcessEntryRecords
  <1> QED
    BY <1>1, <1>2, <1>3, <1>4 DEF QueueStep, QueueOps, QueueLoop

\* Every step of the queue keeps clock and positions well-formed.
LEMMA QueueStepTypes ==
    ASSUME QueueInv, QueueStep
    PROVE  ClockTypeOK' /\ CoreTypeOK'
  <1>1. ClockTypeOK'
    BY DEF QueueStep, QueueInv, ClockTypeOK, clockVars
  <1>2. UNCHANGED <<paused, stakeVars, paramVars, tokenVars>> => CoreTypeOK'
    BY DEF QueueInv, stakeVars, paramVars, tokenVars, CoreTypeOK
  <1>3. CASE QueueOps
    BY <1>1, <1>2, <1>3 DEF QueueOps, queue_unstake, set_max_unstake_queue_size, coreVars
  <1>4. CASE \/ \E limit \in ProcessLimits : process_unstake_queue(limit)
             \/ process_return
    BY <1>1, <1>2, <1>4 DEF process_unstake_queue, process_return
  <1>5. CASE process_entry
    <2>1. /\ entry[queueHead] \in Stakers /\ do_withdraw(entry[queueHead])
          /\ ClockTypeOK /\ CoreTypeOK
      BY <1>5, EntryServed DEF QueueInv, serve
    <2> QED
      BY <1>1, <2>1, WithdrawType
  <1> QED
    BY <1>1, <1>3, <1>4, <1>5 DEF QueueStep, QueueLoop

\* Every step of the queue's specification keeps the invariant.
LEMMA QueueNextInv ==
    ASSUME QueueInv, [QueueNext]_allQueueVars
    PROVE  QueueInv'
  <1>1. CASE CoreStep /\ UNCHANGED queueVars
    BY <1>1, CoreStepType, QueueUntouched DEF QueueInv, QueueRecords, QueueTypeOK, queueVars
  <1>2. CASE QueueStep
    BY <1>2, QueueStepRecords, QueueStepTypes DEF QueueInv
  <1>3. CASE UNCHANGED allQueueVars
    <2>1. QueueRecords'
      BY <1>3, QueueUntouched DEF QueueInv, QueueRecords, QueueTypeOK, allQueueVars, queueVars
    <2> QED
      BY <1>3, <2>1
         DEF QueueInv, allQueueVars, allCoreVars, clockVars, coreVars, stakeVars,
             paramVars, tokenVars, ClockTypeOK, CoreTypeOK
  <1> QED
    BY <1>1, <1>2, <1>3 DEF QueueNext

\* The invariant holds in every state of the queue's specification.
THEOREM QueueInvariant == QueueSpec => []QueueInv
  <1>1. ClockInit /\ CoreInit /\ QueueInit => QueueInv
    BY QueueInitRecords, CoreInitType DEF QueueInv
  <1>2. QueueInv /\ [QueueNext]_allQueueVars => QueueInv'
    BY QueueNextInv
  <1> QED
    BY <1>1, <1>2, PTL DEF QueueSpec, QueueSystemInit, CoreSystemInit

\* Head, tail, entries and user tickets always agree: nobody is queued twice,
\* no entry is lost, and the "orphaned slot" branch of process_unstake_queue is
\* dead code.
THEOREM QueueAlwaysConsistent == QueueSpec => [](QueueTypeOK /\ QueueConsistent)
  <1>1. QueueInv => QueueTypeOK /\ QueueConsistent
    BY DEF QueueInv, QueueRecords
  <1> QED
    BY <1>1, QueueInvariant, PTL

\* Only serving the head of the queue makes anybody leave it.
LEMMA LeaverIsHead ==
    ASSUME QueueRecords, QueueStep \/ UNCHANGED queueVars,
           NEW s \in Stakers, Queued(s), ~Queued(s)'
    PROVE  serve(s) /\ userTicket[s] = queueHead
  <1>1. userTicket' # userTicket
    BY DEF Queued
  <1>2. ASSUME NEW r \in Stakers, queue_unstake(r)
        PROVE  FALSE
    BY <1>2 DEF queue_unstake, Queued, QueueRecords, QueueTypeOK, Tickets, NoTicket
  <1>3. process_entry
    BY <1>1, <1>2
       DEF QueueStep, QueueOps, QueueLoop, queueVars,
           set_max_unstake_queue_size, process_unstake_queue, process_return
  <1>4. /\ entry[queueHead] \in Stakers
        /\ userTicket[entry[queueHead]] = queueHead
        /\ serve(entry[queueHead])
    BY <1>3, EntryServed
  <1>5. entry[queueHead] = s
    BY <1>4 DEF serve, Queued, QueueRecords, QueueTypeOK
  <1> QED
    BY <1>4, <1>5

\* One step lets nobody overtake.
LEMMA QueueStepFifo ==
    ASSUME QueueRecords, QueueStep \/ UNCHANGED queueVars
    PROVE  FifoStep
  <1> SUFFICES ASSUME NEW s \in Stakers, NEW r \in Stakers,
                      Queued(s), ~Queued(s)', Queued(r)
               PROVE  userTicket[s] <= userTicket[r]
    BY DEF FifoStep
  <1>1. userTicket[s] = queueHead
    BY LeaverIsHead
  <1>2. /\ userTicket[r] \in Tickets
        /\ entry[userTicket[r]] = r
    BY DEF QueueRecords, QueueTypeOK, QueueConsistent, Queued
  <1>3. queueHead <= userTicket[r]
    BY <1>2, QueueConstants DEF QueueRecords, QueueConsistent
  <1> QED
    BY <1>1, <1>3

\* Strict FIFO order, whatever mix of queueing, processing and reconfiguration.
THEOREM FirstComeFirstServedAlways == QueueSpec => FirstComeFirstServed
  <1>1. ASSUME QueueInv, QueueNext
        PROVE  FifoStep
    BY <1>1, QueueStepFifo DEF QueueNext, QueueInv
  <1> QED
    BY <1>1, QueueInvariant, PTL DEF QueueSpec, QueueSystemInit, CoreSystemInit, FirstComeFirstServed

\* Whoever leaves the queue leaves with the whole stake: a blocked or failed
\* entry keeps both its place and its balance.
THEOREM LeavesOnlyPaidAlways == QueueSpec => LeavesOnlyPaid
  <1>1. ASSUME QueueInv, QueueNext
        PROVE  PaidOutStep
    <2> SUFFICES ASSUME NEW s \in Stakers, Queued(s), ~Queued(s)'
                 PROVE  /\ balance(s) > 0
                        /\ balance(s)' = 0
                        /\ wallet'[s] = wallet[s] + balance(s)
      BY DEF PaidOutStep
    <2>1. MayLeave(s, balance(s)) /\ leave(s, balance(s))
      BY <1>1, LeaverIsHead DEF serve, do_withdraw, QueueNext, QueueInv
    <2>2. balance(s) \in Nat /\ balance(s) = stake[s].balance
      BY <1>1 DEF QueueInv, CoreTypeOK, StakeInfo, balance
    <2>3. balance(s) > 0
      BY <2>1, <2>2 DEF MayLeave
    <2>4. stake'[s].balance = 0
      BY <1>1, <2>1, <2>2 DEF leave, QueueInv, CoreTypeOK, StakeInfo
    <2>5. wallet'[s] = wallet[s] + balance(s)
      BY <1>1, <2>1 DEF leave, transfer_out, QueueInv, CoreTypeOK
    <2> QED
      BY <2>3, <2>4, <2>5 DEF balance
  <1> QED
    BY <1>1, QueueInvariant, PTL DEF QueueSpec, QueueSystemInit, CoreSystemInit, LeavesOnlyPaid

\* A payout, direct or by the queue, passed the checks of a withdrawal of just
\* that amount; only a direct one asked the limiter.
PaidByRule(s, amount) ==
    /\ amount \in Nat
    /\ MayLeave(s, amount)
    /\ leave(s, amount)
    /\ ~Processing => RateAllows(s)

\* Whoever is paid by a step of the queue's specification is paid by rule.
LEMMA QueuePaidByRule ==
    ASSUME QueueInv, QueueNext, NEW s \in Stakers, Paid(s)
    PROVE  PaidByRule(s, wallet'[s] - wallet[s])
  <1>1. CoreTypeOK /\ QueueRecords
    BY DEF QueueInv
  <1>2. wallet' # wallet
    BY <1>1 DEF Paid, CoreTypeOK
  <1>3. CASE CoreOps
    BY <1>1, <1>3, PaidPassedChecks DEF PaidByRule
  <1>4. CASE process_entry
    <2>1. PICK r \in Stakers : serve(r)
      BY <1>1, <1>4, EntryServed
    <2>2. balance(r) \in Nat /\ MayLeave(r, balance(r)) /\ leave(r, balance(r))
      BY <1>1, <2>1 DEF serve, do_withdraw, CoreTypeOK, StakeInfo, balance
    <2>3. r = s /\ wallet'[s] - wallet[s] = balance(r)
      BY <1>1, <2>2, LeavePays
    <2>4. Processing
      BY <1>4 DEF process_entry, MoreToProcess
    <2> QED
      BY <2>2, <2>3, <2>4 DEF PaidByRule
  <1>5. CoreOps \/ process_entry
    BY <1>2 DEF QueueNext, CoreStep, QueueStep, QueueOps, QueueLoop, coreVars, tokenVars,
                queue_unstake, set_max_unstake_queue_size, process_unstake_queue,
                process_return
  <1> QED
    BY <1>3, <1>4, <1>5

\* No step of the queue's specification brings the unlock time of an open position
\* forward.
LEMMA QueueLockKept ==
    ASSUME QueueInv, QueueNext, NEW s \in Stakers, balance(s) > 0
    PROVE  stake'[s].locked_until >= stake[s].locked_until
  <1>1. ClockTypeOK /\ CoreTypeOK /\ QueueRecords
    BY DEF QueueInv
  <1>2. CASE CoreOps
    BY <1>1, <1>2, LockKept
  <1>3. CASE stake' = stake
    BY <1>1, <1>3 DEF CoreTypeOK, StakeInfo
  <1>4. CASE process_entry
    <2>1. PICK r \in Stakers : leave(r, balance(r))
      BY <1>1, <1>4, EntryServed DEF serve, do_withdraw
    <2> QED
      BY <1>1, <2>1 DEF leave, CoreTypeOK, StakeInfo
  <1>5. CoreOps \/ process_entry \/ stake' = stake
    BY DEF QueueNext, CoreStep, QueueStep, QueueOps, QueueLoop, coreVars, stakeVars,
           queue_unstake, set_max_unstake_queue_size, process_unstake_queue,
           process_return
  <1> QED
    BY <1>2, <1>3, <1>4, <1>5

\* The lock and the same-ledger check protect every payout, direct or by the queue,
\* and the lock of an open position is never shortened (withdraw_stake,
\* partial_unstake, process_unstake_queue, deposit_stake), for any sequence of
\* deposits and parameter changes.
THEOREM LockHonouredAlways == QueueSpec => LockHonoured
  <1>1. ASSUME QueueInv, QueueNext
        PROVE  LockStep
    <2>1. ASSUME NEW s \in Stakers, Paid(s)
          PROVE  now >= stake[s].locked_until /\ seq # lastStakeLedger[s]
      <3>1. MayLeave(s, wallet'[s] - wallet[s])
        BY <1>1, <2>1, QueuePaidByRule DEF PaidByRule
      <3>2. seq # 0
        BY <1>1 DEF QueueInv, ClockTypeOK
      <3> QED
        BY <3>1, <3>2 DEF MayLeave, FlashLoanPattern
    <2> QED
      BY <1>1, <2>1, QueueLockKept DEF LockStep
  <1>2. UNCHANGED allQueueVars => UNCHANGED allCoreVars
    BY DEF allQueueVars
  <1> QED
    BY <1>1, <1>2, QueueInvariant, PTL
       DEF QueueSpec, QueueSystemInit, CoreSystemInit, LockHonoured

\* A large withdrawal, direct or by the queue, rests on a request of its own that
\* has waited for the cooldown, and uses that request up.
THEOREM LargeNeedsOwnRequestAlways == QueueSpec => LargeNeedsOwnRequest
  <1>1. ASSUME QueueInv, QueueNext
        PROVE  OwnRequestStep
    <2> SUFFICES ASSUME NEW s \in Stakers,
                        wallet'[s] - wallet[s] >= LARGE_WITHDRAWAL_THRESHOLD
                 PROVE  /\ requestedAt[s] # NoTime
                        /\ now >= SatAdd(requestedAt[s], cooldown)
                        /\ requestedAt'[s] = NoTime
      BY DEF OwnRequestStep
    <2>1. QueueInv'
      BY <1>1, QueueNextInv
    <2>2. wallet[s] \in Nat /\ wallet'[s] \in Nat
      BY <1>1, <2>1 DEF QueueInv, CoreTypeOK
    <2>3. Paid(s)
      BY <2>2, StakeConstants DEF Paid
    <2>4. MayLeave(s, wallet'[s] - wallet[s]) /\ leave(s, wallet'[s] - wallet[s])
      BY <1>1, <2>3, QueuePaidByRule DEF PaidByRule
    <2>5. TimelockElapsed(s)
      BY <2>4 DEF MayLeave, IsLarge
    <2>6. requestedAt'[s] = NoTime
      BY <1>1, <2>4 DEF leave, IsLarge, QueueInv, CoreTypeOK
    <2> QED
      BY <2>5, <2>6 DEF TimelockElapsed
  <1>2. UNCHANGED allQueueVars => UNCHANGED allCoreVars
    BY DEF allQueueVars
  <1> QED
    BY <1>1, <1>2, QueueInvariant, PTL
       DEF QueueSpec, QueueSystemInit, CoreSystemInit, LargeNeedsOwnRequest

\* Every payout is counted in its staker's window, and one that does not come from
\* process_unstake_queue leaves the count at most at the limit.
THEOREM PayoutsLimitedAlways == QueueSpec => PayoutsLimited
  <1>1. ASSUME QueueInv, QueueNext
        PROVE  LimitedStep
    <2> SUFFICES ASSUME NEW s \in Stakers, Paid(s)
                 PROVE  /\ rate'[s] = record(rate[s], now)
                        /\ ~Processing => rate'[s].count <= RL_MAX
      BY DEF LimitedStep
    <2>1. leave(s, wallet'[s] - wallet[s]) /\ (~Processing => RateAllows(s))
      BY <1>1, QueuePaidByRule DEF PaidByRule
    <2>2. rate[s] \in RateWindow /\ rate'[s] = record(rate[s], now) /\ now \in Nat
      BY <1>1, <2>1 DEF leave, QueueInv, CoreTypeOK, ClockTypeOK
    <2>3. ~Processing => current_count(rate[s], now) < RL_MAX
      BY <2>1 DEF RateAllows, check_rate_limit, effective_max
    <2> QED
      BY <2>2, <2>3, RateConstants
         DEF record, RateWindow, WindowOpen, current_count, SatSub, NoTime
  <1> QED
    BY <1>1, QueueInvariant, PTL
       DEF QueueSpec, QueueSystemInit, CoreSystemInit, PayoutsLimited

----------------------------------------------------------------------------
\* Emergency unstakes.

ClockOK == ClockTypeOK /\ now <= MaxNow

ClockMoves == CloseLedger \/ UNCHANGED clockVars

\* The timestamp never goes back and stays below u64::MAX.
LEMMA ClockMovesOn ==
    ASSUME ClockOK, ClockMoves
    PROVE  ClockOK' /\ now' >= now
  BY ClockConstants DEF ClockOK, ClockMoves, ClockTypeOK, CloseLedger, clockVars

\* The clock starts at 1.
LEMMA ClockStarts ==
    ASSUME ClockInit
    PROVE  ClockOK
  BY ClockConstants DEF ClockInit, ClockOK, ClockTypeOK

\* The inductive invariant.  A pending request remembers that it was made late
\* enough after the last exit, and no admin's approval is recorded twice.
EmInv ==
    /\ ClockOK
    /\ EmTypeOK
    /\ \A s \in Stakers :
          /\ lastEm[s] <= now
          /\ IsInjective(emRequest[s].approvals)
          /\ Requested(s) /\ lastEm[s] # NoTime =>
                emRequest[s].requested_at >= lastEm[s] + emRequest[s].asked_under

\* What a step of any specification does to the emergency records.
EmShape ==
    \/ ClockMoves /\ UNCHANGED emVars
    \/ UNCHANGED clockVars /\ EmOps

\* No request is pending at first.
LEMMA EmInitInv ==
    ASSUME ClockInit, EmInit
    PROVE  EmInv
  <1>1. ClockOK
    BY ClockStarts
  <1>2. EmTypeOK
    BY EmergencyConstants DEF EmInit, EmTypeOK, NoRequest
  <1>3. ASSUME NEW s \in Stakers
        PROVE  /\ lastEm[s] <= now
               /\ IsInjective(emRequest[s].approvals)
               /\ ~Requested(s)
    BY <1>1 DEF EmInit, NoRequest, NoTime, Requested, IsInjective, ClockOK, ClockTypeOK
  <1> QED
    BY <1>1, <1>2, <1>3 DEF EmInv

\* A request is made only once the cooldown since the last exit is over.
LEMMA CooledDown ==
    ASSUME EmInv, NEW s \in Stakers, CooldownRemaining(s) = 0, lastEm[s] # NoTime
    PROVE  now >= lastEm[s] + emCooldown
  <1>1. /\ lastEm[s] \in Nat /\ emCooldown \in Nat /\ now \in Nat /\ lastEm[s] <= now
        /\ now < U64_MAX /\ U64_MAX \in Nat
    BY ClockConstants DEF EmInv, EmTypeOK, ClockOK, ClockTypeOK
  <1>2. CASE emCooldown = 0
    BY <1>1, <1>2
  <1>3. CASE emCooldown # 0
    <2>1. SatSub(SatAdd(lastEm[s], emCooldown), now) = 0
      BY <1>3 DEF CooldownRemaining
    <2>2. SatAdd(lastEm[s], emCooldown) <= now
      BY <1>1, <2>1 DEF SatSub, SatAdd
    <2> QED
      BY <1>1, <2>2 DEF SatAdd
  <1> QED
    BY <1>2, <1>3

\* Every step keeps the invariant, whatever else it does to the vault.
LEMMA EmShapeInv ==
    ASSUME EmInv, EmShape
    PROVE  EmInv'
  <1>1. CASE ClockMoves /\ UNCHANGED emVars
    <2>1. ClockOK' /\ now' >= now /\ now' \in Nat /\ now \in Nat
      BY <1>1, ClockMovesOn DEF EmInv, ClockOK, ClockTypeOK
    <2>2. EmTypeOK'
      BY <1>1 DEF EmInv, EmTypeOK, emVars
    <2>3. ASSUME NEW s \in Stakers
          PROVE  lastEm'[s] <= now'
      <3>1. lastEm'[s] = lastEm[s] /\ lastEm[s] <= now
        BY <1>1 DEF EmInv, emVars
      <3>2. lastEm[s] \in Int
        BY DEF EmInv, EmTypeOK, NoTime
      <3> QED
        BY <2>1, <3>1, <3>2
    <2> QED
      BY <1>1, <2>1, <2>2, <2>3 DEF EmInv, emVars, Requested
  <1> USE DEF emVars
  <1>2. ASSUME NEW cfg \in EmConfigs, configure(cfg), UNCHANGED clockVars
        PROVE  EmInv'
    BY <1>2 DEF EmInv, EmTypeOK, ClockOK, ClockTypeOK, clockVars, configure, Requested
  <1>3. ASSUME NEW secs \in EmCooldowns, set_cooldown(secs), UNCHANGED clockVars
        PROVE  EmInv'
    BY <1>3, EmergencyConstants
       DEF EmInv, EmTypeOK, ClockOK, ClockTypeOK, clockVars, set_cooldown, Requested
  <1>4. ASSUME NEW s \in Stakers, request(s), UNCHANGED clockVars
        PROVE  EmInv'
    <2>1. lastEm[s] # NoTime => now >= lastEm[s] + emCooldown
      BY <1>4, CooledDown DEF request
    <2>2. ClockOK' /\ now' = now /\ now \in Nat
      BY <1>4 DEF EmInv, ClockOK, ClockTypeOK, clockVars
    <2>3. EmTypeOK'
      BY <1>4, <2>2 DEF EmInv, EmTypeOK, request
    <2>4. ASSUME NEW r \in Stakers
          PROVE  /\ lastEm'[r] <= now'
                 /\ IsInjective(emRequest'[r].approvals)
                 /\ Requested(r)' /\ lastEm'[r] # NoTime =>
                      emRequest'[r].requested_at >= lastEm'[r] + emRequest'[r].asked_under
      <3>1. CASE r = s
        <4>1. emRequest'[r] = [requested_at |-> now, approvals |-> <<>>,
                               asked_under |-> emCooldown]
          BY <1>4, <3>1 DEF EmInv, EmTypeOK, request
        <4> QED
          BY <1>4, <2>1, <2>2, <3>1, <4>1 DEF EmInv, request, IsInjective
      <3>2. CASE r # s
        <4>1. emRequest'[r] = emRequest[r] /\ lastEm'[r] = lastEm[r]
          BY <1>4, <3>2 DEF EmInv, EmTypeOK, request
        <4> QED
          BY <2>2, <4>1 DEF EmInv, Requested
      <3> QED
        BY <3>1, <3>2
    <2> QED
      BY <2>2, <2>3, <2>4 DEF EmInv
  <1>5. ASSUME NEW a \in EmAdmins, NEW s \in Stakers, approve_more(a, s), UNCHANGED clockVars
        PROVE  EmInv'
    <2> DEFINE old == emRequest[s]
               new == [old EXCEPT !.approvals = Append(@, a)]
    <2>1. ClockOK' /\ now' = now
      BY <1>5 DEF EmInv, ClockOK, ClockTypeOK, clockVars
    <2>2. old.approvals \in Seq(EmAdmins) /\ IsInjective(old.approvals) /\ a \notin Range(old.approvals)
      BY <1>5 DEF EmInv, EmTypeOK, approve_more, MayApprove
    <2>3. emRequest' = [emRequest EXCEPT ![s] = new] /\ lastEm' = lastEm
      BY <1>5 DEF approve_more
    <2>4. /\ new.approvals = Append(old.approvals, a)
          /\ new.requested_at = old.requested_at /\ new.asked_under = old.asked_under
          /\ new \in [requested_at : Nat \cup {NoTime}, approvals : Seq(EmAdmins),
                      asked_under : Nat]
      <3>1. old \in [requested_at : Nat \cup {NoTime}, approvals : Seq(EmAdmins),
                     asked_under : Nat]
        BY DEF EmInv, EmTypeOK
      <3>2. Append(old.approvals, a) \in Seq(EmAdmins)
        BY <2>2
      <3> HIDE DEF old
      <3> QED
        BY <3>1, <3>2
    <2>5. IsInjective(new.approvals)
      BY <2>2, <2>4, AppendInjective_New
    <2>6. Requested(s)
      BY <1>5 DEF approve_more, MayApprove
    <2>7. EmTypeOK'
      BY <1>5, <2>3, <2>4 DEF EmInv, EmTypeOK, approve_more
    <2> HIDE DEF new
    <2>8. ASSUME NEW r \in Stakers
          PROVE  /\ lastEm'[r] <= now'
                 /\ IsInjective(emRequest'[r].approvals)
                 /\ Requested(r)' /\ lastEm'[r] # NoTime =>
                      emRequest'[r].requested_at >= lastEm'[r] + emRequest'[r].asked_under
      <3>1. CASE r = s
        <4>1. emRequest'[r] = new
          BY <2>3, <3>1 DEF EmInv, EmTypeOK
        <4> QED
          BY <2>1, <2>3, <2>4, <2>5, <2>6, <3>1, <4>1 DEF EmInv
      <3>2. CASE r # s
        <4>1. emRequest'[r] = emRequest[r] /\ lastEm'[r] = lastEm[r]
          BY <2>3, <3>2 DEF EmInv, EmTypeOK
        <4> QED
          BY <2>1, <4>1 DEF EmInv, Requested
      <3> QED
        BY <3>1, <3>2
    <2> QED
      BY <2>1, <2>7, <2>8 DEF EmInv
  <1>6. ASSUME NEW s \in Stakers, emRequest' = [emRequest EXCEPT ![s] = NoRequest],
               lastEm' = lastEm \/ lastEm' = [lastEm EXCEPT ![s] = now],
               exitBy' \in [Stakers -> Seq(EmAdmins)],
               UNCHANGED <<emConfig, emCooldown, clockVars>>
        PROVE  EmInv'
    <2>1. ClockOK' /\ now' = now /\ now \in Nat
      BY <1>6 DEF EmInv, ClockOK, ClockTypeOK, clockVars
    <2>2. NoRequest \in [requested_at : Nat \cup {NoTime}, approvals : Seq(EmAdmins),
                         asked_under : Nat] /\ IsInjective(NoRequest.approvals)
      BY DEF NoRequest, IsInjective
    <2>3. EmTypeOK'
      BY <1>6, <2>1, <2>2 DEF EmInv, EmTypeOK
    <2>4. ASSUME NEW r \in Stakers
          PROVE  /\ lastEm'[r] <= now'
                 /\ IsInjective(emRequest'[r].approvals)
                 /\ Requested(r)' /\ lastEm'[r] # NoTime =>
                      emRequest'[r].requested_at >= lastEm'[r] + emRequest'[r].asked_under
      <3>1. CASE r = s
        BY <1>6, <2>1, <2>2, <3>1 DEF EmInv, EmTypeOK, Requested
      <3>2. CASE r # s
        <4>1. emRequest'[r] = emRequest[r] /\ lastEm'[r] = lastEm[r]
          BY <1>6, <3>2 DEF EmInv, EmTypeOK
        <4> QED
          BY <2>1, <4>1 DEF EmInv, Requested
      <3> QED
        BY <3>1, <3>2
    <2> QED
      BY <2>1, <2>3, <2>4 DEF EmInv
  <1>7. ASSUME NEW a \in EmAdmins, NEW s \in Stakers, approve_last(a, s), UNCHANGED clockVars
        PROVE  EmInv'
    <2>1. emRequest[s].approvals \in Seq(EmAdmins) /\ exitBy \in [Stakers -> Seq(EmAdmins)]
      BY DEF EmInv, EmTypeOK
    <2>2. Append(emRequest[s].approvals, a) \in Seq(EmAdmins)
      BY <2>1
    <2>3. exitBy' \in [Stakers -> Seq(EmAdmins)]
      BY <1>7, <2>1, <2>2 DEF approve_last
    <2> QED
      BY <1>6, <1>7, <2>3 DEF approve_last
  <1>8. CASE UNCHANGED clockVars /\ \E s \in Stakers : expire_request(s)
    BY <1>6, <1>8 DEF expire_request, EmInv, EmTypeOK
  <1> QED
    BY <1>1, <1>2, <1>3, <1>4, <1>5, <1>7, <1>8 DEF EmShape, EmOps

\* Only the last approval executes a request.
LEMMA ExecutedByApproval ==
    ASSUME EmInv, EmShape, NEW s \in Stakers, Executes(s)
    PROVE  \E a \in EmAdmins : approve_last(a, s)
  <1>1. emRequest[s] # NoRequest /\ emRequest'[s] = NoRequest /\ stake' # stake
    BY DEF Executes, Requested
  <1>2. emRequest' # emRequest
    BY <1>1
  <1>3. PICK r \in Stakers : \/ request(r)
                             \/ \E a \in EmAdmins : approve_more(a, r) \/ approve_last(a, r)
                             \/ expire_request(r)
    BY <1>2 DEF EmShape, EmOps, emVars, configure, set_cooldown
  <1>4. ~request(r) /\ ~expire_request(r)
    BY <1>1 DEF request, expire_request, coreVars, stakeVars
  <1>5. PICK a \in EmAdmins : approve_last(a, r)
    BY <1>1, <1>3, <1>4 DEF approve_more, coreVars, stakeVars
  <1>6. r = s
    BY <1>1, <1>5 DEF approve_last, EmInv, EmTypeOK
  <1> QED
    BY <1>5, <1>6

\* What a list of approvals and one more approval come to.
LEMMA AppendedApproval ==
    ASSUME NEW q \in Seq(EmAdmins), NEW a \in EmAdmins
    PROVE  LET by == Append(q, a)
           IN  /\ by # <<>> /\ Front(by) = q /\ Last(by) = a
               /\ Len(by) = Len(q) + 1
  <1>1. Append(q, a) \in Seq(EmAdmins) /\ Len(Append(q, a)) = Len(q) + 1
    OBVIOUS
  <1>2. Last(Append(q, a)) = a
    BY <1>1 DEF Last
  <1>3. Front(Append(q, a)) = q
    BY <1>1 DEF Front
  <1>4. Append(q, a) # <<>>
    <2>1. Len(q) \in Nat /\ Len(<< >>) = 0
      OBVIOUS
    <2> QED
      BY <1>1, <2>1
  <1> QED
    BY <1>1, <1>2, <1>3, <1>4

\* An approval is recorded only for an admin of the configuration.
LEMMA RecordedByAdmin ==
    ASSUME EmInv, EmShape, NEW s \in Stakers,
           Len(emRequest'[s].approvals) > Len(emRequest[s].approvals)
    PROVE  Last(emRequest'[s].approvals) \in Range(emConfig.admins)
  <1>1. emRequest[s].approvals \in Seq(EmAdmins) /\ Len(emRequest[s].approvals) \in Nat
    BY DEF EmInv, EmTypeOK
  <1>2. emRequest'[s] # emRequest[s]
    BY <1>1
  <1>3. emRequest' # emRequest
    BY <1>2
  <1>4. PICK r \in Stakers : \/ request(r)
                             \/ \E a \in EmAdmins : approve_more(a, r) \/ approve_last(a, r)
                             \/ expire_request(r)
    BY <1>3 DEF EmShape, EmOps, emVars, configure, set_cooldown
  <1>5. emRequest'[s] # NoRequest
    <2>1. Len(NoRequest.approvals) = 0
      BY DEF NoRequest
    <2> QED
      BY <1>1, <2>1
  <1>6. r = s
    BY <1>2, <1>4 DEF request, approve_more, approve_last, expire_request, EmInv, EmTypeOK
  <1>7. ~expire_request(r) /\ \A a \in EmAdmins : ~approve_last(a, r)
    BY <1>5, <1>6 DEF expire_request, approve_last, EmInv, EmTypeOK
  <1>8. ~request(r)
    <2>1. ASSUME request(r)
          PROVE  emRequest'[s].approvals = <<>>
      BY <1>6, <2>1 DEF request, EmInv, EmTypeOK
    <2> QED
      BY <1>1, <2>1
  <1>9. PICK a \in EmAdmins : approve_more(a, s)
    BY <1>4, <1>6, <1>7, <1>8
  <1>10. emRequest'[s].approvals = Append(emRequest[s].approvals, a)
    BY <1>9 DEF approve_more, EmInv, EmTypeOK
  <1>11. Last(emRequest'[s].approvals) = a
    BY <1>1, <1>10, AppendedApproval
  <1> QED
    BY <1>9, <1>11 DEF approve_more, MayApprove

\* The rule of every step.
LEMMA EmShapeRule ==
    ASSUME EmInv, EmShape
    PROVE  SpacedStep /\ ApprovedStep
  <1>1. SpacedStep
    BY DEF EmInv, SpacedStep, Executes
  <1>2. ASSUME NEW s \in Stakers, Executes(s)
        PROVE  LET by == exitBy'[s]
               IN  /\ by # <<>> /\ Front(by) = emRequest[s].approvals
                   /\ IsInjective(by) /\ Len(by) >= emConfig.required
                   /\ Last(by) \in Range(emConfig.admins)
                   /\ emConfig.timeout_secs > 0 =>
                         now <= SatAdd(emRequest[s].requested_at, emConfig.timeout_secs)
    <2>1. PICK a \in EmAdmins : approve_last(a, s)
      BY <1>2, ExecutedByApproval
    <2>2. emRequest[s].approvals \in Seq(EmAdmins) /\ IsInjective(emRequest[s].approvals)
      BY DEF EmInv, EmTypeOK
    <2>3. exitBy'[s] = Append(emRequest[s].approvals, a)
      BY <2>1 DEF approve_last, EmInv, EmTypeOK
    <2>4. a \in Range(emConfig.admins) /\ a \notin Range(emRequest[s].approvals)
      BY <2>1 DEF approve_last, MayApprove
    <2>5. IsInjective(Append(emRequest[s].approvals, a))
      BY <2>2, <2>4, AppendInjective_New
    <2>6. /\ exitBy'[s] # <<>> /\ Front(exitBy'[s]) = emRequest[s].approvals
          /\ Last(exitBy'[s]) = a /\ Len(exitBy'[s]) = Len(emRequest[s].approvals) + 1
      BY <2>2, <2>3, AppendedApproval
    <2>7. Len(emRequest[s].approvals) + 1 >= emConfig.required
      BY <2>1 DEF approve_last, Completes
    <2>8. emConfig.timeout_secs > 0 =>
            now <= SatAdd(emRequest[s].requested_at, emConfig.timeout_secs)
      <3> SUFFICES ASSUME emConfig.timeout_secs > 0
                   PROVE  now <= SatAdd(emRequest[s].requested_at, emConfig.timeout_secs)
        OBVIOUS
      <3>1. ~(now > SatAdd(emRequest[s].requested_at, emConfig.timeout_secs))
        BY <2>1 DEF approve_last, MayApprove, TimedOut
      <3>2. emRequest[s] # NoRequest /\ emConfig \in EmConfigs \cup {NoEmConfig}
        BY <1>2 DEF Executes, Requested, EmInv, EmTypeOK
      <3>3. emConfig.timeout_secs \in Nat
        BY <3>2, EmergencyConstants DEF NoEmConfig
      <3>4. emRequest[s].requested_at \in Int
        BY DEF EmInv, EmTypeOK, NoTime
      <3>5. now \in Nat
        BY DEF EmInv, ClockOK, ClockTypeOK
      <3> QED
        BY <3>1, <3>3, <3>4, <3>5, ClockConstants DEF SatAdd
    <2> QED
      BY <2>3, <2>4, <2>5, <2>6, <2>7, <2>8
  <1> QED
    BY <1>1, <1>2, RecordedByAdmin DEF ApprovedStep

\* Every step of the emergency specification has the shape.
LEMMA EmNextShape ==
    ASSUME [EmNext]_allEmVars
    PROVE  EmShape
  <1>1. CASE CoreStep /\ UNCHANGED emVars
    BY <1>1 DEF CoreStep, EmShape, ClockMoves
  <1>2. CASE EmStep
    BY <1>2 DEF EmStep, EmShape, clockVars
  <1>3. CASE UNCHANGED allEmVars
    BY <1>3 DEF allEmVars, allCoreVars, EmShape, ClockMoves
  <1> QED
    BY <1>1, <1>2, <1>3 DEF EmNext

\* An emergency exit needs a quorum of different admins, each configured when it
\* approved, all before the timeout, and a request made a cooldown after the
\* account's exit before (emergency_unstake.rs), for every set of stakers, admins,
\* policies and cooldowns.
THEOREM EmergenciesByRuleAlways == EmSpec => EmergenciesByRule
  <1>1. ClockInit /\ EmInit => EmInv
    BY EmInitInv
  <1>2. EmInv /\ [EmNext]_allEmVars => EmInv'
    BY EmNextShape, EmShapeInv
  <1>3. EmInv /\ [EmNext]_allEmVars => SpacedStep /\ ApprovedStep
    BY EmNextShape, EmShapeRule
  <1>4. EmInv => EmTypeOK
    BY DEF EmInv
  <1> QED
    BY <1>1, <1>2, <1>3, <1>4, PTL
       DEF EmSpec, CoreSystemInit, EmergenciesByRule, EmergenciesSpaced, QuorumOfApprovals

\* In the composition with the eligibility checks too.
LEMMA EntNextShape ==
    ASSUME [EntNext]_allEligibilityVars
    PROVE  EmShape
  <1>1. CASE CoreStep /\ UNCHANGED emVars
    BY <1>1 DEF CoreStep, EmShape, ClockMoves
  <1>2. CASE EligibilityStep /\ UNCHANGED emVars
    BY <1>2 DEF EligibilityStep, EmShape, ClockMoves, clockVars
  <1>3. CASE EmStep
    BY <1>3 DEF EmStep, EmShape, clockVars
  <1>4. CASE UNCHANGED allEligibilityVars
    BY <1>4 DEF allEligibilityVars, allCoreVars, EmShape, ClockMoves
  <1> QED
    BY <1>1, <1>2, <1>3, <1>4 DEF EntNext, emVars

\* And in the whole contract: no call of the queue, of slashing or of the
\* multi-sig touches the emergency records.
LEMMA VaultNextEmShape ==
    ASSUME [VaultNext]_allVars
    PROVE  EmShape
  <1>1. CASE CoreStep /\ UNCHANGED emVars
    BY <1>1 DEF CoreStep, EmShape, ClockMoves
  <1>2. CASE (QueueStep \/ SlashStep) /\ UNCHANGED emVars
    BY <1>2 DEF QueueStep, SlashStep, EmShape, ClockMoves, clockVars
  <1>3. CASE EmStep
    BY <1>3 DEF EmStep, EmShape, clockVars
  <1>4. CASE UNCHANGED <<clockVars, vaultVars>>
    BY <1>4 DEF vaultVars, EmShape, ClockMoves
  <1>5. CASE \E id \in DOMAIN proposals : execute_action(id)
    BY <1>5 DEF execute_action, EmShape, ClockMoves, clockVars
  <1>6. CASE UNCHANGED allVars
    BY <1>4, <1>6 DEF allVars
  <1> QED
    BY <1>1, <1>2, <1>3, <1>4, <1>5, <1>6 DEF VaultNext, emVars

\* The same rule holds of the whole contract, where slashes, reversals, queued
\* withdrawals and executed proposals come between request and approvals.
THEOREM VaultEmergenciesByRule == VaultSpec => EmergenciesByRule
  <1>1. ClockInit /\ EmInit => EmInv
    BY EmInitInv
  <1>2. EmInv /\ [VaultNext]_allVars => EmInv'
    BY VaultNextEmShape, EmShapeInv
  <1>3. EmInv /\ [VaultNext]_allVars => SpacedStep /\ ApprovedStep
    BY VaultNextEmShape, EmShapeRule
  <1>4. EmInv => EmTypeOK
    BY DEF EmInv
  <1> QED
    BY <1>1, <1>2, <1>3, <1>4, PTL
       DEF VaultSpec, VaultInit, CoreSystemInit, EmergenciesByRule, EmergenciesSpaced,
           QuorumOfApprovals

----------------------------------------------------------------------------
\* Slashes and appeals.

SlashFields ==
    {"provider", "slash_amount", "slashed_at", "appeal", "held", "ledger", "settled", "window"}

\* The part of a slash record that the rules read.  Its amounts are sums over all
\* delegators and stay out of the invariant.
SlashRecord(f) ==
    /\ DOMAIN f = SlashFields
    /\ f.provider \in Stakers
    /\ f.ledger \in Nat
    /\ f.appeal \in {"None", "Pending", "Upheld", "Reversed"}

\* The inductive invariant.  The cooldown is measured from LastSlashLedger alone:
\* it must be no earlier than any slash of the provider, and never in the future.
SlashInv ==
    /\ ClockOK
    /\ \E S : slashes \in Seq(S)
    /\ lastSlash \in [Stakers -> Nat]
    /\ slashCooldown \in Nat
    /\ \A p \in Stakers : lastSlash[p] <= seq + 1
    /\ \A id \in DOMAIN slashes :
          /\ SlashRecord(slashes[id])
          /\ slashes[id].ledger < lastSlash[slashes[id].provider]

\* One record is rewritten.
Rewrites(id, e) ==
    /\ id \in DOMAIN slashes
    /\ slashes' = [slashes EXCEPT ![id] = e]
    /\ UNCHANGED <<lastSlash, slashCooldown>>

\* A new record is appended.
Slashes(p, e) ==
    /\ CanSlash(p)
    /\ slashes' = Append(slashes, e)
    /\ SlashRecord(e) /\ e.provider = p /\ e.ledger = seq
    /\ lastSlash' = [lastSlash EXCEPT ![p] = seq + 1]
    /\ UNCHANGED slashCooldown

\* How an appeal may move.
AppealMove(was, is) ==
    /\ SlashRecord(is)
    /\ is.provider = was.provider /\ is.ledger = was.ledger
    /\ \/ /\ was.appeal = "None" /\ is.appeal = "Pending"
          /\ appealWindow # 0 /\ now <= SatAdd(was.slashed_at, appealWindow)
       \/ was.appeal = "Pending" /\ is.appeal \in {"Pending", "Upheld", "Reversed"}

\* What a step of any specification does to the slash records.
SlashShape ==
    \/ ClockMoves /\ UNCHANGED <<slashes, lastSlash, slashCooldown>>
    \/ UNCHANGED clockVars /\ UNCHANGED <<slashes, lastSlash>> /\ slashCooldown' \in Nat
    \/ UNCHANGED clockVars /\ \E p \in Stakers : \E e : Slashes(p, e)
    \/ UNCHANGED clockVars /\ \E id, e : Rewrites(id, e) /\ AppealMove(slashes[id], e)

\* Nobody is slashed at first.
LEMMA SlashInitInv ==
    ASSUME ClockInit, SlashInit
    PROVE  SlashInv
  <1>1. ClockOK
    BY ClockStarts
  <1>2. slashes \in Seq({}) /\ DOMAIN slashes = {}
    BY DEF SlashInit
  <1> QED
    BY <1>1, <1>2, SlashConstants DEF SlashInit, SlashInv, ClockOK, ClockTypeOK

\* A rewritten record stands alone: the others, and their number, stay.
LEMMA RewriteFacts ==
    ASSUME SlashInv, NEW id, NEW e, Rewrites(id, e)
    PROVE  /\ \E S : slashes' \in Seq(S)
           /\ DOMAIN slashes' = DOMAIN slashes /\ Len(slashes') = Len(slashes)
           /\ slashes'[id] = e
           /\ \A j \in DOMAIN slashes : j # id => slashes'[j] = slashes[j]
  <1>1. PICK S : slashes \in Seq(S)
    BY DEF SlashInv
  <1>2. slashes' \in Seq(S \cup {e})
    BY <1>1 DEF Rewrites
  <1>3. DOMAIN slashes' = DOMAIN slashes /\ Len(slashes') = Len(slashes)
    BY <1>1, <1>2 DEF Rewrites
  <1> QED
    BY <1>1, <1>2, <1>3 DEF Rewrites

\* An appended record comes last.
LEMMA SlashFacts ==
    ASSUME SlashInv, NEW p \in Stakers, NEW e, Slashes(p, e)
    PROVE  /\ \E S : slashes' \in Seq(S)
           /\ Last(slashes') = e
           /\ \A j \in DOMAIN slashes' : slashes'[j] = e \/ (j \in DOMAIN slashes /\ slashes'[j] = slashes[j])
           /\ \A j \in DOMAIN slashes : slashes'[j] = slashes[j]
  <1>1. PICK S : slashes \in Seq(S)
    BY DEF SlashInv
  <1> DEFINE T == S \cup {e}
  <1>2. slashes \in Seq(T) /\ e \in T
    BY <1>1
  <1> HIDE DEF T
  <1>3. slashes' = Append(slashes, e) /\ slashes' \in Seq(T) /\ Len(slashes') = Len(slashes) + 1
        /\ Len(slashes) \in Nat
    BY <1>2 DEF Slashes
  <1>4. /\ DOMAIN slashes = 1 .. Len(slashes) /\ DOMAIN slashes' = 1 .. (Len(slashes) + 1)
        /\ slashes'[Len(slashes) + 1] = e
        /\ \A j \in 1 .. Len(slashes) : slashes'[j] = slashes[j]
    BY <1>2, <1>3
  <1>5. Last(slashes') = e
    BY <1>3, <1>4 DEF Last
  <1>6. ASSUME NEW j \in DOMAIN slashes'
        PROVE  slashes'[j] = e \/ (j \in DOMAIN slashes /\ slashes'[j] = slashes[j])
    <2>1. j = Len(slashes) + 1 \/ j \in 1 .. Len(slashes)
      BY <1>3, <1>4, <1>6
    <2> QED
      BY <1>4, <2>1
  <1>7. \E U : slashes' \in Seq(U)
    BY <1>3
  <1> QED
    BY <1>4, <1>5, <1>6, <1>7

\* Every step keeps the invariant.
LEMMA SlashShapeInv ==
    ASSUME SlashInv, SlashShape
    PROVE  SlashInv'
  <1>1. CASE ClockMoves /\ UNCHANGED <<slashes, lastSlash, slashCooldown>>
    <2>1. ClockOK' /\ seq' >= seq /\ seq \in Nat /\ seq' \in Nat
      BY <1>1, ClockMovesOn
         DEF SlashInv, ClockMoves, CloseLedger, clockVars, ClockOK, ClockTypeOK
    <2>2. ASSUME NEW p \in Stakers
          PROVE  lastSlash'[p] <= seq' + 1
      BY <1>1, <2>1, <2>2 DEF SlashInv
    <2> QED
      BY <1>1, <2>1, <2>2 DEF SlashInv
  <1>2. CASE UNCHANGED clockVars /\ UNCHANGED <<slashes, lastSlash>> /\ slashCooldown' \in Nat
    BY <1>2 DEF SlashInv, ClockOK, ClockTypeOK, clockVars
  <1>3. ASSUME UNCHANGED clockVars, NEW p \in Stakers, NEW e, Slashes(p, e)
        PROVE  SlashInv'
    <2>1. ClockOK' /\ seq' = seq /\ seq \in Nat
      BY <1>3 DEF SlashInv, ClockOK, ClockTypeOK, clockVars
    <2>2. /\ lastSlash' \in [Stakers -> Nat]
          /\ slashCooldown' \in Nat
          /\ \A r \in Stakers : lastSlash'[r] <= seq' + 1 /\ lastSlash'[r] >= lastSlash[r]
          /\ lastSlash'[p] = seq + 1
      BY <1>3, <2>1 DEF SlashInv, Slashes
    <2>3. ASSUME NEW j \in DOMAIN slashes'
          PROVE  /\ SlashRecord(slashes'[j])
                 /\ slashes'[j].ledger < lastSlash'[slashes'[j].provider]
      <3>1. CASE slashes'[j] = e
        BY <1>3, <2>1, <2>2, <3>1 DEF Slashes
      <3>2. CASE j \in DOMAIN slashes /\ slashes'[j] = slashes[j]
        <4>1. SlashRecord(slashes[j]) /\ slashes[j].ledger < lastSlash[slashes[j].provider]
          BY <3>2 DEF SlashInv
        <4>2. slashes[j].provider \in Stakers /\ slashes[j].ledger \in Nat
          BY <4>1 DEF SlashRecord
        <4>3. lastSlash[slashes[j].provider] \in Nat /\ lastSlash'[slashes[j].provider] \in Nat
              /\ lastSlash'[slashes[j].provider] >= lastSlash[slashes[j].provider]
          BY <2>2, <4>2 DEF SlashInv
        <4> QED
          BY <3>2, <4>1, <4>2, <4>3
      <3> QED
        BY <1>3, <3>1, <3>2, SlashFacts
    <2>4. \E S : slashes' \in Seq(S)
      BY <1>3, SlashFacts
    <2> QED
      BY <2>1, <2>2, <2>3, <2>4 DEF SlashInv
  <1>4. ASSUME UNCHANGED clockVars, NEW id, NEW e, Rewrites(id, e), AppealMove(slashes[id], e)
        PROVE  SlashInv'
    <2>1. ClockOK' /\ seq' = seq
      BY <1>4 DEF SlashInv, ClockOK, ClockTypeOK, clockVars
    <2>2. lastSlash' = lastSlash /\ slashCooldown' = slashCooldown /\ id \in DOMAIN slashes
      BY <1>4 DEF Rewrites
    <2>3. ASSUME NEW j \in DOMAIN slashes'
          PROVE  /\ SlashRecord(slashes'[j])
                 /\ slashes'[j].ledger < lastSlash'[slashes'[j].provider]
      <3>1. j \in DOMAIN slashes /\ (j # id => slashes'[j] = slashes[j]) /\ slashes'[id] = e
        BY <1>4, RewriteFacts
      <3>2. CASE j = id
        BY <1>4, <2>2, <3>1, <3>2 DEF SlashInv, AppealMove
      <3>3. CASE j # id
        BY <2>2, <3>1, <3>3 DEF SlashInv
      <3> QED
        BY <3>2, <3>3
    <2>4. \E S : slashes' \in Seq(S)
      BY <1>4, RewriteFacts
    <2> QED
      BY <2>1, <2>2, <2>3, <2>4 DEF SlashInv
  <1> QED
    BY <1>1, <1>2, <1>3, <1>4 DEF SlashShape

\* A slash comes a cooldown after every earlier slash of its provider.
LEMMA SlashShapeSpaced ==
    ASSUME SlashInv, SlashShape
    PROVE  SlashSpacedStep
  <1> SUFFICES ASSUME Len(slashes') > Len(slashes), NEW id \in DOMAIN slashes,
                      slashes[id].provider = Last(slashes').provider
               PROVE  seq - slashes[id].ledger >= slashCooldown
    BY DEF SlashSpacedStep
  <1>1. Len(slashes) \in Nat
    <2>1. PICK S : slashes \in Seq(S)
      BY DEF SlashInv
    <2> QED
      BY <2>1
  <1>2. slashes' # slashes
    BY <1>1
  <1>3. ~\E j, e : Rewrites(j, e)
    BY <1>1, RewriteFacts
  <1>4. PICK p \in Stakers : \E e : Slashes(p, e)
    BY <1>2, <1>3 DEF SlashShape
  <1>5. slashes[id].provider = p /\ CanSlash(p)
    BY <1>4, SlashFacts DEF Slashes
  <1>6. /\ slashes[id].ledger \in Nat /\ slashes[id].ledger < lastSlash[p]
        /\ lastSlash[p] \in Nat /\ lastSlash[p] <= seq + 1 /\ seq \in Nat /\ slashCooldown \in Nat
    BY <1>5 DEF SlashInv, SlashRecord, ClockOK, ClockTypeOK
  <1>7. SatSub(seq, lastSlash[p] - 1) >= slashCooldown
    BY <1>5, <1>6 DEF CanSlash, SlashCooledDown
  <1> QED
    BY <1>6, <1>7 DEF SatSub

\* An appeal is filed once, inside the window, and resolved once.
LEMMA SlashShapeAppeals ==
    ASSUME SlashInv, SlashShape
    PROVE  AppealStep
  <1>1. CASE slashes' = slashes
    BY <1>1 DEF AppealStep
  <1>2. ASSUME NEW p \in Stakers, NEW e, Slashes(p, e)
        PROVE  AppealStep
    BY <1>2, SlashFacts DEF AppealStep
  <1>3. ASSUME NEW id, NEW e, Rewrites(id, e), AppealMove(slashes[id], e)
        PROVE  AppealStep
    BY <1>3, RewriteFacts DEF AppealStep, AppealMove
  <1> QED
    BY <1>1, <1>2, <1>3 DEF SlashShape

\* do_slash appends a record of its own, whatever became of the tokens.
LEMMA DoSlashShape ==
    ASSUME SlashInv, NEW p \in Stakers, NEW v, NEW outcome, do_slash(p, v, outcome)
    PROVE  \E e : Slashes(p, e)
  <1> DEFINE amount == SlashOf(balance(p), slashTiers[v]) + delegated_slash(p, slashTiers[v])
             e == [provider |-> p, slash_amount |-> amount, slashed_at |-> now,
                   appeal |-> "None",
                   held |-> IF outcome = "parked" THEN amount ELSE 0,
                   ledger |-> seq, window |-> appealWindow,
                   settled |-> IF outcome = "burned" THEN amount ELSE 0]
  <1>1. slashes' = Append(slashes, e) /\ CanSlash(p)
        /\ lastSlash' = [lastSlash EXCEPT ![p] = seq + 1] /\ UNCHANGED slashCooldown
    BY DEF do_slash, slashParams
  <1> HIDE DEF amount
  <1>2. SlashRecord(e) /\ e.provider = p /\ e.ledger = seq
    BY DEF SlashRecord, SlashFields, SlashInv, ClockOK, ClockTypeOK
  <1> HIDE DEF e
  <1> QED
    BY <1>1, <1>2 DEF Slashes

\* Rewriting fields other than provider and ledger.
LEMMA AppealShape ==
    ASSUME SlashInv, NEW id \in DOMAIN slashes,
           \/ appeal_slash(id)
           \/ (\E b \in BOOLEAN : do_resolve_appeal(id, b))
           \/ (uphold_failed_burn(id) /\ AppealFrame)
    PROVE  \E e : Rewrites(id, e) /\ AppealMove(slashes[id], e)
  <1> DEFINE f == slashes[id]
  <1>1. SlashRecord(f) /\ DOMAIN f = SlashFields
    BY DEF SlashInv, SlashRecord
  <1>2. UNCHANGED <<lastSlash, slashCooldown>>
    BY DEF appeal_slash, do_resolve_appeal, AppealFrame, slashParams
  <1>3. CASE appeal_slash(id)
    <2> DEFINE e == [f EXCEPT !.appeal = "Pending"]
    <2>1. /\ slashes' = [slashes EXCEPT ![id] = e] /\ f.appeal = "None"
          /\ appealWindow # 0 /\ now <= SatAdd(f.slashed_at, appealWindow)
      BY <1>3 DEF appeal_slash
    <2>2. AppealMove(f, e)
      BY <1>1, <2>1 DEF AppealMove, SlashRecord, SlashFields
    <2> QED
      BY <1>2, <2>1, <2>2 DEF Rewrites
  <1>4. CASE do_resolve_appeal(id, TRUE)
    <2> DEFINE e == [f EXCEPT !.appeal = "Upheld", !.held = 0, !.settled = @ + f.held]
    <2>1. slashes' = [slashes EXCEPT ![id] = e] /\ f.appeal = "Pending"
      BY <1>4 DEF do_resolve_appeal, uphold, Unresolved
    <2>2. AppealMove(f, e)
      BY <1>1, <2>1 DEF AppealMove, SlashRecord, SlashFields
    <2> QED
      BY <1>2, <2>1, <2>2 DEF Rewrites
  <1>5. CASE do_resolve_appeal(id, FALSE)
    <2> DEFINE amount == IF f.held > 0 THEN f.held ELSE f.slash_amount
               e == [f EXCEPT !.appeal = "Reversed", !.held = 0, !.settled = @ + amount]
    <2>1. slashes' = [slashes EXCEPT ![id] = e] /\ f.appeal = "Pending"
      BY <1>5 DEF do_resolve_appeal, reverse, Unresolved
    <2> HIDE DEF amount
    <2>2. AppealMove(f, e)
      BY <1>1, <2>1 DEF AppealMove, SlashRecord, SlashFields
    <2> QED
      BY <1>2, <2>1, <2>2 DEF Rewrites
  <1>6. CASE uphold_failed_burn(id)
    <2> DEFINE e == [f EXCEPT !.held = 0]
    <2>1. slashes' = [slashes EXCEPT ![id] = e] /\ f.appeal = "Pending"
      BY <1>6 DEF uphold_failed_burn, Unresolved
    <2>2. AppealMove(f, e)
      BY <1>1, <2>1 DEF AppealMove, SlashRecord, SlashFields
    <2> QED
      BY <1>2, <2>1, <2>2 DEF Rewrites
  <1> QED
    BY <1>3, <1>4, <1>5, <1>6

\* Every step of slashing, batches and their half-done items included.
LEMMA SlashStepShape ==
    ASSUME SlashInv, SlashStep
    PROVE  SlashShape
  <1>1. UNCHANGED clockVars
    BY DEF SlashStep, clockVars
  <1>2. ASSUME NEW p \in Stakers, NEW v, NEW outcome, do_slash(p, v, outcome)
        PROVE  SlashShape
    BY <1>1, <1>2, DoSlashShape DEF SlashShape
  <1>3. ASSUME NEW id \in DOMAIN slashes,
               \/ appeal_slash(id)
               \/ (\E b \in BOOLEAN : do_resolve_appeal(id, b))
               \/ (uphold_failed_burn(id) /\ AppealFrame)
        PROVE  SlashShape
    BY <1>1, <1>3, AppealShape DEF SlashShape
  <1>4. CASE UNCHANGED <<slashes, lastSlash, slashCooldown>>
    BY <1>1, <1>4 DEF SlashShape, ClockMoves
  <1>5. CASE SlashOps
    <2>1. CASE \E d, p \in Stakers, a \in Amounts : delegate_stake(d, p, a)
      BY <1>4, <2>1 DEF delegate_stake, slashParams
    <2>2. CASE \E p \in Stakers, v \in Severities : slash_stake(p, v)
      BY <1>2, <2>2 DEF slash_stake
    <2>3. CASE \E id \in DOMAIN slashes : appeal_slash(id)
      BY <1>3, <2>3
    <2>4. CASE \E id \in DOMAIN slashes, b \in BOOLEAN : resolve_appeal(id, b)
      BY <1>3, <2>4 DEF resolve_appeal
    <2>5. CASE \E n \in BatchSizes : batch_slash_stake(n) \/ batch_resolve_appeal(n)
      BY <1>4, <2>5 DEF batch_slash_stake, batch_resolve_appeal, start_batch,
                        NothingWritten, slashVars, slashParams
    <2>6. CASE \E t \in SlashTiers : configure_slash_tiers(t) \/ governance_configure_slash_tiers(t)
      BY <1>4, <2>6 DEF configure_slash_tiers, governance_configure_slash_tiers, set_slash_tiers
    <2>7. CASE \E n \in SlashCooldowns : set_slash_cooldown(n)
      BY <1>1, <2>7, SlashConstants DEF set_slash_cooldown, SlashShape
    <2>8. CASE \E w \in AppealWindows : set_appeal_window(w)
      BY <1>4, <2>8 DEF set_appeal_window, put_appeal_window
    <2> QED
      BY <1>5, <2>1, <2>2, <2>3, <2>4, <2>5, <2>6, <2>7, <2>8 DEF SlashOps
  <1>6. CASE SlashLoop
    <2>1. CASE NothingWritten
      BY <1>4, <2>1 DEF NothingWritten, slashVars, slashParams
    <2>2. CASE \E p \in Stakers, v \in Severities : batch_slash_item(p, v)
      BY <1>2, <2>1, <2>2 DEF batch_slash_item
    <2>3. CASE \E id \in DOMAIN slashes, b \in BOOLEAN : batch_resolve_item(id, b)
      BY <1>3, <2>3 DEF batch_resolve_item
    <2>4. CASE batch_resolve_skip
      BY <2>1, <2>4 DEF batch_resolve_skip
    <2> QED
      BY <1>6, <2>2, <2>3, <2>4 DEF SlashLoop
  <1> QED
    BY <1>5, <1>6 DEF SlashStep

\* Every step of the slashing specification has the shape.
LEMMA SlashNextShape ==
    ASSUME SlashInv, [SlashNext]_allSlashVars
    PROVE  SlashShape
  <1>1. CASE CoreStep /\ UNCHANGED slashVars
    BY <1>1 DEF CoreStep, SlashShape, ClockMoves, slashVars, slashParams
  <1>2. CASE SlashStep
    BY <1>2, SlashStepShape
  <1>3. CASE UNCHANGED allSlashVars
    BY <1>3 DEF allSlashVars, allCoreVars, SlashShape, ClockMoves, slashVars, slashParams
  <1> QED
    BY <1>1, <1>2, <1>3 DEF SlashNext

\* Every step of the whole contract has it, executed proposals included.
LEMMA VaultNextSlashShape ==
    ASSUME SlashInv, [VaultNext]_allVars
    PROVE  SlashShape
  <1> USE DEF slashVars, slashParams
  <1>1. CASE CoreStep /\ UNCHANGED slashVars
    BY <1>1 DEF CoreStep, SlashShape, ClockMoves
  <1>2. CASE SlashStep
    BY <1>2, SlashStepShape
  <1>3. CASE (QueueStep \/ EmStep) /\ UNCHANGED slashVars
    BY <1>3 DEF QueueStep, EmStep, SlashShape, ClockMoves, clockVars
  <1>4. CASE UNCHANGED <<clockVars, vaultVars>>
    BY <1>4 DEF vaultVars, SlashShape, ClockMoves
  <1>5. ASSUME NEW id \in DOMAIN proposals, execute_action(id)
        PROVE  SlashShape
    <2> DEFINE tag == proposals[id].payload.tag
               args == proposals[id].payload.args
    <2>1. UNCHANGED clockVars /\ (UNCHANGED slashVars \/ dispatch_slash(tag, args))
      BY <1>5 DEF execute_action, clockVars
    <2>2. CASE UNCHANGED <<slashes, lastSlash, slashCooldown>>
      BY <2>1, <2>2 DEF SlashShape, ClockMoves
    <2>3. CASE set_slash_tiers(TiersOf(args)) \/ put_appeal_window(args[1])
      BY <2>2, <2>3 DEF set_slash_tiers, put_appeal_window
    <2>4. CASE do_resolve_appeal(args[1], args[2] = 1)
      <3>1. args[1] \in DOMAIN slashes /\ (args[2] = 1) \in BOOLEAN
        BY <2>4 DEF do_resolve_appeal
      <3> QED
        BY <2>1, <2>4, <3>1, AppealShape DEF SlashShape
    <2> QED
      BY <2>1, <2>2, <2>3, <2>4 DEF dispatch_slash
  <1>6. CASE UNCHANGED allVars
    BY <1>4, <1>6 DEF allVars
  <1> QED
    BY <1>1, <1>2, <1>3, <1>4, <1>5, <1>6 DEF VaultNext

\* Two slashes of a provider are a cooldown apart, and an appeal is filed once,
\* inside the window in force, and resolved once (do_slash, appeal_slash,
\* do_resolve_appeal), for every set of stakers, tiers, cooldowns and windows and
\* through batches with failing items.
THEOREM SlashesByRuleAlways == SlashSpec => SlashesByRule
  <1>1. ClockInit /\ SlashInit => SlashInv
    BY SlashInitInv
  <1>2. SlashInv /\ [SlashNext]_allSlashVars => SlashInv'
    BY SlashNextShape, SlashShapeInv
  <1>3. SlashInv /\ [SlashNext]_allSlashVars => SlashSpacedStep /\ AppealStep
    BY SlashNextShape, SlashShapeSpaced, SlashShapeAppeals
  <1> QED
    BY <1>1, <1>2, <1>3, PTL
       DEF SlashSpec, SlashSystemInit, CoreSystemInit, SlashesByRule, SlashesSpaced, AppealsFinal

\* The same rule holds of the whole contract, where the multi-sig resolves appeals
\* and moves the appeal window as well.
THEOREM VaultSlashesByRule == VaultSpec => SlashesByRule
  <1>1. ClockInit /\ SlashInit => SlashInv
    BY SlashInitInv
  <1>2. SlashInv /\ [VaultNext]_allVars => SlashInv'
    BY VaultNextSlashShape, SlashShapeInv
  <1>3. SlashInv /\ [VaultNext]_allVars => SlashSpacedStep /\ AppealStep
    BY VaultNextSlashShape, SlashShapeSpaced, SlashShapeAppeals
  <1> QED
    BY <1>1, <1>2, <1>3, PTL
       DEF VaultSpec, VaultInit, CoreSystemInit, SlashesByRule, SlashesSpaced, AppealsFinal

----------------------------------------------------------------------------
\* The multi-sig.

\* Every step of the contract is a step of the approval flow or leaves it alone.
LEMMA VaultNextMultisig ==
    ASSUME [VaultNext]_allVars
    PROVE  [MSNext]_<<clockVars, msVars>>
  <1>1. CASE CoreStep
    BY <1>1 DEF CoreStep, MSNext, clockVars, msVars
  <1>2. CASE QueueStep \/ SlashStep \/ EmStep
    BY <1>2 DEF QueueStep, SlashStep, EmStep, clockVars, msVars
  <1>3. CASE MultisigOps /\ UNCHANGED clockVars
    BY <1>3 DEF MultisigOps, MSNext
  <1>4. CASE \E id \in DOMAIN proposals : execute_action(id)
    BY <1>4 DEF execute_action, MSNext, clockVars
  <1>5. CASE UNCHANGED allVars
    BY <1>5 DEF allVars
  <1> QED
    BY <1>1, <1>2, <1>3, <1>4, <1>5 DEF VaultNext, clockVars

\* The contract drives the shared library the way the library's specification says.
THEOREM VaultRunsMultisig == VaultSpec => MSSpec
  <1>1. VaultInit => ClockInit /\ MSInit
    BY DEF VaultInit, CoreSystemInit
  <1>2. [VaultNext]_allVars => [MSNext]_<<clockVars, msVars>>
    BY VaultNextMultisig
  <1> QED
    BY <1>1, <1>2, PTL DEF VaultSpec, MSSpec

\* So in the whole contract a proposal runs at most once, by a quorum and in time.
THEOREM VaultProposalsByQuorum == VaultSpec => ProposalsByQuorum
  BY VaultRunsMultisig, ProposalsByQuorumAlways, PTL

\* The parameters behind the multi-sig, and the two the governance contract may
\* change as well.
Protected ==
    /\ UNCHANGED <<minStake, minDuration, cooldown, appealWindow, maxQueue>>
    /\ UNCHANGED <<paused, slashTiers>> \/ governance # {}

\* While a multi-sig is configured the admin's own entry points refuse.
LEMMA CoreProtected ==
    ASSUME MultisigOn, CoreStep, UNCHANGED <<queueVars, slashVars>>
    PROVE  Protected
  <1> USE DEF queueVars, slashVars, slashParams, paramVars, Protected
  <1>1. CASE UNCHANGED coreVars
    BY <1>1 DEF coreVars
  <1>2. CASE CoreOps
    BY <1>2 DEF CoreOps, deposit_stake, partial_unstake, withdraw_stake, do_withdraw, leave,
                request_withdrawal, set_paused, set_minimum_stake,
                set_minimum_stake_duration, set_withdrawal_cooldown, set_governance,
                apply_governance_pause, put_paused
  <1> QED
    BY <1>1, <1>2 DEF CoreStep

\* Nor does the queue change any of them.
LEMMA QueueProtected ==
    ASSUME MultisigOn, QueueStep, UNCHANGED slashVars
    PROVE  Protected
  <1> USE DEF queueVars, slashVars, slashParams, paramVars, Protected
  <1>1. CASE QueueOps
    BY <1>1 DEF QueueOps, queue_unstake, set_max_unstake_queue_size, coreVars
  <1>2. CASE \E limit \in ProcessLimits : process_unstake_queue(limit)
    BY <1>2 DEF process_unstake_queue
  <1>3. CASE process_entry
    BY <1>3 DEF process_entry, skip_orphan, serve, do_withdraw, leave, coreVars
  <1>4. CASE process_return
    BY <1>4 DEF process_return
  <1> QED
    BY <1>1, <1>2, <1>3, <1>4 DEF QueueStep, QueueLoop

\* Slashing does so only for the governance contract.
LEMMA SlashProtected ==
    ASSUME MultisigOn, SlashStep, UNCHANGED queueVars
    PROVE  Protected
  <1> USE DEF queueVars, slashVars, slashParams, paramVars, Protected
  <1>1. ASSUME NEW p, NEW v, NEW outcome, do_slash(p, v, outcome)
        PROVE  Protected
    BY <1>1 DEF do_slash
  <1>2. ASSUME NEW id, NEW b, do_resolve_appeal(id, b)
        PROVE  Protected
    BY <1>2 DEF do_resolve_appeal, AppealFrame
  <1>3. CASE NothingWritten
    BY <1>3 DEF NothingWritten
  <1>4. CASE SlashOps
    <2>1. CASE \E d, p \in Stakers, a \in Amounts : delegate_stake(d, p, a)
      BY <2>1 DEF delegate_stake
    <2>2. CASE \E p \in Stakers, v \in Severities : slash_stake(p, v)
      BY <1>1, <2>2 DEF slash_stake
    <2>3. CASE \E id \in DOMAIN slashes : appeal_slash(id)
      BY <2>3 DEF appeal_slash, coreVars
    <2>4. CASE \E id \in DOMAIN slashes, b \in BOOLEAN : resolve_appeal(id, b)
      BY <1>2, <2>4 DEF resolve_appeal
    <2>5. CASE \E n \in BatchSizes : batch_slash_stake(n) \/ batch_resolve_appeal(n)
      BY <1>3, <2>5 DEF batch_slash_stake, batch_resolve_appeal, start_batch
    <2>6. CASE \E t \in SlashTiers : configure_slash_tiers(t) \/ governance_configure_slash_tiers(t)
      BY <2>6 DEF configure_slash_tiers, governance_configure_slash_tiers, set_slash_tiers, coreVars
    <2>7. CASE \E n \in SlashCooldowns : set_slash_cooldown(n)
      BY <2>7 DEF set_slash_cooldown, coreVars
    <2>8. CASE \E w \in AppealWindows : set_appeal_window(w)
      BY <2>8 DEF set_appeal_window
    <2> QED
      BY <1>4, <2>1, <2>2, <2>3, <2>4, <2>5, <2>6, <2>7, <2>8 DEF SlashOps
  <1>5. CASE \E p \in Stakers, v \in Severities : batch_slash_item(p, v)
    BY <1>1, <1>3, <1>5 DEF batch_slash_item
  <1>6. CASE \E id \in DOMAIN slashes, b \in BOOLEAN : batch_resolve_item(id, b)
    BY <1>2, <1>6 DEF batch_resolve_item, AppealFrame
  <1>7. CASE batch_resolve_skip
    BY <1>3, <1>7 DEF batch_resolve_skip
  <1> QED
    BY <1>4, <1>5, <1>6, <1>7 DEF SlashStep, SlashLoop

\* Nor do the emergency unstakes.
LEMMA EmProtected ==
    ASSUME EmStep, UNCHANGED <<queueVars, slashVars>>
    PROVE  Protected
  <1> USE DEF queueVars, slashVars, slashParams, paramVars, Protected, coreVars
  <1> QED
    BY DEF EmStep, EmOps, configure, set_cooldown, request, approve_more, approve_last,
           expire_request

\* Executing a proposal is visible in its count of executions.
LEMMA ExecutionCounts ==
    ASSUME MSInv, NEW id \in DOMAIN proposals, execute_action(id)
    PROVE  AnExecution
  <1>1. executions \in Seq(Nat) /\ id \in DOMAIN executions /\ executions[id] \in Nat
    BY DEF MSInv, MSTypeOK
  <1>2. executions'[id] = executions[id] + 1
    BY <1>1 DEF execute_action, run_proposal, mark_executed
  <1> QED
    BY <1>1, <1>2 DEF AnExecution

\* While a multi-sig is configured, what it protects changes only by executing a
\* proposal or, for the pause switch and the slash tiers, by the governance contract,
\* whatever the rest of the contract is doing.
THEOREM ParamsByMultisigAlways == VaultSpec => ParamsByMultisig
  <1>1. ClockInit /\ MSInit => MSInv
    BY MSInitInv
  <1>2. MSInv /\ [VaultNext]_allVars => MSInv'
    BY VaultNextMultisig, MSStepInv
  <1>3. ASSUME MSInv, VaultNext
        PROVE  ProtectedStep
    <2>1. Protected => ProtectedStep
      BY DEF Protected, ProtectedStep
    <2>2. CASE CoreStep /\ UNCHANGED <<queueVars, slashVars, emVars>>
      BY <2>1, <2>2, CoreProtected DEF ProtectedStep
    <2>3. CASE QueueStep /\ UNCHANGED <<slashVars, emVars>>
      BY <2>1, <2>3, QueueProtected DEF ProtectedStep
    <2>4. CASE SlashStep /\ UNCHANGED <<queueVars, emVars>>
      BY <2>1, <2>4, SlashProtected DEF ProtectedStep
    <2>5. CASE EmStep /\ UNCHANGED <<queueVars, slashVars>>
      BY <2>1, <2>5, EmProtected
    <2>6. CASE UNCHANGED <<clockVars, vaultVars>>
      BY <2>1, <2>6 DEF vaultVars, coreVars, paramVars, queueVars, slashVars, slashParams, Protected
    <2>7. CASE \E id \in DOMAIN proposals : execute_action(id)
      BY <1>3, <2>7, ExecutionCounts DEF ProtectedStep
    <2> QED
      BY <1>3, <2>2, <2>3, <2>4, <2>5, <2>6, <2>7 DEF VaultNext
  <1> QED
    BY <1>1, <1>2, <1>3, PTL DEF VaultSpec, VaultInit, CoreSystemInit, ParamsByMultisig

----------------------------------------------------------------------------
\* The queue, while slashes, reversals and emergency unstakes change the positions
\* of the stakers who wait in it.

\* A step of the contract is a step of the queue or leaves its records alone.
LEMMA VaultNextQueue ==
    ASSUME [VaultNext]_allVars
    PROVE  QueueStep \/ UNCHANGED queueVars
  BY DEF VaultNext, vaultVars, allVars, execute_action, queueVars

\* Head, tail, entries and tickets agree in the whole contract too.
THEOREM VaultQueueConsistent == VaultSpec => [](QueueTypeOK /\ QueueConsistent)
  <1>1. VaultInit => QueueRecords
    BY QueueInitRecords DEF VaultInit
  <1>2. QueueRecords /\ [VaultNext]_allVars => QueueRecords'
    BY VaultNextQueue, QueueStepRecords, QueueUntouched
       DEF QueueRecords, QueueTypeOK, queueVars
  <1>3. QueueRecords <=> QueueTypeOK /\ QueueConsistent
    BY DEF QueueRecords
  <1> QED
    BY <1>1, <1>2, <1>3, PTL DEF VaultSpec

\* And nobody overtakes: no slash, reversal, emergency exit or executed proposal
\* takes a waiting staker out of its turn.
THEOREM VaultFirstComeFirstServed == VaultSpec => FirstComeFirstServed
  <1>1. QueueRecords /\ [VaultNext]_allVars => FifoStep
    BY VaultNextQueue, QueueStepFifo
  <1>2. QueueTypeOK /\ QueueConsistent => QueueRecords
    BY DEF QueueRecords
  <1> QED
    BY <1>1, <1>2, VaultQueueConsistent, PTL DEF VaultSpec, FirstComeFirstServed

----------------------------------------------------------------------------
\* What a stake entitles to, while emergency unstakes empty positions.

\* The penalty is a part of the position.
LEMMA PenaltyBounds ==
    ASSUME EmTypeOK, NEW gross \in Nat
    PROVE  Penalty(gross) \in 0 .. gross
  <1>1. emConfig.penalty_bps \in Nat
    BY EmergencyConstants DEF EmTypeOK, NoEmConfig
  <1> DEFINE product == gross * emConfig.penalty_bps
  <1>2. product \in Nat
    BY <1>1
  <1> HIDE DEF product
  <1>3. apply_multiplier_bps(gross, emConfig.penalty_bps) \in Nat
    BY <1>2, StakeConstants DEF apply_multiplier_bps, BPS_DENOMINATOR, product
  <1> QED
    BY <1>3 DEF Penalty

\* An emergency unstake keeps the vault's types: it pays no more than the vault has.
LEMMA EmStepCoreType ==
    ASSUME EmTypeOK, CoreTypeOK, EmStep
    PROVE  CoreTypeOK'
  <1>1. CASE UNCHANGED coreVars
    BY <1>1 DEF coreVars, stakeVars, paramVars, tokenVars, CoreTypeOK
  <1>2. ASSUME NEW a \in EmAdmins, NEW s \in Stakers, approve_last(a, s)
        PROVE  CoreTypeOK'
    <2>1. balance(s) \in Nat
      BY DEF CoreTypeOK, StakeInfo, balance
    <2>2. Penalty(balance(s)) \in 0 .. balance(s)
      BY <2>1, PenaltyBounds
    <2> DEFINE paid == balance(s) - Penalty(balance(s))
    <2>3. paid \in Nat
      BY <2>1, <2>2
    <2>4. /\ stake' = [stake EXCEPT ![s] = [balance |-> 0, locked_until |-> 0]]
          /\ vaultBal >= balance(s) /\ vaultBal' = vaultBal - balance(s)
          /\ wallet' = [wallet EXCEPT ![s] = @ + paid]
      BY <1>2 DEF approve_last, execute_early_unstake
    <2> HIDE DEF paid
    <2>5. stake' \in [Stakers -> StakeInfo] /\ vaultBal' \in Nat /\ wallet' \in [Stakers -> Nat]
      BY <2>1, <2>3, <2>4 DEF CoreTypeOK, StakeInfo
    <2> QED
      BY <1>2, <2>5 DEF approve_last, paramVars, CoreTypeOK
  <1> QED
    BY <1>1, <1>2
       DEF EmStep, EmOps, configure, set_cooldown, request, approve_more, expire_request

\* The inductive invariant: types, the emergency records and the tier table.
EntInv == CoreTypeOK /\ EmInv /\ EligibilityTypeOK /\ TiersConsistent

\* The state after deployment, with the default tiers.
LEMMA EntInitInv ==
    ASSUME EntInit
    PROVE  EntInv
  <1>1. CoreTypeOK /\ EmInv
    BY CoreInitType, EmInitInv DEF EntInit, CoreSystemInit
  <1>2. EligibilityTypeOK
    BY EligibilityConstants
       DEF EntInit, EligibilityInit, EligibilityTypeOK, CoreSystemInit, ClockInit, NoTime
  <1>3. TiersConsistent
    BY EligibilityConstants DEF EntInit, EligibilityInit, TiersConsistent, BPS_DENOMINATOR
  <1> QED
    BY <1>1, <1>2, <1>3 DEF EntInv

\* Every step keeps clock, positions and emergency records well-formed.
LEMMA EntStepTypes ==
    ASSUME EntInv, [EntNext]_allEligibilityVars
    PROVE  CoreTypeOK' /\ EmInv' /\ now' >= now /\ now' \in Nat /\ now \in Nat
  <1>1. EmInv'
    BY EntNextShape, EmShapeInv DEF EntInv
  <1>2. now' >= now /\ now' \in Nat /\ now \in Nat
    <2>1. ClockMoves
      BY EntNextShape DEF EmShape, ClockMoves
    <2> QED
      BY <2>1, ClockMovesOn DEF EntInv, EmInv, ClockOK, ClockTypeOK
  <1>3. CASE CoreStep
    BY <1>1, <1>2, <1>3, CoreStepType DEF EntInv, EmInv, ClockOK
  <1>4. CASE EmStep
    BY <1>1, <1>2, <1>4, EmStepCoreType DEF EntInv, EmInv
  <1>5. CASE UNCHANGED coreVars
    BY <1>1, <1>2, <1>5 DEF EntInv, coreVars, stakeVars, paramVars, tokenVars, CoreTypeOK
  <1>6. CASE EligibilityStep
    BY <1>5, <1>6
       DEF EligibilityStep, EligibilityOps, notify_stake_below_minimum,
           check_signal_submission_allowed, set_lock_multiplier_tier
  <1> QED
    BY <1>3, <1>4, <1>5, <1>6 DEF EntNext, allEligibilityVars, allCoreVars

\* A table with one entry per threshold is still one after with_tier.
LEMMA WithTierKeeps ==
    ASSUME lockTiers \in Seq(LockTier), TiersConsistent, NEW t \in LockTier,
           t.bps >= BPS_DENOMINATOR, lockTiers' = with_tier(t)
    PROVE  lockTiers' \in Seq(LockTier) /\ TiersConsistent'
  <1> DEFINE n == Len(lockTiers)
  <1>1. n \in Nat /\ DOMAIN lockTiers = 1 .. n /\ \A i \in 1 .. n : lockTiers[i] \in LockTier
    OBVIOUS
  <1>2. CASE \E i \in DOMAIN lockTiers : lockTiers[i].weeks = t.weeks
    <2>1. lockTiers' = [i \in 1 .. n |->
                           IF lockTiers[i].weeks = t.weeks THEN t ELSE lockTiers[i]]
      BY <1>1, <1>2 DEF with_tier
    <2> HIDE DEF n
    <2>2. lockTiers' \in [1 .. n -> LockTier]
      BY <1>1, <2>1
    <2>3. lockTiers' \in Seq(LockTier)
      BY <1>1, <2>2, SeqDef
    <2>4. ASSUME NEW i \in 1 .. n
          PROVE  /\ lockTiers'[i].weeks = lockTiers[i].weeks
                 /\ lockTiers'[i].bps >= BPS_DENOMINATOR
      BY <1>1, <2>1, <2>4 DEF TiersConsistent
    <2>5. DOMAIN lockTiers' = 1 .. n
      BY <2>2
    <2> QED
      BY <1>1, <2>3, <2>4, <2>5 DEF TiersConsistent
  <1>3. CASE ~\E i \in DOMAIN lockTiers : lockTiers[i].weeks = t.weeks
    <2>1. lockTiers' = Append(lockTiers, t)
      BY <1>3 DEF with_tier
    <2>2. lockTiers' \in Seq(LockTier) /\ DOMAIN lockTiers' = 1 .. (n + 1)
      BY <2>1
    <2>3. lockTiers'[n + 1] = t /\ \A i \in 1 .. n : lockTiers'[i] = lockTiers[i]
      BY <2>1
    <2> HIDE DEF n
    <2>4. ASSUME NEW i \in 1 .. (n + 1), NEW j \in 1 .. (n + 1)
          PROVE  /\ lockTiers'[i].weeks = lockTiers'[j].weeks => i = j
                 /\ lockTiers'[i].bps >= BPS_DENOMINATOR
      <3>1. i = n + 1 \/ i \in 1 .. n
        BY <1>1
      <3>2. j = n + 1 \/ j \in 1 .. n
        BY <1>1
      <3> QED
        BY <1>1, <1>3, <2>3, <3>1, <3>2 DEF TiersConsistent
    <2> QED
      BY <2>2, <2>4 DEF TiersConsistent
  <1> QED
    BY <1>2, <1>3

\* Every step keeps the invariant.
LEMMA EntStepInv ==
    ASSUME EntInv, [EntNext]_allEligibilityVars
    PROVE  EntInv'
  <1>1. CoreTypeOK' /\ EmInv' /\ now' >= now /\ now' \in Nat /\ now \in Nat
    BY EntStepTypes
  <1>2. trueBelow' \in [Stakers -> Nat \cup {NoTime}]
    BY <1>1 DEF EntInv, EntNext, TrackBelow, EligibilityTypeOK, allEligibilityVars, eligibilityVars
  <1>3. /\ belowSince' \in [Stakers -> Nat \cup {NoTime}]
        /\ \A s \in Stakers : belowSince'[s] <= now'
    <2>1. CASE UNCHANGED belowSince
      BY <1>1, <2>1 DEF EntInv, EligibilityTypeOK, NoTime
    <2>2. ASSUME NEW s \in Stakers, NEW v \in {now, NoTime},
                 belowSince' = [belowSince EXCEPT ![s] = v]
          PROVE  /\ belowSince' \in [Stakers -> Nat \cup {NoTime}]
                 /\ \A r \in Stakers : belowSince'[r] <= now'
      BY <1>1, <2>2 DEF EntInv, EligibilityTypeOK, NoTime
    <2>3. CASE EligibilityStep
      BY <2>1, <2>2, <2>3
         DEF EligibilityStep, EligibilityOps, notify_stake_below_minimum,
             check_signal_submission_allowed, set_lock_multiplier_tier
    <2> QED
      BY <2>1, <2>3 DEF EntNext, allEligibilityVars, eligibilityVars
  <1>4. lockTiers' \in Seq(LockTier) /\ TiersConsistent'
    <2>1. CASE UNCHANGED lockTiers
      BY <2>1 DEF EntInv, EligibilityTypeOK, TiersConsistent
    <2>2. ASSUME NEW t \in TierInputs, set_lock_multiplier_tier(t)
          PROVE  lockTiers' \in Seq(LockTier) /\ TiersConsistent'
      BY <2>2, EligibilityConstants, WithTierKeeps
         DEF EntInv, EligibilityTypeOK, set_lock_multiplier_tier
    <2>3. CASE EligibilityStep
      BY <2>1, <2>2, <2>3
         DEF EligibilityStep, EligibilityOps, notify_stake_below_minimum,
             check_signal_submission_allowed
    <2> QED
      BY <2>1, <2>3 DEF EntNext, allEligibilityVars, eligibilityVars
  <1> QED
    BY <1>1, <1>2, <1>3, <1>4 DEF EntInv, EligibilityTypeOK

\* A step that leaves a provider below the minimum leaves its grace period alone.
LEMMA EntStepGrace ==
    ASSUME EntInv, EntNext
    PROVE  GraceStep
  <1> SUFFICES ASSUME NEW s \in Stakers, trueBelow[s] # NoTime,
                      trueBelow'[s] = trueBelow[s], belowSince[s] # NoTime
               PROVE  belowSince'[s] = belowSince[s]
    BY DEF GraceStep
  <1>1. ~(stake'[s].balance >= minStake')
    BY DEF EntNext, TrackBelow
  <1>2. CASE UNCHANGED belowSince
    BY <1>2
  <1>3. ASSUME NEW r \in Stakers, notify_stake_below_minimum(r)
        PROVE  belowSince'[s] = belowSince[s]
    BY <1>3 DEF notify_stake_below_minimum, EntInv, EligibilityTypeOK
  <1>4. ASSUME NEW r \in Stakers, check_signal_submission_allowed(r)
        PROVE  belowSince'[s] = belowSince[s]
    <2>1. stake' = stake /\ minStake' = minStake
      BY <1>4 DEF check_signal_submission_allowed, coreVars, stakeVars, paramVars
    <2>2. BelowMinimum(s)
      BY <1>1, <2>1 DEF BelowMinimum, balance, EntInv, CoreTypeOK, StakeInfo
    <2> QED
      BY <1>4, <2>2 DEF check_signal_submission_allowed, EntInv, EligibilityTypeOK
  <1>5. CASE EligibilityStep
    BY <1>2, <1>3, <1>4, <1>5 DEF EligibilityStep, EligibilityOps, set_lock_multiplier_tier
  <1> QED
    BY <1>2, <1>5 DEF EntNext

\* The tier table keeps one entry per threshold, none below the unlocked baseline,
\* and a grace period once begun starts neither in the future nor anew while the
\* stake stays below the minimum, for every table, minimum and emergency policy.
THEOREM EntitlementsFairAlways == EntSpec => EntitlementsFair
  <1>1. EntInit => EntInv
    BY EntInitInv
  <1>2. EntInv /\ [EntNext]_allEligibilityVars => EntInv'
    BY EntStepInv
  <1>3. EntInv /\ EntNext => GraceStep
    BY EntStepGrace
  <1>4. EntInv => EligibilityTypeOK /\ TiersConsistent
    BY DEF EntInv
  <1> QED
    BY <1>1, <1>2, <1>3, <1>4, PTL DEF EntSpec, EntitlementsFair, GraceNeverRestarts

\* The rule of emergency unstakes in this composition.
THEOREM EntEmergenciesByRule == EntSpec => EmergenciesByRule
  <1>1. EntInit => EmInv
    BY EmInitInv DEF EntInit, CoreSystemInit
  <1>2. EmInv /\ [EntNext]_allEligibilityVars => EmInv'
    BY EntNextShape, EmShapeInv
  <1>3. EmInv /\ [EntNext]_allEligibilityVars => SpacedStep /\ ApprovedStep
    BY EntNextShape, EmShapeRule
  <1>4. EmInv => EmTypeOK
    BY DEF EmInv
  <1> QED
    BY <1>1, <1>2, <1>3, <1>4, PTL
       DEF EntSpec, EmergenciesByRule, EmergenciesSpaced, QuorumOfApprovals

----------------------------------------------------------------------------
\* Voting power.

\* One tier of the table is looked at; and what is known of the multiplier after the
\* first i tiers: it is the best of those the remaining lock meets, if there is one.
TierStep(remaining, bps, t) ==
    IF /\ remaining \div SECS_PER_WEEK >= t.weeks
       /\ t.bps > bps
    THEN t.bps ELSE bps
Meets(remaining, t) == t.weeks <= remaining \div SECS_PER_WEEK
BestOfFirst(remaining, i, bps) ==
    /\ bps \in Nat
    /\ \A j \in 1..i : Meets(remaining, lockTiers[j]) => lockTiers[j].bps <= bps
    /\ bps = 0 \/ \E j \in 1..i : Meets(remaining, lockTiers[j]) /\ lockTiers[j].bps = bps
TierFold == INSTANCE FoldTheorems WITH Op <- TierStep, P <- BestOfFirst

\* The multiplier is the best one earned, or zero when none is.
LEMMA MultiplierIsBest ==
    ASSUME lockTiers \in Seq(LockTier), NEW remaining \in Nat
    PROVE  BestOfFirst(remaining, Len(lockTiers),
                       lock_multiplier_bps_for_remaining(lockTiers, remaining))
  <1>1. Len(lockTiers) \in Nat /\ DOMAIN lockTiers = 1..Len(lockTiers)
    OBVIOUS
  <1>2. BestOfFirst(remaining, 0, 0)
    BY DEF BestOfFirst
  <1>3. ASSUME NEW i \in 1..Len(lockTiers), NEW bps, BestOfFirst(remaining, i - 1, bps)
        PROVE  BestOfFirst(remaining, i, TierStep(remaining, bps, lockTiers[i]))
    <2>1. PICK w \in Int : w = remaining \div SECS_PER_WEEK
      <3>1. SECS_PER_WEEK \in Nat /\ SECS_PER_WEEK > 0
        BY EligibilityConstants
      <3> QED
        BY <3>1
    <2>2. lockTiers[i].weeks \in Nat /\ lockTiers[i].bps \in Nat /\ bps \in Nat
      <3>1. lockTiers[i] \in LockTier
        BY <1>1
      <3> QED
        BY <1>3, <3>1 DEF LockTier, BestOfFirst
    <2>3. 1..i = 1..(i - 1) \cup {i} /\ 1..(i - 1) \subseteq 1..Len(lockTiers)
      BY <1>1
    <2>4. \A j \in 1..(i - 1) : lockTiers[j].bps \in Nat
      <3>1. \A j \in 1..(i - 1) : lockTiers[j] \in LockTier
        BY <1>1, <2>3
      <3> QED
        BY <3>1 DEF LockTier
    <2> QED
      BY <1>3, <2>1, <2>2, <2>3, <2>4 DEF BestOfFirst, TierStep, Meets
  <1>4. BestOfFirst(remaining, Len(lockTiers), TierFold!Folded(remaining, 0, lockTiers))
    BY <1>1, <1>2, <1>3, TierFold!FoldInduction
  <1>5. TierFold!Folded(remaining, 0, lockTiers)
            = lock_multiplier_bps_for_remaining(lockTiers, remaining)
    BY DEF TierFold!Folded, TierStep, lock_multiplier_bps_for_remaining,
           FoldLeft, TierFold!FoldLeft, MapThenFoldSet, TierFold!MapThenFoldSet, Max, TierFold!Max
  <1> QED
    BY <1>4, <1>5

\* A higher multiplier never yields less, at the token's limit included.
LEMMA MultiplierMonotone ==
    ASSUME NEW m \in Nat, NEW b \in Nat, NEW c \in Nat, b <= c
    PROVE  /\ apply_multiplier_bps(m, b) <= apply_multiplier_bps(m, c)
           /\ apply_multiplier_bps(m, 0) = 0
  <1>1. PICK p \in Nat : p = m * b
    OBVIOUS
  <1>2. PICK q \in Nat : q = m * c
    OBVIOUS
  <1>3. p <= q /\ m * 0 = 0
    BY <1>1, <1>2
  <1>4. I128_MAX \in Nat
    BY StakeConstants
  <1>5. p \div 10000 <= q \div 10000 /\ p \div 10000 <= p /\ 0 \div 10000 = 0
    BY <1>3
  <1> QED
    BY <1>1, <1>2, <1>3, <1>4, <1>5 DEF apply_multiplier_bps, BPS_DENOMINATOR

\* A locked stake votes with the best multiplier its remaining lock earns.
LEMMA PowerBest ==
    ASSUME EntInv
    PROVE  PowerIsBestTier
  <1> SUFFICES ASSUME NEW s \in Stakers, balance(s) > 0, now < stake[s].locked_until
               PROVE  LET earned == {t \in Range(lockTiers) :
                                         t.weeks <= (stake[s].locked_until - now) \div SECS_PER_WEEK}
                      IN  /\ \A t \in earned : get_voting_power(s)
                                                 >= apply_multiplier_bps(balance(s), t.bps)
                          /\ get_voting_power(s) > 0 =>
                                 \E t \in earned : get_voting_power(s)
                                                     = apply_multiplier_bps(balance(s), t.bps)
    BY DEF PowerIsBestTier
  <1>1. /\ lockTiers \in Seq(LockTier) /\ now \in Nat /\ balance(s) \in Nat
        /\ stake[s].locked_until \in Nat
    BY DEF EntInv, EligibilityTypeOK, CoreTypeOK, StakeInfo, balance, EmInv, ClockOK, ClockTypeOK
  <1>2. PICK remaining \in Nat : remaining = stake[s].locked_until - now
    BY <1>1
  <1>3. PICK best : best = lock_multiplier_bps_for_remaining(lockTiers, remaining)
    OBVIOUS
  <1>4. BestOfFirst(remaining, Len(lockTiers), best)
    BY <1>1, <1>2, <1>3, MultiplierIsBest
  <1>5. get_voting_power(s) = apply_multiplier_bps(balance(s), best)
    BY <1>1, <1>2, <1>3 DEF get_voting_power
  <1>6. ASSUME NEW t \in Range(lockTiers)
        PROVE  \E j \in 1..Len(lockTiers) : t = lockTiers[j] /\ t.bps \in Nat
    <2>1. PICK j \in 1..Len(lockTiers) : t = lockTiers[j]
      BY <1>1 DEF Range
    <2>2. lockTiers[j] \in LockTier
      BY <1>1
    <2> QED
      BY <2>1, <2>2 DEF LockTier
  <1>7. ASSUME NEW t \in Range(lockTiers), Meets(remaining, t)
        PROVE  apply_multiplier_bps(balance(s), best) >= apply_multiplier_bps(balance(s), t.bps)
    <2>1. t.bps \in Nat /\ best \in Nat /\ t.bps <= best
      BY <1>4, <1>6, <1>7 DEF BestOfFirst
    <2>2. PICK b \in Nat : b = balance(s)
      BY <1>1
    <2>3. apply_multiplier_bps(b, t.bps) <= apply_multiplier_bps(b, best)
      BY <2>1, <2>2, MultiplierMonotone
    <2>4. apply_multiplier_bps(b, t.bps) \in Int /\ apply_multiplier_bps(b, best) \in Int
      <3>1. b * t.bps \in Nat /\ b * best \in Nat /\ I128_MAX \in Nat
        BY <2>1, <2>2, StakeConstants
      <3> QED
        BY <3>1 DEF apply_multiplier_bps, BPS_DENOMINATOR
    <2> QED
      BY <2>2, <2>3, <2>4
  <1>8. ASSUME apply_multiplier_bps(balance(s), best) > 0
        PROVE  \E t \in Range(lockTiers) : Meets(remaining, t) /\ t.bps = best
    <2>1. best # 0
      BY <1>1, <1>8, MultiplierMonotone
    <2>2. PICK j \in 1..Len(lockTiers) : Meets(remaining, lockTiers[j]) /\ lockTiers[j].bps = best
      BY <1>4, <2>1 DEF BestOfFirst
    <2>3. lockTiers[j] \in Range(lockTiers)
      BY <1>1, <2>2 DEF Range
    <2> QED
      BY <2>2, <2>3
  <1>9. \A t : Meets(remaining, t) <=> t.weeks <= (stake[s].locked_until - now) \div SECS_PER_WEEK
    BY <1>2 DEF Meets
  <1> QED
    BY <1>5, <1>7, <1>8, <1>9

\* In every reachable state a locked stake votes with the largest multiplier its
\* remaining lock earns, whatever the order of the tier table and at the token's limit.
THEOREM PowerIsBestTierAlways == EntSpec => []PowerIsBestTier
  <1>1. EntInit => EntInv
    BY EntInitInv
  <1>2. EntInv /\ [EntNext]_allEligibilityVars => EntInv'
    BY EntStepInv
  <1>3. EntInv => PowerIsBestTier
    BY PowerBest
  <1> QED
    BY <1>1, <1>2, <1>3, PTL DEF EntSpec

----------------------------------------------------------------------------
\* The sums, as functions of the records they are taken over.

Positions(st) ==
    /\ DOMAIN st = Stakers
    /\ \A s \in Stakers : DOMAIN st[s] = {"balance", "locked_until"} /\ st[s].balance \in Nat

BalancesIn(st) == [s \in Stakers |-> st[s].balance]
StakedIn(st) == SumFunctionOnSet(BalancesIn(st), Stakers)

Delegations == [Stakers -> [Stakers -> Nat]]
GivenTo(dl, p) == SumFunctionOnSet(dl[p], Stakers)
PerProvider(dl) == [p \in Stakers |-> GivenTo(dl, p)]
GivenIn(dl) == SumFunctionOnSet(PerProvider(dl), Stakers)

WalletsIn(w) == SumFunctionOnSet(w, Stakers)

AmountFields == {"slash_amount", "held", "settled"}
FieldOf(sl, field) == [id \in DOMAIN sl |-> sl[id][field]]
TotalIn(sl, field) == SumFunctionOnSet(FieldOf(sl, field), DOMAIN sl)

\* What a slash may still give back: nothing once it is reversed.
Open(f) == IF f.appeal = "Reversed" THEN 0 ELSE f.slash_amount
OpenOf(sl) == [id \in DOMAIN sl |-> Open(sl[id])]
OpenIn(sl) == SumFunctionOnSet(OpenOf(sl), DOMAIN sl)

\* The sums the model states are these.
LEMMA SumsAsStated ==
    /\ TotalStaked = StakedIn(stake)
    /\ TotalDelegated = GivenIn(delegated)
    /\ \A field : TotalOf(field) = TotalIn(slashes, field)
  BY DEF TotalStaked, StakedIn, BalancesIn, balance, TotalDelegated, GivenIn, PerProvider,
         GivenTo, DelegatedTo, TotalOf, TotalIn, FieldOf

\* A sum of positions is natural and covers each of them.
LEMMA StakedType ==
    ASSUME NEW st, Positions(st)
    PROVE  StakedIn(st) \in Nat /\ \A s \in Stakers : st[s].balance <= StakedIn(st)
  <1> DEFINE f == BalancesIn(st)
  <1>1. \A s \in Stakers : f[s] = st[s].balance /\ f[s] \in Nat
    BY DEF Positions, BalancesIn
  <1> HIDE DEF f
  <1>2. SumFunctionOnSet(f, Stakers) \in Nat /\ \A s \in Stakers : f[s] <= SumFunctionOnSet(f, Stakers)
    BY <1>1, SumBounds, SupplyAssumption
  <1> QED
    BY <1>1, <1>2 DEF StakedIn, f

\* Changing one position changes the sum by as much.
LEMMA StakedChanges ==
    ASSUME NEW st, NEW nt, Positions(st), Positions(nt), NEW s \in Stakers,
           \A r \in Stakers \ {s} : nt[r].balance = st[r].balance
    PROVE  StakedIn(nt) = StakedIn(st) - st[s].balance + nt[s].balance
  <1> DEFINE f == BalancesIn(st)
             g == BalancesIn(nt)
  <1>1. \A r \in Stakers : /\ f[r] = st[r].balance /\ f[r] \in Int
                           /\ g[r] = nt[r].balance /\ g[r] \in Int
    BY DEF Positions, BalancesIn
  <1> HIDE DEF f, g
  <1>2. \A r \in Stakers \ {s} : g[r] = f[r]
    BY <1>1
  <1>3. SumFunctionOnSet(g, Stakers) = SumFunctionOnSet(f, Stakers) - f[s] + g[s]
    BY <1>1, <1>2, SumChanges, SupplyAssumption
  <1> QED
    BY <1>1, <1>3 DEF StakedIn, f, g

\* The tokens outside the vault are a natural number.
LEMMA WalletsType ==
    ASSUME NEW w \in [Stakers -> Nat]
    PROVE  WalletsIn(w) \in Nat
  BY SumBounds, SupplyAssumption DEF WalletsIn

\* A transfer changes one wallet.
LEMMA WalletsChange ==
    ASSUME NEW w \in [Stakers -> Nat], NEW v \in [Stakers -> Nat], NEW s \in Stakers,
           \A r \in Stakers \ {s} : v[r] = w[r]
    PROVE  WalletsIn(v) = WalletsIn(w) - w[s] + v[s]
  <1>1. \A r \in Stakers : w[r] \in Int /\ v[r] \in Int
    OBVIOUS
  <1> QED
    BY <1>1, SumChanges, SupplyAssumption DEF WalletsIn

\* Delegations, per provider and in all, sum to naturals.
LEMMA GivenType ==
    ASSUME NEW dl \in Delegations
    PROVE  GivenIn(dl) \in Nat /\ \A p \in Stakers : GivenTo(dl, p) \in Nat
  <1>1. ASSUME NEW p \in Stakers
        PROVE  GivenTo(dl, p) \in Nat
    <2>1. \A d \in Stakers : dl[p][d] \in Nat
      BY DEF Delegations
    <2> QED
      BY <2>1, SumBounds, SupplyAssumption DEF GivenTo
  <1> DEFINE f == PerProvider(dl)
  <1>2. \A p \in Stakers : f[p] \in Nat
    BY <1>1 DEF PerProvider
  <1> HIDE DEF f
  <1>3. SumFunctionOnSet(f, Stakers) \in Nat
    BY <1>2, SumBounds, SupplyAssumption
  <1> QED
    BY <1>1, <1>3 DEF GivenIn, f

\* Changing the delegations to one provider changes the total by as much.
LEMMA GivenChanges ==
    ASSUME NEW dl \in Delegations, NEW nl \in Delegations, NEW p \in Stakers,
           \A r \in Stakers \ {p} : nl[r] = dl[r]
    PROVE  /\ GivenIn(nl) = GivenIn(dl) - GivenTo(dl, p) + GivenTo(nl, p)
           /\ \A r \in Stakers \ {p} : GivenTo(nl, r) = GivenTo(dl, r)
  <1> DEFINE f == PerProvider(dl)
             g == PerProvider(nl)
  <1>1. \A r \in Stakers : /\ f[r] = GivenTo(dl, r) /\ f[r] \in Int
                           /\ g[r] = GivenTo(nl, r) /\ g[r] \in Int
    BY GivenType DEF PerProvider
  <1>2. \A r \in Stakers \ {p} : GivenTo(nl, r) = GivenTo(dl, r)
    BY DEF GivenTo
  <1> HIDE DEF f, g
  <1>3. \A r \in Stakers \ {p} : g[r] = f[r]
    BY <1>1, <1>2
  <1>4. \A r \in Stakers : f[r] \in Int /\ g[r] \in Int
    BY <1>1
  <1>5. SumFunctionOnSet(g, Stakers) = SumFunctionOnSet(f, Stakers) - f[p] + g[p]
    BY <1>3, <1>4, SumChanges, SupplyAssumption
  <1>6. GivenIn(dl) = SumFunctionOnSet(f, Stakers) /\ GivenIn(nl) = SumFunctionOnSet(g, Stakers)
    BY DEF GivenIn, f, g
  <1> QED
    BY <1>1, <1>2, <1>5, <1>6

\* There are finitely many slashes, and their amounts are naturals.
LEMMA RecordsFinite ==
    ASSUME NEW sl \in Seq(SlashFile)
    PROVE  /\ IsFiniteSet(DOMAIN sl)
           /\ \A id \in DOMAIN sl, field \in AmountFields : sl[id][field] \in Nat
           /\ \A id \in DOMAIN sl : sl[id].provider \in Stakers /\ Open(sl[id]) \in Nat
  <1>1. Len(sl) \in Nat /\ DOMAIN sl = 1..Len(sl)
    OBVIOUS
  <1>2. IsFiniteSet(1..Len(sl))
    BY <1>1, FS_Interval
  <1>3. ASSUME NEW id \in DOMAIN sl
        PROVE  sl[id] \in SlashFile
    OBVIOUS
  <1> QED
    BY <1>1, <1>2, <1>3 DEF SlashFile, AmountFields, Open

\* The totals over the slashes are naturals, and no open slash exceeds its total.
LEMMA TotalType ==
    ASSUME NEW sl \in Seq(SlashFile)
    PROVE  /\ \A field \in AmountFields : TotalIn(sl, field) \in Nat
           /\ OpenIn(sl) \in Nat /\ \A id \in DOMAIN sl : Open(sl[id]) <= OpenIn(sl)
  <1>1. ASSUME NEW field \in AmountFields
        PROVE  TotalIn(sl, field) \in Nat
    <2> DEFINE f == FieldOf(sl, field)
    <2>1. \A id \in DOMAIN sl : f[id] \in Nat
      BY RecordsFinite DEF FieldOf
    <2> HIDE DEF f
    <2> QED
      BY <2>1, RecordsFinite, SumBounds DEF TotalIn, f
  <1> DEFINE g == OpenOf(sl)
  <1>2. \A id \in DOMAIN sl : g[id] = Open(sl[id]) /\ g[id] \in Nat
    BY RecordsFinite DEF OpenOf
  <1> HIDE DEF g
  <1>3. /\ SumFunctionOnSet(g, DOMAIN sl) \in Nat
        /\ \A id \in DOMAIN sl : g[id] <= SumFunctionOnSet(g, DOMAIN sl)
    BY <1>2, RecordsFinite, SumBounds
  <1> QED
    BY <1>1, <1>2, <1>3 DEF OpenIn, g

\* A new record adds its amounts.
LEMMA TotalAppends ==
    ASSUME NEW sl \in Seq(SlashFile), NEW e \in SlashFile
    PROVE  /\ Append(sl, e) \in Seq(SlashFile)
           /\ \A field \in AmountFields : TotalIn(Append(sl, e), field) = TotalIn(sl, field) + e[field]
           /\ OpenIn(Append(sl, e)) = OpenIn(sl) + Open(e)
  <1>1. PICK tl : tl = Append(sl, e)
    OBVIOUS
  <1>2. PICK n \in Nat : n = Len(sl)
    OBVIOUS
  <1>3. /\ tl \in Seq(SlashFile) /\ DOMAIN sl = 1..n /\ DOMAIN tl = 1..(n + 1)
        /\ tl[n + 1] = e /\ \A i \in 1..n : tl[i] = sl[i]
    BY <1>1, <1>2
  <1>4. n + 1 \in 1..(n + 1) /\ \A i \in 1..n : i \in 1..(n + 1)
    OBVIOUS
  <1>5. ASSUME NEW field \in AmountFields
        PROVE  TotalIn(tl, field) = TotalIn(sl, field) + e[field]
    <2> DEFINE f == FieldOf(sl, field)
               g == FieldOf(tl, field)
    <2>1. /\ \A i \in 1..n : f[i] = sl[i][field]
          /\ \A i \in 1..(n + 1) : g[i] = tl[i][field]
      BY <1>3 DEF FieldOf
    <2>2. \A i \in DOMAIN tl : tl[i][field] \in Int
      <3>1. tl \in Seq(SlashFile)
        BY <1>3
      <3> QED
        BY <3>1, RecordsFinite
    <2>3. \A i \in 1..(n + 1) : g[i] \in Int
      BY <1>3, <2>1, <2>2
    <2>4. \A i \in 1..n : g[i] = f[i]
      BY <1>3, <1>4, <2>1
    <2>5. g[n + 1] = e[field]
      BY <1>3, <1>4, <2>1
    <2> HIDE DEF f, g
    <2>6. SumFunctionOnSet(g, 1..(n + 1)) = SumFunctionOnSet(f, 1..n) + g[n + 1]
      BY <2>3, <2>4, SumAppends
    <2> QED
      BY <1>3, <2>6, <2>5 DEF TotalIn, f, g
  <1>6. OpenIn(tl) = OpenIn(sl) + Open(e)
    <2> DEFINE f == OpenOf(sl)
               g == OpenOf(tl)
    <2>1. /\ \A i \in 1..n : f[i] = Open(sl[i])
          /\ \A i \in 1..(n + 1) : g[i] = Open(tl[i])
      BY <1>3 DEF OpenOf
    <2>2. \A i \in DOMAIN tl : Open(tl[i]) \in Int
      BY <1>3, RecordsFinite
    <2>3. \A i \in 1..(n + 1) : g[i] \in Int
      BY <1>3, <2>1, <2>2
    <2>4. \A i \in 1..n : g[i] = f[i]
      BY <1>3, <1>4, <2>1
    <2>5. g[n + 1] = Open(e)
      BY <1>3, <1>4, <2>1
    <2> HIDE DEF f, g
    <2>6. SumFunctionOnSet(g, 1..(n + 1)) = SumFunctionOnSet(f, 1..n) + g[n + 1]
      BY <2>3, <2>4, SumAppends
    <2> QED
      BY <1>3, <2>6, <2>5 DEF OpenIn, f, g
  <1> QED
    BY <1>1, <1>3, <1>5, <1>6

\* A rewritten record replaces its amounts.
LEMMA TotalRewrites ==
    ASSUME NEW sl \in Seq(SlashFile), NEW e \in SlashFile, NEW id \in DOMAIN sl
    PROVE  /\ [sl EXCEPT ![id] = e] \in Seq(SlashFile)
           /\ \A field \in AmountFields :
                 TotalIn([sl EXCEPT ![id] = e], field) = TotalIn(sl, field) - sl[id][field] + e[field]
           /\ OpenIn([sl EXCEPT ![id] = e]) = OpenIn(sl) - Open(sl[id]) + Open(e)
  <1>1. PICK tl : tl = [sl EXCEPT ![id] = e]
    OBVIOUS
  <1>2. PICK D : D = DOMAIN sl
    OBVIOUS
  <1>3. /\ tl \in Seq(SlashFile) /\ DOMAIN tl = D /\ id \in D
        /\ tl[id] = e /\ \A i \in D \ {id} : tl[i] = sl[i]
    BY <1>1, <1>2
  <1>4. IsFiniteSet(D)
    BY <1>2, RecordsFinite
  <1>5. PICK a \in D : a = id
    BY <1>3
  <1>6. ASSUME NEW field \in AmountFields
        PROVE  TotalIn(tl, field) = TotalIn(sl, field) - sl[id][field] + e[field]
    <2>1. PICK f, g : f = FieldOf(sl, field) /\ g = FieldOf(tl, field)
      OBVIOUS
    <2>2. \A i \in D : f[i] = sl[i][field] /\ g[i] = tl[i][field]
      BY <1>2, <1>3, <2>1 DEF FieldOf
    <2>3. \A i \in D : f[i] \in Int /\ g[i] \in Int
      <3>1. \A i \in D : sl[i][field] \in Nat
        BY <1>2, RecordsFinite
      <3>2. \A i \in D : tl[i][field] \in Nat
        BY <1>3, RecordsFinite
      <3> QED
        BY <2>2, <3>1, <3>2
    <2>4. \A i \in D \ {a} : g[i] = f[i]
      BY <1>3, <1>5, <2>2
    <2>5. g[id] = e[field] /\ f[id] = sl[id][field]
      BY <1>3, <2>2
    <2>6. SumFunctionOnSet(g, D) = SumFunctionOnSet(f, D) - f[a] + g[a]
      BY <1>4, <2>3, <2>4, SumChanges
    <2> QED
      BY <1>2, <1>3, <1>5, <2>1, <2>6, <2>5 DEF TotalIn
  <1>7. OpenIn(tl) = OpenIn(sl) - Open(sl[id]) + Open(e)
    <2>1. PICK f, g : f = OpenOf(sl) /\ g = OpenOf(tl)
      OBVIOUS
    <2>2. \A i \in D : f[i] = Open(sl[i]) /\ g[i] = Open(tl[i])
      BY <1>2, <1>3, <2>1 DEF OpenOf
    <2>3. \A i \in D : f[i] \in Int /\ g[i] \in Int
      BY <1>2, <1>3, <2>2, RecordsFinite
    <2>4. \A i \in D \ {a} : g[i] = f[i]
      BY <1>3, <1>5, <2>2
    <2>5. g[id] = Open(e) /\ f[id] = Open(sl[id])
      BY <1>3, <2>2
    <2>6. SumFunctionOnSet(g, D) = SumFunctionOnSet(f, D) - f[a] + g[a]
      BY <1>4, <2>3, <2>4, SumChanges
    <2> QED
      BY <1>2, <1>3, <1>5, <2>1, <2>6, <2>5 DEF OpenIn
  <1> QED
    BY <1>1, <1>3, <1>6, <1>7

----------------------------------------------------------------------------
\* The books as a relation between the records.  Beyond what BooksExact says, the
\* two records of a delegation agree, so that a slash takes from the total what it
\* takes from the delegators, and positions, open slashes and wallets never exceed
\* the token's supply, so that crediting a reversed slash never saturates.
Books(st, w, v, dl, td, sl) ==
    /\ Positions(st)
    /\ w \in [Stakers -> Nat] /\ v \in Nat
    /\ dl \in Delegations /\ td \in [Stakers -> Nat]
    /\ sl \in Seq(SlashFile)
    /\ \A id \in DOMAIN sl : sl[id].held <= sl[id].slash_amount
    /\ v = StakedIn(st) + GivenIn(dl) + TotalIn(sl, "slash_amount") - TotalIn(sl, "settled")
    /\ \A p \in Stakers : td[p] = GivenTo(dl, p)
    /\ StakedIn(st) + GivenIn(dl) + OpenIn(sl) + WalletsIn(w) <= I128_MAX

\* The terms of the books are naturals.
LEMMA BooksTyped ==
    ASSUME NEW st, NEW w, NEW v, NEW dl, NEW td, NEW sl, Books(st, w, v, dl, td, sl)
    PROVE  /\ StakedIn(st) \in Nat /\ GivenIn(dl) \in Nat /\ WalletsIn(w) \in Nat
           /\ TotalIn(sl, "slash_amount") \in Nat /\ TotalIn(sl, "settled") \in Nat
           /\ OpenIn(sl) \in Nat /\ v \in Nat /\ I128_MAX \in Nat
  <1>1. "slash_amount" \in AmountFields /\ "settled" \in AmountFields
    BY DEF AmountFields
  <1> QED
    BY <1>1, StakedType, GivenType, WalletsType, TotalType, StakeConstants DEF Books

\* A deposit or a payout: the vault gives up what leaves the position, the wallet
\* gets no more than that.
LEMMA MoveKeeps ==
    ASSUME NEW st, NEW w, NEW v, NEW dl, NEW td, NEW sl, Books(st, w, v, dl, td, sl),
           NEW s \in Stakers, NEW nt, NEW nw \in [Stakers -> Nat], NEW nv \in Nat,
           Positions(nt), \A r \in Stakers \ {s} : nt[r].balance = st[r].balance,
           \A r \in Stakers \ {s} : nw[r] = w[r],
           nv = v - st[s].balance + nt[s].balance,
           nw[s] - w[s] <= st[s].balance - nt[s].balance
    PROVE  Books(nt, nw, nv, dl, td, sl)
  <1>1. StakedIn(nt) = StakedIn(st) - st[s].balance + nt[s].balance
    BY StakedChanges DEF Books
  <1>2. WalletsIn(nw) = WalletsIn(w) - w[s] + nw[s]
    BY WalletsChange DEF Books
  <1>3. st[s].balance \in Nat /\ nt[s].balance \in Nat /\ w[s] \in Nat /\ nw[s] \in Nat
    BY DEF Books, Positions
  <1>4. /\ nv = StakedIn(nt) + GivenIn(dl) + TotalIn(sl, "slash_amount") - TotalIn(sl, "settled")
        /\ StakedIn(nt) + GivenIn(dl) + OpenIn(sl) + WalletsIn(nw) <= I128_MAX
    <2>1. /\ v = StakedIn(st) + GivenIn(dl) + TotalIn(sl, "slash_amount") - TotalIn(sl, "settled")
          /\ StakedIn(st) + GivenIn(dl) + OpenIn(sl) + WalletsIn(w) <= I128_MAX
      BY DEF Books
    <2> QED
      BY <1>1, <1>2, <1>3, <2>1, BooksTyped
  <1> QED
    BY <1>4 DEF Books

\* A delegation moves tokens from the delegator's wallet to the provider's record.
LEMMA DelegateKeeps ==
    ASSUME NEW st, NEW w, NEW v, NEW dl, NEW td, NEW sl, Books(st, w, v, dl, td, sl),
           NEW d \in Stakers, NEW p \in Stakers, NEW a \in Nat, w[d] >= a
    PROVE  Books(st, [w EXCEPT ![d] = @ - a], v + a, [dl EXCEPT ![p][d] = @ + a],
                 [td EXCEPT ![p] = @ + a], sl)
  <1>1. PICK nw : nw = [w EXCEPT ![d] = @ - a]
    OBVIOUS
  <1>2. PICK nl : nl = [dl EXCEPT ![p][d] = @ + a]
    OBVIOUS
  <1>3. PICK nd : nd = [td EXCEPT ![p] = @ + a]
    OBVIOUS
  <1>4. nw \in [Stakers -> Nat] /\ nw[d] = w[d] - a /\ w[d] \in Nat
        /\ \A r \in Stakers \ {d} : nw[r] = w[r]
    BY <1>1 DEF Books
  <1>5. nl \in Delegations /\ nl[p] = [dl[p] EXCEPT ![d] = @ + a]
        /\ \A r \in Stakers \ {p} : nl[r] = dl[r]
    BY <1>2 DEF Books, Delegations
  <1>6. GivenTo(nl, p) = GivenTo(dl, p) + a /\ GivenTo(dl, p) \in Nat
    <2>1. PICK f, g : f = dl[p] /\ g = nl[p]
      OBVIOUS
    <2>2. \A r \in Stakers : f[r] \in Int /\ g[r] \in Int
      BY <1>5, <2>1 DEF Books, Delegations
    <2>3. \A r \in Stakers \ {d} : g[r] = f[r]
      BY <1>5, <2>1 DEF Books, Delegations
    <2>4. g[d] = f[d] + a
      BY <1>5, <2>1 DEF Books, Delegations
    <2>5. SumFunctionOnSet(g, Stakers) = SumFunctionOnSet(f, Stakers) - f[d] + g[d]
      BY <2>2, <2>3, SumChanges, SupplyAssumption
    <2>6. GivenTo(dl, p) \in Nat /\ f[d] \in Int
      BY <2>2, GivenType DEF Books
    <2> QED
      BY <2>1, <2>4, <2>5, <2>6 DEF GivenTo
  <1>7. /\ GivenIn(nl) = GivenIn(dl) - GivenTo(dl, p) + GivenTo(nl, p)
        /\ \A r \in Stakers \ {p} : GivenTo(nl, r) = GivenTo(dl, r)
    BY <1>5, GivenChanges DEF Books
  <1>8. WalletsIn(nw) = WalletsIn(w) - w[d] + nw[d]
    BY <1>4, WalletsChange DEF Books
  <1>9. /\ v + a = StakedIn(st) + GivenIn(nl) + TotalIn(sl, "slash_amount") - TotalIn(sl, "settled")
        /\ StakedIn(st) + GivenIn(nl) + OpenIn(sl) + WalletsIn(nw) <= I128_MAX
        /\ v + a \in Nat
    <2>1. /\ v = StakedIn(st) + GivenIn(dl) + TotalIn(sl, "slash_amount") - TotalIn(sl, "settled")
          /\ StakedIn(st) + GivenIn(dl) + OpenIn(sl) + WalletsIn(w) <= I128_MAX
      BY DEF Books
    <2>2. GivenIn(nl) = GivenIn(dl) + a /\ WalletsIn(nw) = WalletsIn(w) - a
      BY <1>4, <1>6, <1>7, <1>8, BooksTyped
    <2> QED
      BY <2>1, <2>2, BooksTyped
  <1>10. nd \in [Stakers -> Nat] /\ \A r \in Stakers : nd[r] = GivenTo(nl, r)
    BY <1>3, <1>6, <1>7 DEF Books
  <1> QED
    BY <1>1, <1>2, <1>3, <1>4, <1>5, <1>9, <1>10 DEF Books

\* A slash takes at least one token of a position that is not empty, at most all.
LEMMA SlashOfBounds ==
    ASSUME NEW amt \in Nat, NEW bps \in Nat
    PROVE  SlashOf(amt, bps) \in 0..amt
  <1>1. apply_multiplier_bps(amt, bps) \in Nat
    <2>1. amt * bps \in Nat
      OBVIOUS
    <2> QED
      BY <2>1, StakeConstants DEF apply_multiplier_bps, BPS_DENOMINATOR
  <1> HIDE DEF apply_multiplier_bps
  <1> QED
    BY <1>1 DEF SlashOf

\* What a slash takes from a provider's delegators.
TakenFrom(dl, p, bps) == [d \in Stakers |-> SlashOf(dl[p][d], bps)]
LeftWith(dl, p, bps) == [d \in Stakers |-> dl[p][d] - SlashOf(dl[p][d], bps)]

\* What a slash takes from the delegators of a provider, in all.
LEMMA TakenTotals ==
    ASSUME NEW dl \in Delegations, NEW p \in Stakers, NEW bps \in Nat
    PROVE  LET taken == SumFunctionOnSet(TakenFrom(dl, p, bps), Stakers)
           IN  /\ taken \in Nat
               /\ LeftWith(dl, p, bps) \in [Stakers -> Nat]
               /\ SumFunctionOnSet(LeftWith(dl, p, bps), Stakers) = GivenTo(dl, p) - taken
               /\ GivenTo(dl, p) - taken \in Nat
  <1>1. PICK f, g, h : f = dl[p] /\ g = TakenFrom(dl, p, bps) /\ h = LeftWith(dl, p, bps)
    OBVIOUS
  <1>2. \A d \in Stakers : /\ f[d] \in Nat /\ g[d] = SlashOf(f[d], bps)
                           /\ h[d] = f[d] - SlashOf(f[d], bps)
    BY <1>1 DEF Delegations, TakenFrom, LeftWith
  <1>3. \A d \in Stakers : SlashOf(f[d], bps) \in 0..f[d]
    BY <1>2, SlashOfBounds
  <1>4. \A d \in Stakers : f[d] \in Int /\ g[d] \in Int /\ h[d] = f[d] - g[d]
    BY <1>2, <1>3
  <1>5. \A d \in Stakers : g[d] \in Nat /\ h[d] \in Nat
    BY <1>2, <1>3
  <1>6. SumFunctionOnSet(h, Stakers) = SumFunctionOnSet(f, Stakers) - SumFunctionOnSet(g, Stakers)
    BY <1>4, SumSubtracts, SupplyAssumption
  <1>7. SumFunctionOnSet(g, Stakers) \in Nat /\ SumFunctionOnSet(h, Stakers) \in Nat
    BY <1>5, SumBounds, SupplyAssumption
  <1>8. h \in [Stakers -> Nat]
    BY <1>1, <1>5 DEF LeftWith
  <1> QED
    BY <1>1, <1>6, <1>7, <1>8 DEF GivenTo

\* A slash moves what it takes from the positions into a record of its own; what is
\* burned at once is settled at once.
LEMMA SlashKeeps ==
    ASSUME NEW st, NEW w, NEW v, NEW dl, NEW td, NEW sl, Books(st, w, v, dl, td, sl),
           NEW p \in Stakers, NEW bps \in Nat, NEW e \in SlashFile, NEW nv \in Nat,
           e.slash_amount = SlashOf(st[p].balance, bps)
                              + SumFunctionOnSet(TakenFrom(dl, p, bps), Stakers),
           e.appeal = "None", e.held <= e.slash_amount, nv = v - e.settled
    PROVE  Books([st EXCEPT ![p].balance = @ - SlashOf(@, bps)], w, nv,
                 [dl EXCEPT ![p] = LeftWith(dl, p, bps)],
                 [td EXCEPT ![p] = SatSub(@, SumFunctionOnSet(TakenFrom(dl, p, bps), Stakers))],
                 Append(sl, e))
  <1>1. PICK taken : taken = SumFunctionOnSet(TakenFrom(dl, p, bps), Stakers)
    OBVIOUS
  <1>2. PICK nt, nl, nd : /\ nt = [st EXCEPT ![p].balance = @ - SlashOf(@, bps)]
                          /\ nl = [dl EXCEPT ![p] = LeftWith(dl, p, bps)]
                          /\ nd = [td EXCEPT ![p] = SatSub(@, taken)]
    OBVIOUS
  <1>3. PICK own : own = SlashOf(st[p].balance, bps)
    OBVIOUS
  <1>4. st[p].balance \in Nat /\ own \in 0..st[p].balance
    BY <1>3, SlashOfBounds DEF Books, Positions
  <1>5. /\ taken \in Nat /\ LeftWith(dl, p, bps) \in [Stakers -> Nat]
        /\ SumFunctionOnSet(LeftWith(dl, p, bps), Stakers) = GivenTo(dl, p) - taken
        /\ GivenTo(dl, p) - taken \in Nat
    BY <1>1, TakenTotals DEF Books
  <1>6. /\ Positions(nt) /\ nt[p].balance = st[p].balance - own
        /\ \A r \in Stakers \ {p} : nt[r].balance = st[r].balance
    BY <1>2, <1>3, <1>4 DEF Books, Positions
  <1>7. StakedIn(nt) = StakedIn(st) - own
    <2>1. StakedIn(nt) = StakedIn(st) - st[p].balance + nt[p].balance
      BY <1>6, StakedChanges DEF Books
    <2> QED
      BY <1>4, <1>6, <2>1, BooksTyped
  <1>8. /\ nl \in Delegations /\ nl[p] = LeftWith(dl, p, bps)
        /\ \A r \in Stakers \ {p} : nl[r] = dl[r]
    BY <1>2, <1>5 DEF Books, Delegations
  <1>9. GivenTo(nl, p) = GivenTo(dl, p) - taken
    BY <1>5, <1>8 DEF GivenTo
  <1>10. /\ GivenIn(nl) = GivenIn(dl) - GivenTo(dl, p) + GivenTo(nl, p)
         /\ \A r \in Stakers \ {p} : GivenTo(nl, r) = GivenTo(dl, r)
    BY <1>8, GivenChanges DEF Books
  <1>11. GivenIn(nl) = GivenIn(dl) - taken
    <2>1. GivenTo(dl, p) \in Nat
      BY GivenType DEF Books
    <2> QED
      BY <1>5, <1>9, <1>10, <2>1, BooksTyped
  <1>12. nd \in [Stakers -> Nat] /\ \A r \in Stakers : nd[r] = GivenTo(nl, r)
    <2>1. td[p] = GivenTo(dl, p) /\ td[p] \in Nat
      BY DEF Books
    <2>2. SatSub(td[p], taken) = GivenTo(dl, p) - taken
      BY <1>5, <2>1 DEF SatSub
    <2> QED
      BY <1>2, <1>5, <1>9, <1>10, <2>2 DEF Books
  <1>13. PICK tl : tl = Append(sl, e)
    OBVIOUS
  <1>14. /\ tl \in Seq(SlashFile)
         /\ TotalIn(tl, "slash_amount") = TotalIn(sl, "slash_amount") + e.slash_amount
         /\ TotalIn(tl, "settled") = TotalIn(sl, "settled") + e.settled
         /\ OpenIn(tl) = OpenIn(sl) + e.slash_amount
    <2>1. "slash_amount" \in AmountFields /\ "settled" \in AmountFields
      BY DEF AmountFields
    <2>2. Open(e) = e.slash_amount
      BY DEF Open
    <2>3. sl \in Seq(SlashFile)
      BY DEF Books
    <2> QED
      BY <1>13, <2>1, <2>2, <2>3, TotalAppends
  <1>15. \A id \in DOMAIN tl : tl[id].held <= tl[id].slash_amount
    <2>1. sl \in Seq(SlashFile) /\ \A id \in DOMAIN sl : sl[id].held <= sl[id].slash_amount
      BY DEF Books
    <2>2. ASSUME NEW id \in DOMAIN tl
          PROVE  tl[id] = e \/ (id \in DOMAIN sl /\ tl[id] = sl[id])
      <3>1. PICK n \in Nat : n = Len(sl)
        BY <2>1
      <3>2. /\ DOMAIN sl = 1..n /\ DOMAIN tl = 1..(n + 1)
            /\ tl[n + 1] = e /\ \A i \in 1..n : tl[i] = sl[i]
        BY <1>13, <2>1, <3>1
      <3>3. id = n + 1 \/ id \in 1..n
        BY <2>2, <3>2
      <3> QED
        BY <3>2, <3>3
    <2>3. ASSUME NEW id \in DOMAIN tl
          PROVE  tl[id].held <= tl[id].slash_amount
      <3>1. CASE tl[id] = e
        BY <3>1
      <3>2. CASE id \in DOMAIN sl /\ tl[id] = sl[id]
        BY <2>1, <3>2
      <3> QED
        BY <2>2, <2>3, <3>1, <3>2
    <2> QED
      BY <2>3
  <1>16. e.settled \in Nat /\ e.slash_amount = own + taken
    BY <1>1, <1>3 DEF SlashFile
  <1>17. /\ nv = StakedIn(nt) + GivenIn(nl) + TotalIn(tl, "slash_amount") - TotalIn(tl, "settled")
         /\ StakedIn(nt) + GivenIn(nl) + OpenIn(tl) + WalletsIn(w) <= I128_MAX
    <2>1. /\ v = StakedIn(st) + GivenIn(dl) + TotalIn(sl, "slash_amount") - TotalIn(sl, "settled")
          /\ StakedIn(st) + GivenIn(dl) + OpenIn(sl) + WalletsIn(w) <= I128_MAX
      BY DEF Books
    <2>2. own \in Nat
      BY <1>4
    <2>3. PICK gone \in Nat : gone = e.settled
      BY <1>16
    <2>4. /\ TotalIn(tl, "slash_amount") = TotalIn(sl, "slash_amount") + (own + taken)
          /\ TotalIn(tl, "settled") = TotalIn(sl, "settled") + gone
          /\ OpenIn(tl) = OpenIn(sl) + (own + taken)
          /\ nv = v - gone
      BY <1>14, <1>16, <2>3
    <2>5. taken \in Nat
      BY <1>5
    <2> QED
      BY <1>7, <1>11, <2>1, <2>2, <2>4, <2>5, BooksTyped
  <1>18. Books(nt, w, nv, nl, nd, tl)
    BY <1>6, <1>8, <1>12, <1>14, <1>15, <1>17 DEF Books
  <1> QED
    BY <1>1, <1>2, <1>13, <1>18

\* An appeal rewrites its record: what is credited to the provider or burned is
\* settled, and no more is credited than the slash was still open for.
LEMMA RewriteKeeps ==
    ASSUME NEW st, NEW w, NEW v, NEW dl, NEW td, NEW sl, Books(st, w, v, dl, td, sl),
           NEW id \in DOMAIN sl, NEW e \in SlashFile, NEW nt, NEW nv \in Nat,
           NEW credit \in Nat, NEW burned \in Nat,
           Positions(nt), \A r \in Stakers \ {sl[id].provider} : nt[r].balance = st[r].balance,
           nt[sl[id].provider].balance = st[sl[id].provider].balance + credit,
           nv = v - burned,
           e.slash_amount = sl[id].slash_amount, e.held <= e.slash_amount,
           e.settled = sl[id].settled + credit + burned,
           Open(e) + credit <= Open(sl[id])
    PROVE  Books(nt, w, nv, dl, td, [sl EXCEPT ![id] = e])
  <1>1. sl \in Seq(SlashFile) /\ sl[id] \in SlashFile
    BY DEF Books
  <1>2. PICK p \in Stakers : p = sl[id].provider
    BY <1>1 DEF SlashFile
  <1>3. StakedIn(nt) = StakedIn(st) + credit
    <2>1. \A r \in Stakers \ {p} : nt[r].balance = st[r].balance
      BY <1>2
    <2>2. StakedIn(nt) = StakedIn(st) - st[p].balance + nt[p].balance
      BY <2>1, StakedChanges DEF Books
    <2>3. nt[p].balance = st[p].balance + credit /\ st[p].balance \in Nat
      BY <1>2 DEF Books, Positions
    <2> QED
      BY <2>2, <2>3, BooksTyped
  <1>4. PICK tl : tl = [sl EXCEPT ![id] = e]
    OBVIOUS
  <1>5. /\ tl \in Seq(SlashFile)
        /\ TotalIn(tl, "slash_amount") = TotalIn(sl, "slash_amount") - sl[id].slash_amount + e.slash_amount
        /\ TotalIn(tl, "settled") = TotalIn(sl, "settled") - sl[id].settled + e.settled
        /\ OpenIn(tl) = OpenIn(sl) - Open(sl[id]) + Open(e)
    <2>1. "slash_amount" \in AmountFields /\ "settled" \in AmountFields
      BY DEF AmountFields
    <2> QED
      BY <1>1, <1>4, <2>1, TotalRewrites
  <1>6. \A i \in DOMAIN tl : tl[i].held <= tl[i].slash_amount
    BY <1>1, <1>4 DEF Books
  <1>7. /\ e.settled \in Nat /\ e.slash_amount \in Nat /\ Open(e) \in Nat
        /\ sl[id].settled \in Nat /\ sl[id].slash_amount \in Nat /\ Open(sl[id]) \in Nat
    BY <1>1 DEF SlashFile, Open
  <1>8. /\ nv = StakedIn(nt) + GivenIn(dl) + TotalIn(tl, "slash_amount") - TotalIn(tl, "settled")
        /\ StakedIn(nt) + GivenIn(dl) + OpenIn(tl) + WalletsIn(w) <= I128_MAX
    <2>1. /\ v = StakedIn(st) + GivenIn(dl) + TotalIn(sl, "slash_amount") - TotalIn(sl, "settled")
          /\ StakedIn(st) + GivenIn(dl) + OpenIn(sl) + WalletsIn(w) <= I128_MAX
      BY DEF Books
    <2>2. /\ TotalIn(tl, "slash_amount") = TotalIn(sl, "slash_amount")
          /\ TotalIn(tl, "settled") = TotalIn(sl, "settled") + credit + burned
          /\ OpenIn(tl) + credit <= OpenIn(sl) /\ OpenIn(tl) \in Int
      <3>1. /\ TotalIn(sl, "slash_amount") \in Nat /\ TotalIn(sl, "settled") \in Nat
            /\ OpenIn(sl) \in Nat
        BY BooksTyped
      <3>2. PICK z, y \in Nat : z = Open(e) /\ y = Open(sl[id])
        BY <1>7
      <3>3. OpenIn(tl) = OpenIn(sl) - y + z /\ z + credit <= y
        BY <1>5, <3>2
      <3>4. OpenIn(tl) + credit <= OpenIn(sl) /\ OpenIn(tl) \in Int
        BY <3>1, <3>3
      <3>5. PICK m, k \in Nat : m = sl[id].slash_amount /\ k = sl[id].settled
        BY <1>7
      <3>6. /\ TotalIn(tl, "slash_amount") = TotalIn(sl, "slash_amount") - m + m
            /\ TotalIn(tl, "settled") = TotalIn(sl, "settled") - k + (k + credit + burned)
        BY <1>5, <3>5
      <3>7. TotalIn(tl, "slash_amount") = TotalIn(sl, "slash_amount")
        BY <3>1, <3>6
      <3>8. TotalIn(tl, "settled") = TotalIn(sl, "settled") + credit + burned
        BY <3>1, <3>6
      <3> QED
        BY <3>4, <3>7, <3>8
    <2> QED
      BY <1>3, <2>1, <2>2, BooksTyped
  <1> QED
    BY <1>4, <1>5, <1>6, <1>8 DEF Books

----------------------------------------------------------------------------
\* The inductive invariant.
BooksInv ==
    /\ Books(stake, wallet, vaultBal, delegated, totalDelegated, slashes)
    /\ slashTiers \in [Severities -> 0 .. BPS_DENOMINATOR]
    /\ appealWindow \in Nat

BooksAfter == Books(stake', wallet', vaultBal', delegated', totalDelegated', slashes')

\* Under an appeal window a slash is parked, and settled when it is resolved; one
\* burned at once holds nothing, and only its reversal can settle it again.
SoundRecord(f) ==
    /\ f.window # 0 =>
          /\ f.appeal \in {"None", "Pending"} => f.settled = 0
          /\ f.appeal \in {"Upheld", "Reversed"} => f.held = 0 /\ f.settled <= f.slash_amount
    /\ f.window = 0 =>
          /\ f.held = 0
          /\ f.appeal # "Reversed" => f.settled <= f.slash_amount
          /\ f.settled <= 2 * f.slash_amount

RecordsSound(sl) == \A id \in DOMAIN sl : SoundRecord(sl[id])

\* What a step of slashing must keep.
SlashKept ==
    /\ BooksAfter
    /\ RecordsSound(slashes) => RecordsSound(slashes')

\* No position is open and no slash on record at first.
LEMMA BooksInitInv ==
    ASSUME CoreInit, SlashInit
    PROVE  BooksInv /\ RecordsSound(slashes)
  <1>1. Positions(stake) /\ wallet \in [Stakers -> Nat] /\ vaultBal = 0
    BY StakeConstants DEF CoreInit, Positions
  <1>2. delegated \in Delegations /\ totalDelegated \in [Stakers -> Nat]
    BY DEF SlashInit, Delegations
  <1>3. slashes = <<>> /\ slashes \in Seq(SlashFile) /\ DOMAIN slashes = {}
    BY DEF SlashInit
  <1>4. StakedIn(stake) = 0
    <2>1. PICK f : f = BalancesIn(stake)
      OBVIOUS
    <2>2. \A s \in Stakers : f[s] = 0
      BY <2>1 DEF BalancesIn, CoreInit
    <2> QED
      BY <2>1, <2>2, SumZero, SupplyAssumption DEF StakedIn
  <1>5. \A p \in Stakers : GivenTo(delegated, p) = 0
    <2>1. ASSUME NEW p \in Stakers, NEW f, f = delegated[p]
          PROVE  SumFunctionOnSet(f, Stakers) = 0
      <3>1. \A d \in Stakers : f[d] = 0
        BY <2>1 DEF SlashInit
      <3> QED
        BY <3>1, SumZero, SupplyAssumption
    <2> QED
      BY <2>1 DEF GivenTo
  <1>6. GivenIn(delegated) = 0
    <2>1. PICK f : f = PerProvider(delegated)
      OBVIOUS
    <2>2. \A s \in Stakers : f[s] = 0
      BY <1>5, <2>1 DEF PerProvider
    <2> QED
      BY <2>1, <2>2, SumZero, SupplyAssumption DEF GivenIn
  <1>7. /\ OpenIn(slashes) = 0
        /\ TotalIn(slashes, "slash_amount") = 0 /\ TotalIn(slashes, "settled") = 0
    <2>1. \A f : SumFunctionOnSet(f, {}) = 0
      BY SumUnfolds, FS_EmptySet
    <2> QED
      BY <1>3, <2>1 DEF OpenIn, TotalIn
  <1>8. WalletsIn(wallet) <= I128_MAX /\ WalletsIn(wallet) \in Nat
    BY <1>1, WalletsType, SupplyAssumption DEF WalletsIn, CoreInit
  <1>9. \A p \in Stakers : totalDelegated[p] = GivenTo(delegated, p)
    BY <1>5 DEF SlashInit
  <1>10. slashTiers \in [Severities -> 0 .. BPS_DENOMINATOR] /\ appealWindow \in Nat
    BY SlashConstants DEF SlashInit, default_config, Severities, BPS_DENOMINATOR
  <1>11. Books(stake, wallet, vaultBal, delegated, totalDelegated, slashes)
    BY <1>1, <1>2, <1>3, <1>4, <1>6, <1>7, <1>8, <1>9, StakeConstants DEF Books
  <1> QED
    BY <1>3, <1>10, <1>11 DEF BooksInv, RecordsSound

\* A deposit adds to a position what it takes from the wallet.
LEMMA DepositBooks ==
    ASSUME BooksInv, NEW s \in Stakers, NEW a \in Amounts, deposit_stake(s, a),
           UNCHANGED slashVars
    PROVE  BooksAfter
  <1>1. a \in Nat /\ wallet[s] >= a
    BY StakeConstants DEF deposit_stake, transfer_in
  <1>2. PICK lock : stake' = [stake EXCEPT ![s] = [balance |-> @.balance + a, locked_until |-> lock]]
    BY DEF deposit_stake
  <1>3. /\ Positions(stake') /\ stake'[s].balance = stake[s].balance + a /\ stake[s].balance \in Nat
        /\ \A r \in Stakers \ {s} : stake'[r].balance = stake[r].balance
    BY <1>1, <1>2 DEF BooksInv, Books, Positions
  <1>4. /\ wallet' \in [Stakers -> Nat] /\ wallet'[s] = wallet[s] - a /\ wallet[s] \in Nat
        /\ \A r \in Stakers \ {s} : wallet'[r] = wallet[r]
        /\ vaultBal' = vaultBal + a /\ vaultBal \in Nat
    BY <1>1 DEF BooksInv, Books, deposit_stake, transfer_in
  <1>5. /\ vaultBal' \in Nat
        /\ vaultBal' = vaultBal - stake[s].balance + stake'[s].balance
        /\ wallet'[s] - wallet[s] <= stake[s].balance - stake'[s].balance
    BY <1>1, <1>3, <1>4
  <1>6. Books(stake', wallet', vaultBal', delegated, totalDelegated, slashes)
    BY <1>3, <1>4, <1>5, MoveKeeps DEF BooksInv
  <1> QED
    BY <1>6 DEF BooksAfter, slashVars

\* A payout takes from the position what it pays.
LEMMA LeaveBooks ==
    ASSUME BooksInv, NEW s \in Stakers, NEW a \in Nat, a <= balance(s), leave(s, a),
           UNCHANGED slashVars
    PROVE  BooksAfter
  <1>1. stake' = [stake EXCEPT ![s].balance = @ - a] /\ vaultBal >= a
    BY DEF leave, transfer_out
  <1>2. /\ Positions(stake') /\ stake'[s].balance = stake[s].balance - a /\ stake[s].balance \in Nat
        /\ \A r \in Stakers \ {s} : stake'[r].balance = stake[r].balance
    BY <1>1 DEF BooksInv, Books, Positions, balance
  <1>3. /\ wallet' \in [Stakers -> Nat] /\ wallet'[s] = wallet[s] + a /\ wallet[s] \in Nat
        /\ \A r \in Stakers \ {s} : wallet'[r] = wallet[r]
        /\ vaultBal' = vaultBal - a /\ vaultBal \in Nat
    BY <1>1 DEF BooksInv, Books, leave, transfer_out
  <1>4. /\ vaultBal' \in Nat
        /\ vaultBal' = vaultBal - stake[s].balance + stake'[s].balance
        /\ wallet'[s] - wallet[s] <= stake[s].balance - stake'[s].balance
    BY <1>1, <1>2, <1>3
  <1>5. Books(stake', wallet', vaultBal', delegated, totalDelegated, slashes)
    BY <1>2, <1>3, <1>4, MoveKeeps DEF BooksInv
  <1> QED
    BY <1>5 DEF BooksAfter, slashVars

\* A full withdrawal, direct or from the queue.
LEMMA WithdrawBooks ==
    ASSUME BooksInv, NEW s \in Stakers, do_withdraw(s), UNCHANGED slashVars
    PROVE  BooksAfter
  <1>1. balance(s) \in Nat /\ balance(s) <= balance(s)
    BY DEF BooksInv, Books, Positions, balance
  <1> QED
    BY <1>1, LeaveBooks DEF do_withdraw

\* What touches neither positions nor tokens keeps the books.
LEMMA FrameBooks ==
    ASSUME BooksInv, UNCHANGED <<stake, tokenVars, delegated, totalDelegated, slashes>>
    PROVE  BooksAfter
  BY DEF BooksInv, BooksAfter, tokenVars

\* Deposits, withdrawals and the parameters of the core.
LEMMA CoreStepBooks ==
    ASSUME BooksInv, CoreStep, UNCHANGED slashVars
    PROVE  BooksAfter
  <1>1. UNCHANGED <<delegated, totalDelegated, slashes>>
    BY DEF slashVars
  <1>2. CASE UNCHANGED <<stake, tokenVars>>
    BY <1>1, <1>2, FrameBooks
  <1>3. CASE \E s \in Stakers, a \in Amounts : deposit_stake(s, a)
    BY <1>3, DepositBooks
  <1>4. ASSUME NEW s \in Stakers, NEW a \in Amounts, partial_unstake(s, a)
        PROVE  BooksAfter
    <2>1. a \in Nat /\ a <= balance(s) /\ leave(s, a)
      BY <1>4, StakeConstants DEF partial_unstake, BooksInv, Books, Positions, balance
    <2> QED
      BY <2>1, LeaveBooks
  <1>5. CASE \E s \in Stakers : withdraw_stake(s)
    BY <1>5, WithdrawBooks DEF withdraw_stake
  <1>6. CASE CoreOps
    BY <1>2, <1>3, <1>4, <1>5, <1>6
       DEF CoreOps, request_withdrawal, set_paused, put_paused, set_minimum_stake,
           put_minimum_stake, set_minimum_stake_duration, put_minimum_stake_duration,
           set_withdrawal_cooldown, put_withdrawal_cooldown, set_governance,
           apply_governance_pause, stakeVars
  <1>7. CASE UNCHANGED coreVars
    BY <1>2, <1>7 DEF coreVars, stakeVars
  <1> QED
    BY <1>6, <1>7 DEF CoreStep

\* Serving an entry of the queue; the other steps of the queue move no tokens.
LEMMA QueueStepBooks ==
    ASSUME BooksInv, QueueRecords, QueueStep, UNCHANGED slashVars
    PROVE  BooksAfter
  <1>1. UNCHANGED <<delegated, totalDelegated, slashes>>
    BY DEF slashVars
  <1>2. CASE UNCHANGED <<stake, tokenVars>>
    BY <1>1, <1>2, FrameBooks
  <1>3. CASE process_entry
    BY <1>3, EntryServed, WithdrawBooks DEF serve
  <1> QED
    BY <1>2, <1>3
       DEF QueueStep, QueueOps, QueueLoop, queue_unstake, set_max_unstake_queue_size,
           process_unstake_queue, process_return, coreVars, stakeVars

\* An emergency unstake burns the penalty and pays the rest of the position.
LEMMA EmStepBooks ==
    ASSUME BooksInv, EmTypeOK, EmStep, UNCHANGED slashVars
    PROVE  BooksAfter
  <1>1. UNCHANGED <<delegated, totalDelegated, slashes>>
    BY DEF slashVars
  <1>2. CASE UNCHANGED coreVars
    BY <1>1, <1>2, FrameBooks DEF coreVars, stakeVars
  <1>3. ASSUME NEW a \in EmAdmins, NEW s \in Stakers, approve_last(a, s)
        PROVE  BooksAfter
    <2>1. balance(s) \in Nat /\ balance(s) = stake[s].balance
      BY DEF BooksInv, Books, Positions, balance
    <2>2. Penalty(balance(s)) \in 0 .. balance(s)
      BY <2>1, PenaltyBounds
    <2>3. PICK paid \in Nat : paid = balance(s) - Penalty(balance(s)) /\ paid <= balance(s)
      BY <2>1, <2>2
    <2>4. /\ stake' = [stake EXCEPT ![s] = [balance |-> 0, locked_until |-> 0]]
          /\ vaultBal >= balance(s) /\ vaultBal' = vaultBal - balance(s)
          /\ wallet' = [wallet EXCEPT ![s] = @ + paid]
      BY <1>3, <2>3 DEF approve_last, execute_early_unstake
    <2>5. /\ Positions(stake') /\ stake'[s].balance = 0
          /\ \A r \in Stakers \ {s} : stake'[r].balance = stake[r].balance
      BY <2>4 DEF BooksInv, Books, Positions
    <2>6. /\ wallet' \in [Stakers -> Nat] /\ wallet'[s] = wallet[s] + paid /\ wallet[s] \in Nat
          /\ \A r \in Stakers \ {s} : wallet'[r] = wallet[r]
          /\ vaultBal \in Nat
      BY <2>4 DEF BooksInv, Books
    <2>7. /\ vaultBal' \in Nat
          /\ vaultBal' = vaultBal - stake[s].balance + stake'[s].balance
          /\ wallet'[s] - wallet[s] <= stake[s].balance - stake'[s].balance
      <3>1. PICK gross \in Nat : gross = stake[s].balance /\ gross = balance(s)
        BY <2>1
      <3>2. vaultBal >= gross /\ vaultBal' = vaultBal - gross /\ paid <= gross
        BY <2>3, <2>4, <3>1
      <3>3. vaultBal' \in Nat /\ vaultBal' = vaultBal - gross + 0
        BY <2>6, <3>2
      <3>4. wallet'[s] - wallet[s] <= gross - 0
        BY <2>6, <3>2
      <3> QED
        BY <2>5, <3>1, <3>3, <3>4
    <2>8. Books(stake', wallet', vaultBal', delegated, totalDelegated, slashes)
      BY <2>5, <2>6, <2>7, MoveKeeps DEF BooksInv
    <2> QED
      BY <1>1, <2>8 DEF BooksAfter
  <1> QED
    BY <1>2, <1>3
       DEF EmStep, EmOps, configure, set_cooldown, request, approve_more, expire_request

\* A delegation.
LEMMA DelegateBooks ==
    ASSUME BooksInv, NEW d \in Stakers, NEW p \in Stakers, NEW a \in Amounts,
           delegate_stake(d, p, a)
    PROVE  BooksAfter
  <1>1. a \in Nat /\ wallet[d] >= a
    BY StakeConstants DEF delegate_stake, transfer_in
  <1>2. /\ wallet' = [wallet EXCEPT ![d] = @ - a] /\ vaultBal' = vaultBal + a
        /\ delegated' = [delegated EXCEPT ![p][d] = @ + a]
        /\ totalDelegated' = [totalDelegated EXCEPT ![p] = @ + a]
        /\ stake' = stake /\ slashes' = slashes
    BY DEF delegate_stake, transfer_in, stakeVars
  <1> QED
    BY <1>1, <1>2, DelegateKeeps DEF BooksInv, BooksAfter

\* A slash, whatever became of its tokens.
LEMMA DoSlashBooks ==
    ASSUME BooksInv, ClockTypeOK, NEW p \in Stakers, NEW v \in Severities,
           NEW outcome \in {"parked", "burned", "failed"}, do_slash(p, v, outcome)
    PROVE  SlashKept
  <1>1. PICK bps \in Nat : bps = slashTiers[v]
    <2>1. slashTiers[v] \in 0 .. BPS_DENOMINATOR
      BY DEF BooksInv
    <2>2. \A b \in 0 .. BPS_DENOMINATOR : b \in Nat
      BY DEF BPS_DENOMINATOR
    <2>3. slashTiers[v] \in Nat
      BY <2>1, <2>2, Zenon
    <2> QED
      BY <2>3, Zenon
  <1>2. PICK amount : /\ amount = SlashOf(balance(p), bps) + delegated_slash(p, bps)
                      /\ amount = SlashOf(stake[p].balance, bps)
                                    + SumFunctionOnSet(TakenFrom(delegated, p, bps), Stakers)
    BY Zenon DEF balance, delegated_slash, TakenFrom
  <1>3. amount \in Nat
    <2>1. SlashOf(stake[p].balance, bps) \in Nat
      <3>1. PICK amt \in Nat : amt = stake[p].balance
        BY DEF BooksInv, Books, Positions
      <3>2. SlashOf(amt, bps) \in 0..amt
        BY SlashOfBounds
      <3> QED
        BY <3>1, <3>2
    <2>2. SumFunctionOnSet(TakenFrom(delegated, p, bps), Stakers) \in Nat
      BY TakenTotals DEF BooksInv, Books
    <2> QED
      BY <1>2, <2>1, <2>2
  <1>4. PICK e : e = [provider |-> p, slash_amount |-> amount, slashed_at |-> now,
                      appeal |-> "None",
                      held |-> IF outcome = "parked" THEN amount ELSE 0,
                      ledger |-> seq, window |-> appealWindow,
                      settled |-> IF outcome = "burned" THEN amount ELSE 0]
    OBVIOUS
  <1>5. /\ slashes' = Append(slashes, e)
        /\ outcome = "parked" <=> appealWindow > 0
        /\ outcome = "burned" => vaultBal >= amount
        /\ vaultBal' = IF outcome = "burned" THEN vaultBal - amount ELSE vaultBal
        /\ wallet' = wallet
    BY <1>1, <1>2, <1>4 DEF do_slash
  <1>6. /\ stake' = [stake EXCEPT ![p].balance = @ - SlashOf(@, bps)]
        /\ delegated' = [delegated EXCEPT ![p] = LeftWith(delegated, p, bps)]
        /\ totalDelegated' = [totalDelegated EXCEPT ![p] =
                                 SatSub(@, SumFunctionOnSet(TakenFrom(delegated, p, bps), Stakers))]
    BY <1>1 DEF do_slash, take_stakes, LeftWith, TakenFrom, delegated_slash, BooksInv, Books,
                Delegations
  <1>7. /\ e \in SlashFile /\ e.slash_amount = amount /\ e.appeal = "None" /\ e.held <= e.slash_amount
        /\ e.settled = IF outcome = "burned" THEN amount ELSE 0
        /\ e.held = IF outcome = "parked" THEN amount ELSE 0
        /\ e.window = appealWindow /\ appealWindow \in Nat
    BY <1>3, <1>4 DEF SlashFile, ClockTypeOK, BooksInv
  <1>8. vaultBal' \in Nat /\ vaultBal' = vaultBal - e.settled
    BY <1>3, <1>5, <1>7 DEF BooksInv, Books
  <1>9. BooksAfter
    BY <1>2, <1>5, <1>6, <1>7, <1>8, SlashKeeps DEF BooksInv, BooksAfter
  <1>10. ASSUME RecordsSound(slashes)
         PROVE  RecordsSound(slashes')
    <2>1. SoundRecord(e)
      BY <1>3, <1>5, <1>7 DEF SoundRecord
    <2>2. slashes \in Seq(SlashFile)
      BY DEF BooksInv, Books
    <2>3. PICK n \in Nat : n = Len(slashes)
      BY <2>2
    <2>4. /\ DOMAIN slashes = 1..n /\ DOMAIN slashes' = 1..(n + 1)
          /\ slashes'[n + 1] = e /\ \A i \in 1..n : slashes'[i] = slashes[i]
      BY <1>5, <1>7, <2>2, <2>3
    <2>5. ASSUME NEW id \in 1..(n + 1)
          PROVE  SoundRecord(slashes'[id])
      <3>1. id = n + 1 \/ id \in 1..n
        OBVIOUS
      <3> QED
        BY <1>10, <2>1, <2>4, <3>1 DEF RecordsSound
    <2> QED
      BY <2>4, <2>5 DEF RecordsSound
  <1> QED
    BY <1>9, <1>10 DEF SlashKept

\* Filing or resolving an appeal, with a burn that fails half way included.
LEMMA AppealBooks ==
    ASSUME BooksInv, NEW id \in DOMAIN slashes, NEW e \in SlashFile,
           NEW credit \in Nat, NEW burned \in Nat,
           slashes' = [slashes EXCEPT ![id] = e],
           Positions(stake'),
           \A r \in Stakers \ {slashes[id].provider} : stake'[r].balance = stake[r].balance,
           stake'[slashes[id].provider].balance = stake[slashes[id].provider].balance + credit,
           burned <= vaultBal, vaultBal' = vaultBal - burned, wallet' = wallet,
           delegated' = delegated, totalDelegated' = totalDelegated,
           e.slash_amount = slashes[id].slash_amount, e.held <= e.slash_amount,
           e.settled = slashes[id].settled + credit + burned,
           Open(e) + credit <= Open(slashes[id]),
           SoundRecord(slashes[id]) => SoundRecord(e)
    PROVE  SlashKept
  <1>1. vaultBal' \in Nat
    BY DEF BooksInv, Books
  <1>2. Books(stake', wallet, vaultBal', delegated, totalDelegated, [slashes EXCEPT ![id] = e])
    BY <1>1, RewriteKeeps DEF BooksInv
  <1>3. BooksAfter
    BY <1>2 DEF BooksAfter
  <1>4. ASSUME RecordsSound(slashes)
        PROVE  RecordsSound(slashes')
    <2>1. slashes \in Seq(SlashFile)
      BY DEF BooksInv, Books
    <2>2. DOMAIN slashes' = DOMAIN slashes
      BY <2>1
    <2>3. ASSUME NEW i \in DOMAIN slashes
          PROVE  SoundRecord(slashes'[i])
      <3>1. CASE i = id
        BY <1>4, <2>1, <3>1 DEF RecordsSound
      <3>2. CASE i # id
        BY <1>4, <2>1, <3>2 DEF RecordsSound
      <3> QED
        BY <3>1, <3>2
    <2> QED
      BY <2>2, <2>3 DEF RecordsSound
  <1> QED
    BY <1>3, <1>4 DEF SlashKept

\* A record on file.
LEMMA OnFile ==
    ASSUME BooksInv, NEW id \in DOMAIN slashes
    PROVE  /\ slashes[id] \in SlashFile /\ slashes[id].held <= slashes[id].slash_amount
           /\ slashes[id].provider \in Stakers
           /\ Positions(stake) /\ vaultBal \in Nat
           /\ \A s \in Stakers : stake[s].balance \in Nat /\ stake[s].balance = stake[s].balance + 0
  <1>1. slashes \in Seq(SlashFile)
    BY DEF BooksInv, Books
  <1>2. slashes[id] \in SlashFile
    BY <1>1
  <1>3. slashes[id].held <= slashes[id].slash_amount
    BY DEF BooksInv, Books
  <1>4. slashes[id].provider \in Stakers
    BY <1>2 DEF SlashFile
  <1>5. Positions(stake) /\ vaultBal \in Nat
    BY DEF BooksInv, Books
  <1>6. \A s \in Stakers : stake[s].balance \in Nat /\ stake[s].balance = stake[s].balance + 0
    BY <1>5 DEF Positions
  <1> QED
    BY <1>2, <1>3, <1>4, <1>5, <1>6

\* A step that only files an appeal or drops what is held.
LEMMA FileBooks ==
    ASSUME BooksInv, NEW id \in DOMAIN slashes,
           appeal_slash(id) \/ (uphold_failed_burn(id) /\ AppealFrame)
    PROVE  SlashKept
  <1>1. PICK f \in SlashFile : f = slashes[id] /\ f.held <= f.slash_amount
    BY OnFile
  <1>2. PICK e : /\ e \in {[f EXCEPT !.appeal = "Pending"], [f EXCEPT !.held = 0]}
                 /\ slashes' = [slashes EXCEPT ![id] = e]
                 /\ e = [f EXCEPT !.appeal = "Pending"] => f.appeal = "None"
                 /\ e = [f EXCEPT !.held = 0] => f.appeal = "Pending"
    <2>1. CASE appeal_slash(id)
      <3> DEFINE e == [f EXCEPT !.appeal = "Pending"]
      <3>1. slashes' = [slashes EXCEPT ![id] = e] /\ f.appeal = "None"
        BY <1>1, <2>1 DEF appeal_slash
      <3>2. e # [f EXCEPT !.held = 0]
        BY <1>1, <3>1 DEF SlashFile
      <3> QED
        BY <3>1, <3>2
    <2>2. CASE uphold_failed_burn(id)
      <3> DEFINE e == [f EXCEPT !.held = 0]
      <3>1. slashes' = [slashes EXCEPT ![id] = e] /\ f.appeal = "Pending" /\ f.held > 0
        BY <1>1, <2>2 DEF uphold_failed_burn, Unresolved
      <3>2. e # [f EXCEPT !.appeal = "Pending"]
        BY <1>1, <3>1 DEF SlashFile
      <3> QED
        BY <3>1, <3>2
    <2> QED
      BY <2>1, <2>2
  <1>3. /\ e \in SlashFile /\ e.slash_amount = f.slash_amount /\ e.held <= e.slash_amount
        /\ e.settled = f.settled + 0 + 0 /\ Open(e) + 0 <= Open(f)
        /\ SoundRecord(f) => SoundRecord(e)
    BY <1>1, <1>2 DEF SlashFile, Open, SoundRecord
  <1>4. /\ UNCHANGED <<stake, wallet, vaultBal, delegated, totalDelegated>>
    BY DEF appeal_slash, uphold_failed_burn, AppealFrame, coreVars, stakeVars, tokenVars
  <1>5. /\ Positions(stake') /\ 0 <= vaultBal /\ vaultBal' = vaultBal - 0
        /\ \A r \in Stakers \ {slashes[id].provider} : stake'[r].balance = stake[r].balance
        /\ stake'[slashes[id].provider].balance = stake[slashes[id].provider].balance + 0
    BY <1>4, OnFile
  <1>6. 0 \in Nat
    OBVIOUS
  <1> QED
    BY <1>1, <1>2, <1>3, <1>4, <1>5, <1>6, AppealBooks

\* The slash stands: what is held is burned.
LEMMA UpholdBooks ==
    ASSUME BooksInv, NEW id \in DOMAIN slashes, uphold(id), AppealFrame
    PROVE  SlashKept
  <1>1. PICK f \in SlashFile : f = slashes[id] /\ f.held <= f.slash_amount
    BY OnFile
  <1>2. PICK e : e = [f EXCEPT !.appeal = "Upheld", !.held = 0, !.settled = @ + f.held]
    OBVIOUS
  <1>3. /\ slashes' = [slashes EXCEPT ![id] = e] /\ f.appeal = "Pending"
        /\ f.held <= vaultBal /\ vaultBal' = vaultBal - f.held /\ f.held \in Nat
    BY <1>1, <1>2, OnFile DEF uphold, Unresolved, SlashFile
  <1>4. /\ e \in SlashFile /\ e.slash_amount = f.slash_amount /\ e.held <= e.slash_amount
        /\ e.settled = f.settled + 0 + f.held /\ Open(e) + 0 <= Open(f)
        /\ SoundRecord(f) => SoundRecord(e)
    <2>1. /\ f.held \in Nat /\ f.settled \in Nat /\ f.slash_amount \in Nat
          /\ f.settled + f.held \in Nat /\ f.settled + f.held = f.settled + 0 + f.held
      BY DEF SlashFile
    <2>2. /\ e.appeal = "Upheld" /\ e.held = 0 /\ e.settled = f.settled + f.held
          /\ e.slash_amount = f.slash_amount
      BY <1>2 DEF SlashFile
    <2>3. e \in SlashFile
      BY <1>2, <2>1 DEF SlashFile
    <2>4. Open(e) = f.slash_amount /\ Open(f) = f.slash_amount
      BY <1>3, <2>2 DEF Open
    <2>5. ASSUME SoundRecord(f)
          PROVE  SoundRecord(e)
      <3>1. e.window = f.window
        BY <1>2 DEF SlashFile
      <3>2. f.window # 0 => f.settled = 0
        BY <1>3, <2>5 DEF SoundRecord
      <3>3. f.window = 0 => f.held = 0 /\ f.settled <= f.slash_amount
        BY <1>3, <2>5 DEF SoundRecord
      <3>4. e.settled <= e.slash_amount /\ e.settled <= 2 * e.slash_amount
        BY <1>1, <2>1, <2>2, <3>2, <3>3
      <3> QED
        BY <2>2, <3>1, <3>4 DEF SoundRecord
    <2> QED
      BY <2>1, <2>2, <2>3, <2>4, <2>5
  <1>5. /\ UNCHANGED <<stake, wallet, delegated, totalDelegated>>
    BY DEF uphold, AppealFrame
  <1>6. /\ Positions(stake')
        /\ \A r \in Stakers \ {slashes[id].provider} : stake'[r].balance = stake[r].balance
        /\ stake'[slashes[id].provider].balance = stake[slashes[id].provider].balance + 0
    BY <1>5, OnFile
  <1>7. 0 \in Nat
    OBVIOUS
  <1> QED
    BY <1>1, <1>3, <1>4, <1>5, <1>6, <1>7, AppealBooks

\* The slash is reversed.  The credit does not saturate: position and open slashes
\* together fit the supply.
LEMMA ReverseBooks ==
    ASSUME BooksInv, NEW id \in DOMAIN slashes, reverse(id), AppealFrame
    PROVE  SlashKept
  <1>1. PICK f \in SlashFile : f = slashes[id] /\ f.held <= f.slash_amount
    BY OnFile
  <1>2. PICK amount \in Nat : /\ amount = IF f.held > 0 THEN f.held ELSE f.slash_amount
                              /\ amount <= f.slash_amount
    BY <1>1 DEF SlashFile
  <1>3. PICK e : e = [f EXCEPT !.appeal = "Reversed", !.held = 0, !.settled = @ + amount]
    OBVIOUS
  <1>4. PICK p \in Stakers : p = f.provider
    BY DEF SlashFile
  <1>5. /\ slashes' = [slashes EXCEPT ![id] = e] /\ f.appeal = "Pending"
        /\ stake' = [stake EXCEPT ![p].balance =
                         IF @ + amount > I128_MAX THEN I128_MAX ELSE @ + amount]
    BY <1>1, <1>2, <1>3, <1>4 DEF reverse, Unresolved
  <1>6. Open(f) = f.slash_amount /\ Open(e) = 0
    BY <1>3, <1>5 DEF Open, SlashFile
  <1>7. stake[p].balance + amount <= I128_MAX
    <2>1. stake[p].balance <= StakedIn(stake) /\ stake[p].balance \in Nat
      BY StakedType DEF BooksInv, Books, Positions
    <2>2. f.slash_amount <= OpenIn(slashes)
      BY <1>1, <1>6, TotalType DEF BooksInv, Books
    <2>3. StakedIn(stake) + GivenIn(delegated) + OpenIn(slashes) + WalletsIn(wallet) <= I128_MAX
      BY DEF BooksInv, Books
    <2>4. /\ StakedIn(stake) \in Nat /\ GivenIn(delegated) \in Nat /\ OpenIn(slashes) \in Nat
          /\ WalletsIn(wallet) \in Nat /\ I128_MAX \in Nat
      BY BooksTyped DEF BooksInv
    <2>5. PICK m \in Nat : m = f.slash_amount
      BY DEF SlashFile
    <2>6. amount <= m /\ m <= OpenIn(slashes)
      BY <1>2, <2>2, <2>5
    <2> QED
      BY <2>1, <2>3, <2>4, <2>6
  <1>8. /\ Positions(stake') /\ stake'[p].balance = stake[p].balance + amount
        /\ \A r \in Stakers \ {p} : stake'[r].balance = stake[r].balance
    <2>1. Positions(stake)
      BY DEF BooksInv, Books
    <2>2. PICK b \in Nat : b = stake[p].balance + amount
      BY <1>2, <1>4, <2>1 DEF Positions
    <2>3. stake' = [stake EXCEPT ![p].balance = b]
      <3>1. ~ (b > I128_MAX)
        BY <1>7, <2>2, StakeConstants
      <3> QED
        BY <1>5, <2>2, <3>1
    <2> QED
      BY <1>4, <2>1, <2>2, <2>3 DEF Positions
  <1>9. /\ e \in SlashFile /\ e.slash_amount = f.slash_amount /\ e.held <= e.slash_amount
        /\ e.settled = f.settled + amount + 0 /\ Open(e) + amount <= Open(f)
    <2>1. /\ f.settled \in Nat /\ f.slash_amount \in Nat
          /\ f.settled + amount \in Nat /\ f.settled + amount = f.settled + amount + 0
      BY DEF SlashFile
    <2>2. /\ e.held = 0 /\ e.settled = f.settled + amount /\ e.slash_amount = f.slash_amount
      BY <1>3 DEF SlashFile
    <2>3. e \in SlashFile
      BY <1>3, <2>1 DEF SlashFile
    <2> QED
      BY <1>2, <1>6, <2>1, <2>2, <2>3
  <1>10. ASSUME SoundRecord(f)
         PROVE  SoundRecord(e)
    <2>1. /\ e.window = f.window /\ e.appeal = "Reversed" /\ e.held = 0
          /\ e.settled = f.settled + amount /\ e.slash_amount = f.slash_amount
      BY <1>3 DEF SlashFile
    <2>2. f.settled \in Nat /\ f.slash_amount \in Nat
      BY DEF SlashFile
    <2>3. f.window # 0 => f.settled = 0
      BY <1>5, <1>10 DEF SoundRecord
    <2>4. f.window = 0 => f.settled <= f.slash_amount
      BY <1>5, <1>10 DEF SoundRecord
    <2>5. /\ f.window # 0 => e.settled <= e.slash_amount
          /\ f.window = 0 => e.settled <= 2 * e.slash_amount
      BY <1>2, <2>1, <2>2, <2>3, <2>4
    <2> QED
      BY <2>1, <2>5 DEF SoundRecord
  <1>11. /\ UNCHANGED <<wallet, delegated, totalDelegated>>
         /\ 0 <= vaultBal /\ vaultBal' = vaultBal - 0 /\ 0 \in Nat
    BY OnFile DEF reverse, AppealFrame, tokenVars
  <1> QED
    BY <1>1, <1>4, <1>5, <1>8, <1>9, <1>10, <1>11, AppealBooks

\* Every step of slashing keeps the books.
LEMMA SlashStepBooks ==
    ASSUME BooksInv, ClockTypeOK, SlashStep
    PROVE  SlashKept
  <1>1. ASSUME UNCHANGED <<stake, tokenVars, delegated, totalDelegated, slashes>>
        PROVE  SlashKept
    BY <1>1, FrameBooks DEF SlashKept
  <1>2. ASSUME NEW p \in Stakers, NEW v \in Severities,
               NEW outcome \in {"parked", "burned", "failed"}, do_slash(p, v, outcome)
        PROVE  SlashKept
    BY <1>2, DoSlashBooks
  <1>3. ASSUME NEW id \in DOMAIN slashes, NEW b \in BOOLEAN, do_resolve_appeal(id, b)
        PROVE  SlashKept
    BY <1>3, UpholdBooks, ReverseBooks DEF do_resolve_appeal
  <1>4. CASE SlashOps
    <2>1. CASE \E d, p \in Stakers, a \in Amounts : delegate_stake(d, p, a)
      <3>1. BooksAfter /\ slashes' = slashes
        BY <2>1, DelegateBooks DEF delegate_stake
      <3> QED
        BY <3>1 DEF SlashKept
    <2>2. CASE \E p \in Stakers, v \in Severities : slash_stake(p, v)
      BY <1>2, <2>2 DEF slash_stake
    <2>3. CASE \E id \in DOMAIN slashes : appeal_slash(id)
      BY <2>3, FileBooks
    <2>4. CASE \E id \in DOMAIN slashes, b \in BOOLEAN : resolve_appeal(id, b)
      BY <1>3, <2>4 DEF resolve_appeal
    <2>5. CASE \E n \in BatchSizes : batch_slash_stake(n) \/ batch_resolve_appeal(n)
      BY <1>1, <2>5 DEF batch_slash_stake, batch_resolve_appeal, start_batch,
                        NothingWritten, slashVars, stakeVars
    <2>6. CASE \E t \in SlashTiers : configure_slash_tiers(t) \/ governance_configure_slash_tiers(t)
      BY <1>1, <2>6 DEF configure_slash_tiers, governance_configure_slash_tiers,
                        set_slash_tiers, coreVars, stakeVars
    <2>7. CASE \E n \in SlashCooldowns : set_slash_cooldown(n)
      BY <1>1, <2>7 DEF set_slash_cooldown, coreVars, stakeVars
    <2>8. CASE \E w \in AppealWindows : set_appeal_window(w)
      BY <1>1, <2>8 DEF set_appeal_window, put_appeal_window, coreVars, stakeVars
    <2> QED
      BY <1>4, <2>1, <2>2, <2>3, <2>4, <2>5, <2>6, <2>7, <2>8 DEF SlashOps
  <1>5. CASE SlashLoop
    <2>1. CASE NothingWritten
      BY <1>1, <2>1 DEF NothingWritten, slashVars, stakeVars
    <2>2. CASE \E p \in Stakers, v \in Severities : batch_slash_item(p, v)
      BY <1>2, <2>1, <2>2 DEF batch_slash_item
    <2>3. CASE \E id \in DOMAIN slashes, b \in BOOLEAN : batch_resolve_item(id, b)
      BY <1>3, <2>3, FileBooks DEF batch_resolve_item
    <2>4. CASE batch_resolve_skip
      BY <2>1, <2>4 DEF batch_resolve_skip
    <2> QED
      BY <1>5, <2>2, <2>3, <2>4 DEF SlashLoop
  <1> QED
    BY <1>4, <1>5 DEF SlashStep

----------------------------------------------------------------------------
\* The parameters of slashing.

SlashParamsOK == slashTiers \in [Severities -> 0 .. BPS_DENOMINATOR] /\ appealWindow \in Nat

\* Tiers that pass the validation are shares of a position.
LEMMA ValidTiers ==
    ASSUME NEW t \in [Severities -> Nat], validate_slash_tiers(t)
    PROVE  t \in [Severities -> 0 .. BPS_DENOMINATOR]
  <1>1. PICK m \in Nat : m = BPS_DENOMINATOR
    BY DEF BPS_DENOMINATOR
  <1>2. /\ t["Minor"] \in Nat /\ t["Major"] \in Nat /\ t["Critical"] \in Nat
        /\ t["Critical"] <= m /\ t["Minor"] <= t["Major"] /\ t["Major"] <= t["Critical"]
    BY <1>1 DEF Severities, validate_slash_tiers
  <1>3. t["Minor"] \in 0 .. m /\ t["Major"] \in 0 .. m /\ t["Critical"] \in 0 .. m
    BY <1>1, <1>2
  <1>4. t \in [Severities -> 0 .. m]
    BY <1>3 DEF Severities
  <1> QED
    BY <1>1, <1>4

\* Slashing changes them only to valid values.
LEMMA SlashStepParams ==
    ASSUME SlashParamsOK, SlashStep
    PROVE  SlashParamsOK'
  <1> USE DEF slashParams, slashVars
  <1>1. CASE UNCHANGED <<slashTiers, appealWindow>>
    BY <1>1 DEF SlashParamsOK
  <1>2. CASE \E t \in SlashTiers : set_slash_tiers(t)
    BY <1>2, ValidTiers, SlashConstants DEF set_slash_tiers, SlashParamsOK
  <1>3. CASE \E w \in AppealWindows : put_appeal_window(w)
    BY <1>3, SlashConstants DEF put_appeal_window, SlashParamsOK
  <1>4. ASSUME NEW p, NEW v, NEW outcome, do_slash(p, v, outcome)
        PROVE  SlashParamsOK'
    BY <1>1, <1>4 DEF do_slash
  <1>5. ASSUME NEW id, NEW b, do_resolve_appeal(id, b)
        PROVE  SlashParamsOK'
    BY <1>1, <1>5 DEF do_resolve_appeal, AppealFrame
  <1>6. CASE NothingWritten
    BY <1>1, <1>6 DEF NothingWritten
  <1>7. CASE SlashOps
    <2>1. CASE \E d, p \in Stakers, a \in Amounts : delegate_stake(d, p, a)
      BY <1>1, <2>1 DEF delegate_stake
    <2>2. CASE \E p \in Stakers, v \in Severities : slash_stake(p, v)
      BY <1>4, <2>2 DEF slash_stake
    <2>3. CASE \E id \in DOMAIN slashes : appeal_slash(id)
      BY <1>1, <2>3 DEF appeal_slash
    <2>4. CASE \E id \in DOMAIN slashes, b \in BOOLEAN : resolve_appeal(id, b)
      BY <1>5, <2>4 DEF resolve_appeal
    <2>5. CASE \E n \in BatchSizes : batch_slash_stake(n) \/ batch_resolve_appeal(n)
      BY <1>6, <2>5 DEF batch_slash_stake, batch_resolve_appeal, start_batch
    <2>6. CASE \E t \in SlashTiers : configure_slash_tiers(t) \/ governance_configure_slash_tiers(t)
      BY <1>2, <2>6 DEF configure_slash_tiers, governance_configure_slash_tiers
    <2>7. CASE \E n \in SlashCooldowns : set_slash_cooldown(n)
      BY <1>1, <2>7 DEF set_slash_cooldown
    <2>8. CASE \E w \in AppealWindows : set_appeal_window(w)
      BY <1>3, <2>8 DEF set_appeal_window
    <2> QED
      BY <1>7, <2>1, <2>2, <2>3, <2>4, <2>5, <2>6, <2>7, <2>8 DEF SlashOps
  <1>8. CASE \E p \in Stakers, v \in Severities : batch_slash_item(p, v)
    BY <1>4, <1>6, <1>8 DEF batch_slash_item
  <1>9. CASE \E id \in DOMAIN slashes, b \in BOOLEAN : batch_resolve_item(id, b)
    BY <1>1, <1>5, <1>9 DEF batch_resolve_item, AppealFrame
  <1>10. CASE batch_resolve_skip
    BY <1>6, <1>10 DEF batch_resolve_skip
  <1> QED
    BY <1>7, <1>8, <1>9, <1>10 DEF SlashStep, SlashLoop

----------------------------------------------------------------------------
\* The whole contract.

\* What every step keeps: the books, and the records as long as a window is set.
BooksKept ==
    /\ BooksInv'
    /\ RecordsSound(slashes) => RecordsSound(slashes')

\* A step that touches neither the slashes nor their parameters.
LEMMA PlainStepKept ==
    ASSUME BooksInv, BooksAfter, UNCHANGED slashVars
    PROVE  BooksKept
  BY DEF BooksInv, BooksAfter, BooksKept, slashVars, slashParams

\* A step of slashing.
LEMMA SlashStepKept ==
    ASSUME BooksInv, ClockTypeOK, SlashStep
    PROVE  BooksKept
  <1>1. SlashKept
    BY SlashStepBooks
  <1>2. SlashParamsOK
    BY DEF BooksInv, SlashParamsOK
  <1>3. SlashParamsOK'
    BY <1>2, SlashStepParams
  <1> QED
    BY <1>1, <1>3 DEF BooksInv, BooksAfter, SlashKept, SlashParamsOK, BooksKept

\* An executed proposal: the payload was typed when it was proposed, and the dispatched
\* operation validates it again.
LEMMA ExecuteKept ==
    ASSUME BooksInv, MSInv, NEW id \in DOMAIN proposals, execute_action(id)
    PROVE  BooksKept
  <1>1. PICK q \in Payloads : q = proposals[id].payload
    <2>1. proposals \in Seq(Proposal)
      BY DEF MSInv, MSTypeOK
    <2>2. proposals[id] \in Proposal
      BY <2>1
    <2>3. proposals[id].payload \in Payloads
      BY <2>2 DEF Proposal
    <2> QED
      BY <2>3
  <1>2. \/ dispatch_core(q.tag, q.args) /\ UNCHANGED slashVars
        \/ dispatch_slash(q.tag, q.args)
    BY <1>1 DEF execute_action
  <1>3. CASE dispatch_core(q.tag, q.args) /\ UNCHANGED slashVars
    <2>1. UNCHANGED <<stake, tokenVars>>
      BY <1>3 DEF dispatch_core, put_paused, put_minimum_stake, put_minimum_stake_duration,
                  put_withdrawal_cooldown, stakeVars
    <2>2. BooksAfter
      BY <1>3, <2>1, FrameBooks DEF slashVars
    <2> QED
      BY <1>3, <2>2, PlainStepKept
  <1>4. CASE q.tag = "CONFIGURE_SLASH_TIERS" /\ set_slash_tiers(TiersOf(q.args))
    <2>1. q.args[1] \in Nat /\ q.args[2] \in Nat /\ q.args[3] \in Nat
      BY <1>4, PayloadAssumption
    <2>2. PICK t \in [Severities -> Nat] : t = TiersOf(q.args)
      BY <2>1 DEF TiersOf, Severities
    <2>3. slashTiers' \in [Severities -> 0 .. BPS_DENOMINATOR] /\ appealWindow' = appealWindow
      BY <1>4, <2>2, ValidTiers DEF set_slash_tiers
    <2>4. UNCHANGED <<stake, tokenVars, delegated, totalDelegated, slashes>>
      BY <1>4 DEF set_slash_tiers, coreVars, stakeVars
    <2>5. BooksAfter
      BY <2>4, FrameBooks
    <2> QED
      BY <2>3, <2>4, <2>5 DEF BooksInv, BooksAfter, BooksKept
  <1>5. CASE q.tag = "SET_APPEAL_WINDOW" /\ put_appeal_window(q.args[1])
    <2>1. appealWindow' \in Nat /\ slashTiers' = slashTiers
      BY <1>5, PayloadAssumption DEF put_appeal_window
    <2>2. UNCHANGED <<stake, tokenVars, delegated, totalDelegated, slashes>>
      BY <1>5 DEF put_appeal_window, coreVars, stakeVars
    <2>3. BooksAfter
      BY <2>2, FrameBooks
    <2> QED
      BY <2>1, <2>2, <2>3 DEF BooksInv, BooksAfter, BooksKept
  <1>6. CASE do_resolve_appeal(q.args[1], q.args[2] = 1)
    <2>1. PICK k \in DOMAIN slashes : k = q.args[1]
      BY <1>6 DEF do_resolve_appeal
    <2>2. SlashKept
      BY <1>6, <2>1, UpholdBooks, ReverseBooks DEF do_resolve_appeal
    <2>3. UNCHANGED <<slashTiers, appealWindow>>
      BY <1>6 DEF do_resolve_appeal, AppealFrame, slashParams
    <2> QED
      BY <2>2, <2>3 DEF BooksInv, BooksAfter, SlashKept, BooksKept
  <1> QED
    BY <1>2, <1>3, <1>4, <1>5, <1>6 DEF dispatch_slash

\* The inductive invariant of the contract: the books need the queue's records (an
\* entry is served for a staker), the emergency policy (a penalty is at most the
\* position) and the types of the proposals.
VaultInv == BooksInv /\ QueueRecords /\ EmInv /\ SlashInv /\ MSInv

\* The contract starts in it.
LEMMA VaultInitInv ==
    ASSUME VaultInit
    PROVE  VaultInv /\ RecordsSound(slashes)
  BY BooksInitInv, QueueInitRecords, EmInitInv, SlashInitInv, MSInitInv
     DEF VaultInit, CoreSystemInit, VaultInv

\* Every step of the contract keeps the books.
LEMMA VaultStepKept ==
    ASSUME VaultInv, [VaultNext]_allVars
    PROVE  BooksKept
  <1> USE DEF VaultInv
  <1>1. CASE CoreStep /\ UNCHANGED slashVars
    BY <1>1, CoreStepBooks, PlainStepKept
  <1>2. CASE QueueStep /\ UNCHANGED slashVars
    BY <1>2, QueueStepBooks, PlainStepKept
  <1>3. CASE SlashStep
    BY <1>3, SlashStepKept DEF MSInv
  <1>4. CASE EmStep /\ UNCHANGED slashVars
    BY <1>4, EmStepBooks, PlainStepKept DEF EmInv
  <1>5. CASE UNCHANGED vaultVars
    <2>1. UNCHANGED <<stake, tokenVars, delegated, totalDelegated, slashes, slashVars>>
      BY <1>5 DEF vaultVars, coreVars, stakeVars, slashVars
    <2> QED
      BY <2>1, FrameBooks, PlainStepKept
  <1>6. CASE \E id \in DOMAIN proposals : execute_action(id)
    BY <1>6, ExecuteKept
  <1> QED
    BY <1>1, <1>2, <1>3, <1>4, <1>5, <1>6 DEF VaultNext, allVars, vaultVars

\* And the rest of the invariant.
LEMMA VaultStepInv ==
    ASSUME VaultInv, [VaultNext]_allVars
    PROVE  VaultInv'
  <1> USE DEF VaultInv
  <1>1. BooksInv'
    BY VaultStepKept DEF BooksKept
  <1>2. QueueRecords'
    BY VaultNextQueue, QueueStepRecords, QueueUntouched
       DEF QueueRecords, QueueTypeOK, queueVars
  <1>3. EmInv' /\ SlashInv' /\ MSInv'
    BY VaultNextEmShape, EmShapeInv, VaultNextSlashShape, SlashShapeInv, VaultNextMultisig,
       MSStepInv
  <1> QED
    BY <1>1, <1>2, <1>3

\* The vault holds exactly the stakes, the delegations and what no slash has burned or
\* given back, through deposits, queued and emergency withdrawals, delegations,
\* slashes whose burn fails half way, appeals and executed proposals, for every set of
\* stakers, amounts, tiers and windows.
THEOREM VaultBooksExact == VaultSpec => []BooksExact
  <1>1. VaultInit => VaultInv
    BY VaultInitInv
  <1>2. VaultInv /\ [VaultNext]_allVars => VaultInv'
    BY VaultStepInv
  <1>3. VaultInv => BooksExact
    BY SumsAsStated DEF VaultInv, BooksInv, Books, BooksExact
  <1> QED
    BY <1>1, <1>2, <1>3, PTL DEF VaultSpec

----------------------------------------------------------------------------
\* Solvency.

\* A record on file is settled once, or was burned at once and reversed later.
LEMMA RecordSettled ==
    ASSUME BooksInv, RecordsSound(slashes), NEW id \in DOMAIN slashes
    PROVE  /\ slashes[id].held \in Nat /\ slashes[id].settled \in Nat
           /\ slashes[id].slash_amount \in Nat
           /\ \/ slashes[id].held + slashes[id].settled <= slashes[id].slash_amount
              \/ /\ SettledTwice(slashes[id]) /\ slashes[id].held = 0
                 /\ slashes[id].settled <= 2 * slashes[id].slash_amount
  <1>1. slashes \in Seq(SlashFile)
    BY DEF BooksInv, Books
  <1>2. PICK f \in SlashFile : f = slashes[id]
    BY <1>1
  <1>3. f.held <= f.slash_amount /\ SoundRecord(f)
    BY <1>2 DEF BooksInv, Books, RecordsSound
  <1>4. f.held \in Nat /\ f.settled \in Nat /\ f.slash_amount \in Nat
    BY DEF SlashFile
  <1>5. CASE f.window # 0
    <2>1. CASE f.appeal \in {"None", "Pending"}
      BY <1>2, <1>3, <1>4, <1>5, <2>1 DEF SoundRecord
    <2>2. CASE f.appeal \in {"Upheld", "Reversed"}
      BY <1>2, <1>3, <1>4, <1>5, <2>2 DEF SoundRecord
    <2> QED
      BY <2>1, <2>2 DEF SlashFile
  <1>6. CASE f.window = 0
    BY <1>2, <1>3, <1>4, <1>6 DEF SoundRecord, SettledTwice
  <1> QED
    BY <1>5, <1>6

\* Without a slash that was burned and then given back, what is parked is at most
\* what the slashes took and have not settled.
LEMMA HeldIsUnsettled ==
    ASSUME BooksInv, RecordsSound(slashes),
           \A id \in DOMAIN slashes : ~SettledTwice(slashes[id])
    PROVE  TotalIn(slashes, "held")
             <= TotalIn(slashes, "slash_amount") - TotalIn(slashes, "settled")
  <1> DEFINE a == FieldOf(slashes, "slash_amount")
             h == FieldOf(slashes, "held")
             s == FieldOf(slashes, "settled")
             u == [id \in DOMAIN slashes |-> a[id] - s[id]]
  <1>1. slashes \in Seq(SlashFile)
    BY DEF BooksInv, Books
  <1>2. IsFiniteSet(DOMAIN slashes)
    BY <1>1, RecordsFinite
  <1>3. ASSUME NEW id \in DOMAIN slashes
        PROVE  /\ slashes[id].held \in Nat /\ slashes[id].settled \in Nat
               /\ slashes[id].slash_amount \in Nat
               /\ slashes[id].held + slashes[id].settled <= slashes[id].slash_amount
    BY RecordSettled
  <1>4. \A id \in DOMAIN slashes :
           /\ a[id] \in Int /\ s[id] \in Int /\ h[id] \in Int
           /\ u[id] = a[id] - s[id] /\ u[id] \in Int /\ h[id] <= u[id]
    BY <1>3 DEF FieldOf
  <1>5. /\ TotalIn(slashes, "held") = SumFunctionOnSet(h, DOMAIN slashes)
        /\ TotalIn(slashes, "slash_amount") = SumFunctionOnSet(a, DOMAIN slashes)
        /\ TotalIn(slashes, "settled") = SumFunctionOnSet(s, DOMAIN slashes)
    BY DEF TotalIn
  <1> HIDE DEF a, h, s, u
  <1>6. SumFunctionOnSet(u, DOMAIN slashes)
          = SumFunctionOnSet(a, DOMAIN slashes) - SumFunctionOnSet(s, DOMAIN slashes)
    BY <1>2, <1>4, SumSubtracts
  <1>7. SumFunctionOnSet(h, DOMAIN slashes) <= SumFunctionOnSet(u, DOMAIN slashes)
    BY <1>2, <1>4, SumMonotone
  <1> QED
    BY <1>5, <1>6, <1>7

\* Every position can be paid then, with what is parked on top.
LEMMA SoundFromBooks ==
    ASSUME BooksInv, RecordsSound(slashes), SlashInv
    PROVE  SlashesSound
  <1>1. SlashTypeOK
    BY DEF BooksInv, Books, Delegations, SlashInv, SlashTypeOK
  <1>2. DelegationSums
    BY DEF BooksInv, Books, DelegationSums, DelegatedTo, GivenTo
  <1>3. Solvent
    <2> SUFFICES ASSUME \A id \in DOMAIN slashes : ~SettledTwice(slashes[id])
                 PROVE  PositionsPayable
      BY DEF Solvent
    <2>1. /\ StakedIn(stake) \in Nat /\ GivenIn(delegated) \in Nat /\ vaultBal \in Nat
          /\ TotalIn(slashes, "slash_amount") \in Nat /\ TotalIn(slashes, "settled") \in Nat
      BY BooksTyped DEF BooksInv
    <2>2. "held" \in AmountFields /\ slashes \in Seq(SlashFile)
      BY DEF AmountFields, BooksInv, Books
    <2>3. TotalIn(slashes, "held") \in Nat
      BY <2>2, TotalType
    <2>4. vaultBal = StakedIn(stake) + GivenIn(delegated)
                       + TotalIn(slashes, "slash_amount") - TotalIn(slashes, "settled")
      BY DEF BooksInv, Books
    <2>5. vaultBal >= StakedIn(stake) + GivenIn(delegated) + TotalIn(slashes, "held")
      BY <2>1, <2>3, <2>4, HeldIsUnsettled
    <2> QED
      BY <2>5, SumsAsStated DEF PositionsPayable
  <1>4. SettledOnce
    BY RecordSettled DEF SettledOnce
  <1> QED
    BY <1>1, <1>2, <1>3, <1>4 DEF SlashesSound

\* A provider's delegated total is the sum of its delegations; a slash is burned or
\* given back once, unless it was burned at once (no appeal window) and reversed under
\* a window set later, which credits at most its amount again; and as long as that has
\* not happened every position of the vault can be paid (slash_stake, resolve_appeal
\* and their batches).  For every history of the appeal window, 0 included.
THEOREM SlashesSoundAlways == SlashSpec => []SlashesSound
  <1> DEFINE Inv == BooksInv /\ RecordsSound(slashes) /\ SlashInv
  <1>1. SlashSystemInit => Inv
    BY BooksInitInv, SlashInitInv DEF SlashSystemInit, CoreSystemInit
  <1>2. ASSUME Inv, [SlashNext]_allSlashVars
        PROVE  Inv'
    <2>1. ASSUME CoreStep, UNCHANGED slashVars
          PROVE  BooksKept
      BY <1>2, <2>1, CoreStepBooks, PlainStepKept
    <2>2. ASSUME SlashStep
          PROVE  BooksKept
      BY <1>2, <2>2, SlashStepKept DEF SlashInv, ClockOK
    <2>3. ASSUME UNCHANGED allSlashVars
          PROVE  BooksKept
      <3>1. UNCHANGED <<stake, tokenVars, delegated, totalDelegated, slashes, slashVars>>
        BY <2>3 DEF allSlashVars, allCoreVars, coreVars, stakeVars, slashVars
      <3> QED
        BY <1>2, <3>1, FrameBooks, PlainStepKept
    <2>4. BooksKept
      BY <1>2, <2>1, <2>2, <2>3 DEF SlashNext
    <2> QED
      BY <1>2, <2>4, SlashNextShape, SlashShapeInv DEF BooksKept
  <1>3. Inv => SlashesSound
    BY SoundFromBooks
  <1> QED
    BY <1>1, <1>2, <1>3, PTL DEF SlashSpec

\* The same holds of the whole contract, where the multi-sig resolves appeals and
\* moves the window.
THEOREM VaultSlashesSound == VaultSpec => []SlashesSound
  <1> DEFINE Inv == VaultInv /\ RecordsSound(slashes)
  <1>1. VaultInit => Inv
    BY VaultInitInv
  <1>2. Inv /\ [VaultNext]_allVars => Inv'
    BY VaultStepKept, VaultStepInv DEF BooksKept
  <1>3. Inv => SlashesSound
    BY SoundFromBooks DEF VaultInv
  <1> QED
    BY <1>1, <1>2, <1>3, PTL DEF VaultSpec
==============================================================================
