--------------------------- MODULE UnstakeQueue ---------------------------
(***************************************************************************)
(* The FIFO unstake queue of stake_vault (stake_vault/src/lib.rs, issues   *)
(* #663 and #786): stakers queue, anybody processes the head of the queue. *)
(* process_unstake_queue is a loop over the head entries; one iteration is *)
(* one step, and the call returns at the first entry that cannot leave.    *)
(***************************************************************************)
EXTENDS StakeCore

CONSTANTS
    NoUser,                           \* in place of a missing queue entry
    QueueSizes,                       \* caps the admin passes
    ProcessLimits,                    \* limits callers pass
    DEFAULT_MAX_UNSTAKE_QUEUE_SIZE,
    MaxTickets                        \* bound: tickets issued in a behaviour

ASSUME QueueConstants ==
    /\ NoUser \notin Stakers
    /\ QueueSizes \subseteq Nat
    /\ ProcessLimits \subseteq Nat
    /\ DEFAULT_MAX_UNSTAKE_QUEUE_SIZE \in Nat
    /\ MaxTickets \in Nat

VARIABLES
    queueHead,    \* UnstakeQueueHead
    queueTail,    \* UnstakeQueueTail
    entry,        \* UnstakeQueueEntry: the queued tickets, each with its user
    userTicket,   \* UserUnstakeTicket, NoTicket when missing
    maxQueue      \* MaxUnstakeQueueSize

queueVars == <<queueHead, queueTail, entry, userTicket, maxQueue>>

NoTicket == -1

Tickets == 0 .. (MaxTickets - 1)

QueueTypeOK ==
    /\ queueHead \in Nat
    /\ queueTail \in Nat
    /\ entry \in [Tickets -> Stakers \cup {NoUser}]
    /\ userTicket \in [Stakers -> Tickets \cup {NoTicket}]
    /\ maxQueue \in Nat

QueueInit ==
    /\ queueHead = 0
    /\ queueTail = 0
    /\ entry = [t \in Tickets |-> NoUser]
    /\ userTicket = [s \in Stakers |-> NoTicket]
    /\ maxQueue = DEFAULT_MAX_UNSTAKE_QUEUE_SIZE

----------------------------------------------------------------------------
queue_unstake(s) ==
    /\ ~paused
    /\ userTicket[s] = NoTicket
    /\ balance(s) # 0
    /\ queueTail - queueHead < maxQueue
    /\ queueTail \in Tickets
    /\ entry' = [entry EXCEPT ![queueTail] = s]
    /\ userTicket' = [userTicket EXCEPT ![s] = queueTail]
    /\ queueTail' = queueTail + 1
    /\ UNCHANGED <<queueHead, maxQueue, coreVars>>

set_max_unstake_queue_size(size) ==
    /\ ~MultisigOn
    /\ maxQueue' = size
    /\ UNCHANGED <<queueHead, queueTail, entry, userTicket, coreVars>>

Processing == call.op = "process_unstake_queue"

process_unstake_queue(limit) ==
    /\ ~paused
    /\ limit > 0
    /\ queueHead < queueTail
    /\ call' = [op |-> "process_unstake_queue", left |-> limit]
    /\ UNCHANGED <<queueVars, paused, stakeVars, paramVars, tokenVars>>

MoreToProcess == Processing /\ call.left > 0 /\ queueHead < queueTail

\* The head entry leaves: paid, removed, its user's ticket released.
serve(s) ==
    /\ do_withdraw(s)
    /\ entry' = [entry EXCEPT ![queueHead] = NoUser]
    /\ userTicket' = [userTicket EXCEPT ![s] = NoTicket]
    /\ queueHead' = queueHead + 1
    /\ call' = [call EXCEPT !.left = @ - 1]
    /\ UNCHANGED <<queueTail, maxQueue>>

\* An orphaned slot: the head advances without counting against the limit.
skip_orphan ==
    /\ queueHead' = queueHead + 1
    /\ UNCHANGED <<queueTail, entry, userTicket, maxQueue, coreVars>>

\* Mutant: an entry that cannot leave is passed over.
process_entry_SkipsBlocked ==
    /\ MoreToProcess
    /\ LET s == entry[queueHead]
       IN  IF s = NoUser \/ ~MayLeave(s, balance(s)) THEN skip_orphan ELSE serve(s)

\* Mutant: the entry goes, the user's ticket stays.
process_entry_KeepsTicket ==
    /\ MoreToProcess
    /\ do_withdraw(entry[queueHead])
    /\ entry' = [entry EXCEPT ![queueHead] = NoUser]
    /\ queueHead' = queueHead + 1
    /\ call' = [call EXCEPT !.left = @ - 1]
    /\ UNCHANGED <<queueTail, userTicket, maxQueue>>

\* Mutant: a user whose position is gone is dropped from the queue unpaid.
process_entry_DropsUnpaid ==
    /\ MoreToProcess
    /\ LET s == entry[queueHead]
       IN  IF balance(s) = 0
           THEN /\ entry' = [entry EXCEPT ![queueHead] = NoUser]
                /\ userTicket' = [userTicket EXCEPT ![s] = NoTicket]
                /\ queueHead' = queueHead + 1
                /\ UNCHANGED <<queueTail, maxQueue, coreVars>>
           ELSE serve(s)

\* One iteration of the loop.
process_entry ==
    /\ MoreToProcess
    /\ IF entry[queueHead] = NoUser THEN skip_orphan ELSE serve(entry[queueHead])

\* The call returns: limit reached, queue drained, or the head entry cannot
\* leave now (one of the checks, or the token transfer, failed).
process_return ==
    /\ Processing
    /\ call' = NoCall
    /\ UNCHANGED <<queueVars, paused, stakeVars, paramVars, tokenVars>>

QueueOps ==
    \/ \E s \in Stakers : queue_unstake(s)
    \/ \E size \in QueueSizes : set_max_unstake_queue_size(size)

QueueLoop ==
    \/ \E limit \in ProcessLimits : Idle /\ process_unstake_queue(limit)
    \/ process_entry
    \/ process_return

QueueStep ==
    /\ UNCHANGED <<clockVars, msVars>>
    /\ \/ Idle /\ QueueOps
       \/ QueueLoop

QueueNext ==
    \/ CoreStep /\ UNCHANGED queueVars
    \/ QueueStep

allQueueVars == <<allCoreVars, queueVars>>

QueueSystemInit == CoreSystemInit /\ QueueInit

QueueSpec == QueueSystemInit /\ [][QueueNext]_allQueueVars

\* Ledgers keep closing however many calls they hold; somebody keeps calling
\* process_unstake_queue, as its documentation asks of the operators; a call
\* that started returns; and a transfer the vault can afford is not refused by
\* the token for ever.
QueueFairness ==
    /\ SF_allQueueVars(CoreStep /\ CloseLedger /\ UNCHANGED queueVars)
    /\ WF_allQueueVars(/\ UNCHANGED <<clockVars, msVars>>
                       /\ \E limit \in ProcessLimits :
                              Idle /\ process_unstake_queue(limit))
    /\ WF_allQueueVars(UNCHANGED <<clockVars, msVars>> /\ process_return)
    /\ SF_allQueueVars(UNCHANGED <<clockVars, msVars>> /\ process_entry)

FairQueueSpec == QueueSpec /\ QueueFairness

----------------------------------------------------------------------------
Queued(s) == userTicket[s] # NoTicket

\* The queue's three representations agree: the tickets between head and tail
\* are exactly those with an entry, and a user's ticket points at the entry
\* that names the user, so nobody is queued twice and nobody's entry is lost.
QueueConsistent ==
    /\ queueHead <= queueTail
    /\ queueTail <= MaxTickets
    /\ \A t \in Tickets :
          entry[t] # NoUser <=> queueHead <= t /\ t < queueTail
    /\ \A t \in Tickets, s \in Stakers : entry[t] = s <=> userTicket[s] = t

FifoStep ==
    \A s, r \in Stakers :
        (Queued(s) /\ ~Queued(s)' /\ Queued(r)) => userTicket[s] <= userTicket[r]

\* Strict FIFO: whoever leaves the queue had the smallest ticket in it.
FirstComeFirstServed == [][FifoStep]_allQueueVars

PaidOutStep ==
    \A s \in Stakers :
        (Queued(s) /\ ~Queued(s)') =>
            /\ balance(s) > 0
            /\ balance(s)' = 0
            /\ wallet'[s] = wallet[s] + balance(s)

\* A ticket is given up only for the whole stake: a failed withdrawal leaves
\* queue position and balance untouched.
LeavesOnlyPaid == [][PaidOutStep]_allQueueVars

LimitedStep ==
    \A s \in Stakers :
        Paid(s) => /\ rate'[s] = record(rate[s], now)
                   /\ ~Processing => rate'[s].count <= RL_MAX

\* Every payout is counted in the staker's window, and one the staker asks for
\* directly never brings the count above the limit.  process_unstake_queue counts
\* what it pays and does not ask the limiter, so a queue payout may exceed it.
PayoutsLimited == [][LimitedStep]_allQueueVars

\* The head of the queue cannot leave however often the queue is processed.
HeadStuck ==
    \/ paused
    \/ \E s \in Stakers :
          /\ userTicket[s] = queueHead
          /\ \/ balance(s) = 0
             \/ IsLarge(balance(s)) /\ requestedAt[s] = NoTime

\* Everybody queued is eventually served, unless the contract is paused or the
\* head entry's user has no stake left or has not requested a large withdrawal:
\* locks, cooldowns, refused transfers and top-ups only delay the queue.
QueueProgress ==
    \A s \in Stakers : Queued(s) ~> (~Queued(s) \/ HeadStuck)

\* process_unstake_queue: a blocked request "is left at the head ... The caller
\* should retry later once the blocking condition is resolved": a queued user
\* who still has a stake is served in the end.
RetriesSucceed ==
    \A s \in Stakers :
        (Queued(s) /\ balance(s) > 0) ~> (~Queued(s) \/ balance(s) = 0)
============================================================================
