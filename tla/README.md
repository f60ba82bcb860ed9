# CallStake contracts: verification with TLA+

This directory holds TLA+ models of the CallStake contracts
(`src/call-stake/contracts`, Soroban contracts in Rust), the TLC configurations
that check them on small instances, and proofs that TLAPS checks for every
instance. Modelled are `stake_vault`, `governance`, `bridge`, `fee_collector`,
`trade_executor`, `user_portfolio`, `oracle` and `signal_registry`, with the
parts of `shared` and `common` they run on, and the orders, plans and custody of
`auto_trade`. Its execution path, `analytics` and everything off-chain are not
(see *What is not modelled*). `file.rs:N` below is a
line of the contract under discussion.

## How to run

    tlc -config Governance.cfg MCGovernance   # one of the runs of PROJECT.json
    tlapm VaultProofs.tla                     # one of the proof modules: VaultProofs, LibraryProofs,
                                              # TradeProofs, TreasuryProofs, BridgeProofs,
                                              # RegistryProofs, SumTheorems, FoldTheorems

`PROJECT.json` lists the components, the runs with their configurations and
properties, the source lines every definition models, the mutants (for each
property of a passing run, plausible bugs in a modelled definition that the
property catches), the findings, the hazards and the theorems.

## The system

| component | state it keeps | operations | what makes it correct |
|---|---|---|---|
| **stake_vault**: stake positions | balance and unlock time per staker, last deposit, large-withdrawal request, rate window, pause, parameters | deposits, full and partial withdrawals, requests, parameter setters | tokens held equal stakes; lock, same-ledger check, time-lock and rate limit hold across any order of calls |
| unstake queue | head, tail, entries, tickets, cap | `queue_unstake`, `process_unstake_queue` | records agree; first come first served; a ticket is given up only for the stake; the queue moves |
| delegation, slashing, appeals | delegations twice, slash records, parked tokens, appeals | delegate, slash, appeal, resolve, both batches | books exact, solvent, each slash settled once |
| emergency unstake, eligibility | N-of-M requests and cooldown; grace periods and tiers | request, approve, expire; notify, check, vote power | quorum, spacing; the grace period runs once |
| reward buckets, fee accrual | buckets and claims per asset; accumulator, carry, positions | deposit, claim; accrue, settle, join, leave | each bucket paid once; joining and leaving move nobody's claim |
| multi-sig, rate limiter | proposals with approvals; a window per subject | propose, approve, execute; check, record | a quorum of different signers, one execution; bounded actions |
| upgrade | V1 and V2 positions, cursor, versions, slash strategies | `migrate_batch`, `upgrade`, `set_slash_strategy` | every position moved once, only earlier V2 deposits are lost, code never behind the layout |
| **governance**: roles and timelock | admin, guardian, pause, capabilities, shadow mode; queued actions, delays | transfers, pause, latch; queue, execute, cancel, extend | nothing takes effect before its delay |
| token and treasury | balances, stakes, vesting, rewards; assets, budgets, recurring payments | distribution, stake, claim; spend, rebalance | tokens conserved, spends inside budget and approval |
| stash ledger | two buckets per asset, authorizations | deposit, authorize, move | buckets add up to deposits; value crosses only against an authorization |
| reputation | scores, tiers, histories, leaderboard | record, decay, outcome | histories and leaderboard agree |
| proposals and votes | proposals, power snapshots, deposits, delegations | create, vote, finalize, execute, cancel, clean up | tallies are what the snapshots say |
| committees | members, decisions, elections, requests | form, decide, override, elect, report | books match, spends rest on approved decisions |
| conviction, quadratic votes | pools and growing stakes; credits | stake, fund; allocate, vote, refund | pools pay by conviction, credits add up |
| **bridge**: transfers and pools | transfers, replay locks, daily volume; reserves, shares | lock-mint, burn-unlock, approve, retry, fail; add, remove, swap | minted supply is backed, a calendar day's volume exact, share value never falls |
| signers, messages, monitoring | proposals; nonces, queue; confirmations, statistics | propose, approve; send, relay, deliver, time out; confirm, reorganise | a threshold never exceeds its roster, nonces neither skip nor repeat |
| **fee_collector**: rates, collection, claims, reports | rates and versioned cache, treasury, pending, pools, failed collections, shares by day | collect, batch, retry, withdraw, convert, claim, insure, report | every unit of fee is accounted for but what converted claims pay, withdrawals wait |
| **trade_executor**: gates, orders, queue, closes | daily volumes, counts, breaker, hashes; orders, priority queue, batches; plans, triggers, settlements | execute, simulate, queue, drain, batch, cancel, trigger, fill | a simulation tells the truth, queue places exact, charges cover what was asked for |
| **user_portfolio** | positions, lists, tags, lots, exposure, subscriptions, quests | open, close, partial close, migrate, tag | lists name exactly the positions, lots go in order |
| **oracle**: feeds and rounds | prices, breaker, history buckets, caches; submissions, reputations | update, quote, convert; submit, settle, weigh, remove | history is windowed, consensus is a weighted median of live oracles |
| **signal_registry**: administration, standing, signals, extras, providers | roles and multi-sig; stakes, trust, leaderboards; signals and indexes; schedules, templates, combos, imports, migration, walks; onboarding, votes, rewards | see the modules | indexes mirror what they index, walks and migration skip nothing, an adopted price stays |
| **auto_trade**: waiting orders | TWAP orders, conditional orders, keepers, trigger queue, icebergs and their SDEX ids | create, execute due segments, check and trigger, enqueue, drain, fill, reprice, cancel | fills add up, nothing triggers after it expired, no action overtakes, an iceberg nobody repriced places no more than its total |
| plans, grids, exits, custody | DCA plans and their list, grids and their orders, exit strategies, escrows, positions | buy when due, pause, resume; place, fill, re-centre; check prices; open, settle, cancel | totals are sums of purchases, orders lie on the grid, no more is sold than was given, an escrow is released once |
| rest of auto_trade, analytics, backend, frontend, scripts | | | not modelled |

How they interact. The parts of `stake_vault` share positions and tokens: the
queue withdraws through the same `do_withdraw` as the direct call; slashing and
emergency exits change positions that may be queued; the multi-sig, once
configured, takes the privileged operations over. Governance proposals read the
token's stakes through snapshots, spend from the treasury and pass through the
timelock; committees spend from the same treasury; finalisation feeds
reputation. The trade executor records its trades in a portfolio contract and
reads prices from oracles, and holds the users' daily volumes. The
registry's signals feed providers' statistics, leaderboards, contests and the
reward ledger. Tokens live in external SEP-41 contracts.

What is hard here. A Soroban call is atomic: a call that returns an error or
panics leaves no trace, and nothing runs inside it. So the hazards are not data
races but *orders of calls* by users, admins, signers, keepers, validators and
the clock; stale records used by a later call (caches, snapshots, indexes kept
twice, cursors over a table that shrinks); retries of what was already done;
the calls that swallow the error of one item and go on, where half of an item's
writes can survive; jobs spread over several calls (migration, paged walks,
consensus rounds); rounding and limits at a boundary. The hazards are listed one
by one, with their lines, in `PROJECT.json`.

## The modules

| module | models | variables | built on |
|---|---|---|---|
| `LedgerClock` | timestamps, sequence numbers, saturating u64 arithmetic (external: the host), and what all contracts do with tables, lists and shares | `now`, `seq` | |
| `RateLimiter`, `RateLimiterSpec` | the window as operators; a caller that checks, acts and records | `window`, `first_action`, `log` | `LedgerClock` |
| `Multisig` | the approval flow; a payload is opaque | `msConfig`, `proposals`, `executions` | `LedgerClock` |
| `StakeCore` | stake positions, withdrawals, parameters, tokens | `stake`, `wallet`, `vaultBal`, ... | `Multisig`, `RateLimiter` |
| `UnstakeQueue`, `SlashAppeal`, `EmergencyUnstake` | the parts of the vault of those names | | `StakeCore` |
| `Eligibility` | minimums, grace periods, tiers and votes, beside emergency exits | | `EmergencyUnstake` |
| `StakeVault` | queue, slashing, emergency exit and multi-sig dispatch together | | those three |
| `RewardVault` | fee accumulator and reward buckets | `state`, `position`, `buckets`, ... | |
| `VaultUpgrade` | migration, versions, slash strategies | `mig`, `ver`, `strat` | |
| `GovAccess` | roles, pause, capabilities, latch, shadow mode; timelock | `gov`, `tl` | `LedgerClock` |
| `GovTreasury` | token, distribution, vesting, rewards; treasury | `tok`, `trs` | `GovAccess` |
| `GovReputation` | reputation | `rep` | `GovTreasury` |
| `GovProposals` | proposals, votes, execution | `prop` | `GovReputation` |
| `GovCommittees` | committees | `com` | `GovProposals` |
| `Governance` | conviction and quadratic voting; the contract as a whole | `conv`, `qv` | `GovCommittees` |
| `GovStash`, `StashPromise` | the stash ledger; what it promises | `ledger`, `deposited` | |
| `BridgeTransfers` | transfers, limits, deployments; liquidity pools | `br`, `pools` | `LedgerClock` |
| `BridgeMessages` | signer governance; cross-chain messages; confirmations, reorganisations, fees, breaker | `bg`, `mq`, `mon` | `LedgerClock` |
| `FeeCollector` | rates and cache; collection, treasury, claims, reports | `fr`; `fm`, `fe` | `LedgerClock` |
| `TradeGates`, `TradeCloses` | gates, settings, market trades; orders, queue, batches, closes, plans, triggers, settlement | `tx`, `tb`; `tq`, `tc` | `LedgerClock` |
| `UserPortfolio` | positions, lists, tags, lots; watchlists, badges, quests | `up`, `px` | `LedgerClock` |
| `Oracle` | feeds, quotes, conversion; consensus rounds | `of`, `og` | `LedgerClock` |
| `SignalStats` | administration; providers' standing | `sa`, `sg` | `LedgerClock` |
| `SignalCore` | signals | `sr` | `SignalStats` |
| `SignalExtras` | schedules, templates, combos, imports, migration, walks; onboarding, votes, rewards | `sx`; `sp` | `SignalCore` |
| `AutoOrders` | TWAP, conditional and iceberg orders, keepers, trigger queue, order of signals | `ao` | `LedgerClock` |
| `AutoStrategies` | DCA plans, grids, exits, escrows, positions | `ap` | `LedgerClock` |
| `SumTheorems`, `FoldTheorems` | what a sum over a finite set is; induction along `FoldLeft` | | |
| `LibraryProofs` | proofs about multi-sig, rate limiter, upgrade, fee accumulator and reward buckets | | those modules |
| `VaultProofs` | proofs about positions, queue, emergency exits, slashing, eligibility, the composition and its books | | `StakeVault`, `Eligibility` |
| `TradeProofs` | proofs about the executor's gates, books, queue and settlement, and the portfolio's lists and lots | | `TradeCloses`, `UserPortfolio` |
| `TreasuryProofs`, `BridgeProofs`, `RegistryProofs` | proofs about the stash ledger and the fee collector; the bridge's transfers, pools, signers, messages and monitor; the registry's administration | | `GovStash`, `MCFees`; `BridgeMessages`, `BridgeTransfers`; `SignalStats` |
| `MC*` | constants, areas and combined properties for TLC (the vault's modules are checked as they are) | `area`, `left` | |

Conventions. Definitions keep the names of the Rust functions. One entry point
is one action; its guards are the conditions under which the call returns `Ok`,
since a call that fails is rolled back and is no step. Storage is one record
variable per storage area; an internal function that changes storage is an
operator from record to record, so that an entry point composes them in the
order of the code, and what it may fail on is a predicate beside it. Entry points
of `lib.rs` that only authorise and delegate are grouped (`...Step`, `...Part`)
by the library they call. In the vault, a call that loops over items and
swallows an item's error is a sequence of steps, with the variable `call` naming
the running call; elsewhere such a loop is a fold inside the action. A missing
storage entry is `NoTime`, `NoTicket`, `NoOne`, an absent key, or 0, whichever
the code's default makes it. What the contract does not store is marked
*history*; no guard reads it. Names, payload bytes, reasons and texts are tags.

The map in `PROJECT.json` names the operations and the helpers that stand for most
lines; a small helper beside them lies inside the lines of its caller.

The mutated forms of definitions (`process_entry_KeepsTicket`, ...) stand before
the definition they mutate and are used by nothing else.

## The runs

Each run asks one question of one contract or of a group of parts; the
properties are explained above their definitions.

* **libraries** (`Libraries.cfg`): fee accumulator, reward buckets, rate limiter,
  multi-sig flow, upgrade. They share no state but the clock, so a behaviour
  follows one of them, chosen in the initial state. Fees use a precision of 10
  for 1e12, so that every division leaves a remainder, and 127 for `i128::MAX`,
  so that overflow is reached. `LibraryBooks`: fees are booked as
  distributed or carried, what is claimed, claimable and carried strays from the
  deposits by at most a unit per accrual and holder, share changes keep what is
  pending, a bucket is paid once and covered.
  `UpgradeSound`: a migration moves every position once (batches of 0, 1, 2 and 5 over
  three positions, between deposits) and loses exactly the V2 deposits made before a
  provider's move; the layout is never ahead of the code, and
  stored slash strategies are ordered. `LimitsHold`: no window holds more actions
  than the caller's class allows. `ProposalsByQuorum`: one execution, a quorum of
  different signers, in time. **fees_overpromised** (`FeesOverpromised.cfg`) is
  the same specification with a fine precision and ends in a violation: the exact
  equation of the module's doc.
* **unstake_queue** (`UnstakeQueue.cfg`): positions and queue. Two stakers, amounts
  0 to 2 with 2 already "large", three tickets, so that one can queue again after
  being served, an admin who changes the minimum duration, a cap lowered to 0
  under the current length. Nobody is paid from a locked position or in the ledger of a
  deposit, no call shortens a lock; a large withdrawal consumes a request of its own
  that has waited; every payout is counted in the rate window, and one that the
  staker asks for directly stays within it (`process_unstake_queue` counts its payouts
  without asking the limiter, so those are not limited). Records agree, service is
  in order, a ticket leaves only with the
  payment and, with fairness, everybody is served unless the head is stuck.
  **queue_stuck** (`UnstakeQueue_stuck.cfg`) ends in a violation.
* **stake_vault** (`StakeVault.cfg`): the composition, in five areas. `books`:
  queue, a slash with its appeal, a batch item and emergency exits on the same
  positions, all combinations, `BooksExact`. `multisig`: every action tag with
  valid, invalid and unknown payloads, the multi-sig switched on and off around it,
  in behaviours of seven steps, `ParamsByMultisig`. `slash`: stakes and delegations
  of 2 under tiers of a half (so that a second slash rounds), two slashes, both
  batches with two items, burns that fail, an appeal window of 0 or 1 at first and
  set to 1 later, appeals inside and after it. `SlashesSound`: delegation records
  agree, a slash whose tokens were parked is settled once, one burned at once is
  credited only by a reversal, and unless that happened every position can be paid.
  `SlashesByRule`: slashes spaced, appeals filed once inside the window in force and
  resolved once. `entitlements`: one staker, minimum and tier changes, exits of a
  single admin; `PowerIsBestTier`, `EntitlementsFair` (grace periods and tiers).
  `emergency`: exits under a 2-of-2 roster and one of a single admin, with
  reconfigurations in between and a cooldown that is raised; `EmergenciesByRule`: as
  many *different* admins as required, each configured when it approved, before the
  timeout, and a cooldown after the exit before. One staker is enough in these two:
  the properties are about one account. **late_appeal** (`LateAppeal.cfg`) and
  **locked_votes** (`LockedVotes.cfg`) check what comments of the code say of
  reversals and of locked stakes, and end in violations.
* **governance** (`Governance.cfg`): eleven areas. `GovernanceBooks` (reserved
  rewards, credits, histories, stash buckets, committees' counters),
  `TalliesFromSnapshots` (a tally is the votes on record and the quadratic votes that
  stand, each weighing what its voter had at the snapshot), `MoneyMovesByRule` (tokens
  conserved, spends inside
  budgets, committee spends by an approved decision, pools by conviction),
  `DelaysHonoured` (a queue entry is spent at most once, never once cancelled, never early;
  a proposal executes by its entry or in its own window after a vote it did not
  lose; latched admin operations wait), `KeepsPromise`
  (the stash ledger implements `StashPromise`).
* **bridge** (`Bridge.cfg`): seven areas. `BridgeBooks` (wrapped supply backed, the
  volume of a calendar day exact), `QuorumReachable` (no accepted proposal leaves a
  threshold above the length of its roster, nor above the number of different
  members of one that named nobody twice at first; the run's first signers name one
  of them twice, its validators do not), `CrossChainSound` (nonces accounted,
  approvals backed by signatures even after a reorganisation),
  `ShareValueNeverFalls` (of pools with fees up to 100 %; the run has one above,
  too).
* **fees_and_orders** (`Fees.cfg`): five areas of the fee collector. `FeesSound` (the
  tokens held are treasury, pool, insurance, pending claims and what has no owner,
  less exactly what converted claims paid; earnings by day agree with totals; the
  revenue pool is indexed; a rate lies between the configured floor and ceiling
  when it is read under the current version, else within the hard limits),
  `WithdrawalsWait`. Eight areas of auto_trade, with two
  orders of a kind at most: `OrdersSound` (TWAP segments never early and never too
  many, conditional orders closed by expiry or trigger but listed until then, the
  queue in order with none lost, the choice among conflicting signals independent
  of their arrival, icebergs book every fill once) and `HoldingsSound` (DCA
  totals, grid orders on the grid, exits sell what was given, escrows and
  positions kept once). A minute has two seconds and a day two, so that segments
  and purchases fall due within the four seconds of a behaviour; two icebergs
  can get the same SDEX id.
* **trading** (`Trading.cfg`): twelve areas, among them a user from before the
  position lists. `SimulationFaithful`; `TradeBooks` (the volume counted is within the
  limit and covers what was traded but for what percentages of the balance added; the
  position count, with users closing at the portfolio behind the executor's back; fills;
  places of the queue and its entries one to one); `ListsExact`;
  `LotsConsumedInOrder` (oldest first, and exactly the amount sold).
* **signals** (`Signals.cfg`): twenty-five areas of oracle and registry.
  `OracleSound` (history windowed; a round's price halves the weights, also unequal
  ones, every weight is the one its reputation stands for, and a round that removes
  oracles leaves two that can submit), `RegistryBooks` (ledgers, categories,
  leaderboards, tags, schedules also of interval 0, scores frozen but for outcomes),
  `ReadersSeeAll` (walks and migration pass every row, an adopted price stays on
  record), `FeeByProposal`.

Where several statements answer one question they are joined in one property of the
MC module; each conjunct has its own definition and comment, and the mutants of such
a property break different conjuncts of it.

Areas. The contracts of the last six runs are too wide for one state space. A
behaviour picks an *area*, a set of operations that share state, and takes a bounded
number of operations of it in any order and at any time (`MCAreas`: area to number;
in `stake_vault`, `AreaBounds`). Operations that feed one another are in the same
area; areas that share no state are not interleaved, since no property could tell
the interleavings apart. Some areas start where a few operations of another lead
(stakes placed, timelock installed, budget approved, committees formed, signals
published); those states are built with the same operators the operations use. The
number of operations is what the longest story needs: propose, vote, wait, queue,
execute and try again is six; three submissions, the settlement that judges them and
a call in between are five; a reorganisation after signatures is five.

Other bounds. `MaxNow` ends a behaviour's clock; the other `Max...` constants
bound what would grow; `LastInputAt` is the last time of a new deposit, request
or delay, so that the clock can outlive every lock and cooldown: without it a
bounded clock would cut waits short and refute any liveness. Time constants are
scaled down (hours and days to one or two ticks) with their order kept. Table
capacities (leaderboards, histories, queues, batches) are scaled to one to three
so that the limits are reached. Symmetry is used only in `stake_vault`, which
checks no liveness. `CHECK_DEADLOCK FALSE` stands everywhere
because the clock or the bounds end a behaviour.

Fairness. Only `QueueProgress` and `RetriesSucceed` are liveness properties.
`QueueFairness` assumes that ledgers keep closing (strong, since a queue call in
progress disables it), that somebody keeps calling `process_unstake_queue` (the
doc of the function asks operators to retry), that a running call returns, and
that a head entry that can be paid infinitely often is paid: the last means only
that the token does not refuse a covered transfer for ever. Nothing is assumed
of the stakers. The other contracts make no promise that something eventually
happens: every step is somebody's call, and nobody is obliged to call.

## Findings

All four are about `stake_vault`; each is a run that checks what a doc or comment
says and ends in a violation.

- **A queued staker who leaves directly** (`queue_stuck`, `lib.rs:2870`)
  keeps its ticket; its empty position stops the queue until it deposits again,
  while the doc says that retrying later succeeds.
- **Fees promised twice** (`fees_overpromised`, `fee_accrual.rs:197`). The fraction
  carried to the next deposit is also inside the accumulator. Three shares and three
  deposits of one unit make more than three units claimable; the module doc (`:19`)
  says that deposits equal claimable fees and carry "exactly, at every point in
  time". `FeesNearlyCovered` is what holds: the difference is at most a unit per
  accrual and holder.
- **A reversal of tokens already burned** (`late_appeal`, `lib.rs:1356`). A slash made
  while no appeal window is set, the default, burns at once; under a window set
  later it can be appealed, and a reversal credits it, although the comment (`:1353`)
  says that the tokens are still in the vault.
- **Locked stakes vote** (`locked_votes`, `lib.rs:963`). The doc (`:952`, `:1055`)
  says that a locked stake counts for nothing; the code gives it the votes of the
  best tier its remaining lock meets, which the next sentence of the doc describes
  (`PowerIsBestTier`).

## What is proved

Of the 40 properties of the passing runs 30 are also theorems, checked by TLAPS for
every value of the constants. The assumptions on the constants are named where the
constants are declared:

- numbers are naturals where the code has unsigned integers, limits and windows
  are positive (`ClockConstants`, `RateConstants`, `MultisigConstants`,
  `StakeConstants`, `QueueConstants`, `SlashConstants`, `EmergencyConstants`,
  `StashAmountsAssumption`, `BridgeMonitorConstants`); `NoUser` is not a staker;
- u64 seconds do not run out (`MaxNow < U64_MAX`, in `ClockConstants`);
- the default lock tiers are distinct (`EligibilityConstants`), the positions to
  migrate are finitely many (`UpgradeConstants`), the first bridge rosters, which
  may name somebody more than once, are as long as their thresholds
  (`BridgeGovernConstants`), a critical payload of the registry is an action with an
  argument (`RegistryAdminConstants`); users, wrapped assets and providers of the
  bridge are finitely many, pool amounts are i128 and fees any u32 of the two kinds
  of pool (`BridgeConstants`, `PoolConstants`); share holders and providers are
  finitely many and the fee precision is positive (`FeeConstants`,
  `RewardConstants`);
- what a caller passes to the executor and the portfolio has the type of the entry
  point's parameter: an i128 may be negative and is refused by the code, not by the
  assumption (`GateConstants`, `TradeQueueConstants`, `CloseConstants`,
  `PortfolioConstants`); the same for the fee collector, whose rates, shares, scores
  and oracle answers are unsigned, whose amounts are i128, whose traders are finitely
  many and whose precision and day are positive (in `FeeCollector`: `FeeConstants`,
  `CollectorConstants`, `ReportConstants`);
- `SupplyAssumption`: there are finitely many stakers, and all their tokens fit an
  i128, because the token counts its supply in one; `PayloadAssumption`: what
  `execute_action` decodes from a payload is a u32 or u64, missing bytes read as 0
  (`lib.rs:1230-1257`).

### Stake positions and queue (`VaultProofs`)

* `CoreTypeCorrect`: the type invariant of `StakeCore` with that of the clock,
  inductive as it stands. Its content is that no balance, wallet or vault
  balance goes below zero: for a partial withdrawal that is the comparison with
  the balance in `partial_unstake`, for the vault the token's own check.
* `LockHonouredAlways`, `LargeNeedsOwnRequestAlways`, `PayoutsLimitedAlways`: the
  three action properties of a payout, direct or from the queue. A wallet grows only
  in `leave`, behind `MayLeave` (`PaidPassedChecks` for the direct calls). Both ways
  count the payout; the rate *check* stands only before the direct one, and that is
  what the theorem says. The lock part needs that a top-up takes the later of two
  unlock times and that no other call writes it.
* `QueueInvariant`: `QueueInv`, the inductive invariant of the queue, joins the
  type invariants and `QueueConsistent`. Neither part is inductive alone: that
  serving the head frees exactly one ticket needs the entry and the ticket to
  point at each other, which in turn needs that tickets between head and tail
  all have entries. It also shows that the "orphaned slot" branch of
  `process_unstake_queue` never runs in a reachable state.
  `QueueAlwaysConsistent`, `FirstComeFirstServedAlways`, `LeavesOnlyPaidAlways`
  follow: whoever leaves the queue was its head, and is paid in the same step.

### Libraries (`LibraryProofs`)

* `ProposalsByQuorumAlways` from `MSInv`: approval lists have no repetitions, and a
  proposal has been executed once if its status says so, else never. `execute`
  compares the *length* of the list with the threshold; only without repetitions is
  that a number of signers.
* `LimitsHoldAlways` from `LimiterInv`. The limiter keeps one window, while a
  stretch of the same length overlaps up to two of them. The invariant therefore
  keeps, from the log, what the forgotten window left behind.
* `LibraryBooksAlways` from `FeeInv` (types, the accumulator's books, and that a
  position's debt is never ahead of the accumulator, so that the clamp in `settle`
  never fires and joining or leaving moves nobody's claim; and `FeesNearlyCovered`,
  for which each accrual's error is bounded per holder and summed) and `RewardInv` (a
  provider's balance is the sum of its unclaimed buckets, what it received the sum of
  the claimed ones). Paying a list of buckets is a fold; an id that occurs in it twice
  is paid once because the second visit finds it claimed.
* `UpgradeSoundAlways` from `UpgradeInv`: the list of migrated providers has no
  repetitions, each of them has what its old position held and what was deposited
  after its move, whose earlier deposits are in `before` (history), and once the
  migration is complete the list holds all old positions.

### The vault (`VaultProofs`)

The parts of the vault are variables that several specifications change: their
own one, the one that puts a part beside others (`EntSpec`), and the whole vault
(`VaultSpec`). So each part has *shape* lemmas, which say what a step may do to its
records, in which specification it may be taken; the invariant of the part is
proved from the shape alone, once.

* `EmergenciesByRuleAlways`, `EntEmergenciesByRule`, `VaultEmergenciesByRule` from
  `EmInv` (approval lists have no repetitions, and a pending request was made no
  earlier than the cooldown, as set when it was made, after the last exit). The
  property asks of the executing step that the approver is new, configured, and in
  time, and with those before it reaches the required number.
* `SlashesByRuleAlways`, `VaultSlashesByRule` from `SlashInv`, whose strengthening is
  that `lastSlash` is no earlier than any slash of that provider. That an appeal lies
  inside the window in force, counted from the slash, is part of the property.
* `EntitlementsFairAlways` from `EntInv`, and from the same invariant
  `PowerIsBestTierAlways`: `get_voting_power` walks the stored tiers and keeps the
  largest multiplier of those the remaining lock meets, so the order in which they
  are stored does not matter.
* `VaultRunsMultisig`: every behaviour of the vault is one of `MSSpec`, the
  specification of the multi-sig library, so `VaultProposalsByQuorum` follows from
  the library's theorem. `ParamsByMultisigAlways`: with a multi-sig configured, the
  protected parameters change only in the step that executes a proposal.
* `VaultQueueConsistent`, `VaultFirstComeFirstServed`: `QueueInv` is not kept by the
  composition in the form it has for the queue alone, because slashes and emergency
  exits change the stakes of queued stakers; its part about records, `QueueRecords`,
  is.
* `VaultBooksExact`: the vault holds exactly the stakes, the delegations and what
  is held of slashes that were neither burned nor given back. The inductive
  invariant `VaultInv` joins `Books` with the parts above. `Books` adds to the
  property that the delegated totals are the sums of the delegations, that a slash
  holds no more than it took, and that stakes, delegations, open slashes and
  wallets stay within the supply: that is why the saturating i128 addition of
  a reversed slash never saturates.
* `SlashesSoundAlways`, `VaultSlashesSound`: with and without an appeal window, a
  slash whose tokens were parked is settled once; one burned at once is credited
  only by a reversal (`SettledTwice`), and unless that happened every position can
  be paid. The exception is the finding `late_appeal`.

### Sums and folds (`SumTheorems`, `FoldTheorems`)

Sums over all stakers are folds over finite sets. `SumTheorems` proves, once, that a
sum changes by what its function changes at a point (`SumChanges`), that it is
monotone, what bounds it, that points where the function is 0 may be left out
(`SumRestricts`), and what equal terms add up to (`SumConstant`); by least
counterexample (`LeastNat`) on the size of the set.

The loops of the contracts are `FoldLeft` over a sequence. The induction theorems of
the library take a predicate as a parameter, which the provers cannot instantiate.
`FoldTheorems` has the folded operator and the predicate as *constants* instead:
`FoldInduction` is proved of them (with the existence of the recursive function that
defines the fold), and a proof takes an `INSTANCE` with the loop's body and its loop
invariant. The body gets an environment as its first argument, so that it may
mention what does not change during the loop.

### Trading and portfolio (`TradeProofs`)

The executor's theorems are about `TradeSpec` and the portfolio's about
`PortfolioSpec`: all entry points and the clock in any order and number, from the
deployed contract (`TradeInit`), or from any portfolio a user from before the lists
may have (`PortfolioInit`). The run `trading` follows one area at a time instead.

* `ListsExactAlways` from `PortfolioInv`: a position has at most one owner, who
  lists it once; of a user who is migrated or was never there before the lists, the
  two lists name the positions by status; the index of a tag names what carries it.
  The owner matters: a close by one user must not change the status under another's
  list. Migration and closing are loops that rebuild lists (`Only`, `Without`);
  `OnlyKeeps` says what they leave.
* `LotsConsumedInOrderAlways`: the walk over the lots is a fold. Its loop invariant
  `LotsSoFar`: until the amount is used up nothing is kept, then the rest of one
  lot and all younger ones; and what is kept, with what was asked for, is what was
  walked over and what is still to take, so that exactly the amount goes.
* `SimulationFaithfulAlways`: `FirstRefusalIs` says that the first gate that refuses
  decides. The dry run has the gates of the execution in one list, except the
  portfolio's; it reads the breaker without clearing it (`BreakerRead`), asks
  for the balance with and without the fee, where the execution asks only without,
  and skips the percentage when it is too high. The fee is never negative
  (`SettingsOK`): without that the two balance checks differ.
* `TradeBooksAlways` from `TradeInv`, with one part per storage area. `BooksOK`:
  what was executed on a day under a limit is at most what is counted and what
  percentages of the balance added to the amounts asked for, and what is counted is
  within the limit it was charged under; the days never run ahead of the clock, so
  that a reset at midnight covers everything (`LaterBooks`); a user's count is at
  most the positions open or closed by the user at the portfolio, and at least those
  without the plans', which are recorded uncounted. `QueueAt(q, rest)`: the list of
  ids names every queued trade except `rest`, those the running walk has yet to
  visit; it is the loop invariant of `execute_queued_trades`, and the state
  invariant with nothing left. Ids are below the counters, so a new trade or order
  never takes over an old entry. `SettleOK`: the fills of an order add up.

### The fee collector (`TreasuryProofs`)

`FeesSoundAlways` and `WithdrawalsWaitAlways` are about `FeesSpec`: settings,
collection, treasury, claims, earnings and the clock in any order and number, from the
defaults of `storage.rs` and the claims an earlier version left. The run
`fees_and_orders` follows one area at a time, partly from a collector in use. The
inductive invariant `FeesInv` has a part per storage area.

* `RatesOK`: every *cached* configuration satisfies the limits a stored one does, and
  one filled under the current version has its floor and ceiling. A
  slot that was filled under earlier settings may be read again once the
  version's last digit comes round; then the rate (`RateInRange`) lies within the
  hard limits only.
* `BooksOK`: per token, the tokens held are treasury, pool, insurance fund, pending
  claims and what has no owner any more, less what converted claims paid out of no
  book; all are natural, and the index names the tokens with a pool. The terms
  belong to it: shares between 0 and 10000 basis points, without which the parts of
  a fee could exceed it (`FeeSplits`), and naturals as queued amounts.
  `MoveKeepsAccounts` is the one argument for all calls that move money within a
  token, `ClaimKeepsAccounts` the one for claims, which clear an entry of the sum
  and, converted, pay in another token. The waterfall is a fold; `WaterfallBounds`
  says that it gives away no more than it was given.
* `EarningsOK`: a provider's total is the sum of its days, no day before the first or
  after today has earnings, the index has no repetitions and names everyone with a
  total. The report leaves out days without earnings (`SumRestricts`); the
  leaderboard is a sort, and `OrderExists` and `OrderCovers` say that a finite
  set can be listed in a strict order and that such a list names everyone once.
* For `WithdrawalsWait`: every call except a withdrawal and the waterfall leaves the
  treasury at least as large (`KeptIsWait`), the waterfall pays no trader
  (`NobodyPaid`), and a withdrawal takes exactly what its request says.

### Governance, bridge, registry (`TreasuryProofs`, `BridgeProofs`, `RegistryProofs`)

* `StashTypeCorrect`, `StashConservation`, `StashKeepsPromise`: the stash ledger
  of governance. The inductive invariant joins the types with *no authorization
  is used beyond its limit*; without it the allowance of the refinement mapping
  could be negative. Each operation has an *effect* lemma that says field by
  field what it does to buckets and authorizations, refused moves included; from
  these follow that the buckets always add up to the deposits
  (`assert_conservation` cannot fail) and that every step maps to a step or a
  stutter of `StashPromise`: value crosses between reserve and spending balance
  only against an allowance for that direction, which every attempt uses up.
* `QuorumAlwaysReachable` from `CommitteeOK`: the rosters, bags of members, are
  never shorter than their thresholds, also when a proposal made against an older
  roster is carried out, and nobody is named more often than at first, so a roster
  that began without repetitions has as many different members.
  `CrossChainAlwaysSound`: nonces of a chain are used in order (`MessagesOK`,
  `NoncesOK`), and a transfer the monitor calls approved still has the signatures
  and confirmations for it after a reorganisation (`MonitorOK`). These are theorems
  of `CrossChainSpec`, in which messages, monitor and signers interleave freely; the
  run `bridge` starts behaviours in one area and bounds their length.
* `BridgeBooksAlways`, a theorem of `BridgeSpec` (transfers, settings, pools and the
  clock, freely interleaved), from `BridgeOK`. Supply, user tokens and the day's
  total are running numbers in the code; the invariant says of which sum over the
  stored transfers each is the value (executed deposits less all burns, failed ones
  too; the transfers of the counted day), that the replay lock holds the key of
  every deposit under the deployment id it was made with, and that the counted day
  is the last one with a transfer, so that a reset at midnight forgets nothing.
* `ShareValueHolds`, of the same specification, from `PoolOK`: a pool's shares are
  the sum of its positions, and without shares both reserves are empty, which is why
  the first provider after a full redemption owns exactly what it deposits. The rest
  is arithmetic of floor divisions (`AddShare`, `RemoveShare`, `SwapProduct`). It
  speaks of the pools with a fee of at most 10000 basis points; others may be
  created beside them (see the observations).
* `FeeByProposalAlways` from `AdminOK`: the stored count of open proposals is the
  number of those Pending or Approved, so its saturating decrement is exact; under
  a multi-sig the fee changes only by a proposal approved earlier whose time lock
  has run out.

### Only model-checked

Liveness (`QueueProgress`, `RetriesSucceed`), which is out of the prover's reach;
and, because nobody has written the proofs yet, `TalliesFromSnapshots`,
`GovernanceBooks`, `MoneyMovesByRule`, `DelaysHonoured` (governance), `OrdersSound`,
`HoldingsSound` (auto_trade), `OracleSound`, `RegistryBooks`, `ReadersSeeAll`
(oracle, registry). In `VaultSpec` it is not claimed that a queued staker leaves
only paid: an emergency exit takes the stake.

## Observations

Behaviour met while modelling that a maintainer may want to know, beside the
findings. The models follow the code; where a property has to make an exception for
one of these, its comment says so.

*stake_vault.*
- An item of `batch_slash_stake` whose burn fails is reported as skipped although
  the stake was reduced (`lib.rs:2063`; `BooksExact` follows those tokens).
- Parked tokens of a slash nobody appeals stay parked
  (`lib.rs:2258`). `resolve_appeal` asks for the multi-sig, `batch_resolve_appeal`
  does not (`lib.rs:2447`).
- `process_unstake_queue` pays without `check_rate_limit` (`lib.rs:2853`): its payouts
  are counted in the staker's window and may exceed the limit.
- Approvals of emergency admins removed by a later `configure` still count
  (`emergency_unstake.rs:241`); emergency exits ignore the pause switch (`:201`);
  `configure` accepts an admin named twice (`:127`).
- The start of a grace period survives a top-up (`lib.rs:1444`); a large-withdrawal
  request covers later deposits (`lib.rs:1690`); `set_max_unstake_queue_size` is
  frozen under a multi-sig (`lib.rs:2764`); rate windows are fixed, not rolling.
- A migration batch overwrites a V2 position deposited before it, balance and lock
  (`migration.rs:297`, no entry point yet; `EachMovedOnce` says how much is lost);
  `pending_recovery` is never filled, because the readback reads the map just
  written; a non-empty list of required keys always makes `guard_storage_upgrade`
  refuse; `do_slash` does not read the strategy registry.

*governance.*
- Entry points that call `require_auth` for one address twice in a frame are
  refused by the host (comment at `lib.rs:2716`): `set_category_thresholds`,
  `set_deposit_config`, three timelocked variants and a non-empty
  `execute_multiple_actions` never succeed and are not in the next-state relation;
  self-nomination and `emergency_execute` are unreachable.
- `initialize_timelock` can be repeated (`lib.rs:1009`;
  `governance-timelock-audit.md:87`: "one-time setup"): ids restart while
  `AdminPendingActions` keeps old ones. The audit (`:46`) sends proposals through
  the queue; `execute_proposal` does not pass through it, and
  `execute_queued_action` does not look at the proposal's status: a proposal both
  queued and executed directly runs twice, and the entry of a cancelled one still
  runs (`QueueWaits`). Extending an admin entry does not change
  `AdminPendingActions`.
- `cancel_proposal` can turn Withdrawn into Cancelled and never settles the
  deposit; clean-up leaves queue entries; delegated power is fixed at delegation.
- Re-approval resets a budget's lifetime draw, `upsert_budget` its spending; a
  failing recurring payment is deactivated. Custom vesting mints beyond the
  supply. Committee majorities count current members but votes of past ones.
  `allocate` resets used credits and a refund can be repeated (no entry point).

*bridge.* The volume limit is said to be of a rolling day (`lib.rs:38`, `:105`); the
code counts by calendar day (`:1457`), so twice the limit can pass around
midnight. The first signers and validators may name one address twice
(`governance.rs:113`, `:146`), and then the threshold may exceed the different members.
Approval of a permanently failed transfer with a quorum makes it ready
again (doc near `lib.rs:1252`); `complete_transfer` ignores the status; a fee refund
can be repeated; a failed message blocks the ones behind it; tokens of a
permanently failed burn are not returned. `create_pool` accepts any u32 as a pool's
fee (`liquidity.rs:63`); above 10000 basis points the input after the fee is
negative (`:179`), so that a swap can leave reserves below zero, and
`ShareValueNeverFalls` excepts such pools. Messages, monitoring and fee estimates
have no entry point.

*fee_collector.* No entry point credits `ProviderPendingFees` (hence the constant
`FirstPending`); a claim cut by the daily cap clears all that was pending
(`lib.rs:1366`); a claim converted to another currency reduces no book, although its
comment says that the treasury pays (`lib.rs:1480`); a revenue snapshot writes the
pool off without moving tokens; a failed retry rolls its own counter back;
`set_protocol_token` does not raise the cache version and the key is the version
modulo ten, so a read can serve an old configuration (`fee_cache.rs:13`).

*trade_executor, user_portfolio.* The portfolio functions the executor calls are not
the ones `user_portfolio` has, so the two are composed through the executor's view
of it. The daily limit is said to be rolling (`errors.rs:52`) and is of calendar
days; it is compared with the amount asked for, while a percentage of the balance
decides the amount traded (`lib.rs:925`, `:958`). A position its user closes at the
portfolio stays in the executor's count. Trades refused inside the queue or a batch
stay charged to the daily volume; an expired plan's removal is rolled back by its
own error; one refused trade aborts the limit-order walk; open interest falls only
by `cancel_copy_trade`; stop and take prices stay after a close; the pause is read
by `execute_copy_trade` only. A user from before the lists has incomplete lists
until migrated; exposure is never given back; a partial close to zero writes no tax
event. Watchlists, achievements, badges and risk figures have no callers.

*oracle.* `update_with_external_data` writes the feed while the breaker is tripped
(comment at `price_cb.rs:52`) and no history bucket; low-reputation oracles kept by
the floor of two (`lib.rs:537`) have weight 0 and cannot submit again, and all of
them may be so; a deviation is cut to 32 bits before it is compared
(`price_cb.rs:69`); submissions of a removed oracle count; an expired hand-over's
clean-up is rolled back by its error; a cached path is reused for every amount.

*signal_registry.* A trade can make an expired signal active without raising the
cached count; a ban and the pruning of pending signals leave it too high; archived
ids stay in the category index; a schedule publishes no signal, and one with an
interval of 0 is accepted and repeats at one moment (`scheduling.rs:27`, `:140`); an
outcome moves a score that `community_voting.rs:5` calls frozen (`lib.rs:1717`); a
rejected appeal leaves the dispute open; claims are not bounded by the reward pool;
a submission between two migration batches makes `verified` false although nothing
was lost; a paged report restarts when its cursor's signal was removed. Several
libraries (profiles, ban appeals, onboarding, votes, churn snapshots) have no entry
point and are modelled through their functions.

*auto_trade.* An iceberg whose total is not a multiple of its visible size is
never marked Filled, because the last slice is smaller than the size it is
compared with; a new price places the rest of a full slice even if less remains,
and since cancelling on the SDEX does nothing (`iceberg.rs:567`) old slices stay
placed; a late fill makes a cancelled order PartiallyFilled; ids made of time,
amount and price can agree, and then a fill is credited to the later order. A
TWAP order with a total of 0 or less is accepted (`twap.rs:216`), one leaves the
remainder of its division unfilled, and its volatility
adjustment never fires, since the only prices recorded are copies of the last
one. A DCA plan is never stored as Completed: the call that writes it returns an
error. Anybody may pause, resume and change a plan (`lib.rs:1333`). Exit tiers
above 100% are accepted and make the position negative. A grid re-centred over an
odd range has its top level one above its upper price. Any caller may report a
fill of a grid or a price to an exit strategy.

## What is not modelled

- **auto_trade**, the rest: `execute_trade` with its gates, rate limits, loss
  streaks, insurance and referrals (next in the plan); routing, correlation, risk
  parity and the price-series strategies are arithmetic.
- **analytics**: read-mostly aggregates. **Backend, frontend, scripts**: off-chain.
- `oracle/src/governance.rs`, `signal_registry/src/position_sizing.rs`,
  `fee_collector/src/analytics.rs`: no `mod` line names them. Machine scores of the
  registry: feature arithmetic.
- Of `shared` and `common`: what no modelled entry point uses (commit-reveal, retry
  with back-off, join limits, collateral oracle, asset registry).
- In every contract: events and return values; authorisation (an action is taken
  by the address it names); reentrancy locks (the host lets no call run inside
  another one of these, and the locks are released on every path); expiry of
  temporary storage entries; the registry's rate limiter and admin changes of a
  limit; the wording of reports and errors; leverage and volatility arithmetic of
  the trade executor; `refresh_from_sdex` (`unimplemented!`);
  `recover_migration_entry` (never enabled); the CSV import (counts lines).

## Plan

Done: the operations of `stake_vault` (eligibility composed with positions and
emergency exits only), and the areas above of governance, bridge, fee collector,
trade executor, user portfolio, oracle, signal registry and auto_trade; the theorems
above, which cover the properties of the vault's runs except liveness, and those of
trading, portfolio, bridge and fee collector.

Next, in this order:

1. Proofs. `TalliesFromSnapshots` and `DelaysHonoured` of governance; with
   `SumTheorems` the books of the treasury (`GovernanceBooks`); with `FoldTheorems`
   the walks of the registry (`RegistryBooks`, `ReadersSeeAll`).
2. `execute_trade` of `auto_trade` with its gates and referrals; commit-reveal and
   back-off of `common`.
3. Abstract specifications for the timelock (an action takes effect at most once
   and never before its delay) and for bridge transfers (released at most once,
   never without a quorum), with the refinements.
4. Longer behaviours for the areas that are cut at three operations.
