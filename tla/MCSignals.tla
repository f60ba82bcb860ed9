----------------------------- MODULE MCSignals ----------------------------
(***************************************************************************)
(* The oracle and the signal registry for TLC.  A behaviour follows one    *)
(* area.                                                                   *)
(***************************************************************************)
EXTENDS Oracle, SignalExtras

CONSTANTS a1, a2, p1, p2, g1, g2, x1, x2, x3, r1, r2, r3,
    Areas  \* bound: area -> operations of a behaviour that follows it

VARIABLES
    area,  \* the area this behaviour follows
    left   \* operations it may still take

MCAreas == [feeds |-> 3, quotes |-> 2, convert |-> 3, custody |-> 3, rounds |-> 5, admin |-> 3,
            signers |-> 3, standing |-> 3, profiles |-> 3, tags |-> 4, authors |-> 5,
            edits |-> 3, expiry |-> 3, results |-> 3, contests |-> 3, schedule |-> 4,
            templates |-> 3, combos |-> 4, imports |-> 5, migration |-> 5, churn |-> 3,
            walks |-> 4, onboarding |-> 5, voting |-> 3, rewards |-> 4]

MCPairs == {<<x1, x2>>, <<x3, x2>>}
MCReports == {<<[pair |-> <<x1, x2>>, price |-> 3, decimals |-> 1, age |-> 0]>>,
              <<[pair |-> <<x1, x2>>, price |-> 20, decimals |-> 2, age |-> 0],
                [pair |-> <<x1, x2>>, price |-> 4, decimals |-> 1, age |-> 9]>>}
MCPauseDurations == {NoTime, 1}
MCSigners == {[signers |-> <<a1, a2>>, threshold |-> 2], [signers |-> <<a1, a1>>, threshold |-> 1],
              [signers |-> <<a2>>, threshold |-> 1]}
MCPayloads == {[act |-> "SetTradeFee", arg |-> 11], [act |-> "SetMinStake", arg |-> 0],
               [act |-> "SetRiskDefaults", arg |-> <<1, 30>>],
               [act |-> "SetTierSignalLimits", arg |-> <<1, 2, 3>>],
               [act |-> "PauseCategory", arg |-> <<"signals", 1>>],
               [act |-> "UnpauseCategory", arg |-> "signals"],
               [act |-> "PauseFeeCollection", arg |-> 0], [act |-> "ResumeFeeCollection", arg |-> 0],
               [act |-> "SetGuardian", arg |-> a2], [act |-> "ProposeAdminTransfer", arg |-> a2]}
MCDelays == {[FeeChange |-> 2, Pause |-> 0]}
MCBreakers == {[max_failure_rate_bps |-> 5000, max_price_move_bps |-> 5000, max_loss_1h |-> 3]}
MCTradeReports == {[failed |-> TRUE, volume |-> 1, price |-> 2],
                   [failed |-> FALSE, volume |-> 3, price |-> 0]}

MCAddressRank == [p \in {p1, p2} |-> IF p = p1 THEN 1 ELSE 2]
MCMedians == {<<0, 0>>, <<1, 2>>}
MCSignalInputs == {[category |-> "SWING", action |-> "Buy", price |-> 2, life |-> 1, tags |-> <<g1>>],
                   [category |-> "DAY", action |-> "Sell", price |-> 3, life |-> 3, tags |-> <<>>]}
MCTrades == {[entry |-> 10, exit |-> 11, volume |-> 1], [entry |-> 10, exit |-> 9, volume |-> 2],
             [entry |-> 100, exit |-> 101, volume |-> 1]}
MCOutcomes == {[outcome |-> "Profit", fee |-> 2, roi |-> 5], [outcome |-> "Loss", fee |-> 1, roi |-> -5]}
MCCollabs == {[co_authors |-> <<p2>>, pcts |-> <<3333, 6667>>], [co_authors |-> <<p2>>, pcts |-> <<10000>>]}
MCContests == {[start |-> 1, length |-> 2, metric |-> "HighestROI", min |-> 1, pool |-> 3],
               [start |-> 2, length |-> 2, metric |-> "MostVolume", min |-> 1, pool |-> 0]}
MCDeposits == {<<2, 1>>, <<3, 2>>}
MCMinimums == {<<2, 1>>, <<3, 2>>, <<0, 1>>}
MCSchedules == {[delay |-> 1, interval |-> 1, repeat |-> 2], [delay |-> 2, interval |-> 2, repeat |-> 0],
                [delay |-> 1, interval |-> 0, repeat |-> 2]}
MCVariables == {[pair |-> TRUE, action |-> "Buy", price |-> 2, complete |-> TRUE],
                [pair |-> FALSE, action |-> "Sell", price |-> 1, complete |-> TRUE]}
MCPresets == {[action |-> "Buy", life |-> 2]}
MCOverrides == {[action |-> "keep", life |-> 0, price |-> 0], [action |-> "Sell", life |-> 1, price |-> 3]}
Component(id, weight, on, test) ==
    [id |-> id, weight |-> weight, depends_on |-> on, test |-> test, above |-> 100]
MCCombos == {[type |-> "Simultaneous", parts |-> <<Component(1, 10, 0, "Success")>>],
             [type |-> "Conditional",
              parts |-> <<Component(1, 3, 2, "Success"), Component(2, 3, 1, "Failure"),
                          Component(1, 4, 2, "Above")>>]}

-----------------------------------------------------------------------------
Row(p, category, life) ==
    NewSignal(p, [category |-> category, action |-> "Buy", price |-> 2, life |-> life, tags |-> <<>>])
\* Two signals of p1 and one of p2, with the executor set.
Published ==
    [InitialSignals EXCEPT
        !.signals = <<Row(p1, "SWING", 2), Row(p1, "SWING", 3), Row(p2, "DAY", 1)>>, !.counter = 3,
        !.active = [p \in Providers |-> IF p = p1 THEN 2 ELSE 1], !.executor = {a1},
        !.by_category = [c \in {"SWING", "DAY"} |-> IF c = "SWING" THEN <<1, 2>> ELSE <<3>>]]
\* The same with a signal of p1 closed, whose outcome is still to be recorded.
Closing ==
    [Published EXCEPT !.signals[1].status = "Failed", !.active = [p \in Providers |-> 1]]
\* One signal of p1 alone.
Single ==
    [Published EXCEPT !.signals = <<Row(p1, "SWING", 3)>>, !.counter = 1,
                      !.active = [p \in {p1} |-> 1], !.by_category = [c \in {"SWING"} |-> <<1>>]]
\* A collaboration that waits for p2, one that is closed, and a closed signal of p2.
Collaborative ==
    LET author(p, pct, done) == [address |-> p, pct |-> pct, approved |-> done]
    IN [Published EXCEPT
          !.signals[1].status = "Pending", !.signals[2].status = "Successful",
          !.signals[3].status = "Failed", !.active = <<>>,
          !.authors = <<<<author(p1, 3333, TRUE), author(p2, 6667, FALSE)>>,
                        <<author(p1, 5001, TRUE), author(p2, 4999, TRUE)>>>>]
Known ==
    [InitialStats EXCEPT
        !.stats = [p \in Providers |-> [ProviderPerformance EXCEPT !.total_copies = 1]],
        !.first_signal = [p \in Providers |-> 1], !.stakes = [p \in Providers |-> 2]]
\* A registry whose rows are still in the first layout, one of them no longer active.
LegacyRow(status) ==
    [provider |-> p1, action |-> "Buy", price |-> 2, expiry |-> 9, timestamp |-> 1, status |-> status,
     executions |-> 0, successful |-> 0, volume |-> 2, roi |-> 0, category |-> "SWING", tags |-> <<g1>>]
LegacyRows == <<LegacyRow("Active"), LegacyRow("Expired"), LegacyRow("Active")>>

\* One vote against p1 in a window that began with it.
VotedDown ==
    [InitialProviders EXCEPT !.votes = [p \in {p1} |-> [v \in {a1} |-> <<"Down", 3>>]],
                             !.window = [p \in {p1} |-> 1]]

\* A change of the fee that waits for its second approval.
Proposed == [payload |-> [act |-> "SetTradeFee", arg |-> 11], approvals |-> <<a1>>,
             status |-> "Pending", executable_at |-> 0]

\* Three oracles: always accurate, accurate every other time, and new.
Reputed ==
    [InitialRounds EXCEPT !.oracles = <<r1, r2, r3>>,
        !.stats[r1] = [@ EXCEPT !.total = 2, !.accurate = 2, !.score = 90, !.weight = 10],
        !.stats[r2] = [@ EXCEPT !.total = 2, !.accurate = 1, !.avg_deviation = 300,
                                !.score = 60, !.weight = 2]]

PublishedAreas == {"expiry", "results", "combos", "churn", "walks", "voting"}

MCSignalsInit ==
    /\ area \in DOMAIN Areas /\ left = Areas[area]
    /\ ClockInit
    /\ of = IF area = "quotes" THEN [InitialFeeds EXCEPT !.weight = [s \in PriceSources |-> 1]]
            ELSE IF area = "convert"
            THEN [InitialFeeds EXCEPT !.feed = [p \in Pairs |-> [price |-> 20, timestamp |-> 1]],
                                      !.pairs = <<<<x1, x2>>>>]
            ELSE InitialFeeds
    /\ og \in IF area = "rounds" THEN {InitialRounds, Reputed} ELSE {InitialRounds}
    /\ sa = IF area = "signers"
            THEN [init_admin(a1) EXCEPT !.multisig = TRUE, !.signers = <<a1, a2>>, !.threshold = 2,
                                     !.proposals = <<Proposed>>, !.active = 1]
            ELSE init_admin(a1)
    /\ sg = IF area \in PublishedAreas \cup {"edits", "authors", "standing"} THEN Known ELSE InitialStats
    /\ sr = CASE area = "edits" -> Single
              [] area = "voting" -> Closing
              [] area \in PublishedAreas \ {"voting"} -> Published
              [] area = "authors" -> Collaborative
              [] area = "migration" -> [InitialSignals EXCEPT !.counter = Len(LegacyRows)]
              [] OTHER -> InitialSignals
    /\ sp = IF area = "voting" THEN VotedDown ELSE InitialProviders
    /\ sx = IF area = "migration" THEN [InitialExtras EXCEPT !.v1 = LegacyRows, !.schema = 1]
            ELSE InitialExtras

-----------------------------------------------------------------------------
OraclePart ==
    \/ area = "feeds" /\ (FeedStep \/ ReportStep) /\ UNCHANGED og
    \/ area = "quotes" /\ QuoteStep /\ UNCHANGED og
    \/ area = "convert" /\ ConversionStep /\ UNCHANGED og
    \/ area = "custody" /\ FeedAdminStep /\ UNCHANGED og
    \/ area = "rounds" /\ \/ RoundStep /\ UNCHANGED of
                          \/ (\E d \in PauseDurations : pause_feeds(of.admin, d)) /\ UNCHANGED og

StandingPart ==
    \/ area = "standing" /\ (StakeStep \/ SocialStep)
    \/ area = "profiles" /\ ProfileStep
    \/ area = "tags" /\ TagStep

SignalPart ==
    \/ area \in {"expiry", "migration", "contests", "walks"} /\ SubmitStep
    \/ area = "authors" /\ AuthorStep
    \/ area \in {"authors", "voting"} /\ OutcomeStep
    \/ area = "edits" /\ (EditStep \/ CopyStep)
    \/ area = "expiry" /\ (ExpiryStep \/ CloseStep)
    \/ area \in {"expiry", "walks"} /\ PruneStep
    \/ area \in {"edits", "results", "contests"} /\ ResultStep
    \/ area = "contests" /\ ContestStep

ExtraPart ==
    \/ area = "schedule" /\ ScheduleStep
    \/ area = "templates" /\ TemplateStep
    \/ area = "combos" /\ ComboStep
    \/ area = "imports" /\ ImportStep
    \/ area = "migration" /\ MigrationStep
    \/ area = "churn" /\ ChurnStep
    \/ area = "walks" /\ WalkStep
    \/ area = "results" /\ ViewStep

ProviderPart ==
    \/ area = "onboarding" /\ OnboardingStep /\ UNCHANGED sr
    \/ area = "rewards" /\ RewardStep /\ UNCHANGED sr
    \/ area = "voting" /\ VotingStep

AreaStep ==
    \/ OraclePart /\ UNCHANGED <<sa, sg, sr, sp, sx>>
    \/ area = "admin" /\ (AdminChangeStep \/ BreakerStep) /\ UNCHANGED <<of, og, sg, sr, sp, sx>>
    \/ area = "signers" /\ (SignerStep \/ ProposalStep) /\ UNCHANGED <<of, og, sg, sr, sp, sx>>
    \/ StandingPart /\ UNCHANGED <<of, og, sa, sr, sp, sx>>
    \/ SignalPart /\ UNCHANGED <<of, og, sa, sp, sx>>
    \/ ExtraPart /\ UNCHANGED <<of, og, sa, sp>>
    \/ ProviderPart /\ UNCHANGED <<of, og, sa, sg, sx>>

MCSignalsNext ==
    \/ left > 0 /\ AreaStep /\ left' = left - 1 /\ UNCHANGED <<now, seq, area>>
    \/ CloseLedger /\ UNCHANGED <<of, og, sa, sg, sr, sp, sx, area, left>>

MCSignalsSpec ==
    MCSignalsInit /\ [][MCSignalsNext]_<<now, seq, of, og, sa, sg, sr, sp, sx, area, left>>

-----------------------------------------------------------------------------
\* A price served comes from its window, and a consensus has half the weight of its round on
\* either side and leaves the oracles weighted by their reputations.  About history.rs
\* prune_old_data and reputation.rs, lib.rs calculate_consensus.
OracleSound == [](\A pair \in Pairs : HistoryWindowed(pair)) /\ ConsensusSound

\* The registry's ledgers and indexes are exact: fees of outcomes, escrow of
\* applications and recurring schedules; votes leave a disputed score alone; categories,
\* leaderboards and specialization tags mirror what they index.  About collaboration.rs,
\* provider_onboarding.rs, community_voting.rs, scheduling.rs, lib.rs, leaderboard.rs
\* and providers.rs.
RegistryBooks ==
    /\ [](/\ FeesSharedExactly /\ ReservesExact /\ FrozenIffDisputed /\ RecurrenceBounded
          /\ IndexCovers /\ RankedOnce /\ TagsMirrored)
    /\ FrozenScoreKept

\* A client that walks a provider's history, and the migration that walks the old rows,
\* pass every row once; and whoever reads an adopted signal finds the price it was adopted
\* at, or a record of it.  About query.rs, migration.rs and the edits of a signal.
ReadersSeeAll == [](HistoryWalkExact /\ MigrationSkipsNone) /\ AdoptedPriceKept
=============================================================================
