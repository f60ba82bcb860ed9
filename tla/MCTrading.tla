----------------------------- MODULE MCTrading ----------------------------
(***************************************************************************)
(* The trade executor and the user portfolio for TLC.  A behaviour follows *)
(* one area.                                                               *)
(***************************************************************************)
EXTENDS TradeCloses, UserPortfolio

CONSTANTS c1, c2, k1, k2, s1, s2, o1, o2,
    Areas  \* bound: area -> operations of a behaviour that follows it

VARIABLES
    area,  \* the area this behaviour follows
    left   \* operations it may still take

MCAreas == [gates |-> 3, orders |-> 3, queue |-> 4, batch |-> 2, closes |-> 3, triggers |-> 3,
            settle |-> 4, positions |-> 3, legacy |-> 3, tags |-> 3, lots |-> 4, extras |-> 3]

MCBatchInputs ==
    {<<[user |-> c1, token |-> k1, amount |-> 3], [user |-> c2, token |-> k1, amount |-> 1],
       [user |-> c1, token |-> k2, amount |-> 1]>>,
     <<[user |-> c1, token |-> k1, amount |-> 1], [user |-> c2, token |-> k1, amount |-> 1]>>,
     <<[user |-> c1, token |-> k1, amount |-> 1], [user |-> c1, token |-> k1, amount |-> 1]>>}
MCQueueInputs == {[user |-> c1, token |-> k1, amount |-> 1, pct |-> NoPct],
                  [user |-> c1, token |-> k2, amount |-> 3, pct |-> 2000],
                  [user |-> c2, token |-> k1, amount |-> 3, pct |-> NoPct]}
MCPlanInputs == {[total |-> 3, intervals |-> 2, gap |-> 1, expiry |-> 3],
                 [total |-> 1, intervals |-> 2, gap |-> 1, expiry |-> 0],
                 [total |-> 3, intervals |-> 0, gap |-> 1, expiry |-> 0],
                 [total |-> 3, intervals |-> 1, gap |-> 0, expiry |-> 0]}
MCFillInputs == {[fill |-> 0, input |-> 1], [fill |-> 1, input |-> 1], [fill |-> 3, input |-> 2],
                 [fill |-> 1, input |-> 4], [fill |-> 1, input |-> -1]}
MCBoundInputs == {[min_output |-> 0, max_input |-> 3], [min_output |-> 2, max_input |-> 3],
                  [min_output |-> -1, max_input |-> 3]}
MCTierInputs == {<<"HighStake", "HighTenure">>, <<"Standard", "HighStake", "Standard">>, <<>>}
MCPositionInputs == {[entry_price |-> 2, amount |-> 1], [entry_price |-> 3, amount |-> 3]}
MCPnlInputs == {1, -1}
MCGoals == [trades |-> 3, streak |-> 2]

\* An executor in use: portfolio, oracle and keeper set, a daily limit of four.
TradingSettings ==
    [InitialSettings EXCEPT !.portfolio = TRUE, !.oracle = TRUE, !.listed = {o1, o2},
                            !.daily_limit = 4, !.max_oi = 5, !.price = [k \in Tokens |-> 2]]
Funded ==
    [InitialBooks EXCEPT !.balance = [p \in CopyUsers \X Tokens |-> IF p[1] = c1 THEN 20 ELSE 2]]
\* Two positions of c1 and one of c2, counted.
Invested ==
    [Funded EXCEPT !.open = {<<c1, 1>>, <<c1, 2>>, <<c2, 3>>}, !.opened = 3,
                   !.count = [u \in CopyUsers |-> IF u = c1 THEN 2 ELSE 1],
                   !.oi[k1] = 3, !.receipts = 3]

\* A user from before the lists: one open and one closed position.
Legacy ==
    [InitialPortfolio EXCEPT
        !.legacy = {c1},
        !.positions = <<[entry_price |-> 2, amount |-> 3, status |-> "Open", realized_pnl |-> 0],
                        [entry_price |-> 2, amount |-> 3, status |-> "Closed",
                         realized_pnl |-> 1]>>,
        !.ids[c1] = <<1, 2>>]
\* Two positions opened with the lists.
Listed ==
    [Legacy EXCEPT !.legacy = {}, !.open[c1] = <<1>>, !.closed[c1] = <<2>>, !.executor = TRUE,
                   !.lots[c1] = <<[entry_price |-> 2, amount |-> 3],
                                  [entry_price |-> 3, amount |-> 1]>>]

TradeAreas == {"gates", "orders", "queue", "batch", "closes", "triggers", "settle"}

MCTradingInit ==
    /\ area \in DOMAIN Areas /\ left = Areas[area]
    /\ ClockInit
    /\ tx = IF area \in {"gates", "settle"} THEN InitialSettings ELSE TradingSettings
    /\ tb = CASE area \in {"closes", "triggers"} -> Invested
              [] area \in {"gates", "orders", "queue", "batch"} -> Funded
              [] OTHER -> InitialBooks
    /\ tq = InitialQueue
    /\ tc = IF area = "closes" THEN [InitialCloses EXCEPT !.router = TRUE]
            ELSE IF area = "triggers"
            THEN [InitialCloses EXCEPT !.keeper = TRUE, !.price = 2, !.price_at = now]
            ELSE InitialCloses
    /\ up = CASE area = "legacy" -> Legacy
              [] area \in {"tags", "lots"} -> Listed
              [] OTHER -> InitialPortfolio
    /\ px = InitialExtras

TradePart ==
    \/ /\ area = "gates"
       /\ (AmountSettingStep \/ SwitchStep) /\ UNCHANGED <<tb, tq, tc>>
    \/ area \in {"gates", "batch"} /\ MarketStep /\ UNCHANGED <<tq, tc>>
    \/ area = "orders" /\ LimitStep /\ UNCHANGED tc
    \/ area = "queue" /\ QueuedStep /\ UNCHANGED tc
    \/ area = "queue" /\ LedgerSettingStep /\ UNCHANGED <<tb, tq, tc>>
    \/ area = "batch" /\ BatchStep /\ UNCHANGED tc
    \/ area = "closes" /\ (PlanStep \/ CancelStep \/ CallbackStep)
    \/ area = "triggers" /\ TriggerStep
    \/ area = "settle" /\ SettlementStep

PortfolioPart ==
    \/ area \in {"positions", "legacy"} /\ PositionStep
    \/ area = "legacy" /\ MigrationStep
    \/ area = "tags" /\ (TagStep \/ ExposureStep)
    \/ area = "lots" /\ (LotStep \/ SubscriptionStep)
    \/ area = "positions" /\ SwitchboardStep

AreaStep ==
    \/ TradePart /\ UNCHANGED <<up, px>>
    \/ PortfolioPart /\ UNCHANGED <<tx, tb, tq, tc, px>>
    \/ area = "extras" /\ ExtraStep /\ UNCHANGED <<tx, tb, tq, tc, up>>

MCTradingNext ==
    \/ left > 0 /\ AreaStep /\ left' = left - 1 /\ UNCHANGED <<now, seq, area>>
    \/ CloseLedger /\ UNCHANGED <<tx, tb, tq, tc, up, px, area, left>>

MCTradingSpec ==
    MCTradingInit /\ [][MCTradingNext]_<<now, seq, tx, tb, tq, tc, up, px, area, left>>

-----------------------------------------------------------------------------
\* The executor's counters cover what they count: the day's volume the amounts asked for
\* that day, a user's position count the copy trades neither the executor nor its keepers
\* closed, a settlement order its fills, the queue's lists its entries.  About
\* execute_market_copy_trade, the closing paths, settle_batch and
\* execute_queued_trades.
TradeBooks == VolumeCovers /\ CountsCovered /\ SettlementAddsUp /\ QueuePlacesExact
=============================================================================
