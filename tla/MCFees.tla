------------------------------ MODULE MCFees ------------------------------
(***************************************************************************)
(* The fee collector and the waiting orders, plans and custody of          *)
(* auto_trade for TLC.  A behaviour follows one area.                      *)
(***************************************************************************)
EXTENDS FeeCollector, AutoOrders, AutoStrategies

CONSTANTS t1, t2, k1, k2,
    Areas  \* bound: area -> operations of a behaviour that follows it

VARIABLES
    area,  \* the area this behaviour follows
    left   \* operations it may still take

MCAreas == [rates |-> 4, collect |-> 4, treasury |-> 4, claims |-> 3, earnings |-> 4,
            twap |-> 4, conditional |-> 5, queue |-> 5, iceberg |-> 4,
            dca |-> 4, grid |-> 4, exit |-> 5, custody |-> 4]

MCCongestionConfigs ==
    {[min |-> 5000, max |-> 20000, staleness |-> 1, default |-> 10000],
     [min |-> 20000, max |-> 30000, staleness |-> 0, default |-> 20000]}
MCOptimizationConfigs ==
    {[max_rate |-> 100, sensitivity |-> 10000, min_rate |-> 50, retries |-> 1],
     [max_rate |-> 10, sensitivity |-> 0, min_rate |-> 1, retries |-> 0]}
MCDiscountTiers == {{<<0, 1>>, <<100, 20>>, <<500, 100>>}}
MCWaterfalls == {<<[priority |-> 2, target |-> 3, minimum |-> 1],
                   [priority |-> 1, target |-> 2, minimum |-> 2],
                   [priority |-> 1, target |-> 4, minimum |-> 1]>>}
MCForecasts == {[cadence |-> 2, window |-> 1]}
MCSplitInputs == {<<10000, 0>>, <<3333, 6667>>}

MCTwapInputs == {[total |-> 5, minutes |-> 1, segments |-> 2], [total |-> -5, minutes |-> 1, segments |-> 2],
                 [total |-> 7, minutes |-> 4, segments |-> NoCount]}
Above(l) == [kind |-> "Above", asset |-> t1, level |-> l, rebound |-> 0]
Below(l) == [kind |-> "Below", asset |-> t1, level |-> l, rebound |-> 0]
MCCondInputs ==
    {[asset |-> t1, amount |-> 1, conditions |-> <<Above(4), Below(2)>>, logic |-> "Or", lifetime |-> 1],
     [asset |-> t1, amount |-> 1, logic |-> "And", lifetime |-> 3,
      conditions |-> <<[kind |-> "TimeAfter", level |-> 2],
                       [kind |-> "PriceDropRebound", asset |-> t1, level |-> 5000, rebound |-> 10000]>>],
     [asset |-> t1, amount |-> 1, logic |-> "And", lifetime |-> 2,
      conditions |-> <<[kind |-> "VolatilityBreakout", asset |-> t1, level |-> 5000, rebound |-> 0]>>]}
Sig(i, at, asset, buy) == [id |-> i, timestamp |-> at, asset |-> asset, is_buy |-> buy]
MCSignalBatches ==
    {<<Sig(1, 2, t1, TRUE), Sig(2, 1, t1, FALSE), Sig(3, 2, t1, FALSE), Sig(4, 3, t2, TRUE)>>,
     <<Sig(1, 1, t1, TRUE), Sig(2, 1, t1, FALSE), Sig(3, 1, t1, TRUE)>>}
MCIcebergInputs == {[total |-> 5, visible_pct |-> 5000, price |-> 2],
                    [total |-> 4, visible_pct |-> 2500, price |-> 3]}
MCFrequencies == {[kind |-> "Custom", secs |-> 1], [kind |-> "Daily", secs |-> 0]}
MCGridInputs == {[upper |-> 6, lower |-> 1, grids |-> 3, capital |-> 9]}
MCExitInputs ==
    {[entry |-> 10, size |-> 7,
      tiers |-> <<Tier(12, 6000), Tier(20, 5000)>>, stops |-> <<Stop(50, 20, FALSE)>>]}

\* A collector in use: an oracle, the highest rate, and a trader with a referrer.
InUse == [InitialRates EXCEPT !.oracle = TRUE, !.rate = 100, !.burn_rate = 2500]

\* A day on which fees of ten units were collected: two burned, two for the pool.
Collected ==
    [InitialBooks EXCEPT
        !.traded = Traders, !.treasury[k1] = 6, !.pool[k1] = 2, !.indexed = {k1},
        !.held[k1] = @ + 8, !.daily[<<k1, FeeToday>>] = 10,
        !.referrer[t1] = t2, !.referral_bps = 3333]

\* A market with a price, and a keeper who watches it.
Kept == [InitialOrders EXCEPT !.keepers = <<t1>>, !.price[t1] = 4]

MCFeesInit ==
    /\ area \in DOMAIN Areas /\ left = Areas[area]
    /\ ClockInit /\ ReportsInit
    /\ fr = IF area = "rates" THEN [InitialRates EXCEPT !.oracle = TRUE] ELSE InUse
    /\ fm = IF area \in {"rates", "earnings"} THEN InitialBooks ELSE Collected
    /\ ao = IF area = "conditional" THEN Kept ELSE InitialOrders
    /\ ap = InitialPlans

FeeAreaStep ==
    \/ area = "rates" /\ FeeSettingStep /\ UNCHANGED <<fm, fe>>
    \/ area \in {"rates", "collect"} /\ CollectStep /\ UNCHANGED fe
    \/ area = "collect" /\ (\E p \in BOOLEAN : set_paused(p)) /\ UNCHANGED <<fm, fe>>
    \/ area = "treasury" /\ TreasuryStep /\ UNCHANGED <<fr, fe>>
    \/ area \in {"collect", "claims"} /\ ClaimStep /\ UNCHANGED <<fr, fe>>
    \/ /\ area = "claims"
       /\ \E bps \in ShareInputs : set_max_rebate_bps(bps)
       /\ UNCHANGED <<fr, fe>>
    \/ area = "earnings" /\ EarningStep /\ UNCHANGED <<fr, fm>>

OrderAreaStep ==
    \/ area = "twap" /\ TwapStep
    \/ area = "conditional" /\ ConditionalStep
    \/ area = "queue" /\ QueueOrderStep
    \/ area = "iceberg" /\ IcebergStep

PlanAreaStep ==
    \/ area = "dca" /\ DcaStep
    \/ area = "grid" /\ GridStep
    \/ area = "exit" /\ ExitStep
    \/ area = "custody" /\ CustodyStep

AreaStep ==
    \/ FeeAreaStep /\ UNCHANGED <<ao, ap>>
    \/ OrderAreaStep /\ UNCHANGED <<fr, fm, fe, ap>>
    \/ PlanAreaStep /\ UNCHANGED <<fr, fm, fe, ao>>

MCFeesNext ==
    \/ left > 0 /\ AreaStep /\ left' = left - 1 /\ UNCHANGED <<now, seq, area>>
    \/ CloseLedger /\ UNCHANGED <<fr, fm, fe, ao, ap, area, left>>

MCFeesSpec == MCFeesInit /\ [][MCFeesNext]_<<now, seq, fr, fm, fe, ao, ap, area, left>>

-----------------------------------------------------------------------------
\* The collector's tokens are accounted for by treasury, pools, insurance and pending
\* claims, earnings agree with the daily shares, the pool index with the pools, and no
\* rate leaves the configured range.  About lib.rs, storage.rs and fee_cache.rs.
FeesSound == FeesAccounted /\ EarningsAgree /\ PoolIndexed /\ RatesBounded

\* Orders that wait are filled, triggered, expired and drained by their own rules,
\* whatever comes between: TWAP segments, keepers' visits, the trigger queue and
\* icebergs.  About twap.rs, conditional.rs, priority_queue.rs and iceberg.rs.
OrdersSound == TwapsSound /\ ConditionalsSound /\ QueueSound /\ IcebergsSound

\* What auto_trade keeps for its users adds up: purchases, grid orders, staged exits,
\* escrows and positions.  About dca.rs, grid.rs, exit_strategy.rs, escrow.rs and
\* positions.rs.
HoldingsSound == PlansSound /\ GridsSound /\ ExitsSound /\ CustodySound
=============================================================================
