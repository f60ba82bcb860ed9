------------------------------ MODULE MCBridge ------------------------------
(***************************************************************************)
(* The bridge for TLC.  A behaviour follows one area: transfers, pools,    *)
(* the signers' committee, messages, or monitoring with fees.  Areas share *)
(* no state, except that messages and fees read the validators.            *)
(***************************************************************************)
EXTENDS BridgeTransfers, BridgeMessages

CONSTANTS c1, w1, s1, s2,
    Areas  \* bound: area -> operations of a behaviour that follows it

VARIABLES
    area,  \* the area this behaviour follows
    left   \* operations it may still take

MCAreas ==
    [limits |-> 3, transfers |-> 5, pools |-> 5, signers |-> 5, messages |-> 5, monitor |-> 5,
     fees |-> 4]

\* a roster of signers that names one of them twice
MCFirstSigners == [s \in SignerPool |-> CASE s = s1 -> 2 [] s = s2 -> 1 [] OTHER -> 0]
MCFirstValidators == [v \in ValidatorPool |-> 1]
MCSourceTxs == {<<"tx1", 1>>, <<"", 1>>}
MCRouteLimits == {<<2, 3, 3>>, <<0, 2, 0>>}
MCPoolKinds ==
    {<<"ConstantProduct", 1000, 5000>>, <<"StableSwap", 0, 0>>, <<"ConstantProduct", 20000, 0>>}
MCFeeConfigs ==
    {[base_fee_bps |-> 5000, min_fee |-> 1, max_fee |-> 2, validator_pct |-> 6000,
      treasury_pct |-> 4000, dynamic |-> FALSE],
     [base_fee_bps |-> 98, min_fee |-> 2, max_fee |-> 2, validator_pct |-> 5000,
      treasury_pct |-> 5000, dynamic |-> TRUE]}
MCBreakerConfigs == {[latency_threshold_secs |-> 0, window_size |-> 2],
                     [latency_threshold_secs |-> 1, window_size |-> 1]}

bridgeVars == <<now, seq, br, pools, bg, mq, mon>>

\* A user whose deposit of two tokens was approved by everybody and minted.
Minted ==
    [transfers |-> <<[BridgeTransfer("LockMint", CHOOSE u \in BridgeUsers : TRUE,
                                     <<c1, c1, w1>>, 2, <<"tx1", 1>>)
                         EXCEPT !.approvals = Validators, !.status = "Completed",
                                !.executed_at = now]>>,
     replay |-> {<<c1, <<"tx1", 1>>>>}, consumed |-> {<<FirstDeployment, c1, <<"tx1", 1>>>>},
     deployment |-> FirstDeployment, governed |-> TRUE, paused |-> FALSE,
     assets |-> {w1}, chains |-> {},
     balance |-> [k \in BridgeUsers \X WrappedAssets |->
                     IF k = <<CHOOSE u \in BridgeUsers : TRUE, w1>> THEN 2 ELSE 0],
     total_minted |-> 2, daily |-> [day_start |-> day_bucket(now), total |-> 2],
     buffer |-> Unlimited, threshold |-> 9500,
     routes |-> [r \in Routes |-> NoRoute], windows |-> [r \in Routes |-> NoWindow]]

\* Everything right after initialize, except the transfers' area.
MCBridgeInit ==
    /\ area \in DOMAIN Areas /\ left = Areas[area]
    /\ ClockInit /\ PoolsInit /\ BridgeGovernInit /\ MessagesInit /\ MonitorInit
    /\ IF area = "transfers" THEN br = Minted ELSE BridgeInit

AreaStep ==
    \/ area \in {"limits", "transfers"} /\ TransferStep /\ UNCHANGED <<pools, bg, mq, mon>>
    \/ area = "limits" /\ BridgeAdminStep /\ UNCHANGED <<pools, bg, mq, mon>>
    \/ /\ area = "transfers"
       /\ \E d \in Deployments : set_deployment_id(d)
       /\ UNCHANGED <<pools, bg, mq, mon>>
    \/ /\ area = "pools"
       /\ \/ PoolStep /\ UNCHANGED br
          \/ (\E x \in WrappedAssets : register_wrapped_asset(x)) /\ UNCHANGED pools
       /\ UNCHANGED <<bg, mq, mon>>
    \/ area = "signers" /\ BridgeGovernStep /\ UNCHANGED <<br, pools, mq, mon>>
    \/ area = "messages" /\ MessageStep /\ UNCHANGED <<br, pools, bg, mon>>
    \/ area \in {"monitor", "fees"} /\ MonitorStep /\ UNCHANGED <<br, pools, bg, mq>>
    \/ area = "fees" /\ FeeStep /\ UNCHANGED <<br, pools, bg, mq>>

MCBridgeNext ==
    \/ left > 0 /\ AreaStep /\ left' = left - 1 /\ UNCHANGED <<now, seq, area>>
    \/ CloseLedger /\ UNCHANGED <<br, pools, bg, mq, mon, area, left>>

MCBridgeSpec == MCBridgeInit /\ [][MCBridgeNext]_<<bridgeVars, area, left>>
=============================================================================
