-------------------------- MODULE RateLimiterSpec --------------------------
(***************************************************************************)
(* A caller that checks, acts and records, as withdraw_stake and           *)
(* partial_unstake do, with a log of the actions that went through.        *)
(***************************************************************************)
EXTENDS RateLimiter, Sequences, FiniteSets

CONSTANTS
    Subjects,
    Trust,        \* [Subjects -> 0..100], the score a caller passes
    MaxActions    \* bound: actions of one subject in a behaviour

ASSUME LimiterConstants == Trust \in [Subjects -> Nat] /\ MaxActions \in Nat

VARIABLES
    window,        \* shared::rate_limiter Window(use_case, subject)
    first_action,  \* UserFirstAction(subject), 0 when missing
    log            \* history: timestamps of the subject's actions

rateVars == <<now, seq, window, first_action, log>>

RateTypeOK ==
    /\ ClockTypeOK
    /\ window \in [Subjects -> RateWindow]
    /\ first_action \in [Subjects -> Nat]
    /\ log \in [Subjects -> Seq(Nat)]

RateInit ==
    /\ ClockInit
    /\ window = [u \in Subjects |-> NoWindow]
    /\ first_action = [u \in Subjects |-> 0]
    /\ log = [u \in Subjects |-> <<>>]

\* One action of u: check_rate_limit, the action itself, record_action.
record_action(u) ==
    /\ Len(log[u]) < MaxActions
    /\ check_rate_limit(window[u], first_action[u], now, Trust[u])
    /\ window' = [window EXCEPT ![u] = record(@, now)]
    /\ first_action' = [first_action EXCEPT ![u] = IF @ = 0 THEN now ELSE @]
    /\ log' = [log EXCEPT ![u] = Append(@, now)]
    /\ UNCHANGED <<now, seq>>

RateNext ==
    \/ CloseLedger /\ UNCHANGED <<window, first_action, log>>
    \/ \E u \in Subjects : record_action(u)

RateSpec == RateInit /\ [][RateNext]_rateVars

----------------------------------------------------------------------------
\* Actions of u among the timestamps [from, from + RL_WINDOW).
ActionsSince(u, from) ==
    Cardinality({i \in DOMAIN log[u] :
                    log[u][i] >= from /\ log[u][i] < from + RL_WINDOW})

\* The most u may do in one window of its own tier.
TierMax(u) == IF Trust[u] >= ESTABLISHED_TRUST THEN 2 * RL_MAX ELSE RL_MAX

\* The fixed window never loses an action: its count is the number of actions
\* the subject really took since the window opened, and stays within the tier.
WindowCountsActions ==
    \A u \in Subjects :
        window[u] # NoWindow =>
            /\ window[u].count = ActionsSince(u, window[u].window_start)
            /\ window[u].count <= TierMax(u)

\* Over any stretch of RL_WINDOW seconds, wherever it starts, a subject gets at
\* most two windows' worth of actions: what a fixed window really guarantees.
TwiceInAnyStretch ==
    \A u \in Subjects : \A from \in 1 .. now :
        ActionsSince(u, from) <= 2 * TierMax(u)

\* The limiter's window counts every action of the window, so no stretch as long as a
\* window holds more than twice its limit.  About rate_limiter.rs.
LimitsHold == WindowCountsActions /\ TwiceInAnyStretch
============================================================================
