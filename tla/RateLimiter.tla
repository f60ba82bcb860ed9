---------------------------- MODULE RateLimiter ----------------------------
(***************************************************************************)
(* The shared fixed-window rate limiter (shared/src/rate_limiter.rs) and   *)
(* the trust tiering on top of it (common/src/rate_limit.rs), as operators *)
(* on one subject's window.  A missing window is NoWindow.                 *)
(***************************************************************************)
EXTENDS LedgerClock

CONSTANTS
    RL_WINDOW,            \* window_secs of the action's RateLimitConfig
    RL_MAX,               \* max_actions of the action's RateLimitConfig
    ESTABLISHED_SECS,     \* ESTABLISHED_DAYS days, in seconds
    ESTABLISHED_TRUST     \* ESTABLISHED_TRUST_SCORE

ASSUME RateConstants ==
    /\ RL_WINDOW \in Nat \ {0}
    /\ RL_MAX \in Nat
    /\ ESTABLISHED_SECS \in Nat
    /\ ESTABLISHED_TRUST \in Nat

NoWindow == [window_start |-> NoTime, count |-> 0]

RateWindow == [window_start : Nat \cup {NoTime}, count : Nat]

WindowOpen(w, t) ==
    /\ w.window_start # NoTime
    /\ SatSub(t, w.window_start) < RL_WINDOW

current_count(w, t) == IF WindowOpen(w, t) THEN w.count ELSE 0

\* Mutant: the window slides along with every action.
record_Slides(w, t) == [window_start |-> t, count |-> current_count(w, t) + 1]

record(w, t) ==
    IF WindowOpen(w, t) THEN [w EXCEPT !.count = @ + 1]
    ELSE [window_start |-> t, count |-> 1]

\* Mutant: the age of the subject is not looked at, nor its trust.
effective_max_Always(first_action, t, trust) == 2 * RL_MAX

\* Twice the limit for a subject first seen long ago and trusted enough;
\* first_action = 0 is a subject that never acted.
effective_max(first_action, t, trust) ==
    IF /\ first_action # 0
       /\ SatSub(t, first_action) >= ESTABLISHED_SECS
       /\ trust >= ESTABLISHED_TRUST
    THEN 2 * RL_MAX
    ELSE RL_MAX

check_rate_limit(w, first_action, t, trust) ==
    current_count(w, t) < effective_max(first_action, t, trust)
============================================================================
