------------------------------ MODULE GovAccess -----------------------------
(***************************************************************************)
(* Who may do what in the governance contract: admin, key rotation,        *)
(* guardian, pause switch and its propagation, capabilities, the admin-    *)
(* timelock latch, shadow mode and storage version (governance/src/lib.rs, *)
(* shadow_mode.rs, shared/src/capabilities.rs). Authorisation by signature *)
(* is external: a caller is whoever signed. The timelock of the governance *)
(* contract (governance/src/timelock.rs): the queue shared by proposals    *)
(* and admin actions, the list of pending admin actions, and the two ways  *)
(* an admin operation may run: directly, while the latch is off, or by     *)
(* spending a pending entry that has waited. The queue entries of          *)
(* proposals are made and run by GovProposals.                             *)
(***************************************************************************)
EXTENDS LedgerClock, FiniteSets, Sequences, SequencesExt, Functions

CONSTANTS
    Accounts,        \* addresses of the model
    FirstAdmin,      \* the admin of the first initialize
    Operators,       \* bound: the accounts that roles are given to
    PauseTargets,    \* downstream contracts that can be registered
    TrialDurations   \* trial lengths of a shadow-mode upgrade

ASSUME GovAccessConstants == FirstAdmin \in Operators /\ Operators \subseteq Accounts

VARIABLE gov  \* the access-control part of the instance storage

NoOne == "no one"

Capability == {"Pause", "Upgrade", "Treasury", "ParameterChange", "Emergency", "SuperAdmin"}

NoShadow == [trial_ends_at |-> 0, promoted |-> FALSE]

AccessInit ==
    gov = [admin |-> FirstAdmin, pending_admin |-> NoOne, initialized |-> TRUE,
           guardian |-> NoOne, paused |-> FALSE, targets |-> {},
           downstream |-> [t \in PauseTargets |-> FALSE], caps |-> {},
           enforced |-> FALSE, shadow |-> NoShadow, storage_version |-> 1]

----------------------------------------------------------------------------
\* The guards every entry point starts with.

require_initialized == gov.initialized

require_not_paused == ~gov.paused

require_admin_identity(caller) == require_initialized /\ gov.admin = caller

require_admin(caller) == require_admin_identity(caller)

require_no_timelock_bypass == ~gov.enforced

has_capability(caller, c) ==
    <<"SuperAdmin", caller>> \in gov.caps \/ <<c, caller>> \in gov.caps

require_capability(caller, c) ==
    require_initialized /\ (has_capability(caller, c) \/ gov.admin = caller)

list_capabilities(caller) == {c \in Capability : has_capability(caller, c)}

----------------------------------------------------------------------------
\* initialize, after emergency_revoke_admin has cleared Initialized: what it
\* rewrites of this record (the other parts of the storage start afresh too).
initialize(admin) ==
    /\ ~gov.initialized
    /\ gov' = [gov EXCEPT !.admin = admin, !.initialized = TRUE,
                          !.paused = FALSE, !.storage_version = 1]

propose_key_rotation(admin, new_admin) ==
    /\ require_admin(admin)
    /\ new_admin # admin
    /\ gov' = [gov EXCEPT !.pending_admin = new_admin]

accept_key_rotation(new_admin) ==
    /\ gov.pending_admin = new_admin
    /\ gov' = [gov EXCEPT !.admin = new_admin, !.pending_admin = NoOne]

cancel_key_rotation(admin) ==
    /\ require_admin(admin)
    /\ gov' = [gov EXCEPT !.pending_admin = NoOne]

emergency_revoke_admin(guardian) ==
    /\ gov.guardian = guardian
    /\ gov' = [gov EXCEPT !.admin = NoOne, !.pending_admin = NoOne, !.initialized = FALSE]

\* The shared pausable module: a downstream contract applies the flag, or the
\* call fails and only an event remains.
apply_governance_pause(reached, paused) ==
    [t \in PauseTargets |-> IF t \in reached THEN paused ELSE gov.downstream[t]]

\* set_contract_paused with propagate_pause_to_downstream
set_contract_paused(caller, paused, reached) ==
    /\ require_capability(caller, "Pause")
    /\ reached \subseteq gov.targets
    /\ gov' = [gov EXCEPT !.paused = paused,
                          !.downstream = apply_governance_pause(reached, paused)]

register_pause_target(caller, target) ==
    /\ require_capability(caller, "Pause")
    /\ gov' = [gov EXCEPT !.targets = @ \cup {target}]

unregister_pause_target(caller, target) ==
    /\ require_capability(caller, "Pause")
    /\ gov' = [gov EXCEPT !.targets = @ \ {target}]

enforce_admin_timelock(admin) ==
    /\ require_admin(admin)
    /\ gov' = [gov EXCEPT !.enforced = TRUE]

migrate_storage(admin, from) ==
    /\ require_admin(admin)
    /\ gov.storage_version # 1 => from = 0 /\ gov.storage_version = 0
    /\ gov' = [gov EXCEPT !.storage_version = 1]

----------------------------------------------------------------------------
\* shadow_mode.rs

enter_shadow_mode(admin, trial_duration) ==
    /\ require_admin(admin)
    /\ require_no_timelock_bypass
    /\ trial_duration # 0
    /\ gov' = [gov EXCEPT !.shadow = [trial_ends_at |-> SatAdd(now, trial_duration),
                                      promoted |-> FALSE]]

is_in_shadow_mode ==
    gov.shadow # NoShadow /\ ~gov.shadow.promoted /\ now <= gov.shadow.trial_ends_at

\* compare_shadow_results: outputs matter only while the trial runs
compare_shadow_results(same) == ~is_in_shadow_mode \/ same

promote_from_shadow_mode(admin) ==
    /\ require_admin(admin)
    /\ require_no_timelock_bypass
    /\ gov.shadow # NoShadow
    /\ gov' = [gov EXCEPT !.shadow.promoted = TRUE]

cancel_shadow_mode(admin) ==
    /\ require_admin(admin)
    /\ gov.shadow # NoShadow
    /\ gov' = [gov EXCEPT !.shadow = NoShadow]

\* The steps that touch nothing but this record.
AccessStep ==
    \E a \in Operators :
        \/ \E b \in Operators : propose_key_rotation(a, b)
        \/ accept_key_rotation(a)
        \/ cancel_key_rotation(a)
        \/ emergency_revoke_admin(a)
        \/ \E p \in BOOLEAN : \E r \in SUBSET gov.targets : set_contract_paused(a, p, r)
        \/ \E t \in PauseTargets : register_pause_target(a, t) \/ unregister_pause_target(a, t)
        \/ enforce_admin_timelock(a)
        \/ migrate_storage(a, 0)
        \/ \E d \in TrialDurations : enter_shadow_mode(a, d)
        \/ promote_from_shadow_mode(a)
        \/ cancel_shadow_mode(a)

-----------------------------------------------------------------------------

CONSTANTS
    DelayDefaults,       \* ActionType -> delay that initialize_timelock installs
    TimelockBounds,      \* <<min_delay, max_delay>> pairs the caller passes
    NewDelays,           \* delays passed to update_timelock_delay
    CapabilityGrants,    \* <<capability, account>> pairs that are granted or revoked
    Extensions,          \* extensions passed to extend_execution_window
    DELAY_FLOOR,         \* 3600
    DELAY_CEILING,       \* 7 * 86_400
    ADMIN_ACTION_DELAY,  \* 2 * 86_400
    MaxQueued            \* bound: entries in the queue

VARIABLE tl  \* TimelockState and AdminPendingActions

ActionType == {"TreasurySpend", "ParameterChange", "ContractUpgrade", "EmergencyPause", "Custom"}

QueuedAction(id, action_type, proposal_id, delay) ==
    [id |-> id, action_type |-> action_type, proposal_id |-> proposal_id, queued_at |-> now,
     execution_available |-> SatAdd(now, delay), executed |-> FALSE, cancelled |-> FALSE]

AdminTimelockEntry(id, caller) ==
    [id |-> id, caller |-> caller, queued_at |-> now,
     execution_available |-> SatAdd(now, ADMIN_ACTION_DELAY),
     executed |-> FALSE, cancelled |-> FALSE]

TimelockInit ==
    tl = [installed |-> FALSE, queued_actions |-> <<>>, delay_config |-> DelayDefaults,
          min_delay |-> 0, max_delay |-> 0, guardian |-> NoOne, next_action_id |-> 1,
          admin_pending |-> <<>>]

\* get_timelock fails until initialize_timelock has run.
get_timelock == tl.installed

\* Entries are found by the first one whose id matches.
FirstWith(entries, id) == SelectInSeq(entries, LAMBDA e : e.id = id)

Open(entry) == ~entry.executed /\ ~entry.cancelled

initialize_timelock(caller, bounds, guardian) ==
    /\ require_capability(caller, "ParameterChange")
    /\ bounds[1] >= DELAY_FLOOR /\ bounds[2] <= DELAY_CEILING /\ bounds[1] <= bounds[2]
    /\ tl' = [tl EXCEPT !.installed = TRUE, !.queued_actions = <<>>,
                        !.delay_config = DelayDefaults,
                        !.min_delay = bounds[1], !.max_delay = bounds[2],
                        !.guardian = guardian, !.next_action_id = 1]
    /\ gov' = [gov EXCEPT !.guardian = guardian]

update_timelock_delay(action_type, new_delay) ==
    /\ get_timelock
    /\ new_delay >= tl.min_delay /\ new_delay <= tl.max_delay

extend_execution_window(admin, id, extension) ==
    LET i == FirstWith(tl.queued_actions, id)
    IN  /\ require_admin(admin)
        /\ extension <= DELAY_CEILING
        /\ get_timelock
        /\ i # 0 /\ Open(tl.queued_actions[i])
        /\ tl' = [tl EXCEPT !.queued_actions[i].execution_available = SatAdd(@, extension)]

\* generate_timelock_analytics
TimelockAnalytics ==
    LET done == SelectSeq(tl.queued_actions, LAMBDA e : e.executed)
        dropped == SelectSeq(tl.queued_actions, LAMBDA e : e.cancelled)
        waits == FoldLeft(LAMBDA s, e : s + SatSub(e.execution_available, e.queued_at), 0, done)
        total == Len(tl.queued_actions)
    IN  [total_queued |-> total,
         total_executed |-> Len(done),
         total_cancelled |-> Len(dropped),
         avg_wait_time |-> IF done = <<>> THEN 0 ELSE waits \div Len(done),
         actions_by_type |-> [k \in ActionType |->
             Cardinality({i \in 1..total : tl.queued_actions[i].action_type = k})],
         cancellation_rate |-> IF total = 0 THEN 0 ELSE (Len(dropped) * 10000) \div total]

----------------------------------------------------------------------------
\* Admin actions.

queue_admin_action(caller) ==
    /\ get_timelock
    /\ Len(tl.queued_actions) < MaxQueued /\ Len(tl.admin_pending) < MaxQueued
    /\ tl' = [tl EXCEPT
           !.queued_actions = Append(@, QueuedAction(tl.next_action_id, "Custom", 0,
                                                     ADMIN_ACTION_DELAY)),
           !.next_action_id = @ + 1,
           !.admin_pending = Append(@, AdminTimelockEntry(tl.next_action_id, caller))]

\* The queue_* entry points ask for the admin, the two about capabilities only
\* for an initialised contract; none records the arguments of the operation.
queue_admin_operation(caller) == require_admin(caller) /\ queue_admin_action(caller)

queue_capability_change(caller) == require_initialized /\ queue_admin_action(caller)

\* Mutant: the delay is looked up but not compared.
DueAdminAction_Early(caller, id) ==
    LET i == FirstWith(tl.admin_pending, id)
    IN  /\ i # 0
        /\ Open(tl.admin_pending[i])
        /\ tl.admin_pending[i].caller = caller

\* get_admin_action_execution_available and the guards of execute_admin_action
DueAdminAction(caller, id) ==
    LET i == FirstWith(tl.admin_pending, id)
    IN  /\ i # 0
        /\ now >= tl.admin_pending[i].execution_available
        /\ Open(tl.admin_pending[i])
        /\ tl.admin_pending[i].caller = caller

\* execute_admin_action: the entry is spent, whatever operation it was queued for
execute_admin_action(t, id) ==
    [t EXCEPT !.admin_pending[FirstWith(t.admin_pending, id)].executed = TRUE]

cancel_admin_action(canceller, id) ==
    LET i == FirstWith(tl.admin_pending, id)
    IN  /\ require_admin_identity(canceller)
        /\ i # 0 /\ Open(tl.admin_pending[i])
        /\ tl' = [tl EXCEPT !.admin_pending[i].cancelled = TRUE]

PendingIds == {tl.admin_pending[i].id : i \in 1..Len(tl.admin_pending)}

\* An operation with a direct form, closed by the latch, and a *_timelocked form
\* that spends a due entry; `may` is the direct form's authorisation and `known`
\* what the timelocked form asks of the caller beside the entry.
Authorised(caller, may, known) ==
    \/ may /\ require_no_timelock_bypass /\ UNCHANGED tl
    \/ \E id \in PendingIds :
          known /\ DueAdminAction(caller, id) /\ tl' = execute_admin_action(tl, id)

ByAdmin(caller) == Authorised(caller, require_admin(caller), require_admin_identity(caller))

\* update_timelock_delay and update_timelock_delay_timelocked also write tl.
set_timelock_delay(caller, action_type, new_delay) ==
    /\ update_timelock_delay(action_type, new_delay)
    /\ \/ /\ require_admin(caller) /\ require_no_timelock_bypass
          /\ tl' = [tl EXCEPT !.delay_config[action_type] = new_delay]
       \/ \E id \in PendingIds :
             /\ require_admin_identity(caller) /\ DueAdminAction(caller, id)
             /\ tl' = [execute_admin_action(tl, id)
                          EXCEPT !.delay_config[action_type] = new_delay]

set_guardian(caller, guardian) ==
    /\ ByAdmin(caller)
    /\ gov' = [gov EXCEPT !.guardian = guardian]

grant_capability(caller, target, c) ==
    /\ Authorised(caller, require_capability(caller, "SuperAdmin"), require_initialized)
    /\ gov' = [gov EXCEPT !.caps = @ \cup {<<c, target>>}]

revoke_capability(caller, target, c) ==
    /\ Authorised(caller, require_capability(caller, "SuperAdmin"), require_initialized)
    /\ gov' = [gov EXCEPT !.caps = @ \ {<<c, target>>}]

TimelockStep ==
    \E a \in Operators :
        \/ \E b \in TimelockBounds, g \in Operators : initialize_timelock(a, b, g)
        \/ UNCHANGED gov /\ (queue_admin_operation(a) \/ queue_capability_change(a))
        \/ UNCHANGED gov /\ \E id \in PendingIds : cancel_admin_action(a, id)
        \/ UNCHANGED gov /\ \E id \in PendingIds, x \in Extensions : extend_execution_window(a, id, x)
        \/ UNCHANGED gov /\ \E k \in ActionType, d \in NewDelays : set_timelock_delay(a, k, d)
        \/ \E g \in Operators : set_guardian(a, g)
        \/ \E k \in CapabilityGrants : grant_capability(a, k[2], k[1]) \/ revoke_capability(a, k[2], k[1])
=============================================================================
