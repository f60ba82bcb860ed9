--------------------------- MODULE SignalExtras ---------------------------
(***************************************************************************)
(* What the registry builds on its signals: scheduled publication,         *)
(* templates and presets, combos, signals imported from other chains, the  *)
(* batched migration of legacy rows, churn alerts, and the paged views a   *)
(* client walks while the registry changes (signal_registry:               *)
(* scheduling.rs, templates.rs, template_presets.rs, combos.rs,            *)
(* cross_chain.rs, migration.rs, churn_risk.rs, query.rs, analytics.rs).   *)
(* The provider's side: onboarding applications with their escrow, the     *)
(* votes of the community with disputes and appeals, and the windows of    *)
(* the reward ledger (provider_onboarding.rs, community_voting.rs,         *)
(* reward_ledger.rs).  Onboarding and voting have no entry point of their  *)
(* own; the functions are as their tests call them.                        *)
(***************************************************************************)
EXTENDS SignalCore

CONSTANTS
    ScheduleInputs,      \* [delay, interval, repeat]: first publication and recurrence
    VariableInputs,      \* [pair, action, price, complete] given to a template
    PresetInputs,        \* [action, life] of a preset
    OverrideInputs,      \* [action, life, price], "keep" or 0 where the preset decides
    ComboInputs,         \* [type, parts]: parts are [id, weight, depends_on, test, above]
    ComboAmounts, SyncPrices,
    Chains, SourceSignals, \* foreign <<chain, address>> pairs and signal ids
    MAX_SCHEDULE_AHEAD, MAX_PROVIDER_SCHEDULES, TEMPLATE_LIFE, MAX_TEMPLATES_PER_PROVIDER,
    MAX_COMPONENTS, WEIGHT_TOTAL, MAX_MIGRATION_BATCH, MAX_PAGE, DEFAULT_PAGE, SCAN_PAGE,
    CHURN_WINDOW,
    MaxSchedules, MaxTemplates, MaxCombos  \* bounds of a behaviour

ASSUME ExtrasConstants ==
    /\ MAX_SCHEDULE_AHEAD \in Nat /\ MAX_PROVIDER_SCHEDULES \in Nat /\ TEMPLATE_LIFE \in Nat
    /\ MAX_COMPONENTS \in Nat /\ WEIGHT_TOTAL \in Nat \ {0} /\ MAX_MIGRATION_BATCH \in Nat \ {0}
    /\ MAX_PAGE \in Nat \ {0} /\ DEFAULT_PAGE \in 1..MAX_PAGE /\ SCAN_PAGE \in Nat \ {0}

VARIABLE
    sx  \* schedules, templates, combos, imports, legacy rows and the clients' walks

NoScan == [cursor |-> 0, counted |-> <<>>, volume |-> 0, successful |-> 0, terminal |-> 0,
           restarted |-> FALSE]
InitialExtras ==
    [schedules |-> <<>>, next_schedule |-> 0, provider_schedules |-> <<>>,
     templates |-> <<>>, presets |-> <<>>, combos |-> <<>>, combo_runs |-> <<>>,
     mappings |-> <<>>, imports |-> <<>>,
     v1 |-> <<>>, schema |-> 2, cursor |-> 0, target |-> 0, pre |-> <<>>, verified |-> <<>>,
     unindexed |-> {},          \* history: rows that were not Active when they moved
     walks |-> <<>>, scan |-> NoScan, shown |-> <<>>, alerts |-> {}]

-----------------------------------------------------------------------------
\* scheduling.rs.  Publishing changes a schedule's status and creates no signal.
ScheduledSignal(p, at, interval, repeat, first) ==
    [provider |-> p, publish_at |-> at, interval |-> interval, repeat |-> repeat,
     status |-> "Pending", first |-> first]

schedule_signal(p, input) ==
    LET id == sx.next_schedule
        own == At(sx.provider_schedules, p, <<>>)
    IN /\ input.delay > 0 /\ input.delay <= MAX_SCHEDULE_AHEAD
       /\ Len(own) < MAX_PROVIDER_SCHEDULES /\ id < MaxSchedules
       /\ sx' = [sx EXCEPT
            !.schedules = Put(@, id, ScheduledSignal(p, now + input.delay, input.interval,
                                                     input.repeat, <<id, input.repeat>>)),
            !.provider_schedules = Put(@, p, Append(own, id)), !.next_schedule = id + 1]

\* The next occurrence keeps the interval from the planned time, not from now.
schedule_next_occurrence_Repeats(x, s) ==
    [x EXCEPT !.schedules = Put(@, x.next_schedule,
                 ScheduledSignal(s.provider, s.publish_at + s.interval, s.interval, s.repeat, s.first)),
              !.next_schedule = @ + 1]
schedule_next_occurrence(x, s) ==
    [x EXCEPT !.schedules = Put(@, x.next_schedule,
                 ScheduledSignal(s.provider, s.publish_at + s.interval, s.interval,
                                 SatSub(s.repeat, 1), s.first)),
              !.next_schedule = @ + 1]
publish_one(x, id) ==
    LET s == x.schedules[id]
        published == [x EXCEPT !.schedules[id].status = "Published"]
    IN IF s.status # "Pending" \/ now < s.publish_at THEN x
       ELSE IF s.repeat > 0 THEN schedule_next_occurrence(published, s) ELSE published
publish_scheduled_signals ==
    /\ sx.next_schedule < MaxSchedules
    /\ sx' = FoldLeft(publish_one, sx, [i \in 1..sx.next_schedule |-> i - 1])
cancel_scheduled_signal(p, id) ==
    /\ sx.schedules[id].provider = p
    /\ sx' = [sx EXCEPT !.schedules[id].status = "Cancelled"]

-----------------------------------------------------------------------------
\* templates.rs and template_presets.rs: signals of category SWING without tags.
Filled(action, price, life) ==
    [category |-> "SWING", action |-> action, price |-> price, life |-> life, tags |-> <<>>]

create_template(p, fixed_pair) ==
    LET id == Cardinality(DOMAIN sx.templates) + 1
    IN /\ id <= MaxTemplates
       /\ sx' = [sx EXCEPT !.templates = Put(@, id,
                    [provider |-> p, fixed_pair |-> fixed_pair, public |-> FALSE, use_count |-> 0])]
set_template_visibility(p, id, public) ==
    /\ sx.templates[id].provider = p
    /\ sx' = [sx EXCEPT !.templates[id].public = public]
get_variable(variables, template) == template.fixed_pair \/ variables.pair
replace_variables(variables) == variables.complete
submit_from_template(submitter, id, variables) ==
    LET template == sx.templates[id]
        input == Filled(variables.action, variables.price, TEMPLATE_LIFE)
    IN /\ template.public \/ template.provider = submitter
       /\ get_variable(variables, template) /\ replace_variables(variables)
       /\ variables.action \in {"Buy", "Sell"}
       /\ may_submit(submitter, input.price, now + input.life, <<>>)
       /\ sr' = create_signal_internal(submitter, input) /\ sg' = stats_for_new_signal(submitter)
       /\ sx' = [sx EXCEPT !.templates[id].use_count = @ + 1]

save_signal_template(p, preset) ==
    LET own == At(sx.presets, p, <<>>)
    IN Len(own) < MAX_TEMPLATES_PER_PROVIDER /\ sx' = [sx EXCEPT !.presets = Put(@, p, Append(own, preset))]
get_signal_template(p, id) == At(sx.presets, p, <<>>)[id]
merge_template(preset, o) ==
    Filled(IF o.action = "keep" THEN preset.action ELSE o.action,
           IF o.price = 0 THEN 1 ELSE o.price, IF o.life = 0 THEN preset.life ELSE o.life)
submit_signal_from_template(p, id, o) ==
    create_signal(p, merge_template(get_signal_template(p, id), o)) /\ UNCHANGED sx

-----------------------------------------------------------------------------
\* combos.rs
create_combo_signal(p, input) ==
    LET id == Cardinality(DOMAIN sx.combos) + 1
        parts == input.parts
    IN /\ Len(parts) \in 1..MAX_COMPONENTS /\ id <= MaxCombos
       /\ \A i \in DOMAIN parts : /\ parts[i].id \in DOMAIN sr.signals
                                  /\ sr.signals[parts[i].id].provider = p
                                  /\ sr.signals[parts[i].id].status = "Active"
       /\ SumSeq([i \in DOMAIN parts |-> parts[i].weight]) = WEIGHT_TOTAL
       /\ input.type = "Conditional" =>
             \A i \in DOMAIN parts : parts[i].depends_on \in {0} \cup {parts[j].id : j \in DOMAIN parts}
       /\ sx' = [sx EXCEPT !.combos = Put(@, id, [provider |-> p, type |-> input.type,
                                                   parts |-> parts, status |-> "Active"]),
                           !.combo_runs = Put(@, id, <<>>)]

simulate_trade_roi(id) == get_signal_average_roi(sr.signals[id])
condition_holds(part, roi) == CASE part.test = "Success" -> roi > 0 [] part.test = "Failure" -> roi <= 0
                                [] OTHER -> roi > part.above
\* The first earlier execution of the signal a part depends on decides.
evaluate_condition(part, previous) ==
    LET at == SelectInSeq(previous, LAMBDA e : e.id = part.depends_on)
    IN \/ part.depends_on = 0
       \/ at # 0 /\ ~previous[at].skipped /\ condition_holds(part, previous[at].roi)
ComponentExecution(combo, total, previous, part) ==
    IF combo.type = "Conditional" /\ ~evaluate_condition(part, previous)
    THEN [id |-> part.id, amount |-> 0, skipped |-> TRUE, roi |-> 0]
    ELSE [id |-> part.id, amount |-> (total * part.weight) \div WEIGHT_TOTAL, skipped |-> FALSE,
          roi |-> simulate_trade_roi(part.id)]
calculate_combined_roi(executions) ==
    LET counted == {i \in DOMAIN executions : ~executions[i].skipped /\ executions[i].amount > 0}
        amount == MapThenSumSet(LAMBDA i : executions[i].amount, counted)
    IN IF amount = 0 THEN 0
       ELSE TruncDiv(MapThenSumSet(LAMBDA i : executions[i].roi * executions[i].amount, counted), amount)
execute_combo_signal(id, total) ==
    LET combo == sx.combos[id]
        executions == FoldLeft(LAMBDA done, part : Append(done, ComponentExecution(combo, total, done, part)),
                               <<>>, combo.parts)
    IN /\ combo.status = "Active" /\ total > 0 /\ Len(sx.combo_runs[id]) < 2
       /\ \A i \in DOMAIN combo.parts : /\ combo.parts[i].id \in DOMAIN sr.signals
                                        /\ sr.signals[combo.parts[i].id].expiry > now
       /\ sx' = [sx EXCEPT
            !.combo_runs[id] = Append(@, [amount |-> total, parts |-> executions,
                                          roi |-> calculate_combined_roi(executions)]),
            !.combos[id].status = IF \A i \in DOMAIN executions : executions[i].skipped
                                  THEN "Completed" ELSE @]
cancel_combo(p, id) ==
    /\ sx.combos[id].provider = p /\ sx.combos[id].status = "Active"
    /\ sx' = [sx EXCEPT !.combos[id].status = "Cancelled"]
get_combo_performance(id) ==
    LET runs == sx.combo_runs[id]
    IN IF runs = <<>> THEN <<0, 0, 0>>
       ELSE <<Len(runs), TruncDiv(SumSeq([i \in DOMAIN runs |-> runs[i].roi]), Len(runs)),
              SumSeq([i \in DOMAIN runs |-> runs[i].amount])>>

-----------------------------------------------------------------------------
\* cross_chain.rs.  verify_proof accepts every proof, so no import fails on it.
register_address(stellar, source) == sx' = [sx EXCEPT !.mappings = Put(@, source, stellar)]
get_address_mapping(source) == At(sx.mappings, source, "unregistered")
get_cross_chain_signal(source_id) == sx.imports[source_id]
verify_proof(import) == TRUE
request_signal_import(p, source, source_id) ==
    /\ get_address_mapping(source) = p /\ source_id \notin DOMAIN sx.imports
    /\ sx' = [sx EXCEPT !.imports = Put(@, source_id, [provider |-> p, id |-> 0, status |-> "Pending"])]
import_verified_signal(source_id, given) ==
    LET import == get_cross_chain_signal(source_id)
        input == Filled(given.action, given.price, given.life)
    IN /\ import.status = "Pending" /\ verify_proof(import)
       /\ may_submit(import.provider, input.price, now + input.life, <<>>)
       /\ sr' = create_signal_internal(import.provider, input)
       /\ sg' = stats_for_new_signal(import.provider)
       /\ sx' = [sx EXCEPT !.imports[source_id].id = sr.counter + 1,
                           !.imports[source_id].status = "Imported"]
sync_signal_update(source_id, price) ==
    LET import == get_cross_chain_signal(source_id)
    IN /\ import.status = "Imported" /\ import.id \in DOMAIN sr.signals
       /\ sr' = [sr EXCEPT !.signals[import.id].price = price]
       /\ UNCHANGED <<sg, sx>>

-----------------------------------------------------------------------------
\* migration.rs: legacy rows move to the current map in batches, lowest id first.
verify_storage_layout == sx.schema \in {1, 2}
v1_to_v2(row) ==
    [provider |-> row.provider, action |-> row.action, price |-> row.price, expiry |-> row.expiry,
     submitted_at |-> row.timestamp, status |-> row.status, executions |-> row.executions,
     successful |-> row.successful, volume |-> row.volume, roi |-> row.roi, category |-> row.category, tags |-> row.tags,
     adoption |-> 0, copier_roi |-> 0, copiers |-> 0, warned |-> FALSE]
MigrationSnapshot(rows, max_id) ==
    LET ids == DOMAIN rows \cap 1..max_id
    IN [record_count |-> Cardinality(ids), total_volume_sum |-> MapThenSumSet(LAMBDA id : rows[id].volume, ids)]
reconcile(pre, post) == [verified |-> pre = post, pre |-> pre, post |-> post]
add_to_category_index(r, id, category) ==
    [r EXCEPT !.by_category = Put(@, category, AddOnce(At(@, category, <<>>), id))]
migrate_row(r, id) ==
    LET s == v1_to_v2(sx.v1[id])
        stored == [r EXCEPT !.signals = Put(@, id, s)]
        indexed == IF s.status = "Active" THEN add_to_category_index(stored, id, s.category) ELSE stored
    IN auto_enter_signal(increment_tag_popularity(indexed, s.tags), id, s.provider)

MigratedTo(batch) == Capped((IF sx.cursor < 1 THEN 1 ELSE sx.cursor) + batch - 1, sr.counter)
Migrated(batch, next) ==
    LET from == IF sx.cursor < 1 THEN 1 ELSE sx.cursor
        ids == Ascending(DOMAIN sx.v1 \cap from..MigratedTo(batch))
        rows == FoldLeft(Drop, sx.v1, ids)
        first == sx.pre = <<>>
        snapshot == IF first THEN <<MigrationSnapshot(sx.v1, sr.counter)>> ELSE sx.pre
        moved == FoldLeft(migrate_row, sr, ids)
        drained == MigratedTo(batch) >= sr.counter /\ rows = <<>>
    IN /\ sr' = moved
       /\ sx' = [sx EXCEPT
            !.v1 = rows, !.pre = snapshot, !.cursor = next,
            !.target = IF first THEN Cardinality(DOMAIN sx.v1) ELSE @,
            !.schema = IF drained THEN 2 ELSE @,
            !.verified = IF drained THEN <<reconcile(snapshot[1], MigrationSnapshot(moved.signals, sr.counter))>>
                         ELSE @,
            !.unindexed = @ \cup {id \in Range(ids) : sx.v1[id].status # "Active"}]
       /\ UNCHANGED sg

migration_idle(caller) ==
    /\ require_config_admin(caller) /\ verify_storage_layout
    /\ sr.counter > 0 /\ sx.v1 = <<>>
    /\ sx' = [sx EXCEPT !.cursor = sr.counter + 1]
    /\ UNCHANGED <<sr, sg>>
migrate_signals_v1_to_v2_SkipsOne(caller, batch) ==
    /\ require_config_admin(caller) /\ verify_storage_layout /\ batch \in 1..MAX_MIGRATION_BATCH
    /\ sr.counter > 0 /\ sx.v1 # <<>>
    /\ Migrated(batch, MigratedTo(batch) + 2)
migrate_signals_v1_to_v2(caller, batch) ==
    /\ require_config_admin(caller) /\ verify_storage_layout /\ batch \in 1..MAX_MIGRATION_BATCH
    /\ sr.counter > 0 /\ sx.v1 # <<>>
    /\ Migrated(batch, MigratedTo(batch) + 1)

-----------------------------------------------------------------------------
\* churn_risk.rs: a view that raises an alert when the score reaches the threshold.
decline(recent, before) == IF before = 0 \/ recent >= before THEN 0 ELSE ((before - recent) * 100) \div before
freq_decline_score(recent, prior) == IF prior = 0 THEN IF recent = 0 THEN 50 ELSE 0 ELSE decline(recent, prior)
follower_loss_score(current, previous) == decline(current, previous)
perf_decline_score(recent_bps, overall_bps) == decline(recent_bps, overall_bps)
SignalsOf(p, since) == {id \in DOMAIN sr.signals : sr.signals[id].provider = p /\ sr.signals[id].submitted_at >= since}
ChurnScore(p) ==
    LET recent == SignalsOf(p, SatSub(now, CHURN_WINDOW))
        prior == SignalsOf(p, SatSub(now, 2 * CHURN_WINDOW)) \ recent
        wins == {id \in recent : sr.signals[id].status = "Successful"}
        closed == wins \cup {id \in recent : sr.signals[id].status = "Failed"}
        overall == get_provider_stats(sg, p).success_rate
        rate == IF closed = {} THEN overall ELSE (Cardinality(wins) * 10000) \div Cardinality(closed)
    IN (freq_decline_score(Cardinality(recent), Cardinality(prior)) * 40
        + (IF p \in DOMAIN sg.churn
           THEN follower_loss_score(get_follower_count(sg, p), sg.churn[p].follower_count) ELSE 0) * 30
        + perf_decline_score(rate, overall) * 30) \div 100
get_provider_churn_risk(p) ==
    /\ sx' = [sx EXCEPT !.alerts = IF ChurnScore(p) >= sg.churn_threshold THEN @ \cup {<<p, now>>} ELSE @]
    /\ UNCHANGED <<sr, sg>>
update_provider_churn_snapshot(p) ==
    /\ sg' = [sg EXCEPT !.churn = Put(@, p,
                 [follower_count |-> get_follower_count(sg, p), at |-> now,
                  signal_count |-> Cardinality(SignalsOf(p, SatSub(now, CHURN_WINDOW))),
                  success_rate |-> get_provider_stats(sg, p).success_rate])]
    /\ UNCHANGED <<sr, sx>>
set_churn_risk_threshold(caller, threshold) ==
    /\ require_config_admin(caller) /\ threshold <= 100
    /\ sg' = [sg EXCEPT !.churn_threshold = threshold]
    /\ UNCHANGED <<sr, sx>>

-----------------------------------------------------------------------------
\* query.rs: pages of a provider's history, newest first; cursor 0 stands for None.
page_size(limit) == IF limit = 0 THEN DEFAULT_PAGE ELSE Capped(limit, MAX_PAGE)
sort_descending(ids) == SetToSortSeq(ids, >)
get_provider_signal_history_Skips(p, cursor, limit) ==
    LET ids == sort_descending(SignalsOf(p, 0))
        older == SelectSeq(ids, LAMBDA id : cursor = 0 \/ id < cursor)
        taken == Capped(page_size(limit), Len(older))
    IN [signals |-> SubSeq(older, 1, taken), total |-> Len(ids),
        next_cursor |-> IF taken > 0 /\ taken < Len(older) THEN older[taken + 1] ELSE 0]
get_provider_signal_history(p, cursor, limit) ==
    LET ids == sort_descending(SignalsOf(p, 0))
        older == SelectSeq(ids, LAMBDA id : cursor = 0 \/ id < cursor)
        taken == Capped(page_size(limit), Len(older))
    IN [signals |-> SubSeq(older, 1, taken), total |-> Len(ids),
        next_cursor |-> IF taken > 0 /\ taken < Len(older) THEN older[taken] ELSE 0]

\* A client starts a walk of p's history, or asks for the page after the one it has.
walk_history(p, limit) ==
    LET fresh == [due |-> SignalsOf(p, 0), seen |-> <<>>, cursor |-> 0]
        walk == IF p \in DOMAIN sx.walks /\ sx.walks[p].cursor # 0 THEN sx.walks[p] ELSE fresh
        page == get_provider_signal_history(p, walk.cursor, limit)
    IN /\ sx' = [sx EXCEPT !.walks = Put(@, p, [walk EXCEPT !.seen = @ \o page.signals,
                                                            !.cursor = page.next_cursor])]
       /\ UNCHANGED <<sr, sg>>

\* The feed: unexpired signals by a score of performance, age or volume and the provider's
\* standing; equal scores keep the order of the ids.
weighted_signal_score(id, sort_by, user) ==
    LET s == sr.signals[id]
        boost == IF is_following(sg, user, s.provider) THEN 1000000000 ELSE 0
        social == get_follower_count(sg, s.provider) * 5000
                  + (IF s.provider \in DOMAIN sg.trust THEN sg.trust[s.provider].score * 10 ELSE 0)
    IN CASE sort_by = "PerformanceDesc" ->
              (IF s.executions = 0 THEN 0 ELSE (s.successful * 10000) \div s.executions) * 1000 + social + boost
         [] sort_by = "RecencyDesc" -> s.submitted_at * 10000 + social + boost
         [] OTHER -> s.volume + social * 10 + boost \div 100
get_active_signals(user, only, offset, limit, sort_by) ==
    LET shown == {id \in DOMAIN sr.signals : /\ sr.signals[id].expiry > now
                     /\ sr.signals[id].status \notin {"Expired", "Executed"}
                     /\ (only = {} \/ sr.signals[id].provider \in only)}
        before(a, b) == LET x == weighted_signal_score(a, sort_by, user)
                            y == weighted_signal_score(b, sort_by, user)
                        IN x > y \/ (x = y /\ a < b)
        feed == SetToSortSeq(shown, before)
    IN SubSeq(feed, offset + 1, Capped(offset + page_size(limit), Len(feed)))
get_signals_filtered(category, offset, limit) ==
    LET found == Ascending({id \in DOMAIN sr.signals : /\ sr.signals[id].status = "Active"
                               /\ sr.signals[id].expiry > now /\ sr.signals[id].category = category})
    IN SubSeq(found, Capped(offset, Len(found)) + 1, Capped(offset + limit, Len(found)))
\* The same question answered from the category index.
list_signals_by_category(category, offset, limit) ==
    LET found == SelectSeq(At(sr.by_category, category, <<>>),
                     LAMBDA id : /\ id \in DOMAIN sr.signals
                                 /\ sr.signals[id].status = "Active" /\ sr.signals[id].expiry > now)
    IN SubSeq(found, Capped(offset, Len(found)) + 1, Capped(offset + limit, Len(found)))
view_feed(user, only, offset, limit) ==
    /\ sx' = [sx EXCEPT !.shown = [s \in {"PerformanceDesc", "RecencyDesc", "VolumeDesc"} |->
                                      get_active_signals(user, only, offset, limit, s)]]
    /\ UNCHANGED <<sr, sg>>
view_category(category, offset, limit) ==
    /\ sx' = [sx EXCEPT !.shown = <<get_signals_filtered(category, offset, limit),
                                  list_signals_by_category(category, offset, limit)>>]
    /\ UNCHANGED <<sr, sg>>

\* analytics.rs: a page of the global figures; a cursor whose signal is gone starts over.
calculate_global_analytics_paginated(scan) ==
    LET keys == Ascending(DOMAIN sr.signals)
        at == SelectInSeq(keys, LAMBDA id : id = scan.cursor)
        to == Capped(at + SCAN_PAGE, Len(keys))
        page == SubSeq(keys, at + 1, to)
        recent(id) == sr.signals[id].submitted_at >= SatSub(now, STATS_DAY)
        done(id, status) == sr.signals[id].adoption > 0 /\ sr.signals[id].status \in status
    IN [counted |-> scan.counted \o SelectSeq(page, recent),
        volume |-> scan.volume + SumSeq([i \in DOMAIN page |->
                       IF recent(page[i]) THEN sr.signals[page[i]].volume ELSE 0]),
        successful |-> scan.successful + Len(SelectSeq(page, LAMBDA id : done(id, {"Successful"}))),
        terminal |-> scan.terminal + Len(SelectSeq(page, LAMBDA id : done(id, {"Successful", "Failed"}))),
        cursor |-> IF Len(page) = SCAN_PAGE THEN keys[to] ELSE 0,
        restarted |-> scan.restarted \/ (scan.cursor # 0 /\ at = 0)]
scan_analytics ==
    /\ sx' = [sx EXCEPT !.scan = calculate_global_analytics_paginated(IF @.cursor = 0 THEN NoScan ELSE @)]
    /\ UNCHANGED <<sr, sg>>

-----------------------------------------------------------------------------
ScheduleStep ==
    /\ \/ \E p \in Providers, input \in ScheduleInputs : schedule_signal(p, input)
       \/ publish_scheduled_signals
       \/ \E p \in Providers, id \in DOMAIN sx.schedules : cancel_scheduled_signal(p, id)
    /\ UNCHANGED <<sr, sg>>
TemplateStep ==
    \/ /\ \/ \E p \in Providers, fixed \in BOOLEAN : create_template(p, fixed)
          \/ \E p \in Providers, id \in DOMAIN sx.templates, b \in BOOLEAN : set_template_visibility(p, id, b)
          \/ \E p \in Providers, preset \in PresetInputs : save_signal_template(p, preset)
       /\ UNCHANGED <<sr, sg>>
    \/ \E p \in Providers, id \in DOMAIN sx.templates, v \in VariableInputs : submit_from_template(p, id, v)
    \/ \E p \in Providers, o \in OverrideInputs : \E id \in DOMAIN At(sx.presets, p, <<>>) :
           submit_signal_from_template(p, id, o)
ComboStep ==
    /\ \/ \E p \in Providers, input \in ComboInputs : create_combo_signal(p, input)
       \/ \E id \in DOMAIN sx.combos : \/ \E amount \in ComboAmounts : execute_combo_signal(id, amount)
                                       \/ \E p \in Providers : cancel_combo(p, id)
                                       \/ sx' = [sx EXCEPT !.shown = get_combo_performance(id)]
    /\ UNCHANGED <<sr, sg>>
ImportStep ==
    \/ /\ \/ \E p \in Providers, source \in Chains : register_address(p, source)
          \/ \E p \in Providers, source \in Chains, id \in SourceSignals : request_signal_import(p, source, id)
       /\ UNCHANGED <<sr, sg>>
    \/ \E id \in DOMAIN sx.imports : \/ \E given \in SignalInputs : import_verified_signal(id, given)
                                     \/ \E price \in SyncPrices : sync_signal_update(id, price)
MigrationStep ==
    \E c \in Operators : migration_idle(c) \/ \E batch \in 1..MAX_MIGRATION_BATCH : migrate_signals_v1_to_v2(c, batch)
ChurnStep ==
    \/ \E p \in Providers : get_provider_churn_risk(p) \/ update_provider_churn_snapshot(p)
    \/ \E c \in Operators, t \in {0, 50, 101} : set_churn_risk_threshold(c, t)
WalkStep == (\E p \in Providers, limit \in 0..2 : walk_history(p, limit)) \/ scan_analytics
ViewStep ==
    \/ \E u \in Followers, only \in {{}} \cup {{p} : p \in Providers}, offset \in 0..1 : view_feed(u, only, offset, 2)
    \/ \E input \in SignalInputs, offset \in 0..1 : view_category(input.category, offset, 2)

-----------------------------------------------------------------------------
\* However late or often the keeper triggers publication, the occurrences of a recurring
\* schedule are planned whole intervals after the first one: the k-th repetition exactly k
\* intervals after it, each k from 1 to the repetitions asked for at most once, and never more
\* than one occurrence still to come.  An interval of 0 is accepted (schedule_signal checks
\* only the first time), and then they all fall on the same moment (scheduling.rs
\* publish_scheduled_signals, schedule_next_occurrence).
RecurrenceBounded ==
    \A root \in {sx.schedules[id].first : id \in DOMAIN sx.schedules} :
       LET chain == {id \in DOMAIN sx.schedules : sx.schedules[id].first = root}
           nth(id) == root[2] - sx.schedules[id].repeat
       IN /\ \A id \in chain :
                /\ nth(id) \in 0..root[2]
                /\ sx.schedules[id].publish_at
                      = sx.schedules[root[1]].publish_at + nth(id) * sx.schedules[id].interval
                /\ \A other \in chain \ {id} : nth(other) # nth(id)
          /\ Cardinality({id \in chain : sx.schedules[id].status = "Pending"}) <= 1

\* A client that follows next_cursor through a provider's history meets every signal at most
\* once, newest first, and at the end has met every signal that was there when it began and is
\* still stored, though signals are submitted, pruned and archived between its pages (query.rs
\* get_provider_signal_history).
HistoryWalkExact ==
    \A p \in DOMAIN sx.walks :
       LET walk == sx.walks[p]
       IN /\ \A i, j \in DOMAIN walk.seen : i < j => walk.seen[i] > walk.seen[j]
          /\ walk.cursor = 0 => walk.due \cap DOMAIN sr.signals \subseteq Range(walk.seen)

\* The migration's cursor never passes a legacy row, no row is in both maps, and the schema is
\* declared current only when no legacy row is left, whatever the batch sizes and whatever is
\* submitted between batches (migration.rs migrate_signals_v1_to_v2).
MigrationSkipsNone ==
    /\ \A id \in DOMAIN sx.v1 : id >= sx.cursor /\ id \notin DOMAIN sr.signals
    /\ sx.schema = 2 => sx.v1 = <<>>

\* Every stored signal is listed under its category, once and nowhere else, through expiry,
\* batched pruning and archiving, unless it is a legacy row that was not Active when it was
\* migrated (lib.rs prune_expired_signals, migration.rs add_to_category_index).
IndexCovers ==
    \A id \in DOMAIN sr.signals \ sx.unindexed :
       \A c \in DOMAIN sr.by_category \cup {sr.signals[id].category} :
          Cardinality({i \in DOMAIN At(sr.by_category, c, <<>>) : sr.by_category[c][i] = id})
              = IF c = sr.signals[id].category THEN 1 ELSE 0

\* The price a follower adopted never disappears: the price of an adopted signal changes only
\* together with a version record of the old one, unless the signal mirrors another chain's
\* (lib.rs update_signal, versioning.rs update_signal, edit_signal_with_audit).
AdoptedPriceKept ==
    [][\A id \in DOMAIN sr.signals \cap DOMAIN sr'.signals :
          /\ sr.signals[id].adoption > 0 /\ sr'.signals[id].price # sr.signals[id].price
          /\ \A source \in DOMAIN sx.imports : sx.imports[source].id # id
          => /\ latest_version(sr', id) = latest_version(sr, id) + 1
             /\ sr'.versions[id][latest_version(sr, id)].price = sr.signals[id].price]_<<sr, sx>>

----------------------------------------------------------------------------
\* The provider's side of the registry.

CONSTANTS
    DepositInputs,       \* <<collateral, fee>> of an application
    MinimumInputs,       \* <<min_collateral, min_fee>>
    VoterStakes, RewardInputs,
    VOTE_POWER_DIVISOR, VOTE_WINDOW_SECS, APPEAL_WINDOW_SECS, DISPUTE_THRESHOLD_BPS,
    SCORE_DELTA, HISTORY_KEPT,
    MaxAttempts          \* bound: applications of a provider

ASSUME ProviderConstants ==
    /\ VOTE_POWER_DIVISOR \in Nat \ {0} /\ VOTE_WINDOW_SECS \in Nat /\ APPEAL_WINDOW_SECS \in Nat
    /\ DISPUTE_THRESHOLD_BPS \in Nat /\ SCORE_DELTA \in Nat /\ HISTORY_KEPT \in Nat
    /\ MaxAttempts \in Nat

VARIABLE
    sp  \* OnboardingKey, VotingKey and RewardLedgerKey

OnboardingReserves ==
    [reserved_collateral |-> 0, reserved_fees |-> 0, active_bonds |-> 0, collected_fees |-> 0,
     refunded_total |-> 0, total_deposited |-> 0]
NoDispute == [status |-> "None", appeal |-> "None", at |-> 0]
InitialProviders ==
    [params |-> <<>>, applications |-> <<>>, reserves |-> OnboardingReserves, records |-> <<>>,
     votes |-> <<>>, window |-> <<>>, dispute |-> <<>>, frozen |-> {}, history |-> <<>>,
     rewards |-> [epoch |-> 0, close |-> 0], claims |-> <<>>]

-----------------------------------------------------------------------------
\* provider_onboarding.rs
configure_onboarding(minimum) ==
    /\ minimum[1] > 0 /\ minimum[2] > 0
    /\ sp' = [sp EXCEPT !.params = minimum]

validate_application(params, collateral, fee) ==
    collateral > 0 /\ fee > 0 /\ collateral >= params[1] /\ fee >= params[2]

submit_application(p, collateral, fee) ==
    LET old == At(sp.applications, p, [status |-> "Failed", attempts |-> 0, refunded |-> 0])
    IN /\ sp.params # <<>> /\ validate_application(sp.params, collateral, fee)
       /\ old.status = "Failed" /\ old.attempts < MaxAttempts
       /\ sp' = [sp EXCEPT
            !.reserves.reserved_collateral = @ + collateral, !.reserves.reserved_fees = @ + fee,
            !.reserves.total_deposited = @ + collateral + fee,
            !.applications = Put(@, p, [status |-> "PendingReview", collateral |-> collateral,
                fee |-> fee, refunded |-> 0, attempts |-> old.attempts + 1])]

approve_application(p) ==
    LET app == sp.applications[p]
    IN /\ app.status = "PendingReview"
       /\ sp' = [sp EXCEPT
            !.reserves.reserved_collateral = @ - app.collateral, !.reserves.active_bonds = @ + app.collateral,
            !.reserves.reserved_fees = @ - app.fee, !.reserves.collected_fees = @ + app.fee,
            !.applications[p] = [app EXCEPT !.status = "Active", !.fee = 0]]

\* Mutant: the fee of a failed application is kept.
fail_and_refund_KeepsFee(p) ==
    LET app == sp.applications[p]
    IN /\ app.status = "PendingReview"
       /\ sp' = [sp EXCEPT
            !.reserves.reserved_collateral = @ - app.collateral,
            !.reserves.refunded_total = @ + app.collateral,
            !.applications[p] = [app EXCEPT !.status = "Failed", !.collateral = 0, !.fee = 0,
                                            !.refunded = @ + app.collateral]]
fail_and_refund(p) ==
    LET app == sp.applications[p]
        refund == app.collateral + app.fee
    IN /\ app.status = "PendingReview" /\ refund > 0
       /\ sp' = [sp EXCEPT
            !.reserves.reserved_collateral = @ - app.collateral,
            !.reserves.reserved_fees = @ - app.fee, !.reserves.refunded_total = @ + refund,
            !.applications[p] = [app EXCEPT !.status = "Failed", !.collateral = 0, !.fee = 0,
                                            !.refunded = @ + refund]]

register_provider(p) ==
    p \notin DOMAIN sp.records /\ sp' = [sp EXCEPT !.records = Put(@, p, "Pending")]
review_provider(p, status) ==
    /\ At(sp.records, p, "none") = "Pending"
    /\ sp' = [sp EXCEPT !.records[p] = status]
request_reverification(p) ==
    /\ At(sp.records, p, "none") = "Rejected"
    /\ sp' = [sp EXCEPT !.records[p] = "Pending"]

reserves_balanced(r) ==
    r.reserved_collateral + r.reserved_fees + r.active_bonds + r.collected_fees + r.refunded_total
        = r.total_deposited

-----------------------------------------------------------------------------
\* community_voting.rs.  A tally moves the score, records it and may open a dispute.
append_history(h, p, score) ==
    LET entries == Append(At(h, p, <<>>), <<now, score>>)
    IN Put(h, p, IF Len(entries) > HISTORY_KEPT THEN Tail(entries) ELSE entries)

PowerOf(votes, kind) ==
    MapThenSumSet(LAMBDA v : votes[v][2], {v \in DOMAIN votes : votes[v][1] = kind})
disputed(votes) ==
    LET total == PowerOf(votes, "Up") + PowerOf(votes, "Down")
    IN total > 0 /\ (PowerOf(votes, "Down") * 10000) \div total >= DISPUTE_THRESHOLD_BPS
open_dispute(v, p) ==
    IF At(v.dispute, p, NoDispute).status = "Open" THEN v
    ELSE [v EXCEPT !.dispute = Put(@, p, [status |-> "Open", appeal |-> "None", at |-> 0]),
                   !.frozen = @ \cup {p}]

tallied_score(p, votes) ==
    LET current == At(sr.score, p, 50)
    IN IF PowerOf(votes, "Up") >= PowerOf(votes, "Down") THEN Capped(current + SCORE_DELTA, 100)
       ELSE Floor0(current - SCORE_DELTA)
tally_and_adjust(v, p, votes) ==
    LET recorded == [v EXCEPT !.history = append_history(@, p, tallied_score(p, votes))]
    IN IF disputed(votes) THEN open_dispute(recorded, p) ELSE recorded

\* Mutant: a window that closes during a dispute is tallied all the same.
cast_vote_Thaw(voter, p, kind, amount) ==
    LET start == At(sp.window, p, now)
        over == now >= start + VOTE_WINDOW_SECS
        old == At(sp.votes, p, <<>>)
        counts == over /\ old # <<>>
        base == IF counts THEN tally_and_adjust(sp, p, old) ELSE sp
        vote == <<kind, amount \div VOTE_POWER_DIVISOR>>
    IN /\ sp' = [base EXCEPT !.window = Put(@, p, IF over THEN now ELSE start),
                             !.votes = Put(@, p, Put(IF over THEN <<>> ELSE old, voter, vote))]
       /\ sr' = IF counts THEN [sr EXCEPT !.score = Put(@, p, tallied_score(p, old))] ELSE sr
cast_vote(voter, p, kind, amount) ==
    LET start == At(sp.window, p, now)
        over == now >= start + VOTE_WINDOW_SECS
        old == At(sp.votes, p, <<>>)
        counts == over /\ old # <<>> /\ p \notin sp.frozen
        base == IF counts THEN tally_and_adjust(sp, p, old) ELSE sp
        vote == <<kind, amount \div VOTE_POWER_DIVISOR>>
    IN /\ sp' = [base EXCEPT !.window = Put(@, p, IF over THEN now ELSE start),
                             !.votes = Put(@, p, Put(IF over THEN <<>> ELSE old, voter, vote))]
       /\ sr' = IF counts THEN [sr EXCEPT !.score = Put(@, p, tallied_score(p, old))] ELSE sr

\* A provider without a score recovers from 0.
recovered_score(p) == Capped(At(sr.score, p, 0) + SCORE_DELTA, 100)
resolve_dispute_Frozen(v, p, restore) ==
    LET record == At(v.dispute, p, NoDispute)
    IN [v EXCEPT !.dispute = Put(@, p, [record EXCEPT !.status = "Resolved"])]
resolve_dispute(v, p, restore) ==
    LET record == At(v.dispute, p, NoDispute)
    IN [v EXCEPT !.dispute = Put(@, p, [record EXCEPT !.status = "Resolved",
                                            !.appeal = IF @ = "Pending" THEN "None" ELSE @]),
                 !.frozen = @ \ {p},
                 !.history = IF restore THEN append_history(@, p, recovered_score(p)) ELSE @]
apply_recovery(p, restore) ==
    sr' = IF restore THEN [sr EXCEPT !.score = Put(@, p, recovered_score(p))] ELSE sr

resolve_provider_dispute(caller, p, restore) ==
    /\ require_admin(caller)
    /\ sp' = resolve_dispute(sp, p, restore) /\ apply_recovery(p, restore)
submit_appeal(p) ==
    LET record == At(sp.dispute, p, NoDispute)
    IN /\ record.status = "Open" /\ record.appeal = "None"
       /\ sp' = [sp EXCEPT !.dispute[p].appeal = "Pending", !.dispute[p].at = now]
       /\ UNCHANGED sr
\* A rejected appeal leaves the dispute open.
resolve_appeal(caller, p, upheld) ==
    LET decided == [sp EXCEPT !.dispute[p].appeal = IF upheld THEN "Approved" ELSE "Rejected"]
    IN /\ require_admin(caller) /\ At(sp.dispute, p, NoDispute).appeal = "Pending"
       /\ sp' = IF upheld THEN resolve_dispute(decided, p, TRUE) ELSE decided
       /\ apply_recovery(p, upheld)
process_appeal_timeout(p) ==
    LET record == At(sp.dispute, p, NoDispute)
    IN /\ record.appeal = "Pending" /\ now >= SatAdd(record.at, APPEAL_WINDOW_SECS)
       /\ sp' = [sp EXCEPT !.dispute[p].appeal = "Rejected"]
       /\ UNCHANGED sr

-----------------------------------------------------------------------------
\* reward_ledger.rs.  Opening a window closes the one before it.
open_reward_window(caller, duration) ==
    /\ require_config_admin(caller) /\ sp.rewards.epoch < MaxAttempts
    /\ sp' = [sp EXCEPT !.rewards = [epoch |-> @.epoch + 1, close |-> seq + duration]]
check_claim_eligibility(p) ==
    sp.rewards.epoch > 0 /\ seq <= sp.rewards.close /\ <<p, sp.rewards.epoch>> \notin DOMAIN sp.claims
record_claim(p, amount) ==
    /\ amount > 0 /\ check_claim_eligibility(p)
    /\ sp' = [sp EXCEPT !.claims = Put(@, <<p, sp.rewards.epoch>>, <<amount, seq>>)]

-----------------------------------------------------------------------------
OnboardingStep ==
    \/ \E m \in MinimumInputs : configure_onboarding(m)
    \/ \E p \in Providers :
         \/ \E d \in DepositInputs : submit_application(p, d[1], d[2])
         \/ p \in DOMAIN sp.applications /\ (approve_application(p) \/ fail_and_refund(p))
         \/ register_provider(p) \/ request_reverification(p)
         \/ \E status \in {"Approved", "Rejected"} : review_provider(p, status)
VotingStep ==
    \E p \in Providers :
       \/ \E v \in Followers, kind \in {"Up", "Down"}, amount \in VoterStakes : cast_vote(v, p, kind, amount)
       \/ submit_appeal(p) \/ process_appeal_timeout(p)
       \/ \E c \in Operators, ok \in BOOLEAN : resolve_appeal(c, p, ok) \/ resolve_provider_dispute(c, p, ok)
RewardStep ==
    \/ \E c \in Operators, d \in RewardInputs : open_reward_window(c, d)
    \/ \E p \in Providers, amount \in RewardInputs : record_claim(p, amount)

-----------------------------------------------------------------------------
\* The escrow totals are exactly what the applications account for, and every deposit is
\* reserved, bonded, collected or refunded, over any number of failed attempts
\* (provider_onboarding.rs reserves_balanced, assert_reserves_invariant).
ReservesExact ==
    LET total(status, field) ==
            MapThenSumSet(LAMBDA p : sp.applications[p][field],
                          {p \in DOMAIN sp.applications : sp.applications[p].status = status})
    IN /\ reserves_balanced(sp.reserves)
       /\ sp.reserves.reserved_collateral = total("PendingReview", "collateral")
       /\ sp.reserves.reserved_fees = total("PendingReview", "fee")
       /\ sp.reserves.active_bonds = total("Active", "collateral")

\* A provider's score is marked frozen exactly while a dispute about it is open, whichever of
\* the admin's decision, an appeal and its timeout comes first, and an appeal is pending only
\* then (community_voting.rs open_dispute, resolve_dispute, process_appeal_timeout).
FrozenIffDisputed ==
    \A p \in Providers :
       LET record == At(sp.dispute, p, NoDispute)
       IN (p \in sp.frozen <=> record.status = "Open")
          /\ (record.appeal = "Pending" => record.status = "Open")

\* While a dispute lasts no vote, window or refused appeal moves the score: only an outcome the
\* executor records for one of the provider's signals does, which community_voting.rs:5-6
\* ("the provider's score is frozen until resolved") does not say (community_voting.rs
\* tally_and_adjust, lib.rs record_signal_outcome).
FrozenScoreKept ==
    [][\A p \in sp.frozen \cap sp'.frozen :
          At(sr'.score, p, 50) # At(sr.score, p, 50)
          => \E id \in sr'.recorded \ sr.recorded : sr.signals[id].provider = p]_<<sr, sp>>
=============================================================================
