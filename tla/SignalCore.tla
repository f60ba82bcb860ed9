---------------------------- MODULE SignalCore ----------------------------
(***************************************************************************)
(* The registry's signals: submission with its limits, expiry, editing and *)
(* versions, cancellation, adoption, trade results, collaborative signals  *)
(* and the rewards of their authors, bans and contests (signal_registry:   *)
(* lib.rs, validation.rs, expiry.rs, versioning.rs, performance.rs,        *)
(* collaboration.rs, contests.rs).                                         *)
(***************************************************************************)
EXTENDS SignalStats

CONSTANTS
    SignalInputs,        \* [category, action, price, life, tags] of a submission
    PriceEdits, LifeEdits, \* new prices, and lives counted from now
    TradeInputs,         \* [entry, exit, volume] of an execution
    OutcomeInputs,       \* [outcome, fee, roi]
    CollabInputs,        \* [co_authors, pcts]
    ContestInputs,       \* [start, length, metric, min, pool]
    LimitInputs,         \* values given to the limit setters
    Nonces,
    MAX_EXPIRY_SECONDS, WARNING_WINDOW, EDIT_WINDOW, ARCHIVE_THRESHOLD, CLEANUP_BATCH,
    MAX_UPDATES_PER_SIGNAL, UPDATE_COOLDOWN, MAX_SIGNAL_TAGS, RANDOMNESS_DELAY,
    MaxSignals           \* bound: signals of a behaviour

ASSUME SignalConstants ==
    /\ MAX_EXPIRY_SECONDS \in Nat /\ WARNING_WINDOW \in Nat /\ EDIT_WINDOW \in Nat
    /\ ARCHIVE_THRESHOLD \in Nat /\ CLEANUP_BATCH \in Nat /\ MAX_UPDATES_PER_SIGNAL \in Nat
    /\ UPDATE_COOLDOWN \in Nat /\ RANDOMNESS_DELAY \in Nat /\ MaxSignals \in Nat

VARIABLE
    sr  \* the signals and the registry's indexes, counters and contests

InitialSignals ==
    [signals |-> <<>>, counter |-> 0, active |-> <<>>, by_category |-> <<>>, popularity |-> <<>>,
     last |-> <<>>, daily |-> <<>>, nonces |-> {}, recorded |-> {}, pending |-> <<>>,
     score |-> <<>>, authors |-> <<>>, versions |-> <<>>, updates |-> <<>>, copies |-> <<>>,
     min_lifetime |-> 0, cooldown |-> 0, daily_limit |-> 0, keepers |-> <<>>, executor |-> {},
     contests |-> <<>>, active_contests |-> <<>>, prizes |-> <<>>,
     paid |-> 0, earned |-> 0]  \* history: fees claimed, and fees of recorded outcomes

SetSignal(r, id, s) == [r EXCEPT !.signals[id] = s]
is_expired(s) == now > s.expiry

\* validation.rs: the cached number of a provider's active signals.
get_provider_active_count(r, p) == At(r.active, p, 0)
increment_provider_active_count(r, p) ==
    [r EXCEPT !.active = Put(@, p, get_provider_active_count(r, p) + 1)]
decrement_provider_active_count(r, p) ==
    IF get_provider_active_count(r, p) = 0 THEN r ELSE [r EXCEPT !.active[p] = @ - 1]
validate_provider_signal_limit(p) ==
    LET tier == IF p \in DOMAIN sg.profiles THEN sg.profiles[p].stake_tier
                ELSE StakeTier(get_stake_info(sg, p))
    IN get_provider_active_count(sr, p)
           < (CASE tier = 3 -> sa.limits[3] [] tier = 2 -> sa.limits[2] [] OTHER -> sa.limits[1])
validate_signal_input(price, expiry, tags) ==
    price > 0 /\ expiry > now /\ Len(tags) <= MAX_SIGNAL_TAGS
count_active_provider_signals(p) ==
    Cardinality({id \in DOMAIN sr.signals :
                     sr.signals[id].provider = p /\ sr.signals[id].status = "Active"})

\* categories.rs
deduplicate_tags(tags) == FoldLeft(AddOnce, <<>>, tags)
increment_tag_popularity(r, tags) ==
    [r EXCEPT !.popularity = FoldLeft(LAMBDA pop, t : Put(pop, t, At(pop, t, 0) + 1), @, tags)]

-----------------------------------------------------------------------------
\* contests.rs
contest_open(c) == c.status = "Active" /\ now >= c.start /\ now <= c.end
calculate_contest_score(entry, metric) ==
    CASE metric = "HighestROI" -> entry.roi [] metric = "MostVolume" -> entry.volume [] OTHER -> 0
scored(entry, metric) == [entry EXCEPT !.score = calculate_contest_score(entry, metric)]
ContestEntry == [signals |-> <<>>, roi |-> 0, volume |-> 0, score |-> 0]

auto_enter_signal(r, id, p) ==
    [r EXCEPT !.contests = [c \in DOMAIN @ |->
        IF ~contest_open(@[c]) THEN @[c]
        ELSE LET entry == At(@[c].entries, p, ContestEntry)
             IN [@[c] EXCEPT !.entries = Put(@, p,
                    scored([entry EXCEPT !.signals = Append(@, id)], r.contests[c].metric))]]]

apply_trade_to_contest_entries(r, id, p, roi, volume) ==
    [r EXCEPT !.contests = [c \in DOMAIN @ |->
        IF ~contest_open(@[c]) \/ ~Contains(At(@[c].entries, p, ContestEntry).signals, id) THEN @[c]
        ELSE [@[c] EXCEPT !.entries[p] =
                 scored([@ EXCEPT !.roi = @ + roi, !.volume = @ + volume], r.contests[c].metric)]]]

create_contest(input) ==
    LET id == Cardinality(DOMAIN sr.contests) + 1
    IN /\ ~is_category_paused("trading")
       /\ input.length > 0 /\ input.start + input.length > now /\ input.pool >= 0
       /\ sr' = [sr EXCEPT
            !.contests = Put(@, id, [start |-> input.start, end |-> input.start + input.length,
                metric |-> input.metric, min |-> input.min, pool |-> input.pool, status |-> "Active",
                entries |-> <<>>, winners |-> <<>>, after |-> seq + RANDOMNESS_DELAY]),
            !.active_contests = Append(@, id)]
       /\ UNCHANGED sg

distribute_prize_pool(prizes, id, c, winners) ==
    IF c.pool = 0 THEN prizes
    ELSE FoldLeft(LAMBDA m, i : Put(m, <<id, winners[i]>>, (c.pool * (<<50, 30, 20>>)[i]) \div 100),
                  prizes, [i \in DOMAIN winners |-> i])

\* The best three by score; among equal scores the order is the ledger's hash's.
finalize_contest(id) ==
    LET c == sr.contests[id]
        qualified == {p \in DOMAIN c.entries : Len(c.entries[p].signals) >= c.min}
        count == Capped(Cardinality(qualified), 3)
    IN /\ now >= c.end /\ c.status = "Active" /\ seq >= c.after
       /\ \E winners \in [1..count -> qualified] :
            /\ \A i, j \in 1..count : i < j => /\ winners[i] # winners[j]
                                               /\ c.entries[winners[i]].score >= c.entries[winners[j]].score
            /\ \A p \in qualified : \A i \in 1..count :
                  (\A j \in 1..count : winners[j] # p) => c.entries[p].score <= c.entries[winners[i]].score
            /\ sr' = [sr EXCEPT !.contests[id].winners = winners, !.contests[id].status = "Finalized",
                                !.prizes = distribute_prize_pool(@, id, c, winners),
                                !.active_contests = Without(@, id)]
       /\ UNCHANGED sg

-----------------------------------------------------------------------------
\* Submission
may_submit(p, price, expiry, tags) ==
    /\ ~is_category_paused("signals") /\ ~is_category_paused("trading")
    /\ validate_signal_input(price, expiry, tags)
    /\ p \notin sg.banned
    /\ validate_provider_signal_limit(p)
    /\ sr.cooldown > 0 => ~(At(sr.last, p, 0) > 0 /\ now < sr.last[p] + sr.cooldown)
    /\ sr.daily_limit > 0 => At(sr.daily, <<p, now \div STATS_DAY>>, 0) < sr.daily_limit
    /\ expiry <= now + MAX_EXPIRY_SECONDS
    /\ sr.counter < MaxSignals

NewSignal(p, input) ==
    [provider |-> p, action |-> input.action, price |-> input.price, expiry |-> now + input.life,
     submitted_at |-> now, status |-> "Active", executions |-> 0, successful |-> 0, volume |-> 0,
     roi |-> 0, category |-> input.category, tags |-> deduplicate_tags(input.tags),
     adoption |-> 0, copier_roi |-> 0, copiers |-> 0, warned |-> FALSE]

create_signal_internal(p, input) ==
    LET id == sr.counter + 1
        day == <<p, now \div STATS_DAY>>
        entered == auto_enter_signal([sr EXCEPT !.counter = id], id, p)
        stored == [entered EXCEPT
            !.signals = Put(@, id, NewSignal(p, input)),
            !.by_category = Put(@, input.category, Append(At(@, input.category, <<>>), id)),
            !.last = Put(@, p, now), !.daily = Put(@, day, At(@, day, 0) + 1)]
    IN increment_tag_popularity(increment_provider_active_count(stored, p), deduplicate_tags(input.tags))
stats_for_new_signal(p) ==
    IF p \in DOMAIN sg.stats THEN sg
    ELSE record_first_signal([sg EXCEPT !.stats = Put(@, p, ProviderPerformance)], p)

create_signal(p, input) ==
    /\ may_submit(p, input.price, now + input.life, input.tags)
    /\ sr' = create_signal_internal(p, input)
    /\ sg' = stats_for_new_signal(p)

add_tags_to_signal(p, id, tags) ==
    LET s == sr.signals[id]
    IN /\ s.provider = p /\ Len(s.tags) + Len(tags) <= MAX_SIGNAL_TAGS
       /\ sr' = increment_tag_popularity(
                    SetSignal(sr, id, [s EXCEPT !.tags = deduplicate_tags(@ \o tags)]), tags)
       /\ UNCHANGED sg

-----------------------------------------------------------------------------
\* Expiry.  Reading a signal marks it.
expire(r, id) ==
    decrement_provider_active_count([r EXCEPT !.signals[id].status = "Expired"], r.signals[id].provider)

get_signal(id) ==
    LET s == sr.signals[id]
        marked == IF s.status = "Active" /\ is_expired(s) THEN expire(sr, id) ELSE sr
    IN /\ sr' = IF SatSub(s.expiry, now) <= WARNING_WINDOW
                THEN [marked EXCEPT !.signals[id].warned = TRUE] ELSE marked
       /\ UNCHANGED sg

Ascending(ids) == SetToSortSeq(ids, <)
cleanup_expired_signals(limit) ==
    LET batch == IF limit = 0 \/ limit > CLEANUP_BATCH THEN CLEANUP_BATCH ELSE limit
        seen == Ascending({id \in DOMAIN sr.signals : sr.signals[id].status = "Active"})
    IN /\ sr' = FoldLeft(LAMBDA r, id : IF r.signals[id].expiry < now THEN expire(r, id) ELSE r,
                         sr, SubSeq(seen, 1, Capped(batch, Len(seen))))
       /\ UNCHANGED sg

archive_old_signals(limit) ==
    LET batch == IF limit = 0 \/ limit > CLEANUP_BATCH THEN CLEANUP_BATCH ELSE limit
        old == Ascending({id \in DOMAIN sr.signals : /\ sr.signals[id].status = "Expired"
                             /\ SatSub(now, sr.signals[id].expiry) > ARCHIVE_THRESHOLD})
    IN /\ sr' = [sr EXCEPT !.signals = FoldLeft(Drop, @, SubSeq(old, 1, Capped(batch, Len(old))))]
       /\ UNCHANGED sg

prune_one(r, id) ==
    LET s == r.signals[id]
        counted == IF s.status = "Active" THEN decrement_provider_active_count(r, s.provider) ELSE r
    IN [counted EXCEPT !.signals = Drop(@, id), !.by_category[s.category] = Without(@, id)]
may_prune(caller) == require_admin(caller) \/ Contains(sr.keepers, caller)
prune_expired_signals_AllIndexed(caller, limit) ==
    LET expired == Ascending({id \in DOMAIN sr.signals : is_expired(sr.signals[id])})
        pruned == FoldLeft(prune_one, sr, SubSeq(expired, 1, Capped(limit, Len(expired))))
    IN /\ may_prune(caller)
       /\ sr' = [pruned EXCEPT !.by_category =
                    [c \in DOMAIN @ |-> SelectSeq(@[c], LAMBDA id : ~Contains(expired, id))]]
       /\ UNCHANGED sg
prune_expired_signals(caller, limit) ==
    LET expired == Ascending({id \in DOMAIN sr.signals : is_expired(sr.signals[id])})
    IN /\ may_prune(caller)
       /\ sr' = FoldLeft(prune_one, sr, SubSeq(expired, 1, Capped(limit, Len(expired))))
       /\ UNCHANGED sg
set_keeper(caller, keeper, add) ==
    /\ require_config_admin(caller)
    /\ sr' = [sr EXCEPT !.keepers = IF add THEN AddOnce(@, keeper) ELSE Without(@, keeper)]
    /\ UNCHANGED sg

-----------------------------------------------------------------------------
\* Editing and versions.  versions[id] holds the replaced versions 1, 2, ...
latest_version(r, id) == Len(At(r.versions, id, <<>>)) + 1
edited(r, id, price, expiry) ==
    LET s == r.signals[id]
        old == [price |-> s.price, expiry |-> s.expiry, at |-> now]
    IN [r EXCEPT !.versions = Put(@, id, Append(At(@, id, <<>>), old)),
                 !.signals[id].price = price, !.signals[id].expiry = expiry]

update_signal_Adopted(p, id, price) ==
    LET s == sr.signals[id]
    IN /\ ~is_category_paused("signals") /\ s.provider = p
       /\ now - s.submitted_at <= EDIT_WINDOW /\ price > 0
       /\ sr' = [sr EXCEPT !.signals[id].price = price]
       /\ UNCHANGED sg
update_signal(p, id, price) ==
    LET s == sr.signals[id]
    IN /\ ~is_category_paused("signals") /\ s.provider = p /\ s.adoption = 0
       /\ now - s.submitted_at <= EDIT_WINDOW /\ price > 0
       /\ sr' = [sr EXCEPT !.signals[id].price = price]
       /\ UNCHANGED sg
edit_signal_with_audit(p, id, price, expiry) ==
    LET s == sr.signals[id]
    IN /\ ~is_category_paused("signals") /\ s.provider = p /\ s.adoption = 0
       /\ now < s.expiry /\ price > 0 /\ expiry > now
       /\ sr' = edited(sr, id, price, expiry)
       /\ UNCHANGED sg
update_signal_versioned(p, id, price, expiry) ==
    LET s == sr.signals[id]
        upd == At(sr.updates, id, <<0, 0>>)
    IN /\ s.provider = p /\ s.status = "Active"
       /\ upd[1] < MAX_UPDATES_PER_SIGNAL /\ now >= upd[2] + UPDATE_COOLDOWN
       /\ now < s.expiry /\ price > 0 /\ expiry > now
       /\ sr' = [edited(sr, id, price, expiry) EXCEPT !.updates = Put(@, id, <<upd[1] + 1, now>>)]
       /\ UNCHANGED sg

record_copy(user, id) ==
    /\ sr' = [sr EXCEPT !.copies = Put(@, <<user, id>>,
                [version |-> latest_version(sr, id), notified |-> {}])]
    /\ UNCHANGED sg
get_pending_updates(user, id) ==
    {v \in (sr.copies[<<user, id>>].version + 1)..latest_version(sr, id) :
        v \notin sr.copies[<<user, id>>].notified}
mark_notified(user, id, version) ==
    /\ <<user, id>> \in DOMAIN sr.copies
    /\ sr' = [sr EXCEPT !.copies[<<user, id>>].notified = @ \cup {version}]
    /\ UNCHANGED sg

cancel_signal(p, id) ==
    LET s == sr.signals[id]
    IN /\ s.provider = p /\ s.status = "Active" /\ now - s.submitted_at >= sr.min_lifetime
       /\ sr' = decrement_provider_active_count(SetSignal(sr, id, [s EXCEPT !.status = "Cancelled"]), p)
       /\ UNCHANGED sg

-----------------------------------------------------------------------------
\* Trade results (performance.rs).
calculate_roi(entry, exit, action) ==
    LET roi == TruncDiv((IF action = "Buy" THEN exit - entry ELSE entry - exit) * 10000, entry)
    IN IF roi < -10000 THEN -10000 ELSE roi
update_signal_stats(s, roi, volume) ==
    [s EXCEPT !.executions = @ + 1, !.successful = @ + (IF roi > 0 THEN 1 ELSE 0),
              !.volume = @ + volume, !.roi = @ + roi]
update_copier_roi_stats(s, roi) ==
    [s EXCEPT !.copier_roi = TruncDiv(@ * s.copiers + roi, s.copiers + 1), !.copiers = @ + 1]
get_signal_average_roi(s) == IF s.executions = 0 THEN 0 ELSE TruncDiv(s.roi, s.executions)
evaluate_signal_status(s) ==
    CASE s.executions = 0 -> IF s.expiry < now THEN "Failed" ELSE s.status
      [] s.executions > 0 /\ get_signal_average_roi(s) > 200 -> "Successful"
      [] s.executions > 0 /\ get_signal_average_roi(s) < -500 -> "Failed"
      [] OTHER -> "Active"
should_update_provider_stats(old, new) == old # new /\ new \in {"Successful", "Failed"}
update_provider_performance(stats, old, new, roi, volume) ==
    IF old \notin {"Active", "Pending"} THEN stats
    ELSE LET n == stats.total_signals + 1
             wins == stats.successful_signals + (IF new = "Successful" THEN 1 ELSE 0)
         IN [stats EXCEPT
               !.total_signals = n, !.successful_signals = wins,
               !.failed_signals = @ + (IF new = "Failed" THEN 1 ELSE 0),
               !.success_rate = (wins * 10000) \div n,
               !.avg_return = TruncDiv(@ * (n - 1) + roi, n), !.total_volume = @ + volume]

record_trade_execution(id, trade) ==
    LET old == sr.signals[id]
        roi == calculate_roi(trade.entry, trade.exit, old.action)
        traded == update_copier_roi_stats(update_signal_stats(old, roi, trade.volume), roi)
        status == evaluate_signal_status(traded)
        p == old.provider
        stored == SetSignal(sr, id, [traded EXCEPT !.status = status])
        counted == IF old.status = "Active" /\ status # "Active"
                   THEN decrement_provider_active_count(stored, p) ELSE stored
        stats == update_provider_performance(get_provider_stats(sg, p), old.status, status,
                                             get_signal_average_roi(traded), traded.volume)
    IN /\ ~is_category_paused("trading")
       /\ trade.entry > 0 /\ trade.exit > 0 /\ trade.volume > 0
       /\ sr' = apply_trade_to_contest_entries(counted, id, p, roi, trade.volume)
       /\ sg' = IF should_update_provider_stats(old.status, status)
                THEN update_provider_trust_score(
                         update_leaderboard_index([sg EXCEPT !.stats = Put(@, p, stats)], p), p)
                ELSE sg

increment_adoption(caller, id, nonce) ==
    LET p == sr.signals[id].provider
        stats == [get_provider_stats(sg, p) EXCEPT !.total_copies = @ + 1]
    IN /\ caller \in sr.executor /\ <<id, nonce>> \notin sr.nonces
       /\ sr.signals[id].status = "Active"
       /\ sr' = [sr EXCEPT !.signals[id].adoption = @ + 1, !.nonces = @ \cup {<<id, nonce>>}]
       /\ sg' = record_activity(
                    update_leaderboard_index([sg EXCEPT !.stats = Put(@, p, stats)], p), p, caller)

-----------------------------------------------------------------------------
\* Collaborative signals and rewards.
create_collaborative_signal(p, input, collab) ==
    /\ may_submit(p, input.price, now + input.life, <<>>)
    /\ SumSeq(collab.pcts) = 10000 /\ Len(collab.co_authors) + 1 = Len(collab.pcts)
    /\ LET created == create_signal_internal(p, [input EXCEPT !.category = "SWING", !.tags = <<>>])
           id == created.counter
           author(i) == [address |-> (<<p>> \o collab.co_authors)[i], pct |-> collab.pcts[i],
                         approved |-> i = 1]
       IN sr' = [created EXCEPT !.signals[id].status = "Pending",
                    !.authors = Put(@, id, [i \in DOMAIN collab.pcts |-> author(i)])]
    /\ sg' = stats_for_new_signal(p)

approve_collaborative_signal(id, approver) ==
    LET at == SelectInSeq(sr.authors[id], LAMBDA a : a.address = approver)
        authors == [sr.authors[id] EXCEPT ![at].approved = TRUE]
        all == \A i \in DOMAIN authors : authors[i].approved
    IN /\ at # 0 /\ ~sr.authors[id][at].approved
       /\ all => id \in DOMAIN sr.signals
       /\ sr' = [sr EXCEPT !.authors[id] = authors,
                           !.signals = IF all THEN [@ EXCEPT ![id].status = "Active"] ELSE @]
       /\ UNCHANGED sg

\* <<fee, roi>> of every author; the last one takes what rounding leaves.
distribute_collaborative_rewards_Dust(authors, fee, roi) ==
    [i \in DOMAIN authors |-> <<(fee * authors[i].pct) \div 10000, TruncDiv(roi * authors[i].pct, 10000)>>]
distribute_collaborative_rewards(authors, fee, roi) ==
    LET share(i) == <<(fee * authors[i].pct) \div 10000, TruncDiv(roi * authors[i].pct, 10000)>>
        n == Len(authors)
        given(k) == SumSeq([i \in 1..n |-> share(i)[k]])
    IN [i \in 1..n |-> IF i < n THEN share(i)
                       ELSE <<share(i)[1] + fee - given(1), share(i)[2] + roi - given(2)>>]

add_pending_rewards(pending, address, share) ==
    LET old == At(pending, address, <<0, 0>>)
    IN Put(pending, address, <<old[1] + share[1], old[2] + share[2]>>)
record_signal_outcome(caller, id, o) ==
    LET p == sr.signals[id].provider
        authors == sr.authors[id]
        shares == distribute_collaborative_rewards(authors, o.fee, o.roi)
        credited == SelectSeq([i \in DOMAIN authors |-> i],
                              LAMBDA i : shares[i][1] > 0 \/ shares[i][2] > 0)
    IN /\ caller \in sr.executor /\ id \notin sr.recorded /\ sr.signals[id].status # "Active"
       /\ sr' = [sr EXCEPT
            !.pending = IF id \in DOMAIN sr.authors
                        THEN FoldLeft(LAMBDA m, i : add_pending_rewards(m, authors[i].address, shares[i]),
                                      @, credited)
                        ELSE add_pending_rewards(@, p, <<o.fee, o.roi>>),
            !.score = Put(@, p, next_reputation_score(At(@, p, 50), o.outcome)),
            !.recorded = @ \cup {id}, !.earned = @ + o.fee]
       /\ UNCHANGED sg
claim_pending_rewards(caller) ==
    /\ At(sr.pending, caller, <<0, 0>>) # <<0, 0>>
    /\ sr' = [sr EXCEPT !.pending[caller] = <<0, 0>>, !.paid = @ + sr.pending[caller][1]]
    /\ UNCHANGED sg

-----------------------------------------------------------------------------
\* A ban closes the active signals and leaves the cached count; the slash is the vault's.
ban_provider(caller, p) ==
    /\ require_emergency_admin(caller)
    /\ sr' = [sr EXCEPT !.signals = [id \in DOMAIN @ |->
                 IF @[id].provider = p /\ @[id].status = "Active"
                 THEN [@[id] EXCEPT !.status = "Failed"] ELSE @[id]]]
    /\ sg' = [sg EXCEPT !.banned = @ \cup {p}]

set_limit(caller, field, value) ==
    /\ require_config_admin(caller)
    /\ sr' = CASE field = "cooldown" -> [sr EXCEPT !.cooldown = value]
               [] field = "daily_limit" -> [sr EXCEPT !.daily_limit = value]
               [] OTHER -> [sr EXCEPT !.min_lifetime = value]
    /\ UNCHANGED sg
set_trade_executor(caller, executor) ==
    require_config_admin(caller) /\ sr' = [sr EXCEPT !.executor = {executor}] /\ UNCHANGED sg

-----------------------------------------------------------------------------
SubmitStep ==
    \E p \in Providers, input \in SignalInputs :
       create_signal(p, input) \/ \E c \in CollabInputs : create_collaborative_signal(p, input, c)
AuthorStep ==
    \/ \E id \in DOMAIN sr.authors, a \in Providers : approve_collaborative_signal(id, a)
    \/ \E a \in Providers : claim_pending_rewards(a)
OutcomeStep ==
    \E id \in DOMAIN sr.signals, c \in Operators, o \in OutcomeInputs : record_signal_outcome(c, id, o)
EditStep ==
    \E id \in DOMAIN sr.signals, p \in Providers :
       \E price \in PriceEdits \cup {sr.signals[id].price} :
          \/ update_signal(p, id, price)
          \/ \E expiry \in {now + life : life \in LifeEdits} \cup {sr.signals[id].expiry} :
                edit_signal_with_audit(p, id, price, expiry) \/ update_signal_versioned(p, id, price, expiry)
CopyStep ==
    \E id \in 1..sr.counter, u \in Followers :
       record_copy(u, id) \/ \E v \in 1..latest_version(sr, id) : mark_notified(u, id, v)
ExpiryStep ==
    \/ \E id \in DOMAIN sr.signals : get_signal(id)
    \/ \E limit \in 0..2 : cleanup_expired_signals(limit)
    \/ \E c, k \in Operators, add \in BOOLEAN : set_keeper(c, k, add)
PruneStep ==
    \/ \E limit \in 0..2 : archive_old_signals(limit)
    \/ \E c \in Operators, limit \in 1..2 : prune_expired_signals(c, limit)
ResultStep ==
    \E id \in DOMAIN sr.signals :
       \/ \E trade \in TradeInputs : record_trade_execution(id, trade)
       \/ \E c \in Operators, n \in Nonces : increment_adoption(c, id, n)
CloseStep ==
    \/ \E id \in DOMAIN sr.signals, p \in Providers : cancel_signal(p, id)
    \/ \E id \in DOMAIN sr.signals, p \in Providers, t \in SignalTags : add_tags_to_signal(p, id, <<t>>)
    \/ \E c \in Operators, p \in Providers : ban_provider(c, p)
    \/ \E c, e \in Operators : set_trade_executor(c, e)
    \/ \E c \in Operators, field \in {"cooldown", "daily_limit", "min_lifetime"}, v \in LimitInputs :
           set_limit(c, field, v)
ContestStep ==
    \/ \E input \in ContestInputs : Cardinality(DOMAIN sr.contests) < 2 /\ create_contest(input)
    \/ \E id \in DOMAIN sr.contests : finalize_contest(id)

-----------------------------------------------------------------------------
\* The fees of every recorded outcome are, to the last unit, either pending for an author or
\* claimed, however a collaborative signal splits them (collaboration.rs
\* distribute_collaborative_rewards, lib.rs record_signal_outcome, claim_pending_rewards).
FeesSharedExactly ==
    MapThenSumSet(LAMBDA a : sr.pending[a][1], DOMAIN sr.pending) + sr.paid = sr.earned
============================================================================
