---------------------------- MODULE UserPortfolio ---------------------------
(***************************************************************************)
(* The user portfolio contract: positions with their open and closed       *)
(* lists, the migration of users from before the lists, tags, exposure     *)
(* caps, FIFO lots, tax events, streaks, subscriptions and snapshots       *)
(* (user_portfolio: lib.rs, queries.rs, migration.rs, position_tags.rs,    *)
(* exposure_cap.rs, subscriptions.rs). The portfolio's side libraries:     *)
(* watch lists, achievements, badges, recommendations and risk metrics     *)
(* (user_portfolio: watchlist.rs, achievements.rs, badges.rs,              *)
(* preferences.rs, risk_metrics.rs).  Only reading achievements and        *)
(* recommendations has entry points.                                       *)
(***************************************************************************)
EXTENDS LedgerClock

CONSTANTS
    Holders, Assets, Tags,
    PositionInputs,  \* [entry_price, amount]
    PnlInputs,       \* realized PnL reported on closing
    CapInputs,       \* exposure caps
    BatchSizes,      \* users migrated per call
    DayLengths,      \* days of a subscription
    SECONDS_PER_DAY, MAX_SUBSCRIPTION_DAYS,
    MAX_POSITIONS_PER_TAG,
    HistoryLimits,   \* page sizes
    MAX_TRADE_HISTORY_LIMIT,
    MaxPositions     \* bound: positions opened in a behaviour

ASSUME PortfolioConstants ==
    /\ MaxPositions \in Nat /\ SECONDS_PER_DAY \in Nat /\ MAX_SUBSCRIPTION_DAYS \in Nat
    /\ PositionInputs \subseteq [entry_price : Int, amount : Int] /\ PnlInputs \subseteq Int
    /\ BatchSizes \subseteq Nat

VARIABLE
    up  \* the portfolio contract's storage

NoList == <<0>>  \* a list that is not in storage (ids start at 1)

\* `legacy': the users with positions from before the open and closed lists.
InitialPortfolio ==
    [legacy |-> {}, positions |-> <<>>, opened_at |-> <<>>, asset |-> <<>>,
     ids |-> [u \in Holders |-> <<>>],
     open |-> [u \in Holders |-> NoList], closed |-> [u \in Holders |-> NoList],
     migrated |-> {}, migration_queue |-> <<>>, executor |-> FALSE,
     kyc |-> {}, kyc_required |-> FALSE, restricted |-> {}, threshold |-> 5000,
     tags |-> [u \in Holders |-> <<>>], by_tag |-> [k \in Holders \X Tags |-> <<>>],
     cap |-> <<>>, exposure |-> [k \in Holders \X Assets |-> 0],
     lots |-> [u \in Holders |-> <<>>], fifo_pnl |-> [u \in Holders |-> 0],
     tax |-> [u \in Holders |-> <<>>],
     streak |-> [u \in Holders |-> 0], best |-> [u \in Holders |-> 0],
     terms |-> <<>>, subscribed |-> <<>>, snapshots |-> [u \in Holders |-> <<>>],
     prefs |-> <<>>, style |-> <<>>, onboarding |-> [u \in Holders |-> "NotStarted"]]

Stored(list) == IF list = NoList THEN <<>> ELSE list
Next_id == Len(up.positions) + 1

IsOpen(id) == up.positions[id].status = "Open"

-----------------------------------------------------------------------------
\* Opening: know-your-customer and region checks, then the lists.
may_open(user, input) ==
    /\ input.entry_price > 0 /\ input.amount > 0
    /\ up.kyc_required => user \in up.kyc
    /\ user \notin up.restricted
    /\ Next_id <= MaxPositions

with_position(s, user, input) ==
    [s EXCEPT !.positions = Append(@, [entry_price |-> input.entry_price,
                                       amount |-> input.amount, status |-> "Open",
                                       realized_pnl |-> 0]),
              !.ids[user] = Append(@, Next_id),
              !.open[user] = Append(Stored(@), Next_id)]

open_position(user, input) ==
    /\ may_open(user, input)
    /\ up' = [with_position(up, user, input) EXCEPT !.opened_at = Put(@, Next_id, now)]

\* exposure_cap.rs: no cap, no limit.  Closing gives nothing back.
check_cap(user, asset, amount) ==
    <<user, asset>> \in DOMAIN up.cap =>
        up.exposure[<<user, asset>>] + amount <= up.cap[<<user, asset>>]

open_position_with_cap_check(user, asset, input) ==
    /\ may_open(user, input) /\ check_cap(user, asset, input.amount)
    /\ up' = [with_position(up, user, input) EXCEPT
                 !.asset = Put(@, Next_id, asset),
                 !.exposure[<<user, asset>>] = @ + input.amount]

set_asset_exposure_cap(user, asset, cap) ==
    cap > 0 /\ up' = [up EXCEPT !.cap = Put(@, <<user, asset>>, cap)]
remove_asset_exposure_cap(user, asset) ==
    up' = [up EXCEPT !.cap = Drop(@, <<user, asset>>)]

\* The concentration of the open amounts, in basis points.
compute_concentration_score(user) ==
    LET amounts == [i \in DOMAIN Stored(up.open[user]) |->
                       up.positions[Stored(up.open[user])[i]].amount]
        total == SumSeq(amounts)
        weight(a) == (a * 10000) \div total
    IN  IF total = 0 THEN 0
        ELSE Capped(SumSeq([i \in DOMAIN amounts |->
                               (weight(amounts[i]) * weight(amounts[i])) \div 10000]), 10000)

-----------------------------------------------------------------------------
require_open_position(user, id) == Contains(up.ids[user], id) /\ IsOpen(id)

\* Mutant: the closed position stays on the open list.
mark_position_closed_Kept(s, user, id) ==
    [s EXCEPT !.open[user] = Stored(@), !.closed[user] = AddOnce(Stored(@), id)]

mark_position_closed(s, user, id) ==
    [s EXCEPT !.open[user] = Without(Stored(@), id), !.closed[user] = AddOnce(Stored(@), id)]

tax_event(s, user, id, pnl) ==
    [s EXCEPT !.tax[user] = Append(@, [position_id |-> id, realized_pnl |-> pnl,
                                       open_ts |-> At(up.opened_at, id, 0),
                                       close_ts |-> now])]

\* Only the user's own close counts for the streak.
close_position(user, id, pnl) ==
    LET closed == mark_position_closed(
                      [up EXCEPT !.positions[id].status = "Closed",
                                 !.positions[id].realized_pnl = @ + pnl], user, id)
        current == IF pnl > 0 THEN up.streak[user] + 1 ELSE 0
    IN  /\ require_open_position(user, id)
        /\ up' = [tax_event(closed, user, id, pnl) EXCEPT
                     !.streak[user] = current,
                     !.best[user] = IF current > @ THEN current ELSE @]

\* The trade executor's close: PnL and exit price recorded as zero.
close_by_keeper(user, id) ==
    /\ up.executor /\ require_open_position(user, id)
    /\ up' = tax_event(mark_position_closed([up EXCEPT !.positions[id].status = "Closed"],
                                            user, id), user, id, 0)

\* Closing the last of it closes the position, without a tax event.
close_position_partial(user, id, amount, pnl) ==
    LET left == up.positions[id].amount - amount
        less == [up EXCEPT !.positions[id].amount = left,
                           !.positions[id].realized_pnl = @ + pnl]
    IN  /\ require_open_position(user, id)
        /\ amount > 0 /\ left >= 0
        /\ up' = IF left > 0 THEN less
                 ELSE mark_position_closed([less EXCEPT !.positions[id].status = "Closed"],
                                           user, id)

-----------------------------------------------------------------------------
\* queries.rs: a missing list is rebuilt, and both are written.
rebuild_position_indexes(s, user) ==
    [s EXCEPT !.open[user] = Only(s.ids[user], {id \in ToSet(s.ids[user]) : IsOpen(id)}),
              !.closed[user] = Only(s.ids[user], {id \in ToSet(s.ids[user]) : ~IsOpen(id)})]

get_open_position_ids(user) ==
    IF up.open[user] = NoList THEN rebuild_position_indexes(up, user) ELSE up
get_closed_position_ids(s, user) ==
    IF s.closed[user] = NoList THEN rebuild_position_indexes(s, user) ELSE s

get_portfolio(user, include_closed) ==
    up' = IF include_closed THEN get_closed_position_ids(get_open_position_ids(user), user)
          ELSE get_open_position_ids(user)

\* A page walks the closed list backwards from the cursor.
get_trade_history(user, cursor, limit) ==
    LET ids == Stored(up.closed[user])
        from == IF Contains(ids, cursor) THEN SelectInSeq(ids, LAMBDA i : i = cursor) - 1
                ELSE Len(ids)
        size == Min({limit, MAX_TRADE_HISTORY_LIMIT, from})
    IN  [i \in 1..size |-> ids[from - i + 1]]

\* Realized PnL of closed positions only, with the FIFO lots'.
realized_pnl(user) ==
    SumSeq([i \in DOMAIN up.ids[user] |->
               LET p == up.positions[up.ids[user][i]]
               IN  IF p.status = "Open" THEN 0 ELSE p.realized_pnl]) + up.fifo_pnl[user]

take_snapshot(user) ==
    up' = [up EXCEPT !.snapshots[user] = Append(@, <<now, realized_pnl(user)>>)]

\* migration.rs: once per user, from the back of the queue.
migrate_user(s, user) ==
    IF user \in s.migrated THEN s
    ELSE [rebuild_position_indexes(s, user) EXCEPT !.migrated = @ \cup {user}]

migrate_batch(batch_size) ==
    LET n == Min({batch_size, Len(up.migration_queue)})
        rest == SubSeq(up.migration_queue, 1, Len(up.migration_queue) - n)
        done == SubSeq(up.migration_queue, Len(rest) + 1, Len(up.migration_queue))
    IN  up' = [FoldLeft(migrate_user, up, Reverse(done)) EXCEPT !.migration_queue = rest]

register_migration_users(users) ==
    up' = [up EXCEPT !.migration_queue = @ \o users]

-----------------------------------------------------------------------------
\* position_tags.rs: one tag per position, and the index from tag to positions.
unindexed(s, user, id) ==
    IF id \in DOMAIN s.tags[user]
    THEN [s EXCEPT !.by_tag[<<user, s.tags[user][id]>>] = Without(@, id)] ELSE s

\* Mutant: a second tag does not leave the first one's index.
tag_position_Both(user, id, tag) ==
    /\ Contains(up.ids[user], id)
    /\ up' = [up EXCEPT !.tags[user] = Put(@, id, tag),
                        !.by_tag[<<user, tag>>] = AddOnce(@, id)]

tag_position(user, id, tag) ==
    /\ Contains(up.ids[user], id)
    /\ LET s == unindexed(up, user, id)
       IN  /\ Len(s.by_tag[<<user, tag>>]) < MAX_POSITIONS_PER_TAG
           /\ up' = [s EXCEPT !.tags[user] = Put(@, id, tag),
                              !.by_tag[<<user, tag>>] = AddOnce(@, id)]

untag_position(user, id) ==
    /\ Contains(up.ids[user], id)
    /\ up' = [unindexed(up, user, id) EXCEPT !.tags[user] = Drop(@, id)]

-----------------------------------------------------------------------------
\* FIFO lots: the oldest first; too few lots refuse the call.
add_cost_lot(user, lot) ==
    /\ lot.entry_price > 0 /\ lot.amount > 0
    /\ up' = [up EXCEPT !.lots[user] = Append(@, lot)]

amount_of(lots) == SumSeq([i \in DOMAIN lots |-> lots[i].amount])
lots_held(user) == amount_of(up.lots[user])

\* Division rounds towards zero.
TruncDiv(a, b) == IF a >= 0 THEN a \div b ELSE -((-a) \div b)

\* Mutant: a lot that is used up stays, empty.
consume_lot_KeepsEmpty(exit_price, run, lot) ==
    LET consumed == IF lot.amount <= run.left THEN lot.amount ELSE run.left
    IN  [left |-> run.left - consumed, pnl |-> run.pnl,
         kept |-> Append(run.kept, [lot EXCEPT !.amount = @ - consumed])]

\* Mutant: a lot is taken whole, also where less is left to take.
consume_lot_Whole(exit_price, run, lot) ==
    IF run.left = 0 THEN [run EXCEPT !.kept = Append(@, lot)]
    ELSE [run EXCEPT !.left = IF lot.amount <= @ THEN @ - lot.amount ELSE 0]

consume_lot(exit_price, run, lot) ==
    LET consumed == IF lot.amount <= run.left THEN lot.amount ELSE run.left
        pnl == TruncDiv((exit_price - lot.entry_price) * consumed, lot.entry_price)
    IN  [left |-> run.left - consumed, pnl |-> run.pnl + pnl,
         kept |-> IF consumed = lot.amount THEN run.kept
                  ELSE Append(run.kept, [lot EXCEPT !.amount = @ - consumed])]

close_fifo(user, amount, exit_price) ==
    LET run == FoldLeft(LAMBDA r, lot : consume_lot(exit_price, r, lot),
                        [left |-> amount, pnl |-> 0, kept |-> <<>>], up.lots[user])
    IN  /\ amount > 0 /\ exit_price > 0 /\ run.left = 0
        /\ up' = [up EXCEPT !.lots[user] = run.kept, !.fifo_pnl[user] = @ + run.pnl]

-----------------------------------------------------------------------------
\* subscriptions.rs: paid in advance, appended to what is left.
set_provider_subscription_terms(provider, fee_per_day) ==
    fee_per_day > 0 /\ up' = [up EXCEPT !.terms = Put(@, provider, fee_per_day)]

subscribe_to_provider(user, provider, days) ==
    LET key == <<user, provider>>
        base == IF At(up.subscribed, key, 0) > now THEN up.subscribed[key] ELSE now
    IN  /\ user # provider /\ days \in 1..MAX_SUBSCRIPTION_DAYS
        /\ provider \in DOMAIN up.terms
        /\ up' = [up EXCEPT !.subscribed = Put(@, key, base + days * SECONDS_PER_DAY)]

check_subscription(user, provider) == now < At(up.subscribed, <<user, provider>>, 0)

\* Admin switches, preferences and onboarding.
toggled(set, user, on) == IF on THEN set \cup {user} ELSE set \ {user}
set_kyc_status(user, on) == up' = [up EXCEPT !.kyc = toggled(@, user, on)]
set_kyc_required_mode(on) == up' = [up EXCEPT !.kyc_required = on]
set_user_restriction(user, on) == up' = [up EXCEPT !.restricted = toggled(@, user, on)]
set_trade_executor == up' = [up EXCEPT !.executor = TRUE]
set_concentration_threshold(v) == up' = [up EXCEPT !.threshold = Capped(v, 10000)]
set_notification_preferences(user, on) == up' = [up EXCEPT !.prefs = Put(@, user, on)]
set_trading_style(user, style) == up' = [up EXCEPT !.style = Put(@, user, style)]
update_onboarding_status(user, status) == up' = [up EXCEPT !.onboarding[user] = status]

-----------------------------------------------------------------------------
PositionStep ==
    \E u \in Holders :
        \/ \E p \in PositionInputs : open_position(u, p)
        \/ \E id \in DOMAIN up.positions :
               \/ \E pnl \in PnlInputs : close_position(u, id, pnl)
               \/ close_by_keeper(u, id)
               \/ \E p \in PositionInputs, pnl \in PnlInputs :
                      close_position_partial(u, id, p.amount, pnl)
        \/ \E all \in BOOLEAN : get_portfolio(u, all)

MigrationStep ==
    \/ \E n \in BatchSizes : migrate_batch(n)
    \/ \E u \in Holders : register_migration_users(<<u>>)

TagStep ==
    \E u \in Holders, id \in DOMAIN up.positions :
        untag_position(u, id) \/ \E t \in Tags : tag_position(u, id, t)

ExposureStep ==
    \E u \in Holders, a \in Assets :
        \/ \E p \in PositionInputs : open_position_with_cap_check(u, a, p)
        \/ \E c \in CapInputs : set_asset_exposure_cap(u, a, c)
        \/ remove_asset_exposure_cap(u, a)

LotStep ==
    \E u \in Holders, p \in PositionInputs :
        add_cost_lot(u, p) \/ \E q \in PositionInputs : close_fifo(u, p.amount, q.entry_price)

SubscriptionStep ==
    \E u, v \in Holders :
        \/ \E fee \in CapInputs : set_provider_subscription_terms(u, fee)
        \/ \E d \in DayLengths : subscribe_to_provider(u, v, d)

SwitchboardStep ==
    \/ \E u \in Holders, on \in BOOLEAN :
           \/ set_kyc_status(u, on) \/ set_user_restriction(u, on)
           \/ set_kyc_required_mode(on) \/ set_notification_preferences(u, on)
           \/ set_trading_style(u, on)
    \/ \E u \in Holders : update_onboarding_status(u, "Completed") \/ take_snapshot(u)
    \/ set_trade_executor
    \/ \E c \in CapInputs : set_concentration_threshold(c)

-----------------------------------------------------------------------------
\* The contract's entry points in any order, from a portfolio in which some users may
\* have positions from before the lists.
Position ==
    [entry_price : Int, amount : Int, status : {"Open", "Closed"}, realized_pnl : Int]

PortfolioInit ==
    /\ ClockInit
    /\ \E old \in SUBSET Holders, rows \in Seq(Position), ids \in [Holders -> Seq(Nat)] :
          /\ \A u \in Holders \ old : ids[u] = <<>>
          /\ \A u \in Holders : IsInjective(ids[u]) /\ ToSet(ids[u]) \subseteq DOMAIN rows
          /\ \A u, v \in Holders : u # v => ToSet(ids[u]) \cap ToSet(ids[v]) = {}
          /\ up = [InitialPortfolio EXCEPT !.legacy = old, !.positions = rows, !.ids = ids]

PortfolioNext ==
    \/ /\ \/ PositionStep \/ MigrationStep \/ TagStep \/ ExposureStep
          \/ LotStep \/ SubscriptionStep \/ SwitchboardStep
       /\ UNCHANGED clockVars
    \/ CloseLedger /\ UNCHANGED up

PortfolioSpec == PortfolioInit /\ [][PortfolioNext]_<<now, seq, up>>

-----------------------------------------------------------------------------
\* Users without positions from before the lists, or migrated since.
Indexed == {u \in Holders : u \in up.migrated \/ u \notin up.legacy}

(* The open and closed lists name exactly the open and the closed          *)
(* positions, once each, for every user who never had a position from      *)
(* before the lists or was migrated since, whatever order of openings,     *)
(* closes by user or keeper, partial closes, queries and migration; and a  *)
(* position is in the index of a tag exactly when it carries that tag.     *)
ListsExact ==
    /\ \A u \in Indexed :
           /\ ToSet(Stored(up.open[u])) = {id \in ToSet(up.ids[u]) : IsOpen(id)}
           /\ ToSet(Stored(up.closed[u])) = {id \in ToSet(up.ids[u]) : ~IsOpen(id)}
           /\ IsInjective(Stored(up.open[u])) /\ IsInjective(Stored(up.closed[u]))
    /\ \A u \in Holders, t \in Tags :
           /\ ToSet(up.by_tag[<<u, t>>])
                  = {id \in DOMAIN up.tags[u] : up.tags[u][id] = t}
           /\ IsInjective(up.by_tag[<<u, t>>])

(* Lots are appended or consumed.  What is left after a sale is the end of *)
(* the list: the oldest lots go first, only the first one kept may be      *)
(* smaller than it was, it keeps its price, and no empty lot stays.  A     *)
(* sale takes exactly the amount asked for, over however many lots         *)
(* (lib.rs close_fifo).                                                    *)
LotsConsumedInOrder ==
    [][/\ \A u \in Holders :
              LET old == up.lots[u]
                  new == up'.lots[u]
                  was(i) == old[Len(old) - Len(new) + i]
              IN  \/ Len(new) = Len(old) + 1 /\ SubSeq(new, 1, Len(old)) = old
                  \/ \A i \in DOMAIN new :
                         /\ new[i].amount > 0 /\ new[i].entry_price = was(i).entry_price
                         /\ i > 1 => new[i] = was(i)
       /\ \A u \in Holders, p \in PositionInputs, q \in PositionInputs :
              close_fifo(u, p.amount, q.entry_price) =>
                  amount_of(up'.lots[u]) = amount_of(up.lots[u]) - p.amount]_up

-----------------------------------------------------------------------------

CONSTANTS
    Watched,           \* signals users watch
    Goals,             \* achievement -> target
    Deltas,            \* progress increments
    Ranks,             \* leaderboard ranks
    WATCHLIST_CAP, EarlyAdopterCap

ASSUME ExtraConstants == WATCHLIST_CAP \in Nat /\ EarlyAdopterCap \in Nat

VARIABLE
    px  \* watch lists, expired signals, achievements and badges

InitialExtras ==
    [watch |-> [u \in Holders |-> <<>>], expired |-> {},
     progress |-> [k \in Holders \X DOMAIN Goals |-> 0],
     completed |-> [k \in Holders \X DOMAIN Goals |-> NoTime],
     badges |-> [u \in Holders |-> <<>>], first_opens |-> 0,
     trades |-> [u \in Holders |-> 0], run |-> [u \in Holders |-> 0],
     rank |-> [u \in Holders |-> 0]]

\* Every access drops expired signals; reading writes the shorter list back.
load_watchlist(user) == SelectSeq(px.watch[user], LAMBDA s : s \notin px.expired)

add_to_watchlist(user, signal) ==
    LET list == load_watchlist(user)
    IN  /\ signal \notin px.expired
        /\ ~Contains(list, signal) /\ Len(list) < WATCHLIST_CAP
        /\ px' = [px EXCEPT !.watch[user] = Append(list, signal)]

remove_from_watchlist(user, signal) ==
    px' = [px EXCEPT !.watch[user] = Without(load_watchlist(user), signal)]
get_watchlist(user) == px' = [px EXCEPT !.watch[user] = load_watchlist(user)]

\* External: the registry lets a signal expire.
signal_expires(signal) ==
    signal \notin px.expired /\ px' = [px EXCEPT !.expired = @ \cup {signal}]

\* A completed achievement no longer moves.
increment_progress(user, goal, delta) ==
    LET k == <<user, goal>>
        reached == Capped(px.progress[k] + delta, Goals[goal])
    IN  /\ px.completed[k] = NoTime
        /\ px' = [px EXCEPT !.progress[k] = reached,
                            !.completed[k] = IF reached = Goals[goal] THEN now ELSE NoTime]

\* The streak achievement follows the longest streak, not the sum.
on_streak_updated(user, goal, streak) ==
    LET k == <<user, goal>>
        reached == Capped(streak, Goals[goal])
    IN  /\ px.completed[k] = NoTime /\ streak > px.progress[k]
        /\ px' = [px EXCEPT !.progress[k] = reached,
                            !.completed[k] = IF reached = Goals[goal] THEN now ELSE NoTime]

try_grant(list, badge) == AddOnce(list, badge)
grant_if(condition, list, badge) == IF condition THEN try_grant(list, badge) ELSE list
maybe_top10_leaderboard(user, list) == grant_if(px.rank[user] \in 1..10, list, "Top10")

after_open_position(user, first_ever) ==
    px' = [px EXCEPT
              !.badges[user] =
                  maybe_top10_leaderboard(user,
                      grant_if(first_ever /\ px.first_opens < EarlyAdopterCap, @, "Early")),
              !.first_opens = IF first_ever THEN @ + 1 ELSE @]

after_close_position(user, pnl) ==
    LET closed == px.trades[user] + 1
        streak == IF pnl > 0 THEN px.run[user] + 1 ELSE 0
    IN  px' = [px EXCEPT
                  !.trades[user] = closed, !.run[user] = streak,
                  !.badges[user] =
                      maybe_top10_leaderboard(user,
                          grant_if(streak = 5,
                              grant_if(closed = 10, grant_if(closed = 1, @, "First"), "Ten"),
                              "Streak"))]

set_rank(user, rank) == px' = [px EXCEPT !.rank[user] = rank]

\* Recommendations: preferred category, tolerated risk, fitting duration.
is_risk_allowed(risk, tolerance) ==
    \/ tolerance = "High"
    \/ tolerance = "Medium" /\ risk # "High"
    \/ tolerance = "Low" /\ risk = "Low"
category_matches_duration(category, hold) ==
    \/ hold \in {"Any", "Long"}
    \/ hold = "Short" /\ category \in {"SCALP", "ARBITRAGE"}
    \/ hold = "Medium" /\ category # "LONG_TERM"
style_matches_signal(preferred, tolerance, hold, category, risk) ==
    /\ preferred = {} \/ category \in preferred
    /\ is_risk_allowed(risk, tolerance) /\ category_matches_duration(category, hold)

\* risk_metrics.rs: total, largest share and concentration of the positive exposures.
share_bps(part, total) == IF total <= 0 THEN 0 ELSE (part * 10000) \div total
compute(exposures) ==
    LET positive == SelectSeq(exposures, LAMBDA e : e > 0)
        total == SumSeq(positive)
        share(i) == share_bps(positive[i], total)
    IN  [total |-> total,
         largest_share_bps |-> Max({0} \cup {share(i) : i \in DOMAIN positive}),
         concentration_bps |->
             Capped(SumSeq([i \in DOMAIN positive |-> (share(i) * share(i)) \div 10000]),
                    10000)]

\* How much more of an asset fits under a share of the total; -1 for no limit.
headroom(total, exposure, max_share_bps) ==
    LET spare == max_share_bps * total - 10000 * exposure
    IN  CASE max_share_bps = 0 -> 0
          [] max_share_bps >= 10000 -> -1
          [] OTHER -> IF spare <= 0 THEN 0 ELSE spare \div (10000 - max_share_bps)

ExtraStep ==
    \/ \E u \in Holders, s \in Watched :
           add_to_watchlist(u, s) \/ remove_from_watchlist(u, s) \/ signal_expires(s)
    \/ \E u \in Holders :
           \/ get_watchlist(u)
           \/ \E g \in DOMAIN Goals, d \in Deltas :
                  increment_progress(u, g, d) \/ on_streak_updated(u, g, d)
           \/ \E first \in BOOLEAN : after_open_position(u, first)
           \/ \E pnl \in PnlInputs : after_close_position(u, pnl)
           \/ \E r \in Ranks : set_rank(u, r)
=============================================================================
