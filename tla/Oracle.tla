------------------------------- MODULE Oracle -------------------------------
(***************************************************************************)
(* The oracle's price feeds: single-source updates with the deviation      *)
(* breaker, history buckets, cadence and heartbeat, the multi-source       *)
(* quotes, conversion to the base currency and multi-hop paths with their  *)
(* caches, pauses and the admin's hand-over (oracle: lib.rs, storage.rs,   *)
(* price_cb.rs, history.rs, sla.rs, staleness.rs, deviation.rs,            *)
(* conversion.rs, multi_hop.rs, external_adapter.rs, sdex.rs, admin.rs).   *)
(* The oracle's rounds: registered oracles submit, the weighted median is  *)
(* the consensus, and reputations, weights and membership follow from it   *)
(* (oracle: lib.rs, reputation.rs); with the quorum and freshness rules    *)
(* that no entry point uses yet (quorum.rs, freshness_policy.rs).          *)
(***************************************************************************)
EXTENDS LedgerClock

CONSTANTS
    Coins, Pairs,          \* assets, and the pairs <<base, quote>> in use
    FeedPrices,            \* prices submitted, zero among them
    PriceSources,
    ConfidenceInputs,
    BpsInputs,             \* thresholds the admin sets
    WindowInputs,          \* staleness windows the admin sets
    ReportInputs,          \* sequences of external reports [pair, price, decimals, age]
    ConvertAmounts,
    FeedAdmins,            \* who may hold the admin role
    PauseDurations,        \* NoTime for an open-ended pause
    CANONICAL_DECIMALS, PRECISION_UNITS,
    DEFAULT_STALENESS_WINDOW_SECS, CONVERSION_CACHE_SECS,
    BUCKET_SIZE, MAX_BUCKETS,
    U32_MODULUS,           \* 2^32 in the code
    MAX_PRICE_AGE_LEDGERS, ORACLE_DEAD_THRESHOLD_LEDGERS,
    PENDING_ADMIN_EXPIRY_LEDGERS,
    MaxQuotes              \* bound: quotes stored for a pair

ASSUME FeedConstants ==
    /\ BUCKET_SIZE \in Nat \ {0} /\ MAX_BUCKETS \in Nat /\ MaxQuotes \in Nat
    /\ U32_MODULUS \in Nat \ {0}
    /\ CANONICAL_DECIMALS \in Nat /\ PRECISION_UNITS \in Nat \ {0}
    /\ Pairs \subseteq Coins \X Coins

VARIABLE
    of  \* the feeds' storage

InitialFeeds ==
    [feed |-> <<>>, pairs |-> <<>>, tripped |-> {}, max_step |-> [p \in Pairs |-> 0],
     hist |-> <<>>, pruned |-> [p \in Pairs |-> 0],
     meta |-> [p \in Pairs |-> [at |-> 0, ledger |-> 0, status |-> "Dead"]],
     sla |-> [p \in Pairs |-> [expected |-> 0, sum |-> 0, count |-> 0, prev |-> 0]],
     quotes |-> [p \in Pairs |-> <<>>], weight |-> [s \in PriceSources |-> 0],
     min_sources |-> 0, min_confidence |-> 0,
     window |-> [p \in Pairs |-> DEFAULT_STALENESS_WINDOW_SECS],
     reject |-> [p \in Pairs |-> 0], decimals |-> <<>>,
     base |-> CHOOSE c \in Coins : TRUE, rates |-> <<>>, paths |-> <<>>,
     pause |-> <<>>, admin |-> CHOOSE a \in FeedAdmins : TRUE,
     pending |-> <<>>, guardian |-> {}, version |-> 1]

-----------------------------------------------------------------------------
\* admin.rs: a pause ends by itself when it has a duration.
is_paused ==
    "all" \in DOMAIN of.pause
    /\ (of.pause["all"] = NoTime \/ now < of.pause["all"])

pause_feeds(caller, duration) ==
    /\ caller = of.admin \/ caller \in of.guardian
    /\ of' = [of EXCEPT !.pause = Put(@, "all", IF duration = NoTime THEN NoTime
                                                ELSE now + duration)]
unpause_feeds == of' = [of EXCEPT !.pause = Drop(@, "all")]
set_all_paused(on) ==
    of' = [of EXCEPT !.pause = IF on THEN Put(@, "all", NoTime) ELSE Drop(@, "all")]

set_feed_guardian(g) == of' = [of EXCEPT !.guardian = {g}]
revoke_feed_guardian == of.guardian # {} /\ of' = [of EXCEPT !.guardian = {}]

propose_feed_admin(new_admin) ==
    of' = [of EXCEPT !.pending = <<new_admin, now + PENDING_ADMIN_EXPIRY_LEDGERS>>]
\* The clean-up of an expired proposal is undone by the error it comes with.
accept_feed_admin ==
    /\ of.pending # <<>> /\ now < of.pending[2]
    /\ of' = [of EXCEPT !.admin = of.pending[1], !.pending = <<>>]
cancel_feed_admin == of.pending # <<>> /\ of' = [of EXCEPT !.pending = <<>>]

upgrade(new_version) == new_version > of.version /\ of' = [of EXCEPT !.version = new_version]

-----------------------------------------------------------------------------
HasPrice(pair) == pair \in DOMAIN of.feed
bps_apart(a, b, reference) == ((IF a > b THEN a - b ELSE b - a) * 10000) \div reference

\* history.rs: one price per bucket; what left the window is removed.
bucket_now == now \div BUCKET_SIZE

\* Mutant: only the bucket that just left the window is removed.
prune_old_data_Single(s, pair) ==
    IF bucket_now < MAX_BUCKETS THEN s
    ELSE [s EXCEPT !.hist = Drop(@, <<pair, bucket_now - MAX_BUCKETS - 1>>),
                   !.pruned[pair] = bucket_now - MAX_BUCKETS]

prune_old_data(s, pair) ==
    IF bucket_now < MAX_BUCKETS THEN s
    ELSE LET target == bucket_now - MAX_BUCKETS
             gone == {k \in DOMAIN s.hist :
                         k[1] = pair /\ k[2] >= s.pruned[pair] /\ k[2] < target}
         IN  [s EXCEPT !.hist = [k \in DOMAIN @ \ gone |-> @[k]],
                       !.pruned[pair] = IF @ < target THEN target ELSE @]

store_price(s, pair, price) ==
    prune_old_data([s EXCEPT !.hist = Put(@, <<pair, bucket_now>>, price)], pair)

calculate_twap(pair, window) ==
    LET first == Floor0(now - window) \div BUCKET_SIZE
        found == {k \in DOMAIN of.hist : k[1] = pair /\ k[2] \in first..bucket_now}
    IN  IF found = {} THEN 0
        ELSE MapThenSumSet(LAMBDA k : of.hist[k], found) \div Cardinality(found)

\* sla.rs: the rolling average of the intervals.
record_update(s, pair) ==
    LET r == s.sla[pair]
        counted == r.prev > 0 /\ now > r.prev
    IN  [s EXCEPT !.sla[pair] =
            [r EXCEPT !.sum = IF counted THEN @ + (now - r.prev) ELSE @,
                      !.count = IF counted THEN @ + 1 ELSE @, !.prev = now]]
set_sla(pair, secs) == of' = [of EXCEPT !.sla[pair].expected = secs]
get_feed_health(pair) ==
    LET r == of.sla[pair]
    IN  r.count > 0 /\ r.expected > 0 /\ r.sum \div r.count > r.expected

on_price_update(s, pair) ==
    record_update([s EXCEPT !.meta[pair] = [at |-> now, ledger |-> seq, status |-> "Healthy"]],
                  pair)

put_feed(s, pair, price) ==
    [s EXCEPT !.feed = Put(@, pair, [price |-> price, timestamp |-> now])]

\* price_cb.rs: a deviating update trips the breaker and is dropped; the call succeeds.
\* A tripped breaker refuses every update through this door.  The deviation is cut to 32 bits
\* before it is compared.
trips(pair, price) ==
    /\ of.max_step[pair] > 0 /\ HasPrice(pair) /\ of.feed[pair].price > 0
    /\ bps_apart(price, of.feed[pair].price, of.feed[pair].price) % U32_MODULUS > of.max_step[pair]

set_price(pair, price) ==
    /\ ~is_paused /\ price > 0 /\ pair \notin of.tripped
    /\ of' = IF trips(pair, price) THEN [of EXCEPT !.tripped = @ \cup {pair}]
             ELSE on_price_update(
                      store_price([put_feed(of, pair, price) EXCEPT !.pairs = AddOnce(@, pair)],
                                  pair, price), pair)

set_update_deviation_threshold(pair, bps) == of' = [of EXCEPT !.max_step[pair] = bps]
reset_update_deviation_breaker(pair) == of' = [of EXCEPT !.tripped = @ \ {pair}]

\* staleness.rs: by ledger for the heartbeat, by seconds for the price.
heartbeat_status(pair) ==
    LET age == seq - of.meta[pair].ledger
    IN  CASE of.meta[pair].ledger = 0 \/ age > ORACLE_DEAD_THRESHOLD_LEDGERS -> "Dead"
          [] of.meta[pair].ledger # 0 /\ age <= MAX_PRICE_AGE_LEDGERS -> "Healthy"
          [] OTHER -> "Stale"
check_oracle_heartbeat(pair) ==
    /\ heartbeat_status(pair) \notin {"Healthy", of.meta[pair].status}
    /\ of' = [of EXCEPT !.meta[pair].status = heartbeat_status(pair)]

set_staleness_window(pair, secs) == of' = [of EXCEPT !.window[pair] = secs]

\* external_adapter.rs: the average of the fresh, normalized reports becomes the price of
\* the first report's pair; neither pause nor breaker is asked, and no bucket is written.
rescale_price(price, from, to) ==
    IF to >= from THEN price * 10^(to - from) ELSE price \div 10^(from - to)

process_external_prices(reports) ==
    LET used == SelectSeq(reports, LAMBDA r :
                    r.age < of.window[r.pair]
                    /\ rescale_price(r.price, r.decimals, CANONICAL_DECIMALS) > 0)
    IN  IF used = <<>> THEN 0
        ELSE SumSeq([i \in DOMAIN used |->
                       rescale_price(used[i].price, used[i].decimals, CANONICAL_DECIMALS)])
             \div Len(used)

update_with_external_data(reports) ==
    /\ reports # <<>> /\ process_external_prices(reports) > 0
    /\ of' = on_price_update(put_feed(of, reports[1].pair, process_external_prices(reports)),
                             reports[1].pair)

-----------------------------------------------------------------------------
\* Multi-source quotes.
fresh_quotes(pair) ==
    SelectSeq(of.quotes[pair], LAMBDA q : now - q.timestamp < of.window[pair])

prices_of(quotes) == {quotes[i].price : i \in DOMAIN quotes}

\* deviation.rs
check_deviation(pair, prices) ==
    of.reject[pair] = 0
    \/ bps_apart(Max(prices), Min(prices), Min(prices)) <= of.reject[pair]

submit_pair_price(source, pair, price, confidence) ==
    LET fresh == fresh_quotes(pair)
    IN  /\ ~is_paused /\ price > 0 /\ confidence >= of.min_confidence
        /\ of.weight[source] > 0
        /\ check_deviation(pair, prices_of(fresh) \cup {price})
        /\ Len(fresh) < MaxQuotes
        /\ of' = [of EXCEPT !.quotes[pair] =
                     Append(fresh, [source |-> source, price |-> price,
                                    confidence |-> confidence, timestamp |-> now])]

\* External: the temporary entry with the quotes ends with its time to live.
quotes_end(pair) == of.quotes[pair] # <<>> /\ of' = [of EXCEPT !.quotes[pair] = <<>>]

\* The price served, zero for a refusal: not tripped, enough fresh sources (the single
\* feed when there are no quotes at all), and none more than 10 % above the lowest.
get_price_with_confidence(pair) ==
    LET stored == IF of.quotes[pair] # <<>> THEN of.quotes[pair]
                  ELSE IF HasPrice(pair)
                  THEN <<[price |-> of.feed[pair].price, timestamp |-> of.feed[pair].timestamp]>>
                  ELSE <<>>
        fresh == SelectSeq(stored, LAMBDA q : now - q.timestamp < of.window[pair])
        sorted == SortSeq([i \in DOMAIN fresh |-> fresh[i].price], <)
    IN  IF \/ pair \in of.tripped \/ fresh = <<>> \/ Len(fresh) < of.min_sources
           \/ ((Last(sorted) - sorted[1]) * 100) \div sorted[1] > 10
        THEN 0 ELSE sorted[Len(sorted) \div 2 + 1]

add_price_source(source, w) == of' = [of EXCEPT !.weight[source] = w]
set_min_source_count(n) == of' = [of EXCEPT !.min_sources = n]
set_min_confidence(n) == of' = [of EXCEPT !.min_confidence = n]
set_deviation_reject_threshold(pair, bps) == of' = [of EXCEPT !.reject[pair] = bps]

-----------------------------------------------------------------------------
\* conversion.rs: direct, or over one asset in between, breadth first.
Joined(a, b) == \E i \in DOMAIN of.pairs : of.pairs[i] \in {<<a, b>>, <<b, a>>}
FirstJoin(a, b) == Min({i \in DOMAIN of.pairs : of.pairs[i] \in {<<a, b>>, <<b, a>>}})

find_conversion_path(from, to) ==
    LET between == {m \in Coins \ {from, to} : Joined(from, m) /\ Joined(m, to)}
    IN  CASE Joined(from, to) -> <<from, to>>
          [] ~Joined(from, to) /\ between # {} ->
                 <<from, CHOOSE m \in between :
                             \A n \in between : FirstJoin(from, m) <= FirstJoin(from, n), to>>
          [] OTHER -> <<>>

normalized(pair) ==
    rescale_price(of.feed[pair].price, At(of.decimals, pair, CANONICAL_DECIMALS),
                  CANONICAL_DECIMALS)
convert_direct(amount, from, to) == (amount * normalized(<<from, to>>)) \div PRECISION_UNITS

\* The first hop without a feed in its direction refuses the call.
convertible(path) == \A i \in 1..(Len(path) - 1) : HasPrice(<<path[i], path[i + 1]>>)
convert_via_path(amount, path) ==
    LET hop(a, i) == convert_direct(a, path[i], path[i + 1])
    IN  FoldLeft(hop, amount, [i \in 1..(Len(path) - 1) |-> i])

\* The rate of a conversion is kept for later amounts.
convert_to_base(amount, asset) ==
    LET base == of.base
        path == IF HasPrice(<<asset, base>>) THEN <<asset, base>>
                ELSE find_conversion_path(asset, base)
        result == IF asset = base THEN amount ELSE convert_via_path(amount, path)
        rate == (result * PRECISION_UNITS) \div amount
        key == <<asset, base>>
    IN  /\ ~(key \in DOMAIN of.rates
             /\ now - of.rates[key].timestamp < CONVERSION_CACHE_SECS)
        /\ asset = base \/ (path # <<>> /\ convertible(path))
        /\ amount > 0 /\ rate > 0
        /\ of' = [of EXCEPT !.rates = Put(@, key, [rate |-> rate, timestamp |-> now])]

set_base_currency(asset) == of' = [of EXCEPT !.base = asset]
add_pair(pair) == of' = [of EXCEPT !.pairs = AddOnce(@, pair)]
set_feed_decimals(pair, d) == of' = [of EXCEPT !.decimals = Put(@, pair, d)]

\* multi_hop.rs: simple paths of at most three hops, as the assets they visit.
find_all_paths(from, to) ==
    {path \in UNION {[1..n -> Coins] : n \in 2..4} :
        /\ path[1] = from /\ Last(path) = to /\ IsInjective(path)
        /\ \A i \in 1..(Len(path) - 1) : Joined(path[i], path[i + 1])}

get_price_with_slippage(pair, amount) ==
    <<IF HasPrice(pair) THEN of.feed[pair].price ELSE PRECISION_UNITS,
      10 + (IF amount > 1000 * PRECISION_UNITS
            THEN ((amount \div PRECISION_UNITS - 1000) \div 10000) * 5 ELSE 0)>>

\* [amount, slippage] after the hops of a path.
walk_path(path, amount) ==
    LET hop(r, i) ==
            LET quote == get_price_with_slippage(<<path[i], path[i + 1]>>, r.amount)
            IN  [amount |-> (((r.amount * quote[1]) \div PRECISION_UNITS)
                                * (10000 - quote[2])) \div 10000,
                 slippage |-> r.slippage + quote[2]]
    IN  FoldLeft(hop, [amount |-> amount, slippage |-> 0], [i \in 1..(Len(path) - 1) |-> i])
calculate_path_cost(path, amount) == walk_path(path, amount).slippage + 30 * (Len(path) - 1)
calculate_multi_hop_price(path, amount) == walk_path(path, amount).amount

\* The path is kept, for every amount; which of two equally cheap ones is left open.
find_optimal_path(from, to, amount) ==
    LET paths == {p \in find_all_paths(from, to) : walk_path(p, amount).slippage <= 500}
    IN  /\ <<from, to>> \notin DOMAIN of.paths
        /\ \E best \in paths :
               /\ \A p \in paths :
                      calculate_path_cost(best, amount) <= calculate_path_cost(p, amount)
               /\ of' = [of EXCEPT !.paths = Put(@, <<from, to>>, best)]

\* External: a cached path ends with its time to live.
path_ends(key) == of' = [of EXCEPT !.paths = Drop(@, key)]

\* sdex.rs
calculate_spot_price(best_bid, best_ask) ==
    IF ((best_ask - best_bid) * 10000) \div best_bid > 2000 THEN 0 ELSE (best_bid + best_ask) \div 2
calculate_vwap(asks, amount) ==
    LET take(r, ask) ==
            LET fill == IF r.left < ask.amount THEN r.left ELSE ask.amount
            IN  [left |-> r.left - fill, cost |-> r.cost + fill * ask.price]
        run == FoldLeft(take, [left |-> amount, cost |-> 0], asks)
    IN  IF run.left > 0 THEN 0 ELSE run.cost \div amount

-----------------------------------------------------------------------------
FeedStep ==
    \E p \in Pairs :
        \/ \E v \in FeedPrices : set_price(p, v)
        \/ \E b \in BpsInputs : set_update_deviation_threshold(p, b)
        \/ reset_update_deviation_breaker(p) \/ check_oracle_heartbeat(p)
        \/ \E w \in WindowInputs : set_sla(p, w)
ReportStep == \E r \in ReportInputs : update_with_external_data(r)

QuoteStep ==
    \/ \E p \in Pairs :
           \/ \E s \in PriceSources, v \in FeedPrices, c \in ConfidenceInputs :
                  submit_pair_price(s, p, v, c)
           \/ quotes_end(p)
           \/ \E b \in BpsInputs : set_deviation_reject_threshold(p, b)
           \/ \E w \in WindowInputs : set_staleness_window(p, w)
    \/ \E s \in PriceSources, w \in {0, 1} : add_price_source(s, w)
    \/ \E c \in ConfidenceInputs : set_min_confidence(c) \/ set_min_source_count(c)

ConversionStep ==
    \/ \E a \in Coins, n \in ConvertAmounts :
           \/ convert_to_base(n, a)
           \/ \E b \in Coins \ {a} : find_optimal_path(a, b, n)
    \/ \E k \in DOMAIN of.paths : path_ends(k)
    \/ \E p \in Pairs : add_pair(p) \/ \E d \in {0, 2} : set_feed_decimals(p, d)
    \/ \E a \in Coins : set_base_currency(a)

FeedAdminStep ==
    \/ \E a \in FeedAdmins, d \in PauseDurations : pause_feeds(a, d)
    \/ unpause_feeds \/ \E on \in BOOLEAN : set_all_paused(on)
    \/ \E a \in FeedAdmins : set_feed_guardian(a) \/ propose_feed_admin(a)
    \/ revoke_feed_guardian \/ accept_feed_admin \/ cancel_feed_admin
    \/ \E v \in {1, 2} : upgrade(v)

-----------------------------------------------------------------------------
(* However long the gaps between updates, the stored history of a pair     *)
(* stays within MAX_BUCKETS of its newest bucket, so no TWAP window that   *)
(* ends with an update reaches a price from before it.                     *)
HistoryWindowed(pair) ==
    \A k, j \in {b \in DOMAIN of.hist : b[1] = pair} : j[2] - k[2] <= MAX_BUCKETS

-----------------------------------------------------------------------------

CONSTANTS
    Reporters,        \* addresses that may be oracles
    RoundPrices,      \* prices they submit, zero among them
    SECONDS_PER_WEEK,
    JUDGED_AFTER,     \* submissions before the accuracy alone removes an oracle
    MaxSubmissions    \* bound: submissions of a round

ASSUME ConsensusConstants ==
    SECONDS_PER_WEEK \in Nat /\ JUDGED_AFTER \in Nat \ {0} /\ MaxSubmissions \in Nat

VARIABLE
    og  \* oracles, reputations, the round and the last consensus

NewStats == [total |-> 0, accurate |-> 0, avg_deviation |-> 0, score |-> 50, weight |-> 1,
             last_slash |-> 0]

\* `rounds' counts the consensuses reached (history).
InitialRounds ==
    [oracles |-> <<>>, stats |-> [o \in Reporters |-> NewStats], round |-> <<>>,
     consensus |-> 0, rounds |-> 0]

apart(price, consensus) ==
    ((IF price > consensus THEN price - consensus ELSE consensus - price) * 10000)
        \div consensus

-----------------------------------------------------------------------------
\* Registering again starts a new reputation.
register_oracle(o) ==
    /\ ~Contains(og.oracles, o)
    /\ og' = [og EXCEPT !.oracles = Append(@, o), !.stats[o] = NewStats]
remove_oracle_internal(s, o) == [s EXCEPT !.oracles = Without(@, o)]
remove_oracle(o) == og' = remove_oracle_internal(og, o)

\* An oracle may submit more than once in a round.
submit_price(o, price) ==
    /\ ~is_paused /\ price > 0 /\ Contains(og.oracles, o) /\ og.stats[o].weight > 0
    /\ Len(og.round) < MaxSubmissions
    /\ og' = [og EXCEPT !.round = Append(@, [oracle |-> o, price |-> price])]

-----------------------------------------------------------------------------
Repeated(price, n) == [i \in 1..n |-> price]
middle(sorted) ==
    LET n == Len(sorted)
    IN  IF n % 2 = 0 THEN (sorted[n \div 2] + sorted[n \div 2 + 1]) \div 2
        ELSE sorted[n \div 2 + 1]

\* Mutant: every submission counts once.
weighted_median_Unweighted ==
    middle(SortSeq([i \in DOMAIN og.round |-> og.round[i].price], <))
weighted_median ==
    LET copies(s) == IF og.stats[s.oracle].weight > 1 THEN og.stats[s.oracle].weight ELSE 1
    IN  middle(SortSeq(FoldLeft(LAMBDA list, s : list \o Repeated(s.price, copies(s)),
                                <<>>, og.round), <))

calculate_reputation(stats) ==
    LET accuracy == (stats.accurate * 60) \div stats.total
        deviation == 30 - Capped(stats.avg_deviation \div 1000, 30)
        consistency == IF now - stats.last_slash > SECONDS_PER_WEEK THEN 10 ELSE 0
    IN  IF stats.total = 0 THEN 50 ELSE Capped(accuracy + deviation + consistency, 100)

track_oracle_accuracy(stats, deviation) ==
    [stats EXCEPT !.total = @ + 1,
                  !.avg_deviation = (@ * stats.total + deviation) \div (stats.total + 1),
                  !.accurate = IF deviation <= 500 THEN @ + 1 ELSE @]

slash_oracle(stats) == [stats EXCEPT !.score = Floor0(@ - 20), !.last_slash = now]

\* One submission's effect on its oracle.
judged(consensus, stats, submission) ==
    LET deviation == apart(submission.price, consensus)
        tracked == track_oracle_accuracy(stats[submission.oracle], deviation)
    IN  [stats EXCEPT ![submission.oracle] =
            IF deviation > 2000 THEN slash_oracle(tracked) ELSE tracked]

\* Mutant: the weight follows the score of the round before.
adjust_oracle_weight_Stale(stats) ==
    [stats EXCEPT !.score = calculate_reputation(stats),
                  !.weight = CASE stats.score >= 90 -> 10
                               [] stats.score \in 75..89 -> 5
                               [] stats.score \in 60..74 -> 2
                               [] stats.score \in 50..59 -> 1
                               [] OTHER -> 0]
adjust_oracle_weight(stats) ==
    LET reputation == calculate_reputation(stats)
    IN  [stats EXCEPT !.score = reputation,
                      !.weight = CASE reputation >= 90 -> 10
                                   [] reputation \in 75..89 -> 5
                                   [] reputation \in 60..74 -> 2
                                   [] reputation \in 50..59 -> 1
                                   [] OTHER -> 0]

should_remove_oracle(stats) ==
    \/ stats.total >= JUDGED_AFTER /\ (stats.accurate * 100) \div stats.total < 50
    \/ calculate_reputation(stats) < 50

\* Mutant: the floor of two oracles is forgotten.
keep_minimum_Never(oracles, poor) == SelectSeq(oracles, LAMBDA o : o \notin poor)

\* Nobody goes when fewer than two would stay.
keep_minimum(oracles, poor) ==
    IF Len(oracles) - Cardinality(poor) >= 2
    THEN SelectSeq(oracles, LAMBDA o : o \notin poor) ELSE oracles

calculate_consensus ==
    LET price == weighted_median
        after == FoldLeft(LAMBDA st, s : judged(price, st, s), og.stats, og.round)
        weighed == [o \in Reporters |-> IF Contains(og.oracles, o)
                                        THEN adjust_oracle_weight(after[o]) ELSE after[o]]
        poor == {o \in ToSet(og.oracles) : should_remove_oracle(weighed[o])}
    IN  /\ og.round # <<>>
        /\ og' = [og EXCEPT !.stats = weighed, !.oracles = keep_minimum(@, poor),
                            !.consensus = price, !.round = <<>>, !.rounds = @ + 1]

-----------------------------------------------------------------------------
\* quorum.rs: each authorized provider once; zero for a refusal.
validate_quorum(observations, authorized, min_quorum, max_deviation_bps) ==
    LET first(i) == \A j \in 1..(i - 1) : observations[j].oracle # observations[i].oracle
        used == {i \in DOMAIN observations : observations[i].oracle \in authorized /\ first(i)}
        prices == [k \in 1..Cardinality(used) |->
                      observations[SetToSortSeq(used, <)[k]].price]
        median == middle(SortSeq(prices, <))
    IN  IF \/ \E i \in DOMAIN observations : observations[i].price <= 0
           \/ Len(prices) < min_quorum \/ prices = <<>>
           \/ \E i \in DOMAIN prices :
                  (IF prices[i] > median THEN prices[i] - median ELSE median - prices[i]) * 10000
                      > median * max_deviation_bps
        THEN 0 ELSE median

\* freshness_policy.rs
validate_observation(max_age, max_skew, observed_at, last_accepted_at) ==
    /\ observed_at <= now + max_skew /\ now - observed_at <= max_age
    /\ last_accepted_at = NoTime \/ observed_at >= last_accepted_at

RoundStep ==
    \/ \E o \in Reporters :
           \/ register_oracle(o) \/ remove_oracle(o)
           \/ \E p \in RoundPrices : submit_price(o, p)
    \/ calculate_consensus

-----------------------------------------------------------------------------
(* The weight a reputation stands for.                                     *)
StandsFor(reputation) ==
    Max({0} \cup {w \in {1, 2, 5, 10} :
                     reputation >= CASE w = 1 -> 50 [] w = 2 -> 60 [] w = 5 -> 75 [] w = 10 -> 90})

(* What one round does to the oracles: the submissions at or below the     *)
(* consensus carry half of the round's weight, and so do those at or above *)
(* it; afterwards every oracle, whether or not it took part, has exactly   *)
(* the weight its reputation stands for; a round that removes oracles      *)
(* leaves at least two that can submit, and otherwise removes nobody.  In  *)
(* that second case the "minimum 2" of lib.rs:537 counts oracles whose     *)
(* weight is 0 and who cannot submit again (calculate_consensus,           *)
(* adjust_oracle_weight).                                                  *)
ConsensusSound ==
    [][og'.rounds # og.rounds =>
          LET weight(S) == MapThenSumSet(LAMBDA i : og.stats[og.round[i].oracle].weight, S)
              total == weight(DOMAIN og.round)
          IN  /\ 2 * weight({i \in DOMAIN og.round : og.round[i].price <= og'.consensus}) >= total
              /\ 2 * weight({i \in DOMAIN og.round : og.round[i].price >= og'.consensus}) >= total
              /\ \A o \in ToSet(og'.oracles) :
                    og'.stats[o].weight = StandsFor(calculate_reputation(og'.stats[o]))
              /\ \/ og'.oracles = og.oracles
                 \/ Cardinality({o \in ToSet(og'.oracles) : og'.stats[o].weight > 0}) >= 2]_og
=============================================================================
