---------------------------- MODULE GasOptimizer ----------------------------
(***************************************************************************)
(* GasOptimizer (snipebot/src/trade/gas_optimizer.rs): a sampler of gas    *)
(* prices and the process-wide cache of gas data that it, and callers with *)
(* an adapter, fill.  A caller reads the clock, looks into the cache, lets *)
(* the lock go, asks the node and writes the cache, so an entry written    *)
(* between can carry a later time than the caller's own.  The build is the *)
(* release one: the difference of two u64 times wraps.                     *)
(***************************************************************************)
EXTENDS Integers, Sequences, FiniteSetsExt, SequencesExt, Lists

CONSTANTS GasPrices,  \* prices a node answers with
          GasTtl,     \* GAS_CACHE_DURATION
          GasWindow,  \* history_window
          Intervals,  \* values of sample_interval
          GasCaps,    \* values of max_gas_price, which only prices depend on
          BoostLimit, \* priority_boost_percent
          Retries,    \* retry counts a sender may reach
          LastSecond  \* bound on the clock

VARIABLES go_now,       \* seconds since the epoch
          go_history,   \* gas_price_history: <<time, price>>
          go_last,      \* last_update
          go_congestion,
          go_interval,  \* config.sample_interval
          go_sampling,  \* time of the sample that is awaited, or -1
          go_cache,     \* the chain's entry of GAS_PRICE_CACHE
          go_call       \* a caller of get_cached_gas_data or get_current_gas_price

vars == <<go_now, go_history, go_last, go_congestion, go_interval, go_sampling, go_cache, go_call>>
samplerVars == <<go_history, go_last, go_congestion, go_sampling>>

Congestion == {"Low", "Medium", "High", "VeryHigh"}
NoData == [at |-> -1, congestion |-> "Medium"]
CachedGasData == [at : -1 .. LastSecond, congestion : Congestion]
NoCall == [pc |-> "idle", start |-> -1, answer |-> -1]

TypeOK ==
  /\ go_now \in 1 .. LastSecond
  /\ go_history \in Seq((1 .. LastSecond) \X GasPrices)
  /\ go_last \in 0 .. LastSecond
  /\ go_congestion \in Congestion
  /\ go_interval \in Intervals
  /\ go_sampling \in -1 .. LastSecond
  /\ go_cache \in CachedGasData
  /\ go_call \in [pc : {"idle", "lookup", "asking", "done"}, start : -1 .. LastSecond, answer : -1 .. LastSecond]

with_config ==
  /\ go_now = 1 /\ go_history = <<>> /\ go_last = 0 /\ go_congestion = "Medium"
  /\ go_interval \in Intervals
  /\ go_sampling = -1 /\ go_cache = NoData /\ go_call = NoCall

Init == with_config

tick == go_now < LastSecond /\ go_now' = go_now + 1 /\ UNCHANGED <<samplerVars, go_interval, go_cache, go_call>>

\* The age of a time stamp in u64: a stamp from the future is very old.
age(now, at) == (now - at) % 2^20

(***************************************************************************)
(* Sampling.  The sampler is borrowed mutably for the whole call, so there *)
(* is one sample at a time.                                                *)
(***************************************************************************)
\* update_network_congestion: the mean deviation of the last ten samples and
\* the growth over the last five, both in percent.
total(ns) == FoldSeq(+, 0, ns)
recent(hist) == SubSeq(Reverse(hist), 1, Min({10, Len(hist)}))
average(hist) == total([i \in DOMAIN hist |-> hist[i][2]]) \div Len(hist)
variance_percent(hist) ==
  LET avg == average(hist)
      off(p) == IF p > avg THEN p - avg ELSE avg - p
  IN IF avg = 0 THEN 0 ELSE ((total([i \in DOMAIN hist |-> off(hist[i][2])]) \div Len(hist)) * 100) \div avg
growth_rate(hist) ==
  IF Len(hist) >= 5 /\ hist[5][2] > 0 /\ hist[1][2] > hist[5][2] THEN ((hist[1][2] - hist[5][2]) * 100) \div hist[5][2] ELSE 0
update_network_congestion(hist, old) ==
  LET r == recent(hist) IN
    CASE Len(hist) < 2 -> old
      [] Len(hist) >= 2 /\ (growth_rate(r) > 20 \/ variance_percent(r) > 30) -> "VeryHigh"
      [] Len(hist) >= 2 /\ growth_rate(r) <= 20 /\ variance_percent(r) \in 16 .. 30 -> "High"
      [] Len(hist) >= 2 /\ growth_rate(r) \in 11 .. 20 /\ variance_percent(r) <= 30 -> "High"
      [] Len(hist) >= 2 /\ growth_rate(r) <= 10 /\ variance_percent(r) <= 15 ->
           IF growth_rate(r) > 5 \/ variance_percent(r) > 5 THEN "Medium" ELSE "Low"

\* update_gas_price_history up to the request.  last_update is set first, so
\* that a request that fails is not repeated before the next interval.
begin_sample ==
  /\ go_sampling = -1 /\ go_now - go_last >= go_interval
  /\ go_sampling' = go_now /\ go_last' = go_now
  /\ go_history' = retained(go_history, {s \in (1 .. LastSecond) \X GasPrices : go_now - s[1] <= GasWindow})
  /\ UNCHANGED <<go_now, go_congestion, go_interval, go_cache, go_call>>

\* The answer is stored under the time of the request, and cached under the
\* time it came (update_gas_price_cache).
end_sample ==
  /\ go_sampling # -1 /\ go_sampling' = -1
  /\ \E p \in GasPrices :
       /\ go_history' = Append(go_history, <<go_sampling, p>>)
       /\ go_congestion' = update_network_congestion(go_history', go_congestion)
       /\ go_cache' = [at |-> go_now, congestion |-> go_congestion']
  /\ UNCHANGED <<go_now, go_last, go_interval, go_call>>

fail_sample ==
  /\ go_sampling # -1 /\ go_sampling' = -1
  /\ UNCHANGED <<go_now, go_history, go_last, go_congestion, go_interval, go_cache, go_call>>

set_sample_interval == go_sampling = -1 /\ go_interval' \in Intervals /\ UNCHANGED <<go_now, samplerVars, go_cache, go_call>>

(***************************************************************************)
(* Cached gas data.                                                        *)
(***************************************************************************)
call_begin ==
  /\ go_call.pc = "idle"
  /\ go_call' = [NoCall EXCEPT !.pc = "lookup", !.start = go_now]
  /\ UNCHANGED <<go_now, samplerVars, go_interval, go_cache>>

\* A plausible slip: the age is taken with saturating_sub.
is_fresh_saturating(start, data) == data # NoData /\ (IF start >= data.at THEN start - data.at ELSE 0) < GasTtl

is_fresh(start, data) == data # NoData /\ age(start, data.at) < GasTtl

lookup ==
  /\ go_call.pc = "lookup"
  /\ go_call' = IF is_fresh(go_call.start, go_cache) THEN [go_call EXCEPT !.pc = "done", !.answer = go_cache.at]
                ELSE [go_call EXCEPT !.pc = "asking"]
  /\ UNCHANGED <<go_now, samplerVars, go_interval, go_cache>>

\* The two callers differ in the congestion they write.
asked(congestion) ==
  LET data == [at |-> go_call.start, congestion |-> congestion] IN
    /\ go_call.pc = "asking"
    /\ go_cache' = data
    /\ go_call' = [go_call EXCEPT !.pc = "done", !.answer = data.at]
    /\ UNCHANGED <<go_now, samplerVars, go_interval>>

get_cached_gas_data == asked(go_congestion)
get_current_gas_price == asked("Medium")

call_returns ==
  /\ go_call.pc \in {"asking", "done"} /\ go_call' = NoCall
  /\ UNCHANGED <<go_now, samplerVars, go_interval, go_cache>>

cleanup_gas_cache ==
  /\ go_cache # NoData /\ age(go_now, go_cache.at) >= 2 * GasTtl
  /\ go_cache' = NoData
  /\ UNCHANGED <<go_now, samplerVars, go_interval, go_call>>

(***************************************************************************)
(* Prices.                                                                 *)
(***************************************************************************)
\* The price of a retry: 20, 50, 100 and 200 % more, up to the limit; the
\* first attempt is not limited.
get_optimized_gas_price(cap, retry, base) ==
  LET percent == IF retry <= 3 THEN <<20, 50, 100>>[retry] ELSE 200
      new == (base * (100 + percent)) \div 100
  IN IF retry = 0 THEN base ELSE IF new > cap THEN cap ELSE new

get_optimized_gas_limit(retry, base) ==
  IF retry = 0 THEN base ELSE (base * (100 + (IF retry <= 3 THEN 10 * retry ELSE 50))) \div 100

\* get_optimal_eip1559_fees, with the boost of the priority fee limited to
\* BoostLimit percent and a base fee of -1 where neither the fee history nor
\* the cached data has one.
boost(congestion) == CASE congestion = "Low" -> 100 [] congestion = "Medium" -> 120 [] congestion = "High" -> 150 [] congestion = "VeryHigh" -> 200
base_fee_multiplier(congestion) == CASE congestion = "Low" -> 120 [] congestion = "Medium" -> 130 [] congestion = "High" -> 150 [] congestion = "VeryHigh" -> 200

max_fee(congestion, priority, base, price) ==
  IF base = -1 THEN price ELSE (base * base_fee_multiplier(congestion)) \div 100 + priority

get_optimal_eip1559_fees(cap, congestion, reward, base, price) ==
  LET priority == (reward * Min({boost(congestion), 100 + BoostLimit})) \div 100
  IN [priority |-> priority, max |-> Min({cap, max_fee(congestion, priority, base, price)})]

\* Without EIP-1559: 5, 10, 20 or 30 % above the node's price, and no limit.
get_optimal_gas_price(congestion, price) ==
  (price * (CASE congestion = "Low" -> 1050 [] congestion = "Medium" -> 1100 [] congestion = "High" -> 1200 [] congestion = "VeryHigh" -> 1300)) \div 1000

Next ==
  \/ tick \/ begin_sample \/ end_sample \/ fail_sample
  \/ set_sample_interval \/ call_begin \/ lookup \/ get_cached_gas_data \/ get_current_gas_price \/ call_returns \/ cleanup_gas_cache

Spec == Init /\ [][Next]_vars

(***************************************************************************)
(* Properties.                                                             *)
(***************************************************************************)
\* update_gas_price_history: the samples are in the order of their times, no
\* two share a second, and none was older than the window at the last one,
\* although requests fail and the interval changes meanwhile.
HistoryInWindow ==
  /\ \A i \in 1 .. Len(go_history) - 1 : go_history[i][1] < go_history[i + 1][1]
  /\ \A i \in DOMAIN go_history : go_last - go_history[i][1] <= GasWindow

\* An answer's data is stamped within GAS_CACHE_DURATION before the call
\* began and never after it, whatever a sampler or another caller wrote
\* between the reading of the clock and the look into the cache.
AnswersFresh ==
  go_call.pc = "done" =>
    /\ go_call.answer <= go_call.start
    /\ go_call.start - go_call.answer < GasTtl

\* A sender that starts from the last sample, below the limit, never offers less for a retry than it
\* offered before, and no retry goes past the limit.
RetriesClimbToLimit ==
  LET p == IF go_history = <<>> THEN Min(GasPrices) ELSE go_history[Len(go_history)][2] IN
  \A cap \in GasCaps, r \in Retries :
    /\ get_optimized_gas_price(cap, r + 1, p) <= cap
    /\ p <= cap => get_optimized_gas_price(cap, r, p) <= get_optimized_gas_price(cap, r + 1, p)
    /\ get_optimized_gas_limit(r, p) <= get_optimized_gas_limit(r + 1, p)

\* The fees of a transaction, for whatever congestion the cache holds: the
\* fee offered in all stays within the limit, and where the base fee is known
\* only the limit can cut it so far that the priority fee no longer fits.
FeesConsistent ==
  \A cap \in GasCaps, reward, base, price \in GasPrices :
    LET fees == get_optimal_eip1559_fees(cap, go_cache.congestion, reward, base, price) IN
      /\ fees.max <= cap
      /\ fees.max < cap => fees.priority <= fees.max
      /\ fees.max < cap => base <= fees.max - fees.priority
=============================================================================
