----------------------------- MODULE AutoTuner -----------------------------
(***************************************************************************)
(* AutoTuner (snipebot/src/trade/auto_tuning.rs): it estimates how busy    *)
(* the network is, chooses the retry configuration for it, and turns the   *)
(* confidence threshold of the AI module and the size of the Monte Carlo   *)
(* simulation by the profit of recent trades.  Profits and thresholds are  *)
(* in hundredths; a block time is in tenths of the usual one.              *)
(***************************************************************************)
EXTENDS Integers, Sequences, Functions, FiniteSets, FiniteSetsExt

CONSTANTS Profits,          \* profits of a successful trade
          MinResults,       \* min_results_for_adjustment
          MaxHistory,       \* max_trade_history
          BlockTimes,       \* observed block times, in tenths of 12 s
          GasFactors,       \* gas price against 50 Gwei: 0 .. 8 points
          RetryFactors,     \* points for a low retry success rate
          MaxAdjustments    \* bound on the adjustments

Failed == -1                  \* the result of a trade that failed

VARIABLES at_started,    \* start has taken the tuner: nothing is reported any more
          at_results,    \* trade_results: profits
          at_block,      \* a block number is known
          at_average,    \* AVG_BLOCK_TIME_MS
          at_level,      \* network_congestion_level
          at_config,     \* runtime_retry_config: 0 is the default, else a row
          at_due,        \* update_interval has passed since the last adjustment
          at_threshold,  \* confidence threshold of the AI module
          at_sims,       \* simulations of the Monte Carlo engine
          at_stats,      \* tuning_stats
          at_named       \* history: the last level from 1 to 10, 0 before one

vars == <<at_started, at_results, at_block, at_average, at_level, at_config, at_due, at_threshold, at_sims, at_stats, at_named>>
networkVars == <<at_block, at_average, at_level, at_config, at_named>>
tuningVars == <<at_due, at_threshold, at_sims, at_stats>>

TypeOK ==
  /\ at_started \in BOOLEAN /\ at_block \in BOOLEAN /\ at_due \in BOOLEAN
  /\ at_results \in Seq(Profits \cup {Failed}) /\ Len(at_results) <= MaxHistory
  /\ at_average \in Nat
  /\ at_level \in 0 .. 10 \cup {50} /\ at_named \in 0 .. 10
  /\ at_config \in 0 .. 4
  /\ at_threshold \in Nat /\ at_sims \in Nat
  /\ at_stats \in [total : Nat, successful : Nat, failed : Nat]

new ==
  /\ at_started = FALSE /\ at_results = <<>> /\ at_block = FALSE /\ at_average = 10 /\ at_level = 50
  /\ at_config = 0 /\ at_due = FALSE /\ at_threshold = 60 /\ at_sims = 1000
  /\ at_stats = [total |-> 0, successful |-> 0, failed |-> 0] /\ at_named = 0

Init == new

(***************************************************************************)
(* Network conditions.                                                     *)
(***************************************************************************)
estimate_congestion_level(average, gas, retry) ==
  LET block == IF average > 10 THEN ((Min({average, 30}) - 10) * 5) \div 10 ELSE 0
  IN Min({10, block + gas + retry})

\* The block number cannot be had, or has not moved, or is the first one; or
\* the average and the level are renewed.  The subtraction of block numbers is
\* unsigned: a node that has fallen behind shows as a huge number of blocks
\* and a block time of zero.
check_network_conditions ==
  /\ at_block' \in {at_block, TRUE}
  /\ \/ UNCHANGED <<at_average, at_level, at_named>>
     \/ /\ at_block
        /\ \E t \in BlockTimes \cup {0}, gas \in GasFactors, retry \in RetryFactors :
             /\ at_average' = (at_average * 9 + t) \div 10
             /\ at_level' = estimate_congestion_level(at_average', gas, retry)
             /\ at_named' = IF at_level' \in 1 .. 10 THEN at_level' ELSE at_named

\* The configuration of a level; a level outside 1 .. 10 keeps the one in use.
row(level, config) ==
  CASE level \in 1 .. 3 -> 1 [] level \in 4 .. 6 -> 2 [] level \in 7 .. 8 -> 3 [] level \in 9 .. 10 -> 4 [] OTHER -> config

adjust_retry_config == at_config' = row(at_level', at_config)

(***************************************************************************)
(* Tuning.                                                                 *)
(***************************************************************************)
successful(results) == {i \in DOMAIN results : results[i] # Failed}
analyze_current_performance(results, level) ==
  LET won == successful(results) IN
    IF won = {} THEN 0 ELSE ((SumFunctionOnSet(results, won) \div Cardinality(won)) * (10 + level)) \div 10

\* At most 5 % and at least 1 % more, kept between 50 and 95.
new_threshold(performance) ==
  Max({50, Min({95, (at_threshold * (1000 + Max({10, Min({150, (50 * Min({performance, 100})) \div 100})})) + 999) \div 1000})})

new_sims(performance) ==
  LET percent == IF performance > 80 THEN 90 ELSE IF performance < 30 THEN 120 ELSE 100
  IN Max({1000, Min({10000, (at_sims * percent) \div 100})})

\* The AI module may refuse its threshold: then the simulation is left alone
\* and the adjustment counts as failed.
adjust_parameters(performance, refused) ==
  IF performance < 1 \/ refused
  THEN [ok |-> FALSE, threshold |-> at_threshold, sims |-> at_sims]
  ELSE [ok |-> TRUE, threshold |-> new_threshold(performance), sims |-> new_sims(performance)]

\* Nothing before the interval is over; an error, and another try at once,
\* while there are too few results.
analyze_and_adjust(results, level) ==
  IF at_due /\ Len(results) >= MinResults /\ at_stats.total < MaxAdjustments
  THEN \E refused \in BOOLEAN :
         LET adjusted == adjust_parameters(analyze_current_performance(results, level), refused) IN
           /\ at_threshold' = adjusted.threshold /\ at_sims' = adjusted.sims
           /\ at_stats' = [total |-> at_stats.total + 1,
                           successful |-> at_stats.successful + (IF adjusted.ok THEN 1 ELSE 0),
                           failed |-> at_stats.failed + (IF adjusted.ok THEN 0 ELSE 1)]
           /\ at_due' = FALSE
  ELSE UNCHANGED tuningVars

report_trade_result ==
  /\ ~at_started /\ UNCHANGED <<at_started, networkVars>>
  /\ \E p \in Profits \cup {Failed} :
       LET longer == Append(at_results, p) IN
         at_results' = IF Len(longer) > MaxHistory THEN Tail(longer) ELSE longer
  /\ IF Len(at_results') >= MinResults THEN analyze_and_adjust(at_results', at_level) ELSE UNCHANGED tuningVars

start ==
  /\ ~at_started /\ at_started' = TRUE
  /\ UNCHANGED <<at_results, networkVars, tuningVars>>

check ==
  /\ at_started /\ UNCHANGED <<at_started, at_results>>
  /\ check_network_conditions
  /\ adjust_retry_config
  /\ analyze_and_adjust(at_results, at_level')

interval_passes == ~at_due /\ at_due' = TRUE /\ UNCHANGED <<at_started, at_results, networkVars, at_threshold, at_sims, at_stats>>

Next == report_trade_result \/ start \/ check \/ interval_passes

Spec == Init /\ [][Next]_vars

(***************************************************************************)
(* Properties.                                                             *)
(***************************************************************************)
\* The retry configuration is the one for the last level that names one: the
\* first level, 50, and the level of an idle network, 0, leave it as it was.
ConfigFollowsLevel ==
  at_config = IF at_named = 0 THEN 0 ELSE 1 + Cardinality({b \in {3, 6, 8} : at_named > b})
=============================================================================
