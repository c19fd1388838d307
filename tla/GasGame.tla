------------------------------ MODULE GasGame ------------------------------
(***************************************************************************)
(* NashEquilibriumGasOptimizer (snipebot/src/trade/MonteEquilibrium.rs):   *)
(* what the optimizer remembers of the pool, the concurrent count of       *)
(* competitors, and the formulas that turn these into a bid, a choice of   *)
(* strategy and a decision about an open position.  Ratios are in percent. *)
(***************************************************************************)
EXTENDS Integers, Sequences, FiniteSets, FiniteSetsExt

CONSTANTS Seen,          \* transactions of recent blocks
          Slots,         \* permits of the semaphore
          Room,          \* capacity of the channel
          PendingCounts, \* sizes of the pool, in thousands
          MaxMultiplier  \* config.max_gas_multiplier

VARIABLES gg_pending,   \* mempool_state.pending_tx_count
          gg_level,     \* mempool_state.congestion_level
          gg_sampled,   \* history: the pool size of the last complete update
          gg_known,     \* known_mev_transactions
          gg_phase,     \* analyze_competitor_activity
          gg_task,      \* gg_task[x]: its task
          gg_channel,   \* results sent and not received
          gg_counted    \* results received

vars == <<gg_pending, gg_level, gg_sampled, gg_known, gg_phase, gg_task, gg_channel, gg_counted>>
memoryVars == <<gg_pending, gg_level, gg_sampled, gg_known>>
countVars == <<gg_phase, gg_task, gg_channel, gg_counted>>

Unsampled == -1

TypeOK ==
  /\ gg_pending \in {0} \cup PendingCounts /\ gg_level \in 1 .. 10 /\ gg_sampled \in {Unsampled} \cup PendingCounts
  /\ gg_known \subseteq Seen
  /\ gg_phase \in {"idle", "joining", "draining"}
  /\ gg_task \in [Seen -> {"none", "queued", "sending", "done"}]
  /\ gg_channel \subseteq Seen /\ gg_counted \subseteq Seen

new ==
  /\ gg_pending = 0 /\ gg_level = 5 /\ gg_sampled = Unsampled /\ gg_known = {}
  /\ gg_phase = "idle" /\ gg_task = [x \in Seen |-> "none"] /\ gg_channel = {} /\ gg_counted = {}

Init == new

(***************************************************************************)
(* Memory.  These calls borrow the optimizer mutably, so none of them runs *)
(* during a count of competitors.                                          *)
(***************************************************************************)
congestion(pending) == Max({1, Min({10, pending})})

\* A plausible slip: the level is stored before the price is known.
update_mempool_state_early ==
  /\ gg_phase = "idle"
  /\ \E n \in PendingCounts, ok \in BOOLEAN :
       /\ gg_pending' = n /\ gg_level' = congestion(n)
       /\ gg_sampled' = IF ok THEN n ELSE gg_sampled
  /\ UNCHANGED <<gg_known, countVars>>

\* The pool size is stored before the price is asked for: when that fails the
\* size is new and the level is old.
update_mempool_state ==
  /\ gg_phase = "idle"
  /\ \E n \in PendingCounts, ok \in BOOLEAN :
       /\ gg_pending' = n
       /\ gg_level' = IF ok THEN congestion(n) ELSE gg_level
       /\ gg_sampled' = IF ok THEN n ELSE gg_sampled
  /\ UNCHANGED <<gg_known, countVars>>

\* The score adds up what is known of the sender, the pool and the price.  The
\* guard for reading known_mev_transactions lives to the end of the call, so
\* try_write on the same lock is refused and the verdict is not remembered.
detect_mev_transaction ==
  LET readers == 1 IN
    /\ \E x \in Seen \ gg_known, score \in {5, 15} :
         gg_known' = IF score >= 15 /\ readers = 0 THEN gg_known \cup {x} ELSE gg_known
    /\ UNCHANGED <<gg_pending, gg_level, gg_sampled, countVars>>

(***************************************************************************)
(* analyze_competitor_activity: a task per transaction of a known player,  *)
(* at most Slots past the semaphore, sends its result into a bounded       *)
(* channel that is read only after the tasks were joined or five seconds   *)
(* have passed.                                                            *)
(***************************************************************************)
analyze_competitor_activity ==
  /\ gg_phase = "idle" /\ gg_phase' = "joining"
  /\ \E players \in SUBSET Seen : gg_task' = [x \in Seen |-> IF x \in players THEN "queued" ELSE "none"]
  /\ gg_channel' = {} /\ gg_counted' = {}
  /\ UNCHANGED memoryVars

acquire ==
  /\ Cardinality({x \in Seen : gg_task[x] = "sending"}) < Slots
  /\ \E x \in Seen : gg_task[x] = "queued" /\ gg_task' = [gg_task EXCEPT ![x] = "sending"]
  /\ UNCHANGED <<memoryVars, gg_phase, gg_channel, gg_counted>>

send ==
  /\ Cardinality(gg_channel) < Room
  /\ \E x \in Seen :
       /\ gg_task[x] = "sending" /\ gg_task' = [gg_task EXCEPT ![x] = "done"]
       /\ gg_channel' = gg_channel \cup {x}
  /\ UNCHANGED <<memoryVars, gg_phase, gg_counted>>

running == {x \in Seen : gg_task[x] \in {"queued", "sending"}}

\* All tasks are done, or the time is up; the tasks go on either way.
join_all == gg_phase = "joining" /\ gg_phase' = "draining" /\ UNCHANGED <<memoryVars, gg_task, gg_channel, gg_counted>>

recv ==
  /\ gg_phase = "draining"
  /\ \E x \in gg_channel : gg_channel' = gg_channel \ {x} /\ gg_counted' = gg_counted \cup {x}
  /\ UNCHANGED <<memoryVars, gg_phase, gg_task>>

\* recv returns nothing once every sender is gone.
all_received ==
  /\ gg_phase = "draining" /\ gg_channel = {} /\ running = {}
  /\ gg_phase' = "idle" /\ gg_task' = [x \in Seen |-> "none"] /\ gg_counted' = {}
  /\ UNCHANGED <<memoryVars, gg_channel>>

(***************************************************************************)
(* Bids and choices.                                                       *)
(***************************************************************************)
Strategies == {"Conservative", "Moderate", "Aggressive", "VeryAggressive", "Unknown"}

\* estimate_gas_strategy: from the mean ratio of price to base fee.
estimate_gas_strategy(ratio) ==
  IF ratio < 110 THEN "Conservative" ELSE IF ratio < 120 THEN "Moderate" ELSE IF ratio < 150 THEN "Aggressive" ELSE "VeryAggressive"

optimal_multiplier(players) ==
  LET share(names) == (100 * Cardinality({p \in DOMAIN players : players[p] \in names})) \div Cardinality(DOMAIN players)
      bold == share({"Aggressive", "VeryAggressive"})
      calm == share({"Conservative", "Moderate"})
  IN IF bold > 70 THEN 160 ELSE IF bold > 50 THEN 150 ELSE IF calm > 80 THEN 115 ELSE IF calm > 60 THEN 120 ELSE 130

limited(multiplier, level) == Min({(Min({multiplier, MaxMultiplier}) * (50 + level - 5)) \div 50, MaxMultiplier})

\* Without players the bid follows the optimizer's own, moderate, strategy.
calculate_nash_equilibrium_gas(players, level, base) ==
  IF DOMAIN players = {} THEN (base * 110) \div 100 ELSE (base * limited(optimal_multiplier(players), level)) \div 100

\* The share of simulations that succeed falls with the congestion.
simulate_frontrun_strategy(odds) == (odds * (20 - gg_level)) \div 20

RiskLevels == 1 .. 5
min_success_probability(risk) == <<90, 80, 70, 60, 50>>[risk]

\* The qualified strategy of the highest profit, or else the likeliest one.
run_monte_carlo_simulation(results, risk) ==
  LET qualified == {s \in DOMAIN results : results[s].probability >= min_success_probability(risk)} IN
    IF qualified = {} THEN {s \in DOMAIN results : \A t \in DOMAIN results : results[s].probability >= results[t].probability}
    ELSE {s \in qualified : \A t \in qualified : results[s].profit >= results[t].profit}

should_frontrun(result, risk, threshold) == result.profit >= threshold /\ result.probability >= min_success_probability(risk)

(***************************************************************************)
(* decide_profit_taking_or_continue_sandwich.                              *)
(***************************************************************************)
scenarios(profit, chance, volatility, buyers, uptrend) ==
  << [action |-> "TakeProfit", profit |-> profit * 10, chance |-> 100, risk |-> 0, hours |-> 0],
     [action |-> "Hold", profit |-> profit * 11, chance |-> chance, risk |-> volatility \div 2, hours |-> 4] >>
  \o (IF buyers THEN <<[action |-> "Continue", profit |-> profit * 12, chance |-> chance, risk |-> (volatility * 8) \div 10, hours |-> 12]>> ELSE <<>>)
  \o (IF uptrend THEN <<[action |-> "DCABuy", profit |-> profit * 15, chance |-> 65, risk |-> (volatility * 12) \div 10, hours |-> 72]>> ELSE <<>>)

\* apply_ai_adjustment_to_scenarios, for the sign of the predicted change.
apply_ai_adjustment_to_scenarios(s, prediction) ==
  CASE s.action = "TakeProfit" /\ prediction < 0 -> [s EXCEPT !.chance = (@ * 110) \div 100, !.profit = (@ * 105) \div 100]
    [] s.action = "Hold" /\ prediction > 0 -> [s EXCEPT !.chance = (@ * (100 + prediction)) \div 100, !.profit = (@ * (200 + prediction)) \div 200]
    [] s.action = "Hold" /\ prediction <= 0 -> [s EXCEPT !.chance = (@ * 90) \div 100, !.risk = (@ * 110) \div 100]
    [] OTHER -> s

time_factor(held) == IF held < 1 THEN 8 ELSE IF held < 24 THEN 10 ELSE IF held < 72 THEN 12 ELSE 15

\* The score without its divisor, 24 + hours.
worth(s, held) == s.profit * s.chance * (200 - s.risk) * time_factor(held)

decide(ss, held) ==
  ss[CHOOSE i \in DOMAIN ss :
       \A j \in DOMAIN ss \ {i} :
         LET mine == worth(ss[i], held) * (24 + ss[j].hours)
             other == worth(ss[j], held) * (24 + ss[i].hours)
         IN mine > other \/ (mine = other /\ i < j)].action

Next ==
  \/ update_mempool_state \/ detect_mev_transaction
  \/ analyze_competitor_activity \/ acquire \/ send \/ join_all \/ recv \/ all_received

\* The runtime runs its tasks, and the timer of the join fires.
Fairness == WF_vars(acquire) /\ WF_vars(send) /\ WF_vars(join_all) /\ WF_vars(recv) /\ WF_vars(all_received)

Spec == Init /\ [][Next]_vars /\ Fairness

(***************************************************************************)
(* Properties.                                                             *)
(***************************************************************************)
\* The congestion level belongs to the last update that succeeded in full,
\* although the pool size next to it may be newer.
LevelFromCompleteUpdate == gg_level = IF gg_sampled = Unsampled THEN 5 ELSE congestion(gg_sampled)

\* Counting competitors ends, although tasks wait for a full channel that
\* nobody reads while they are being joined.
CountEnds == gg_phase = "joining" ~> gg_phase = "idle"

\* And it ends only when the result of every task has been counted, those
\* that were still waiting when the time was up included.
CountComplete == [][gg_phase = "draining" /\ gg_phase' = "idle" => gg_counted = {x \in Seen : gg_task[x] # "none"}]_vars

\* The bid against known players stays within the configured multiplier, also
\* after it was scaled by the congestion, and never falls below the base price
\* unless that multiplier is so close to it that a calm network (a factor of
\* 0.92) takes it there.
BidWithinLimit ==
  \A S \in SUBSET Seen : \A players \in [S -> Strategies] :
    LET bid == calculate_nash_equilibrium_gas(players, gg_level, 100)
    IN S # {} => bid <= MaxMultiplier /\ (MaxMultiplier >= 109 => bid >= 100)

\* What should_frontrun accepts is the most profitable of the strategies that
\* qualify: a fallback that was picked for its probability is refused.
AcceptedIsBestQualified ==
  \A results \in [{"moderate", "extreme"} -> [probability : {simulate_frontrun_strategy(o) : o \in {70, 100}}, profit : {1, 5}]], risk \in RiskLevels :
    \A s \in run_monte_carlo_simulation(results, risk) :
      /\ should_frontrun(results[s], risk, 5) =>
           \A t \in DOMAIN results : results[t].probability >= min_success_probability(risk) => results[s].profit >= results[t].profit
      /\ (\A t \in DOMAIN results : results[t].probability < min_success_probability(risk)) =>
           \A t \in DOMAIN results : results[s].probability >= results[t].probability
=============================================================================
