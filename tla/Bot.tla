------------------------------- MODULE Bot --------------------------------
(***************************************************************************)
(* The snipe bot: its wallets, its trading decisions, its background       *)
(* services and the helpers of trading. These parts share no state, so     *)
(* their steps commute and no step of one can change what another may do:  *)
(* a behaviour is given to one of them, named by part, and the run is the  *)
(* union of their state spaces rather than the product.                    *)
(***************************************************************************)
EXTENDS Integers, Sequences, FiniteSets

CONSTANTS Wallets, ConfigWallet, NoWallet, Tokens, Callers, NoConfig,
          Tracked, MaxGen, MaxQueue, Followed, Permits, Ttl, MaxAge,
          MaxTokens, MaxNow, Profits, MinResults, MaxHistory, BlockTimes,
          GasFactors, RetryFactors, MaxAdjustments, Seen, Slots, Room,
          PendingCounts, MaxMultiplier

\* What the settings and the parameters of the model may be.
ASSUME BotNumbers ==
  /\ MaxGen \in Nat \ {0} /\ MaxQueue \in Nat
  /\ MaxNow \in Nat /\ MaxAge \in Nat /\ MaxTokens \in Nat
  /\ Profits \subseteq Nat /\ MaxHistory \in Nat
  /\ BlockTimes \subseteq Nat /\ GasFactors \subseteq Nat /\ RetryFactors \subseteq Nat
  /\ PendingCounts \subseteq Nat /\ MaxMultiplier \in Nat

VARIABLES part,
          bw_stored, bw_file, bw_info, bw_address, bw_signer, bw_acked,
          bt_mode, bt_level, bt_config, bt_call, bt_position, bt_timers,
          bt_tried, bt_advanced, bs_auto, bs_made, bs_tracker, bs_manager,
          bs_tokens, bs_lock, bs_monitor, bs_risk, bs_listener, bs_queue,
          tk_now, tk_entries, tk_batch, tk_task, at_started, at_results,
          at_block, at_average, at_level, at_config, at_due, at_threshold,
          at_sims, at_stats, at_named, gg_pending, gg_level, gg_sampled,
          gg_known, gg_phase, gg_task, gg_channel, gg_counted

W == INSTANCE BotWallets
T == INSTANCE BotTrading
S == INSTANCE BotServices
K == INSTANCE TokenTracker
A == INSTANCE AutoTuner
N == INSTANCE GasGame

walletsVars == <<bw_stored, bw_file, bw_info, bw_address, bw_signer,
                 bw_acked>>
tradingVars == <<bt_mode, bt_level, bt_config, bt_call, bt_position,
                 bt_timers, bt_tried, bt_advanced>>
servicesVars == <<bs_auto, bs_made, bs_tracker, bs_manager, bs_tokens,
                  bs_lock, bs_monitor, bs_risk, bs_listener, bs_queue>>
trackerVars == <<tk_now, tk_entries, tk_batch, tk_task>>
tunerVars == <<at_started, at_results, at_block, at_average, at_level,
               at_config, at_due, at_threshold, at_sims, at_stats, at_named>>
gameVars == <<gg_pending, gg_level, gg_sampled, gg_known, gg_phase,
              gg_task, gg_channel, gg_counted>>

vars == <<part, walletsVars, tradingVars, servicesVars, trackerVars, tunerVars,
          gameVars>>

Init ==
  /\ part \in {"wallets", "trading", "services", "tracker", "tuner", "game"}
  /\ W!Init
  /\ T!Init
  /\ S!Init
  /\ K!Init
  /\ A!Init
  /\ N!Init

Next ==
  /\ UNCHANGED part
  /\ \/ part = "wallets" /\ W!Next
          /\ UNCHANGED <<tradingVars, servicesVars, trackerVars, tunerVars,
                        gameVars>>
     \/ part = "trading" /\ T!Next
          /\ UNCHANGED <<walletsVars, servicesVars, trackerVars, tunerVars,
                        gameVars>>
     \/ part = "services" /\ S!Next
          /\ UNCHANGED <<walletsVars, tradingVars, trackerVars, tunerVars,
                        gameVars>>
     \/ part = "tracker" /\ K!Next
          /\ UNCHANGED <<walletsVars, tradingVars, servicesVars, tunerVars,
                        gameVars>>
     \/ part = "tuner" /\ A!Next
          /\ UNCHANGED <<walletsVars, tradingVars, servicesVars,
                        trackerVars, gameVars>>
     \/ part = "game" /\ N!Next
          /\ UNCHANGED <<walletsVars, tradingVars, servicesVars,
                        trackerVars, tunerVars>>

\* Nothing that is fair is enabled in the initial state of a part that does not run.
Fairness ==
  /\ T!Fairness
  /\ S!Fairness
  /\ K!Fairness
  /\ N!Fairness

Spec == Init /\ [][Next]_vars /\ Fairness

\* Every part keeps its state within its types.
TypeOK ==
  /\ part = "wallets" => W!TypeOK
  /\ part = "trading" => T!TypeOK
  /\ part = "services" => S!TypeOK
  /\ part = "tracker" => K!TypeOK
  /\ part = "tuner" => A!TypeOK
  /\ part = "game" => N!TypeOK

\* What the bot has promised, or was told to do, survives whatever comes
\* between: restarts, failed saves, changes of mode, of level and of chain,
\* and locks that hang.
PromisesKept ==
  \* The adapter signs with one of the two wallets the bot names as current.
  /\ part = "wallets" => W!SignerIsSelected
  \* A wallet that was reported as created is in the file until it is
  \* removed.
  /\ part = "wallets" => W!AckedWalletsDurable
  \* Two-leg trades are begun for paying levels only.
  /\ part = "trading" => T!AdvancedOnlyForPaying
  \* A position bought for a Free user is about to be scheduled for sale, is
  \* scheduled, or has been tried.
  /\ part = "trading" => T!FreePositionsRemembered
  \* A monitor never gives up on a tracker that the bot or its trade manager
  \* still uses.
  /\ part = "services" => S!NoMonitorAbandons

\* What the helpers of trading decide belongs to one consistent view of the
\* network, however the view was refreshed, in part or not at all.
DecisionsConsistent ==
  \* The retry configuration is the one for the last level that names one.
  /\ part = "tuner" => A!ConfigFollowsLevel
  \* The congestion level belongs to the last update that succeeded in full.
  /\ part = "game" => N!LevelFromCompleteUpdate
  \* A bid stays within the configured multiplier, also after it was scaled,
  \* and does not fall below the base price when that multiplier is at least
  \* 1.09.
  /\ part = "game" => N!BidWithinLimit
  \* An accepted strategy is the most profitable of those that qualify.
  /\ part = "game" => N!AcceptedIsBestQualified

\* Background work of the bot ends, although what it waits for may hang, and
\* leaves behind what it should.
WorkEndsWell ==
  \* The scheduled sale of a Free position is tried.
  /\ T!FreePositionsTried
  \* The monitor of a tracker that nobody holds ends.
  /\ S!OrphanMonitorsEnd
  \* A full status channel is drained.
  /\ S!StatusChannelDrains
  \* A batch of the token tracker ends, and gives its mutex back.
  /\ K!BatchEnds
  \* It leaves the map within its bound.
  /\ K!BoundedAfterBatch
  \* And drops nothing that was updated later than what it keeps.
  /\ K!OldestGoFirst
  \* Counting competitors ends, although nobody reads the channel while the
  \* tasks are joined.
  /\ N!CountEnds
  \* And only when the result of every task has been counted.
  /\ N!CountComplete

=============================================================================
