------------------------------- MODULE BotProofs -------------------------------
(***************************************************************************)
(* Proofs about Bot, for any number of wallets, tokens, callers and        *)
(* competing transactions and every setting: each part keeps its types and *)
(* its promises.  A part that does not run stays as it began, so the       *)
(* invariant is the conjunction of those of the parts, with no mention of  *)
(* the part that runs.                                                     *)
(***************************************************************************)
EXTENDS Bot, DataTheorems, TLAPS

(***************************************************************************)
(* Wallets.                                                                *)
(***************************************************************************)
WalletsInv == W!TypeOK /\ W!SignerIsSelected /\ W!AckedWalletsDurable

LEMMA WalletsInit == W!Init => WalletsInv
BY DEF WalletsInv, W!Init, W!TypeOK, W!SignerIsSelected, W!AckedWalletsDurable,
       W!get_current_wallet_address

LEMMA WalletsStep == WalletsInv /\ [W!Next]_walletsVars => WalletsInv'
<1> USE DEF WalletsInv, W!TypeOK, W!SignerIsSelected, W!AckedWalletsDurable,
            W!get_current_wallet_address, W!botVars, W!save_to_file, W!created
<1> SUFFICES ASSUME WalletsInv, [W!Next]_walletsVars
             PROVE  WalletsInv'
  OBVIOUS
<1>1. CASE UNCHANGED walletsVars
  BY <1>1 DEF walletsVars
<1>2. CASE W!restart
  BY <1>2 DEF W!restart, W!new, W!new_default, W!new_created, W!new_config
<1>3. CASE W!create_new_wallet
  BY <1>3 DEF W!create_new_wallet
<1>4. CASE W!import_wallet
  BY <1>4 DEF W!import_wallet
<1>5. CASE W!create_hd_wallets
  BY <1>5 DEF W!create_hd_wallets
<1>6. CASE W!save_fails
  BY <1>6 DEF W!save_fails, W!create_failed
<1>7. CASE W!update_wallet_balances
  BY <1>7 DEF W!update_wallet_balances
<1>8. CASE W!remove_wallet
  BY <1>8 DEF W!remove_wallet
<1>9. CASE W!switch_chain
  BY <1>9 DEF W!switch_chain
<1>10. CASE W!switch_wallet
  BY <1>10 DEF W!switch_wallet
<1>11. CASE W!create_and_switch_wallet
  BY <1>11 DEF W!create_and_switch_wallet
<1>12. QED
  BY <1>1, <1>2, <1>3, <1>4, <1>5, <1>6, <1>7, <1>8, <1>9, <1>10, <1>11 DEF W!Next

(***************************************************************************)
(* Trading.                                                                *)
(***************************************************************************)
TradingInv == T!TypeOK /\ T!AdvancedOnlyForPaying /\ T!FreePositionsRemembered

(* The call is about to schedule the sale of the token. *)
AboutToSchedule(r, t) == r.pc = "protect" /\ r.token = t /\ r.with = "timer"

(* What a call that is under way knows. *)
LEMMA CallFields ==
  ASSUME NEW r \in T!Calls
  PROVE  /\ r.pc \in {"idle", "auto", "by_safety", "leg1", "leg2", "protect"}
         /\ r.pc # "idle" => r.token \in Tokens
         /\ r.pc = "leg1" => [r EXCEPT !.pc = "leg2"] \in T!Calls /\ [r EXCEPT !.pc = "leg2"].pc = "leg2"
         /\ r.pc = "protect" => r.with \in {"timer", "tp_sl", "trailing"}
         /\ r = T!idle => r.pc = "idle"
BY DEF T!Calls, T!idle

(* The calls that a step may begin or go on with. *)
LEMMA CallMade ==
  ASSUME NEW t \in Tokens
  PROVE  /\ T!idle \in T!Calls /\ T!idle.pc = "idle"
         /\ \A s \in T!Safety, a \in T!Actions :
              LET r == [pc |-> "auto", token |-> t, seen |-> s, action |-> a] IN r \in T!Calls /\ r.pc = "auto"
         /\ \A s \in T!Safety :
              LET r == [pc |-> "by_safety", token |-> t, seen |-> s] IN r \in T!Calls /\ r.pc = "by_safety"
         /\ LET r == [pc |-> "leg1", token |-> t] IN r \in T!Calls /\ r.pc = "leg1"
         /\ \A w \in {"timer", "tp_sl", "trailing"} :
              LET r == [pc |-> "protect", token |-> t, with |-> w] IN r \in T!Calls /\ r.pc = "protect" /\ r.token = t /\ r.with = w
BY DEF T!Calls, T!idle

LEMMA TradingInit == T!Init => TradingInv
<1> SUFFICES ASSUME T!Init PROVE TradingInv
  OBVIOUS
<1>1. T!idle \in T!Calls
  BY DEF T!Calls
<1>2. QED
  BY <1>1 DEF TradingInv, T!Init, T!TypeOK, T!AdvancedOnlyForPaying, T!FreePositionsRemembered,
       T!Levels, T!Positions

(* A call that was not about to schedule a sale may go anywhere, as long as *)
(* what it opens for a Free user is announced by where it goes.             *)
LEMMA CallMoves ==
  ASSUME TradingInv, NEW c \in Callers, NEW r \in T!Calls, bt_call' = [bt_call EXCEPT ![c] = r],
         bt_call[c].pc # "protect", UNCHANGED bt_timers, NEW t \in Tokens,
         bt_position'[t] = "free" => (bt_position[t] = "free" /\ (t \in bt_tried => t \in bt_tried'))
                                      \/ AboutToSchedule(r, t)
  PROVE  /\ bt_call' \in [Callers -> T!Calls]
         /\ bt_position'[t] = "free" =>
              t \in bt_timers' \/ t \in bt_tried' \/ \E d \in Callers : AboutToSchedule(bt_call'[d], t)
<1>1. bt_call \in [Callers -> T!Calls]
  BY DEF TradingInv, T!TypeOK
<1>2. \A d \in Callers : AboutToSchedule(bt_call[d], t) => bt_call'[d] = bt_call[d]
  BY <1>1 DEF AboutToSchedule
<1>3. bt_call'[c] = r
  BY <1>1
<1>4. bt_position[t] = "free" => t \in bt_timers \/ t \in bt_tried \/ \E d \in Callers : AboutToSchedule(bt_call[d], t)
  BY DEF TradingInv, T!FreePositionsRemembered, AboutToSchedule
<1>5. QED
  BY <1>1, <1>2, <1>3, <1>4

(* Settings are changed while no call is under way and touch nothing else.  *)
LEMMA SettingsStep ==
  ASSUME TradingInv,
         T!switch_mode \/ T!set_auto_trade_config \/ T!update_user_subscription \/ T!start_auto_trade
  PROVE  TradingInv'
<1>1. UNCHANGED <<bt_call, bt_position, bt_timers, bt_tried, bt_advanced>>
  BY DEF T!switch_mode, T!set_auto_trade_config, T!update_user_subscription, T!start_auto_trade, T!setVars
<1>2. bt_mode' \in {"Manual", "Auto"} /\ bt_level' \in T!Levels
  BY DEF T!switch_mode, T!set_auto_trade_config, T!update_user_subscription, T!start_auto_trade,
         T!set_user_level, T!setVars, TradingInv, T!TypeOK
<1>3. ASSUME NEW l \in T!Levels, T!update_auto_trade_config_for_subscription(l)
      PROVE  bt_config' \in T!Configs
  <2>1. PICK two_leg \in BOOLEAN, trailing \in BOOLEAN :
          bt_config' = [two_leg  |-> l = "VIP" /\ two_leg,
                        trailing |-> CASE l = "Free" -> FALSE
                                       [] l = "Premium" -> TRUE
                                       [] l = "VIP" -> trailing]
    BY <1>3 DEF T!update_auto_trade_config_for_subscription
  <2>2. (l = "VIP" /\ two_leg) \in BOOLEAN
    OBVIOUS
  <2>3. (CASE l = "Free" -> FALSE [] l = "Premium" -> TRUE [] l = "VIP" -> trailing) \in BOOLEAN
    BY DEF T!Levels
  <2>4. QED
    BY <2>1, <2>2, <2>3 DEF T!Configs
<1>4. T!default_config \in T!Configs
  BY DEF T!default_config, T!Configs
<1>5. bt_config' \in T!Configs \cup {NoConfig}
  BY <1>3, <1>4 DEF T!switch_mode, T!set_auto_trade_config, T!update_user_subscription, T!start_auto_trade,
         T!set_user_level, T!setVars, TradingInv, T!TypeOK
<1>6. QED
  BY <1>1, <1>2, <1>5 DEF TradingInv, T!TypeOK, T!AdvancedOnlyForPaying, T!FreePositionsRemembered

LEMMA TradingStep == TradingInv /\ [T!Next]_tradingVars => TradingInv'
<1> SUFFICES ASSUME TradingInv, [T!Next]_tradingVars
             PROVE  TradingInv'
  OBVIOUS
<1> DEFINE Remembered(t) ==
             t \in bt_timers \/ t \in bt_tried \/ \E d \in Callers : AboutToSchedule(bt_call[d], t)
<1>0. /\ T!TypeOK /\ ~bt_advanced
      /\ \A t \in Tokens : bt_position[t] = "free" => Remembered(t)
  BY DEF TradingInv, T!AdvancedOnlyForPaying, T!FreePositionsRemembered, AboutToSchedule
<1>1. T!TypeOK' /\ ~bt_advanced' /\ (\A t \in Tokens : bt_position'[t] = "free" => Remembered(t)') => TradingInv'
  BY DEF TradingInv, T!AdvancedOnlyForPaying, T!FreePositionsRemembered, AboutToSchedule
<1>2. CASE UNCHANGED tradingVars
  BY <1>2 DEF tradingVars, TradingInv, T!TypeOK, T!AdvancedOnlyForPaying, T!FreePositionsRemembered
<1>3. CASE T!switch_mode \/ T!set_auto_trade_config \/ T!update_user_subscription \/ T!start_auto_trade
  BY <1>3, SettingsStep
<1>4. CASE T!manual_buy \/ T!manual_sell
  <2>1. /\ UNCHANGED <<bt_mode, bt_level, bt_config, bt_call, bt_timers, bt_tried, bt_advanced>>
        /\ \E t \in Tokens : bt_position' = T!opened(t, "bare") \/ bt_position' = T!sold(t)
    BY <1>4 DEF T!manual_buy, T!manual_sell, T!settings
  <2>2. bt_position' \in [Tokens -> T!Positions] /\ \A t \in Tokens : bt_position'[t] = "free" => bt_position[t] = "free"
    BY <1>0, <2>1 DEF T!TypeOK, T!opened, T!sold, T!Positions
  <2>3. QED
    BY <1>0, <1>1, <2>1, <2>2 DEF T!TypeOK
<1>5. ASSUME NEW c \in Callers, T!auto_trade(c) \/ T!auto_trade_by_safety(c)
      PROVE  TradingInv'
  <2>1. PICK r \in T!Calls : bt_call' = [bt_call EXCEPT ![c] = r]
    BY <1>5, CallMade DEF T!auto_trade, T!auto_trade_by_safety, T!goes
  <2>2. bt_call[c] = T!idle /\ UNCHANGED <<bt_mode, bt_level, bt_config, bt_position, bt_timers, bt_tried, bt_advanced>>
    BY <1>5 DEF T!auto_trade, T!auto_trade_by_safety, T!settings
  <2>3. bt_call[c].pc # "protect"
    BY <2>2 DEF T!idle
  <2>4. bt_call' \in [Callers -> T!Calls]
    BY <1>0, <2>1 DEF T!TypeOK
  <2>5. \A t \in Tokens : bt_position'[t] = "free" => Remembered(t)'
    BY <2>1, <2>2, <2>3, CallMoves
  <2>6. QED
    BY <1>0, <1>1, <2>2, <2>4, <2>5 DEF T!TypeOK
<1>6. ASSUME NEW c \in Callers, T!callSteps(c), bt_call[c].pc # "protect"
      PROVE  TradingInv'
  <2>0. bt_call[c] \in T!Calls
    BY <1>0 DEF T!TypeOK
  <2>1. UNCHANGED <<bt_mode, bt_level, bt_config, bt_timers>>
    BY <1>6 DEF T!callSteps, T!auto_buy, T!auto_sell, T!auto_tsl, T!auto_two_leg, T!two_leg_buy, T!two_leg_sell,
       T!call_fails, T!by_safety_free, T!by_safety_premium, T!by_safety_vip, T!protect, T!protect_fails, T!settings
  <2>2. CASE T!by_safety_free(c)
    <3> DEFINE tk == bt_call[c].token
               r == [pc |-> "protect", token |-> tk, with |-> "timer"]
    <3>1. tk \in Tokens
      BY <2>0, <2>2, CallFields DEF T!by_safety_free, T!buys
    <3>2. r \in T!Calls /\ AboutToSchedule(r, tk)
      BY <3>1, CallMade DEF AboutToSchedule
    <3>3. /\ bt_call' = [bt_call EXCEPT ![c] = r] /\ bt_position' = [bt_position EXCEPT ![tk] = "free"]
          /\ bt_tried' = bt_tried \ {tk} /\ UNCHANGED bt_advanced
      BY <2>2 DEF T!by_safety_free, T!buys, T!goes
    <3>4. bt_position' \in [Tokens -> T!Positions]
      BY <1>0, <3>1, <3>3 DEF T!TypeOK, T!Positions
    <3>5. \A t \in Tokens : bt_position'[t] = "free" =>
            (bt_position[t] = "free" /\ (t \in bt_tried => t \in bt_tried')) \/ AboutToSchedule(r, t)
      BY <1>0, <3>2, <3>3 DEF T!TypeOK
    <3> HIDE DEF r
    <3>6. bt_call' \in [Callers -> T!Calls]
      BY <1>0, <3>2, <3>3 DEF T!TypeOK
    <3>7. \A t \in Tokens : bt_position'[t] = "free" => Remembered(t)'
      BY <1>6, <2>1, <3>2, <3>3, <3>5, CallMoves
    <3>8. QED
      BY <1>0, <1>1, <2>1, <3>3, <3>4, <3>6, <3>7 DEF T!TypeOK
  <2>3. CASE ~T!by_safety_free(c)
    <3>1. UNCHANGED bt_tried
      BY <1>6, <2>3 DEF T!callSteps, T!auto_buy, T!auto_sell, T!auto_tsl, T!auto_two_leg, T!two_leg_buy, T!two_leg_sell,
         T!call_fails, T!by_safety_premium, T!by_safety_vip, T!protect, T!protect_fails, T!settings
    <3> DEFINE tk == bt_call[c].token
    <3>2. \/ T!idles(c)
          \/ bt_call[c].pc = "auto" /\ T!goes(c, [pc |-> "leg1", token |-> tk])
          \/ bt_call[c].pc = "leg1" /\ T!goes(c, [bt_call[c] EXCEPT !.pc = "leg2"])
          \/ /\ bt_call[c].pc = "by_safety"
             /\ \E w \in {"tp_sl", "trailing"} : T!goes(c, [pc |-> "protect", token |-> tk, with |-> w])
      BY <1>6, <2>3 DEF T!callSteps, T!auto_buy, T!auto_sell, T!auto_tsl, T!auto_two_leg, T!two_leg_buy, T!two_leg_sell,
         T!call_fails, T!by_safety_premium, T!by_safety_vip, T!protect, T!protect_fails, T!buys
    <3>3. T!idle \in T!Calls /\ (bt_call[c].pc # "idle" => tk \in Tokens)
      BY <2>0, CallFields DEF T!Calls
    <3>4. \E r \in T!Calls : bt_call' = [bt_call EXCEPT ![c] = r]
      <4>1. CASE T!idles(c)
        BY <3>3, <4>1 DEF T!idles
      <4>2. CASE bt_call[c].pc = "auto" /\ T!goes(c, [pc |-> "leg1", token |-> tk])
        BY <3>3, <4>2, CallMade DEF T!goes
      <4>3. CASE bt_call[c].pc = "leg1" /\ T!goes(c, [bt_call[c] EXCEPT !.pc = "leg2"])
        BY <2>0, <4>3, CallFields DEF T!goes
      <4>4. ASSUME bt_call[c].pc = "by_safety", NEW w \in {"tp_sl", "trailing"},
                   T!goes(c, [pc |-> "protect", token |-> tk, with |-> w])
            PROVE  \E r \in T!Calls : bt_call' = [bt_call EXCEPT ![c] = r]
        BY <3>3, <4>4, CallMade DEF T!goes
      <4>5. QED
        BY <3>2, <4>1, <4>2, <4>3, <4>4
    <3>5. bt_advanced' \in BOOLEAN /\ ~bt_advanced'
      BY <1>0, <1>6, <2>3 DEF T!callSteps, T!auto_buy, T!auto_sell, T!auto_tsl, T!auto_two_leg, T!two_leg_buy,
         T!two_leg_sell, T!call_fails, T!by_safety_premium, T!by_safety_vip, T!protect, T!protect_fails, T!settings,
         T!find_sandwich_opportunity, T!TypeOK
    <3>6. /\ bt_position' \in [Tokens -> T!Positions]
          /\ \A t \in Tokens : bt_position'[t] = "free" => bt_position[t] = "free"
      BY <1>0, <1>6, <2>0, <2>3, CallFields
      DEF T!callSteps, T!auto_buy, T!auto_sell, T!auto_tsl, T!auto_two_leg, T!two_leg_buy, T!two_leg_sell, T!call_fails,
          T!by_safety_premium, T!by_safety_vip, T!protect, T!protect_fails, T!settings, T!opened, T!sold, T!buys,
          T!activate_trailing_stop_loss, T!TypeOK, T!Positions
    <3>7. PICK r \in T!Calls : bt_call' = [bt_call EXCEPT ![c] = r]
      BY <3>4
    <3>8. bt_call' \in [Callers -> T!Calls]
      BY <1>0, <3>7 DEF T!TypeOK
    <3>9. \A t \in Tokens : bt_position'[t] = "free" => Remembered(t)'
      BY <1>6, <2>1, <3>1, <3>6, <3>7, CallMoves
    <3>10. QED
      BY <1>0, <1>1, <2>1, <3>1, <3>5, <3>6, <3>8, <3>9 DEF T!TypeOK
  <2>4. QED
    BY <2>2, <2>3
<1>7. ASSUME NEW c \in Callers, T!callSteps(c), bt_call[c].pc = "protect"
      PROVE  TradingInv'
  <2>1. T!protect(c) \/ T!protect_fails(c)
    BY <1>7 DEF T!callSteps, T!auto_buy, T!auto_sell, T!auto_tsl, T!auto_two_leg, T!two_leg_buy, T!two_leg_sell,
       T!call_fails, T!by_safety_free, T!by_safety_premium, T!by_safety_vip, T!buys
  <2>2. /\ UNCHANGED <<bt_mode, bt_level, bt_config, bt_tried, bt_advanced>>
        /\ bt_call' = [bt_call EXCEPT ![c] = T!idle]
    BY <2>1 DEF T!protect, T!protect_fails, T!settings, T!idles
  <2>3. bt_call[c] \in T!Calls /\ bt_call \in [Callers -> T!Calls] /\ T!idle \in T!Calls
    BY <1>0 DEF T!TypeOK, T!Calls
  <2>4. bt_call[c].token \in Tokens /\ bt_call[c].with \in {"timer", "tp_sl", "trailing"}
    BY <1>7, <2>3, CallFields
  <2>5. /\ bt_position' \in [Tokens -> T!Positions] /\ bt_timers \subseteq bt_timers' /\ bt_timers' \subseteq Tokens
        /\ \A t \in Tokens : bt_position'[t] = "free" => bt_position[t] = "free"
        /\ bt_call[c].with = "timer" => bt_call[c].token \in bt_timers'
    BY <1>0, <2>1, <2>4 DEF T!protect, T!protect_fails, T!schedule_auto_sell, T!TypeOK, T!Positions
  <2>6. \A d \in Callers : d # c => bt_call'[d] = bt_call[d]
    BY <2>2, <2>3
  <2>7. \A t \in Tokens : bt_position'[t] = "free" => Remembered(t)'
    BY <1>0, <2>2, <2>5, <2>6 DEF AboutToSchedule
  <2>8. QED
    BY <1>0, <1>1, <2>2, <2>3, <2>5, <2>7 DEF T!TypeOK
<1>8. CASE T!auto_sell_fires
  <2>1. PICK t \in bt_timers : /\ bt_timers' = bt_timers \ {t} /\ bt_tried' = bt_tried \cup {t}
                               /\ bt_position' = T!sold(t) \/ UNCHANGED bt_position
                               /\ UNCHANGED <<bt_mode, bt_level, bt_config, bt_call, bt_advanced>>
    BY <1>8 DEF T!auto_sell_fires, T!settings
  <2>2. bt_position' \in [Tokens -> T!Positions] /\ \A u \in Tokens : bt_position'[u] = "free" => bt_position[u] = "free"
    BY <1>0, <2>1 DEF T!sold, T!TypeOK, T!Positions
  <2>3. QED
    BY <1>0, <1>1, <2>1, <2>2 DEF T!TypeOK
<1>9. QED
  BY <1>2, <1>3, <1>4, <1>5, <1>6, <1>7, <1>8 DEF T!Next

(***************************************************************************)
(* Background services.  A tracker that was not made yet has no monitor,   *)
(* so a tracker that becomes current has none that gave it up.             *)
(***************************************************************************)
ServicesInv ==
  /\ S!TypeOK /\ S!NoMonitorAbandons
  /\ \A g \in S!Gens : g > bs_made => bs_monitor[g] = "none"

LEMMA ServicesInit == S!Init => ServicesInv
<1> SUFFICES ASSUME S!Init PROVE ServicesInv
  OBVIOUS
<1> USE BotNumbers DEF S!Init
<1>1. 1 \in S!Gens
  BY DEF S!Gens
<1>2. S!TypeOK
  <2>1. bs_auto \in BOOLEAN
    OBVIOUS
  <2>2. bs_made \in S!Gens /\ bs_tracker \in 1 .. bs_made /\ bs_manager \in 0 .. bs_made /\ bs_listener \in 0 .. bs_made
    BY <1>1
  <2>3. /\ bs_tokens \in [S!Gens -> SUBSET Tracked]
        /\ bs_lock \in [S!Gens -> {"free", "monitor", "caller"}]
        /\ bs_monitor \in [S!Gens -> {"none", "sleeping", "updating", "ended"}]
    OBVIOUS
  <2>4. bs_risk \subseteq S!Gens /\ bs_queue \in 0 .. MaxQueue
    OBVIOUS
  <2>5. QED
    BY <2>1, <2>2, <2>3, <2>4 DEF S!TypeOK
<1>3. \A g \in S!Gens : bs_monitor[g] = "none"
  OBVIOUS
<1>4. QED
  BY <1>2, <1>3 DEF ServicesInv, S!NoMonitorAbandons

LEMMA ServicesStep == ServicesInv /\ [S!Next]_servicesVars => ServicesInv'
<1> SUFFICES ASSUME ServicesInv, [S!Next]_servicesVars
             PROVE  ServicesInv'
  OBVIOUS
<1> USE BotNumbers DEF ServicesInv, S!TypeOK, S!NoMonitorAbandons, S!Gens
<1>1. CASE UNCHANGED servicesVars
  BY <1>1 DEF servicesVars
<1>2. CASE S!switch_mode
  BY <1>2 DEF S!switch_mode
<1>3. CASE S!initialize_auto_mode
  <2> DEFINE n == bs_made + 1
  <2>1. n \in S!Gens /\ bs_made' = n /\ bs_tracker' = n /\ bs_manager' = n
    BY <1>3 DEF S!initialize_auto_mode
  <2>2. /\ bs_listener' \in 0 .. n
        /\ bs_monitor' = bs_monitor \/ bs_monitor' = [bs_monitor EXCEPT ![n] = "sleeping"]
        /\ UNCHANGED <<bs_auto, bs_tokens, bs_lock, bs_risk, bs_queue>>
    BY <1>3 DEF S!initialize_auto_mode, S!start_monitoring_services, S!process_status_updates
  <2>3. n > bs_made /\ bs_monitor[n] = "none"
    BY <2>1
  <2>4. QED
    BY <2>1, <2>2, <2>3
<1>4. CASE S!lock_tracker
  BY <1>4 DEF S!lock_tracker
<1>5. ASSUME NEW g \in S!Gens, S!add_token_to_track(g)
      PROVE  ServicesInv'
  BY <1>5 DEF S!add_token_to_track
<1>6. ASSUME NEW g \in S!Gens, S!monitor_tick(g) \/ S!monitor_updated(g), S!othersUnchanged
      PROVE  ServicesInv'
  <2>1. /\ bs_lock' \in [S!Gens -> {"free", "monitor", "caller"}]
        /\ bs_risk' \subseteq S!Gens
    BY <1>6 DEF S!monitor_tick, S!monitor_ends, S!monitor_locks, S!monitor_busy, S!monitor_updated,
       S!run_continuous_risk_monitoring
  <2>2. bs_monitor[g] \in {"sleeping", "updating"}
    BY <1>6 DEF S!monitor_tick, S!monitor_ends, S!monitor_locks, S!monitor_busy, S!monitor_updated
  <2>3. \/ bs_monitor' = bs_monitor
        \/ bs_monitor' = [bs_monitor EXCEPT ![g] = "sleeping"]
        \/ bs_monitor' = [bs_monitor EXCEPT ![g] = "updating"]
        \/ bs_monitor' = [bs_monitor EXCEPT ![g] = "ended"] /\ g \notin {bs_tracker, bs_manager}
    BY <1>6 DEF S!monitor_tick, S!monitor_ends, S!monitor_locks, S!monitor_busy, S!monitor_updated, S!upgrade
  <2>4. QED
    BY <1>6, <2>1, <2>2, <2>3 DEF S!othersUnchanged
<1>7. CASE S!risk_monitoring_done /\ S!othersUnchanged
  BY <1>7 DEF S!risk_monitoring_done, S!othersUnchanged
<1>8. CASE S!send_status
  BY <1>8 DEF S!send_status
<1>9. CASE S!update_token_status
  <2>1. bs_tokens' = bs_tokens \/ \E t \in Tracked : bs_tokens' = [bs_tokens EXCEPT ![bs_listener] = @ \cup {t}]
    BY <1>9 DEF S!update_token_status
  <2>2. bs_tokens' \in [S!Gens -> SUBSET Tracked]
    BY <2>1
  <2>3. QED
    BY <1>9, <2>2 DEF S!update_token_status
<1>10. CASE S!recover_token_tracker
  <2> DEFINE n == bs_made + 1
  <2>1. n \in S!Gens /\ bs_made' = n /\ bs_tracker' = n
    BY <1>10 DEF S!recover_token_tracker, S!replace_token_tracker
  <2>2. n > bs_made /\ bs_monitor[n] = "none"
    BY <2>1
  <2>3. bs_tokens' \in [S!Gens -> SUBSET Tracked]
    BY <1>10, <2>1 DEF S!recover_token_tracker, S!replace_token_tracker
  <2>4. UNCHANGED <<bs_auto, bs_manager, bs_lock, bs_monitor, bs_risk, bs_listener, bs_queue>>
    BY <1>10 DEF S!recover_token_tracker
  <2>5. QED
    BY <2>1, <2>2, <2>3, <2>4
<1>11. CASE S!recover_trade_manager
  BY <1>11 DEF S!recover_trade_manager
<1>12. QED
  BY <1>1, <1>2, <1>3, <1>4, <1>5, <1>6, <1>7, <1>8, <1>9, <1>10, <1>11 DEF S!Next

(***************************************************************************)
(* The token tracker.                                                      *)
(***************************************************************************)
(* A map from some of the tokens to moments, given point by point.          *)
LEMMA EntriesMade ==
  ASSUME NEW D \in SUBSET Followed, NEW e, e = [t \in D |-> e[t]], \A t \in D : e[t] \in 0 .. MaxNow
  PROVE  e \in K!Entries
<1>1. e \in [D -> 0 .. MaxNow]
  OBVIOUS
<1>2. QED
  BY <1>1 DEF K!Entries

LEMMA EntriesRead ==
  ASSUME K!TypeOK
  PROVE  /\ tk_now \in 0 .. MaxNow
         /\ K!tracked \in SUBSET Followed
         /\ \A t \in K!tracked : tk_entries[t] \in 0 .. MaxNow
BY DEF K!TypeOK, K!Entries, K!tracked

(* The tracker counts as everybody does. *)
LEMMA TrackerCounts == \A set : K!Cardinality(set) = Cardinality(set)
BY DEF K!Cardinality, K!IsFiniteSet, Cardinality, IsFiniteSet

LEMMA TrackerInit == K!Init => K!TypeOK
<1> SUFFICES ASSUME K!Init PROVE K!TypeOK
  OBVIOUS
<1>1. [t \in {} |-> 0] \in [{} -> 0 .. MaxNow]
  OBVIOUS
<1>2. [t \in {} |-> 0] \in K!Entries
  BY <1>1 DEF K!Entries
<1>3. K!noTasks \in [Followed -> {"none", "queued", "fetching", "ok", "failed"}]
  BY DEF K!noTasks
<1>4. tk_now = 0 /\ tk_entries = [t \in {} |-> 0] /\ tk_batch = FALSE /\ tk_task = K!noTasks
  BY DEF K!Init
<1>5. 0 \in 0 .. MaxNow
  BY BotNumbers
<1>6. QED
  BY <1>2, <1>3, <1>4, <1>5 DEF K!TypeOK

LEMMA TrackerStep == K!TypeOK /\ [K!Next]_trackerVars => K!TypeOK'
<1> SUFFICES ASSUME K!TypeOK, [K!Next]_trackerVars
             PROVE  K!TypeOK'
  OBVIOUS
<1>1. /\ tk_now \in 0 .. MaxNow
      /\ K!tracked \in SUBSET Followed
      /\ \A t \in K!tracked : tk_entries[t] \in 0 .. MaxNow
  BY EntriesRead
<1>2. ASSUME NEW gone
      PROVE  K!without(gone) \in K!Entries
  <2> DEFINE D == K!tracked \ gone
             e == [t \in D |-> tk_entries[t]]
  <2>1. D \in SUBSET Followed /\ e = [t \in D |-> e[t]] /\ \A t \in D : e[t] \in 0 .. MaxNow
    BY <1>1
  <2> HIDE DEF D, e
  <2>2. e \in K!Entries
    BY <2>1, EntriesMade
  <2>3. QED
    BY <2>2 DEF e, D, K!without
<1>3. ASSUME NEW u \in Followed
      PROVE  K!insert(u) \in K!Entries
  <2> DEFINE D == K!tracked \cup {u}
             e == [t \in D |-> IF t = u THEN tk_now ELSE tk_entries[t]]
  <2>1. D \in SUBSET Followed /\ e = [t \in D |-> e[t]] /\ \A t \in D : e[t] \in 0 .. MaxNow
    BY <1>1
  <2> HIDE DEF D, e
  <2>2. e \in K!Entries
    BY <2>1, EntriesMade
  <2>3. QED
    BY <2>2 DEF e, D, K!insert
<1>4. CASE UNCHANGED trackerVars
  BY <1>4 DEF trackerVars, K!TypeOK
<1>5. CASE K!tick
  BY <1>5, BotNumbers DEF K!tick, K!TypeOK
<1>6. CASE K!add_token \/ K!remove_token \/ K!clear \/ K!cleanup_cache \/ K!update_token_status
  <2>1. tk_entries' \in K!Entries
    BY <1>6, <1>2, <1>3 DEF K!add_token, K!remove_token, K!clear, K!cleanup_cache, K!update_token_status
  <2>2. UNCHANGED <<tk_now, tk_batch, tk_task>>
    BY <1>6 DEF K!add_token, K!remove_token, K!clear, K!cleanup_cache, K!update_token_status, K!outside
  <2>3. QED
    BY <2>1, <2>2 DEF K!TypeOK
<1>7. CASE K!update_token_prices
  <2>1. PICK priced \in SUBSET K!tracked :
          tk_entries' = [t \in K!tracked |-> IF t \in priced THEN tk_now ELSE tk_entries[t]]
    BY <1>7 DEF K!update_token_prices
  <2> DEFINE D == K!tracked
             e == [t \in D |-> IF t \in priced THEN tk_now ELSE tk_entries[t]]
  <2>2. D \in SUBSET Followed /\ e = [t \in D |-> e[t]] /\ \A t \in D : e[t] \in 0 .. MaxNow
    BY <1>1
  <2> HIDE DEF D, e
  <2>3. e \in K!Entries
    BY <2>2, EntriesMade
  <2>4. tk_entries' \in K!Entries
    BY <2>1, <2>3 DEF e, D
  <2>5. QED
    BY <1>7, <2>4 DEF K!update_token_prices, K!outside, K!TypeOK
<1>8. CASE K!update_all_tokens
  BY <1>8 DEF K!update_all_tokens, K!TypeOK
<1>9. CASE K!acquire \/ K!get_token_status_with_adapter
  BY <1>9 DEF K!acquire, K!get_token_status_with_adapter, K!TypeOK
<1>10. CASE K!join_next
  BY <1>10, <1>3 DEF K!join_next, K!TypeOK
<1>11. CASE K!finish_batch
  <2>1. tk_entries' \in K!Entries
    BY <1>11, <1>2 DEF K!finish_batch, K!shrink
  <2>2. QED
    BY <1>11, <2>1 DEF K!finish_batch, K!noTasks, K!TypeOK
<1>12. QED
  BY <1>4, <1>5, <1>6, <1>7, <1>8, <1>9, <1>10, <1>11 DEF K!Next

(* The map of the tracker is finite, for it grows by one token at a time.   *)
TrackedFinite == IsFiniteSet(DOMAIN tk_entries)

LEMMA TrackerFinite == TrackedFinite /\ [K!Next]_trackerVars => TrackedFinite'
<1> SUFFICES ASSUME TrackedFinite, [K!Next]_trackerVars
             PROVE  TrackedFinite'
  OBVIOUS
<1> USE DEF TrackedFinite
<1>1. \A gone : IsFiniteSet(DOMAIN K!without(gone))
  <2>1. ASSUME NEW gone PROVE IsFiniteSet(K!tracked \ gone)
    BY FS_Subset DEF K!tracked
  <2>2. QED
    BY <2>1 DEF K!without
<1>2. \A t : IsFiniteSet(DOMAIN K!insert(t))
  <2>1. ASSUME NEW t PROVE IsFiniteSet(K!tracked \cup {t})
    BY FS_AddElement DEF K!tracked
  <2>2. QED
    BY <2>1 DEF K!insert
<1>3. CASE UNCHANGED tk_entries
  BY <1>3
<1>4. CASE K!add_token \/ K!remove_token \/ K!clear \/ K!cleanup_cache \/ K!update_token_status
  <2>1. (\E t : tk_entries' = K!insert(t)) \/ (\E gone : tk_entries' = K!without(gone))
    BY <1>4 DEF K!add_token, K!remove_token, K!clear, K!cleanup_cache, K!update_token_status
  <2>2. QED
    BY <1>1, <1>2, <2>1
<1>5. CASE K!update_token_prices
  <2>1. DOMAIN tk_entries' = DOMAIN tk_entries
    BY <1>5 DEF K!update_token_prices, K!tracked
  <2>2. QED
    BY <2>1
<1>6. CASE K!join_next
  <2>1. UNCHANGED tk_entries \/ \E t : tk_entries' = K!insert(t)
    BY <1>6 DEF K!join_next
  <2>2. QED
    BY <1>2, <2>1
<1>7. CASE K!finish_batch
  <2>1. \E gone : tk_entries' = K!without(gone)
    BY <1>7 DEF K!finish_batch, K!shrink
  <2>2. QED
    BY <1>1, <2>1
<1>8. CASE K!tick \/ K!update_all_tokens \/ K!acquire \/ K!get_token_status_with_adapter
  BY <1>8 DEF K!tick, K!update_all_tokens, K!acquire, K!get_token_status_with_adapter
<1>9. QED
  BY <1>3, <1>4, <1>5, <1>6, <1>7, <1>8 DEF K!Next, trackerVars

(* The end of a batch drops what is too old and then the oldest, until the  *)
(* map is within its bound.                                                 *)
LEMMA BatchShrinks ==
  ASSUME K!TypeOK, TrackedFinite, K!finish_batch
  PROVE  /\ \A r \in K!tracked \ DOMAIN tk_entries', k \in DOMAIN tk_entries' : tk_entries[r] <= tk_entries[k]
         /\ Cardinality(DOMAIN tk_entries') <= MaxTokens
<1> DEFINE old == K!cleanup_old_tokens
           kept == K!tracked \ old
<1>0. /\ tk_now \in Int /\ \A t \in K!tracked : tk_entries[t] \in Int
      /\ old \subseteq K!tracked
  BY EntriesRead, BotNumbers DEF K!cleanup_old_tokens
<1>1. PICK gone \in K!reduce_cache_size(kept) : tk_entries' = K!without(old \cup gone)
  BY DEF K!finish_batch, K!shrink
<1>2. DOMAIN tk_entries' = kept \ gone
  BY <1>1 DEF K!without
<1>3. /\ gone \in SUBSET kept /\ K!oldest(gone, kept)
      /\ Cardinality(gone) = IF Cardinality(kept) > MaxTokens THEN Cardinality(kept) - MaxTokens ELSE 0
  BY <1>1, TrackerCounts DEF K!reduce_cache_size
<1>4. \A r \in old, k \in kept : tk_entries[r] <= tk_entries[k]
  BY <1>0, BotNumbers DEF K!cleanup_old_tokens
<1>5. \A r \in gone, k \in kept \ gone : tk_entries[r] <= tk_entries[k]
  BY <1>3 DEF K!oldest
<1>6. IsFiniteSet(kept)
  BY FS_Subset DEF TrackedFinite, K!tracked
<1>7. Cardinality(kept \ gone) <= MaxTokens
  <2> HIDE DEF kept
  <2>1. gone = kept \cap gone
    BY <1>3
  <2>2. Cardinality(kept \ gone) = Cardinality(kept) - Cardinality(gone)
    BY <1>6, <2>1, FS_Difference
  <2>3. Cardinality(kept) \in Nat
    BY <1>6, FS_CardinalityType
  <2>4. QED
    BY <1>3, <2>2, <2>3, BotNumbers
<1>8. QED
  BY <1>0, <1>2, <1>3, <1>4, <1>5, <1>7

(***************************************************************************)
(* The tuner.  A level from 1 to 10 is the one last named.                 *)
(***************************************************************************)
TunerInv ==
  /\ A!TypeOK /\ A!ConfigFollowsLevel
  /\ at_level \in 1 .. 10 => at_named = at_level

(* The tuner counts as everybody does. *)
LEMMA SameCardinality == \A set : A!Cardinality(set) = Cardinality(set)
BY DEF A!Cardinality, A!IsFiniteSet, Cardinality, IsFiniteSet

(* The smaller and the larger of two integers. *)
LEMMA MinOfTwo ==
  ASSUME NEW i \in Int, NEW j \in Int
  PROVE  Min({i, j}) \in Int /\ Min({i, j}) = IF i <= j THEN i ELSE j
BY DEF Min

LEMMA MaxOfTwo ==
  ASSUME NEW i \in Int, NEW j \in Int
  PROVE  Max({i, j}) \in Int /\ Max({i, j}) = IF i >= j THEN i ELSE j
BY DEF Max

(* The performance of a list of results is a number. *)
LEMMA PerformanceType ==
  ASSUME NEW results \in Seq(Int), NEW level \in Nat
  PROVE  A!analyze_current_performance(results, level) \in Int
<1> DEFINE won == A!successful(results)
           total == SumFunctionOnSet(results, won)
           count == Cardinality(won)
<1>1. won \subseteq 1 .. Len(results) /\ \A i \in won : results[i] \in Int
  BY DEF A!successful
<1>2. IsFiniteSet(won)
  BY <1>1, FS_Interval, FS_Subset
<1>3. count \in Nat /\ (won # {} => count # 0)
  BY <1>2, FS_CardinalityType, FS_EmptySet
<1>4. total \in Int
  BY <1>1, <1>2, SumType
<1>5. A!analyze_current_performance(results, level) = IF won = {} THEN 0 ELSE ((total \div count) * (10 + level)) \div 10
  BY SameCardinality DEF A!analyze_current_performance, A!SumFunctionOnSet, A!FoldFunctionOnSet, A!MapThenFoldSet,
     SumFunctionOnSet, FoldFunctionOnSet, MapThenFoldSet
<1> HIDE DEF won, total, count
<1>6. won # {} => total \div count \in Int
  BY <1>3, <1>4
<1>7. \A q \in Int : (q * (10 + level)) \div 10 \in Int
  OBVIOUS
<1>8. QED
  BY <1>5, <1>6, <1>7

(* What tuning writes stays a natural number. *)
LEMMA AdjustedType ==
  ASSUME A!TypeOK, NEW performance \in Int, NEW refused \in BOOLEAN
  PROVE  LET adjusted == A!adjust_parameters(performance, refused)
         IN  adjusted.threshold \in Nat /\ adjusted.sims \in Nat
<1> DEFINE least == Min({performance, 100})
           most == Min({150, (50 * least) \div 100})
           step == Max({10, most})
           scaled == Min({95, (at_threshold * (1000 + step) + 999) \div 1000})
           percent == IF performance > 80 THEN 90 ELSE IF performance < 30 THEN 120 ELSE 100
           sized == Min({10000, (at_sims * percent) \div 100})
<1>0. at_threshold \in Nat /\ at_sims \in Nat
  BY DEF A!TypeOK
<1>1. least \in Int
  BY MinOfTwo
<1>2. most \in Int
  <2> HIDE DEF least
  <2>1. (50 * least) \div 100 \in Int
    BY <1>1
  <2>2. QED
    BY <2>1, MinOfTwo
<1>3. step \in Int
  <2> HIDE DEF most
  <2>1. QED
    BY <1>2, MaxOfTwo
<1>4. scaled \in Int
  <2> HIDE DEF step
  <2>1. at_threshold * (1000 + step) \in Int
    BY <1>0, <1>3
  <2>2. (at_threshold * (1000 + step) + 999) \div 1000 \in Int
    BY <2>1
  <2>3. QED
    BY <2>2, MinOfTwo
<1>5. A!new_threshold(performance) \in Nat
  <2>1. A!new_threshold(performance) = Max({50, scaled})
    BY DEF A!new_threshold, A!Min, A!Max, Min, Max
  <2> HIDE DEF scaled
  <2>2. QED
    BY <1>4, <2>1, MaxOfTwo
<1>6. sized \in Int
  <2>1. percent \in Nat
    OBVIOUS
  <2> HIDE DEF percent
  <2>2. at_sims * percent \in Int
    BY <1>0, <2>1
  <2>3. (at_sims * percent) \div 100 \in Int
    BY <2>2
  <2>4. QED
    BY <2>3, MinOfTwo
<1>7. A!new_sims(performance) \in Nat
  <2>1. A!new_sims(performance) = Max({1000, sized})
    BY DEF A!new_sims, A!Min, A!Max, Min, Max
  <2> HIDE DEF sized
  <2>2. QED
    BY <1>6, <2>1, MaxOfTwo
<1>8. QED
  BY <1>0, <1>5, <1>7 DEF A!adjust_parameters

(* The row of a level counts the bounds it exceeds. *)
LEMMA RowCounts ==
  ASSUME NEW level \in Int, NEW config
  PROVE  A!row(level, config) = IF level \in 1 .. 10 THEN 1 + Cardinality({b \in {3, 6, 8} : level > b}) ELSE config
<1> DEFINE below == {b \in {3, 6, 8} : level > b}
<1>0. /\ Cardinality({}) = 0 /\ Cardinality({3}) = 1
      /\ Cardinality({3, 6}) = 2 /\ Cardinality({3, 6, 8}) = 3
  <2>1. Cardinality({}) = 0 /\ IsFiniteSet({})
    BY FS_EmptySet
  <2>2. Cardinality({3}) = 1 /\ IsFiniteSet({3})
    BY FS_Singleton
  <2>3. Cardinality({3} \cup {6}) = 2 /\ IsFiniteSet({3} \cup {6})
    BY <2>2, FS_AddElement
  <2>4. Cardinality(({3} \cup {6}) \cup {8}) = 3
    BY <2>3, FS_AddElement
  <2>5. {3} \cup {6} = {3, 6} /\ ({3} \cup {6}) \cup {8} = {3, 6, 8}
    OBVIOUS
  <2>6. QED
    BY <2>1, <2>2, <2>3, <2>4, <2>5
<1>1. CASE level \in 1 .. 3
  <2>1. below = {}
    BY <1>1
  <2>2. QED
    BY <1>0, <1>1, <2>1 DEF A!row
<1>2. CASE level \in 4 .. 6
  <2>1. below = {3}
    BY <1>2
  <2>2. QED
    BY <1>0, <1>2, <2>1 DEF A!row
<1>3. CASE level \in 7 .. 8
  <2>1. below = {3, 6}
    BY <1>3
  <2>2. QED
    BY <1>0, <1>3, <2>1 DEF A!row
<1>4. CASE level \in 9 .. 10
  <2>1. below = {3, 6, 8}
    BY <1>4
  <2>2. QED
    BY <1>0, <1>4, <2>1 DEF A!row
<1>5. CASE level \notin 1 .. 10
  BY <1>5 DEF A!row
<1>6. QED
  BY <1>1, <1>2, <1>3, <1>4, <1>5

(* The estimate of the congestion is between 0 and 10. *)
LEMMA EstimateType ==
  ASSUME NEW average \in Nat, NEW gas \in Nat, NEW retry \in Nat
  PROVE  A!estimate_congestion_level(average, gas, retry) \in 0 .. 10
<1> DEFINE capped == Min({average, 30})
           block == IF average > 10 THEN ((capped - 10) * 5) \div 10 ELSE 0
<1>1. A!estimate_congestion_level(average, gas, retry) = Min({10, block + gas + retry})
  BY DEF A!estimate_congestion_level, A!Min, Min
<1>2. capped \in Int /\ (average > 10 => capped > 10)
  BY MinOfTwo
<1> HIDE DEF capped
<1>3. block \in Nat
  BY <1>2
<1> HIDE DEF block
<1>4. QED
  BY <1>1, <1>3, MinOfTwo

LEMMA TunerInit == A!Init => TunerInv
<1> SUFFICES ASSUME A!Init PROVE TunerInv
  OBVIOUS
<1> USE DEF A!Init, A!new
<1>1. at_results \in Seq(Profits \cup {A!Failed}) /\ Len(at_results) <= MaxHistory
  BY BotNumbers
<1>2. at_stats \in [total : Nat, successful : Nat, failed : Nat]
  OBVIOUS
<1>3. at_started \in BOOLEAN /\ at_block \in BOOLEAN /\ at_due \in BOOLEAN
  OBVIOUS
<1>4. at_average \in Nat /\ at_threshold \in Nat /\ at_sims \in Nat
  OBVIOUS
<1>5. at_level \in 0 .. 10 \cup {50} /\ at_named \in 0 .. 10 /\ at_config \in 0 .. 4
  OBVIOUS
<1>6. A!TypeOK
  BY <1>1, <1>2, <1>3, <1>4, <1>5 DEF A!TypeOK
<1>7. QED
  BY <1>6 DEF TunerInv, A!ConfigFollowsLevel

(* Tuning keeps its own types and touches nothing else. *)
LEMMA AdjustStep ==
  ASSUME A!TypeOK, NEW results \in Seq(Int), NEW level \in Nat, A!analyze_and_adjust(results, level)
  PROVE  /\ at_due' \in BOOLEAN /\ at_threshold' \in Nat /\ at_sims' \in Nat
         /\ at_stats' \in [total : Nat, successful : Nat, failed : Nat]
<1> DEFINE performance == A!analyze_current_performance(results, level)
<1>0. performance \in Int
  BY PerformanceType
<1>1. CASE UNCHANGED A!tuningVars
  BY <1>1 DEF A!tuningVars, A!TypeOK
<1>2. CASE ~(UNCHANGED A!tuningVars)
  <2>1. PICK refused \in BOOLEAN :
          LET adjusted == A!adjust_parameters(performance, refused) IN
            /\ at_threshold' = adjusted.threshold /\ at_sims' = adjusted.sims
            /\ at_stats' = [total |-> at_stats.total + 1,
                            successful |-> at_stats.successful + (IF adjusted.ok THEN 1 ELSE 0),
                            failed |-> at_stats.failed + (IF adjusted.ok THEN 0 ELSE 1)]
            /\ at_due' = FALSE
    BY <1>2 DEF A!analyze_and_adjust
  <2> HIDE DEF performance
  <2>2. at_threshold' \in Nat /\ at_sims' \in Nat
    BY <1>0, <2>1, AdjustedType
  <2>3. at_stats' \in [total : Nat, successful : Nat, failed : Nat]
    BY <2>1 DEF A!TypeOK
  <2>4. QED
    BY <2>1, <2>2, <2>3
<1>3. QED
  BY <1>1, <1>2

LEMMA TunerStep == TunerInv /\ [A!Next]_tunerVars => TunerInv'
<1> SUFFICES ASSUME TunerInv, [A!Next]_tunerVars
             PROVE  TunerInv'
  OBVIOUS
<1> DEFINE Result == Profits \cup {A!Failed}
<1>0. /\ A!TypeOK /\ at_results \in Seq(Result) /\ Len(at_results) <= MaxHistory
      /\ at_level \in Nat /\ Result \subseteq Int
  BY BotNumbers DEF TunerInv, A!TypeOK, A!Failed
<1>1. \A results \in Seq(Result) : results \in Seq(Int)
  BY <1>0
<1>2. CASE UNCHANGED tunerVars
  BY <1>2 DEF tunerVars, TunerInv, A!TypeOK, A!ConfigFollowsLevel
<1>3. CASE A!report_trade_result
  <2>1. PICK p \in Result :
          at_results' = IF Len(Append(at_results, p)) > MaxHistory THEN Tail(Append(at_results, p)) ELSE Append(at_results, p)
    BY <1>3 DEF A!report_trade_result
  <2>2. at_results' \in Seq(Result) /\ Len(at_results') <= MaxHistory
    <3> HIDE DEF Result
    <3> DEFINE longer == Append(at_results, p)
    <3>1. longer \in Seq(Result) /\ Len(longer) = Len(at_results) + 1 /\ longer # <<>>
      BY <1>0
    <3> HIDE DEF longer
    <3>2. Tail(longer) \in Seq(Result) /\ Len(Tail(longer)) = Len(longer) - 1
      BY <3>1
    <3>3. QED
      BY <1>0, <2>1, <3>1, <3>2, BotNumbers DEF longer
  <2>3. /\ at_due' \in BOOLEAN /\ at_threshold' \in Nat /\ at_sims' \in Nat
        /\ at_stats' \in [total : Nat, successful : Nat, failed : Nat]
    <3>1. CASE A!analyze_and_adjust(at_results', at_level)
      BY <1>0, <1>1, <2>2, <3>1, AdjustStep
    <3>2. CASE UNCHANGED A!tuningVars
      BY <1>0, <3>2 DEF A!tuningVars, A!TypeOK
    <3>3. QED
      BY <1>3, <3>1, <3>2 DEF A!report_trade_result
  <2>4. UNCHANGED <<at_started, at_block, at_average, at_level, at_config, at_named>>
    BY <1>3 DEF A!report_trade_result, A!networkVars
  <2>5. QED
    BY <1>0, <2>2, <2>3, <2>4 DEF TunerInv, A!TypeOK, A!ConfigFollowsLevel
<1>4. CASE A!start
  BY <1>4 DEF A!start, A!networkVars, A!tuningVars, TunerInv, A!TypeOK, A!ConfigFollowsLevel
<1>5. CASE A!check
  <2>1. A!check_network_conditions /\ at_config' = A!row(at_level', at_config) /\ UNCHANGED <<at_started, at_results>>
    BY <1>5 DEF A!check, A!adjust_retry_config
  <2>2. at_block' \in BOOLEAN
    BY <1>0, <2>1 DEF A!check_network_conditions, A!TypeOK
  <2>3. /\ at_average' \in Nat /\ at_level' \in 0 .. 10 \cup {50} /\ at_named' \in 0 .. 10
        /\ at_level' \in 1 .. 10 => at_named' = at_level'
        /\ at_level' \notin 1 .. 10 => at_named' = at_named
    <3>1. CASE UNCHANGED <<at_average, at_level, at_named>>
      BY <1>0, <3>1 DEF TunerInv, A!TypeOK
    <3>2. CASE ~(UNCHANGED <<at_average, at_level, at_named>>)
      <4>1. PICK t \in BlockTimes \cup {0}, gas \in GasFactors, retry \in RetryFactors :
              /\ at_average' = (at_average * 9 + t) \div 10
              /\ at_level' = A!estimate_congestion_level(at_average', gas, retry)
              /\ at_named' = IF at_level' \in 1 .. 10 THEN at_level' ELSE at_named
        BY <2>1, <3>2 DEF A!check_network_conditions
      <4>2. at_average' \in Nat
        BY <1>0, <4>1, BotNumbers DEF A!TypeOK
      <4>3. at_level' \in 0 .. 10
        BY <4>1, <4>2, BotNumbers, EstimateType
      <4>4. QED
        BY <1>0, <4>1, <4>2, <4>3 DEF A!TypeOK
    <3>3. QED
      BY <3>1, <3>2
  <2>4. at_config' = IF at_level' \in 1 .. 10 THEN 1 + Cardinality({b \in {3, 6, 8} : at_level' > b}) ELSE at_config
    BY <2>1, <2>3, RowCounts
  <2>5. at_config' \in 0 .. 4
    BY <1>0, <2>1, <2>3 DEF A!row, A!TypeOK
  <2>6. at_config' = IF at_named' = 0 THEN 0 ELSE 1 + Cardinality({b \in {3, 6, 8} : at_named' > b})
    <3>1. at_config = IF at_named = 0 THEN 0 ELSE 1 + Cardinality({b \in {3, 6, 8} : at_named > b})
      BY SameCardinality DEF TunerInv, A!ConfigFollowsLevel
    <3>2. CASE at_level' \in 1 .. 10
      BY <2>3, <2>4, <3>2
    <3>3. CASE at_level' \notin 1 .. 10
      BY <2>3, <2>4, <3>1, <3>3
    <3>4. QED
      BY <3>2, <3>3
  <2>7. A!ConfigFollowsLevel'
    BY <2>6, SameCardinality DEF A!ConfigFollowsLevel
  <2>8. /\ at_due' \in BOOLEAN /\ at_threshold' \in Nat /\ at_sims' \in Nat
        /\ at_stats' \in [total : Nat, successful : Nat, failed : Nat]
    <3>1. A!analyze_and_adjust(at_results, at_level')
      BY <1>5 DEF A!check
    <3>2. at_level' \in Nat
      BY <2>3
    <3>3. QED
      BY <1>0, <1>1, <3>1, <3>2, AdjustStep
  <2>9. QED
    BY <1>0, <2>1, <2>2, <2>3, <2>5, <2>7, <2>8 DEF TunerInv, A!TypeOK
<1>6. CASE A!interval_passes
  BY <1>6 DEF A!interval_passes, A!networkVars, TunerInv, A!TypeOK, A!ConfigFollowsLevel
<1>7. QED
  BY <1>2, <1>3, <1>4, <1>5, <1>6 DEF A!Next

(***************************************************************************)
(* The gas game.                                                           *)
(***************************************************************************)
GameInv == N!TypeOK /\ N!LevelFromCompleteUpdate

LEMMA CongestionRange ==
  ASSUME NEW n \in Nat
  PROVE  N!congestion(n) \in 1 .. 10
<1>1. N!congestion(n) = Max({1, Min({10, n})})
  BY DEF N!congestion, N!Min, N!Max, Min, Max
<1>2. Min({10, n}) \in Int /\ Min({10, n}) <= 10
  BY MinOfTwo
<1>3. QED
  BY <1>1, <1>2, MaxOfTwo

LEMMA GameInit == N!Init => GameInv
<1> SUFFICES ASSUME N!Init PROVE GameInv
  OBVIOUS
<1> USE DEF N!Init, N!new
<1>1. gg_pending \in {0} \cup PendingCounts /\ gg_level \in 1 .. 10 /\ gg_sampled \in {N!Unsampled} \cup PendingCounts
  OBVIOUS
<1>2. gg_task \in [Seen -> {"none", "queued", "sending", "done"}]
  OBVIOUS
<1>3. QED
  BY <1>1, <1>2 DEF GameInv, N!TypeOK, N!LevelFromCompleteUpdate

LEMMA GameStep == GameInv /\ [N!Next]_gameVars => GameInv'
<1> SUFFICES ASSUME GameInv, [N!Next]_gameVars
             PROVE  GameInv'
  OBVIOUS
<1> USE DEF GameInv, N!TypeOK, N!LevelFromCompleteUpdate
<1>1. CASE UNCHANGED gameVars
  BY <1>1 DEF gameVars
<1>2. CASE N!update_mempool_state
  <2>1. PICK n \in PendingCounts, ok \in BOOLEAN :
          /\ gg_pending' = n
          /\ gg_level' = IF ok THEN N!congestion(n) ELSE gg_level
          /\ gg_sampled' = IF ok THEN n ELSE gg_sampled
    BY <1>2 DEF N!update_mempool_state
  <2>2. n \in Nat /\ n # N!Unsampled /\ N!congestion(n) \in 1 .. 10
    BY BotNumbers, CongestionRange DEF N!Unsampled
  <2>3. UNCHANGED <<gg_known, gg_phase, gg_task, gg_channel, gg_counted>>
    BY <1>2 DEF N!update_mempool_state, N!countVars
  <2>4. QED
    BY <2>1, <2>2, <2>3
<1>3. CASE N!detect_mev_transaction
  BY <1>3 DEF N!detect_mev_transaction, N!countVars
<1>4. CASE N!analyze_competitor_activity
  BY <1>4 DEF N!analyze_competitor_activity, N!memoryVars
<1>5. CASE N!acquire
  BY <1>5 DEF N!acquire, N!memoryVars
<1>6. CASE N!send
  BY <1>6 DEF N!send, N!memoryVars
<1>7. CASE N!join_all
  BY <1>7 DEF N!join_all, N!memoryVars
<1>8. CASE N!recv
  BY <1>8 DEF N!recv, N!memoryVars
<1>9. CASE N!all_received
  BY <1>9 DEF N!all_received, N!memoryVars
<1>10. QED
  BY <1>1, <1>2, <1>3, <1>4, <1>5, <1>6, <1>7, <1>8, <1>9 DEF N!Next

(* The multiplier is limited before and after it is scaled.                 *)
LEMMA LimitedRange ==
  ASSUME NEW m \in 115 .. 160, NEW level \in 1 .. 10
  PROVE  /\ N!limited(m, level) \in Int
         /\ N!limited(m, level) <= MaxMultiplier
         /\ MaxMultiplier >= 109 => N!limited(m, level) >= 100
<1> DEFINE least == Min({m, MaxMultiplier})
           scaled == (least * (50 + level - 5)) \div 50
<1>1. N!limited(m, level) = Min({scaled, MaxMultiplier})
  BY DEF N!limited, N!Min, Min
<1>2. least \in Int /\ (MaxMultiplier >= 109 => least >= 109)
  BY BotNumbers, MinOfTwo
<1> HIDE DEF least
<1>3. ASSUME NEW k \in 46 .. 55
      PROVE  (least * k) \div 50 \in Int /\ (MaxMultiplier >= 109 => (least * k) \div 50 >= 100)
  <2>1. least * k \in Int
    BY <1>2
  <2>2. MaxMultiplier >= 109 => least * k >= 109 * 46
    BY <1>2
  <2>3. \A x \in Int : x \div 50 \in Int /\ (x >= 5014 => x \div 50 >= 100)
    OBVIOUS
  <2>4. QED
    BY <2>1, <2>2, <2>3
<1>4. scaled \in Int /\ (MaxMultiplier >= 109 => scaled >= 100)
  <2>1. 50 + level - 5 \in 46 .. 55
    OBVIOUS
  <2>2. QED
    BY <1>3, <2>1
<1> HIDE DEF scaled
<1>5. QED
  BY <1>1, <1>4, BotNumbers, MinOfTwo

(* What is bid stays within the limit. *)
LEMMA BidsLimited == GameInv => N!BidWithinLimit
<1> SUFFICES ASSUME GameInv, NEW s \in SUBSET Seen, s # {}, NEW players \in [s -> N!Strategies]
             PROVE  LET bid == N!calculate_nash_equilibrium_gas(players, gg_level, 100)
                    IN  bid <= MaxMultiplier /\ (MaxMultiplier >= 109 => bid >= 100)
  BY DEF N!BidWithinLimit
<1>1. gg_level \in 1 .. 10
  BY DEF GameInv, N!TypeOK
<1>2. N!optimal_multiplier(players) \in {115, 120, 130, 150, 160}
  BY DEF N!optimal_multiplier
<1> DEFINE l == N!limited(N!optimal_multiplier(players), gg_level)
<1>3. N!calculate_nash_equilibrium_gas(players, gg_level, 100) = (100 * l) \div 100
  BY DEF N!calculate_nash_equilibrium_gas
<1>4. l \in Int /\ l <= MaxMultiplier /\ (MaxMultiplier >= 109 => l >= 100)
  BY <1>1, <1>2, LimitedRange
<1> HIDE DEF l
<1>5. (100 * l) \div 100 = l
  BY <1>4
<1>6. QED
  BY <1>3, <1>4, <1>5

(* Whatever is accepted is the best of those that qualify. *)
LEMMA BestIsAccepted == GameInv => N!AcceptedIsBestQualified
<1> SUFFICES ASSUME GameInv,
                    NEW results \in [{"moderate", "extreme"} ->
                      [probability : {N!simulate_frontrun_strategy(o) : o \in {70, 100}}, profit : {1, 5}]],
                    NEW risk \in N!RiskLevels,
                    NEW s \in N!run_monte_carlo_simulation(results, risk)
             PROVE  /\ N!should_frontrun(results[s], risk, 5) =>
                         \A t \in DOMAIN results : results[t].probability >= N!min_success_probability(risk) =>
                            results[s].profit >= results[t].profit
                    /\ (\A t \in DOMAIN results : results[t].probability < N!min_success_probability(risk)) =>
                         \A t \in DOMAIN results : results[s].probability >= results[t].probability
  BY DEF N!AcceptedIsBestQualified
<1> DEFINE bound == N!min_success_probability(risk)
           qualified == {t \in DOMAIN results : results[t].probability >= bound}
<1>1. \A o \in {70, 100} : N!simulate_frontrun_strategy(o) \in Int
  BY DEF N!simulate_frontrun_strategy, GameInv, N!TypeOK
<1>2. \A t \in DOMAIN results : results[t].probability \in Int
  BY <1>1
<1>3. bound \in Int
  BY DEF N!min_success_probability, N!RiskLevels
<1>4. /\ s \in DOMAIN results
      /\ qualified = {} => \A t \in DOMAIN results : results[s].probability >= results[t].probability
      /\ qualified # {} => s \in qualified /\ \A t \in qualified : results[s].profit >= results[t].profit
  BY DEF N!run_monte_carlo_simulation
<1>5. N!should_frontrun(results[s], risk, 5) => results[s].probability >= bound
  BY DEF N!should_frontrun
<1> HIDE DEF bound
<1>6. N!should_frontrun(results[s], risk, 5) =>
        \A t \in DOMAIN results : results[t].probability >= bound => results[s].profit >= results[t].profit
  BY <1>4, <1>5
<1>7. (\A t \in DOMAIN results : results[t].probability < bound) =>
        \A t \in DOMAIN results : results[s].probability >= results[t].probability
  BY <1>2, <1>3, <1>4
<1>8. QED
  BY <1>6, <1>7 DEF bound

(* During a count every task that is through is in the channel or counted;  *)
(* between counts there are no tasks and the channel is empty.              *)
CountInv ==
  /\ gg_phase # "idle" => {x \in Seen : gg_task[x] = "done"} = gg_channel \cup gg_counted
  /\ gg_phase = "idle" => gg_channel = {} /\ \A x \in Seen : gg_task[x] = "none"

LEMMA CountInit == N!Init => CountInv
BY DEF CountInv, N!Init, N!new

LEMMA CountStep == N!TypeOK /\ CountInv /\ [N!Next]_gameVars => CountInv'
<1> SUFFICES ASSUME N!TypeOK, CountInv, [N!Next]_gameVars
             PROVE  CountInv'
  OBVIOUS
<1> USE DEF CountInv, N!TypeOK
<1>1. CASE UNCHANGED <<gg_phase, gg_task, gg_channel, gg_counted>>
  BY <1>1
<1>2. CASE N!analyze_competitor_activity
  BY <1>2 DEF N!analyze_competitor_activity
<1>3. CASE N!acquire
  BY <1>3 DEF N!acquire
<1>4. CASE N!send
  BY <1>4 DEF N!send
<1>5. CASE N!join_all
  BY <1>5 DEF N!join_all
<1>6. CASE N!recv
  BY <1>6 DEF N!recv
<1>7. CASE N!all_received
  BY <1>7 DEF N!all_received
<1>8. CASE N!update_mempool_state \/ N!detect_mev_transaction
  BY <1>8 DEF N!update_mempool_state, N!detect_mev_transaction, N!countVars
<1>9. QED
  BY <1>1, <1>2, <1>3, <1>4, <1>5, <1>6, <1>7, <1>8 DEF N!Next, gameVars

(* A count that ends has counted every task that was started.               *)
LEMMA CountEndsComplete ==
  N!TypeOK /\ CountInv /\ [N!Next]_gameVars =>
    (gg_phase = "draining" /\ gg_phase' = "idle" => gg_counted = {x \in Seen : gg_task[x] # "none"})
<1> SUFFICES ASSUME N!TypeOK, CountInv, [N!Next]_gameVars, gg_phase = "draining", gg_phase' = "idle"
             PROVE  gg_counted = {x \in Seen : gg_task[x] # "none"}
  OBVIOUS
<1>1. N!all_received
  BY DEF N!Next, N!update_mempool_state, N!detect_mev_transaction, N!analyze_competitor_activity, N!acquire, N!send,
         N!join_all, N!recv, N!memoryVars, N!countVars, gameVars
<1>2. {x \in Seen : gg_task[x] = "done"} = gg_counted
  BY <1>1 DEF CountInv, N!all_received
<1>3. \A x \in Seen : gg_task[x] \in {"none", "done"}
  BY <1>1 DEF N!all_received, N!running, N!TypeOK
<1>4. QED
  BY <1>2, <1>3

(***************************************************************************)
(* The bot.                                                                *)
(***************************************************************************)
BotInv ==
  /\ WalletsInv /\ TradingInv /\ ServicesInv
  /\ K!TypeOK /\ TrackedFinite
  /\ TunerInv
  /\ GameInv /\ CountInv

(* Only the end of a batch ends it. *)
LEMMA BatchEnded ==
  ASSUME BotInv, [Next]_vars, tk_batch, ~tk_batch'
  PROVE  /\ \A r \in K!tracked \ DOMAIN tk_entries', k \in DOMAIN tk_entries' : tk_entries[r] <= tk_entries[k]
         /\ Cardinality(DOMAIN tk_entries') <= MaxTokens
<1>1. [K!Next]_trackerVars
  BY DEF Next, vars
<1>2. K!finish_batch
  BY <1>1 DEF K!Next, K!tick, K!add_token, K!remove_token, K!clear, K!cleanup_cache, K!update_token_status,
     K!update_token_prices, K!outside, K!update_all_tokens, K!acquire, K!get_token_status_with_adapter, K!join_next, trackerVars
<1>3. QED
  BY <1>2, BatchShrinks DEF BotInv

LEMMA BotInvariant == Spec => []BotInv
<1>1. Init => BotInv
  <2>1. Init => TrackedFinite
    BY FS_EmptySet DEF Init, K!Init, TrackedFinite
  <2>2. QED
    BY <2>1, WalletsInit, TradingInit, ServicesInit, TrackerInit, TunerInit, GameInit, CountInit DEF Init, BotInv
<1>2. BotInv /\ [Next]_vars => BotInv'
  <2> SUFFICES ASSUME BotInv, [Next]_vars
               PROVE  BotInv'
    OBVIOUS
  <2>1. [W!Next]_walletsVars /\ [T!Next]_tradingVars /\ [S!Next]_servicesVars
    BY DEF Next, vars
  <2>2. [K!Next]_trackerVars /\ [A!Next]_tunerVars /\ [N!Next]_gameVars
    BY DEF Next, vars
  <2>3. QED
    BY <2>1, <2>2, WalletsStep, TradingStep, ServicesStep, TrackerStep, TrackerFinite, TunerStep, GameStep, CountStep
    DEF BotInv, GameInv
<1>3. QED
  BY <1>1, <1>2, PTL DEF Spec

(* The state of every part stays within its types.  For the tracker that    *)
(* includes its map, which has no moment ahead of the clock's bound; for    *)
(* the tuner its threshold and simulations, whatever it was told.           *)
THEOREM BotTypeCorrect == Spec => []TypeOK
<1>1. BotInv => TypeOK
  BY DEF BotInv, WalletsInv, TradingInv, ServicesInv, TunerInv, GameInv, TypeOK
<1>2. QED
  BY <1>1, BotInvariant, PTL

(* The signer is one of the wallets the bot names as current, wallets that  *)
(* were reported as created are in the file, two-leg trades are for paying  *)
(* levels, Free positions are remembered, and no monitor gives up on a      *)
(* tracker in use: whatever mode, level, chain and tracker are changed to,  *)
(* whichever saves fail and whichever locks hang.                           *)
THEOREM BotKeepsPromises == Spec => []PromisesKept
<1>1. BotInv => PromisesKept
  BY DEF BotInv, WalletsInv, TradingInv, ServicesInv, PromisesKept
<1>2. QED
  BY <1>1, BotInvariant, PTL

(* The retry configuration, the congestion level, bids and accepted         *)
(* strategies all belong to one consistent view of the network.             *)
THEOREM BotDecidesConsistently == Spec => []DecisionsConsistent
<1>1. BotInv => DecisionsConsistent
  BY BidsLimited, BestIsAccepted DEF BotInv, TunerInv, GameInv, DecisionsConsistent
<1>2. QED
  BY <1>1, BotInvariant, PTL

(* What a batch of the tracker drops was updated no later than what it      *)
(* keeps, and it leaves the map within its bound, however many tokens are   *)
(* followed and whenever the deadline passes.                               *)
THEOREM BatchDropsOldest == Spec => K!OldestGoFirst /\ K!BoundedAfterBatch
<1>1. BotInv /\ [Next]_vars =>
        [tk_batch /\ ~tk_batch' =>
           \A r \in K!tracked \ DOMAIN tk_entries', k \in DOMAIN tk_entries' : tk_entries[r] <= tk_entries[k]]_(K!vars)
  BY BatchEnded
<1>2. BotInv /\ [Next]_vars =>
        [tk_batch /\ ~tk_batch' => K!Cardinality(DOMAIN tk_entries') <= MaxTokens]_(K!vars)
  BY BatchEnded, TrackerCounts
<1>3. QED
  BY <1>1, <1>2, BotInvariant, PTL DEF Spec, K!OldestGoFirst, K!BoundedAfterBatch

(* A count of competitors ends only when the result of every task has been  *)
(* received, those included that were still waiting for the channel when    *)
(* the time of the join was up.                                             *)
THEOREM CountIsComplete == Spec => N!CountComplete
<1>1. BotInv /\ [Next]_vars =>
        [gg_phase = "draining" /\ gg_phase' = "idle" => gg_counted = {x \in Seen : gg_task[x] # "none"}]_(N!vars)
  <2>1. [Next]_vars => [N!Next]_gameVars
    BY DEF Next, vars
  <2>2. QED
    BY <2>1, CountEndsComplete DEF BotInv, GameInv
<1>2. QED
  BY <1>1, BotInvariant, PTL DEF Spec, N!CountComplete
=============================================================================
