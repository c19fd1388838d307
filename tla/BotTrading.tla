---------------------------- MODULE BotTrading ----------------------------
(***************************************************************************)
(* How a SnipeBot decides and trades (snipebot/src/snipebot.rs): the mode, *)
(* the subscription level with the configuration derived from it, the      *)
(* manual calls, auto_trade, auto_trade_by_safety and the timers of        *)
(* schedule_auto_sell.  A call analyses a token, which takes a while, and  *)
(* then acts on what it saw; buying, protecting the position and selling   *)
(* are separate steps each of which may fail, and timers fire in between.  *)
(* The bot never has a mempool watcher (get_service_tx is None), so lists  *)
(* of large orders are empty.  Prices and amounts are left out.            *)
(***************************************************************************)
EXTENDS Naturals, FiniteSets

CONSTANTS Tokens, Callers, NoConfig

VARIABLES bt_mode,      \* bot_mode
          bt_level,     \* current_user_level
          bt_config,    \* auto_trade_config: the flags that make a difference
          bt_call,      \* bt_call[c]: the call a caller is in
          bt_position,  \* bt_position[t]: how the open position in t was made, if any
          bt_timers,    \* sales scheduled by schedule_auto_sell
          bt_tried,     \* history: tokens whose scheduled sale was tried since the purchase
          bt_advanced   \* history: a two-leg trade was begun for a Free user

vars == <<bt_mode, bt_level, bt_config, bt_call, bt_position, bt_timers, bt_tried, bt_advanced>>

Levels == {"Free", "Premium", "VIP"}
Safety == {"Red", "Yellow", "Green"}
Actions == {"buy", "sell", "tsl", "sandwich"}   \* an emergency sale is a sale
Configs == [two_leg : BOOLEAN, trailing : BOOLEAN]

idle == [pc |-> "idle"]
Calls == {idle}
         \cup [pc : {"auto"}, token : Tokens, seen : Safety, action : Actions]
         \cup [pc : {"by_safety"}, token : Tokens, seen : Safety]
         \cup [pc : {"leg1", "leg2"}, token : Tokens]
         \cup [pc : {"protect"}, token : Tokens, with : {"timer", "tp_sl", "trailing"}]

\* A position is none, or open with the protection it got so far.
Positions == {"none", "bare", "free", "tp_sl", "trailing"}

TypeOK ==
  /\ bt_mode \in {"Manual", "Auto"}
  /\ bt_level \in Levels
  /\ bt_config \in Configs \cup {NoConfig}
  /\ bt_call \in [Callers -> Calls]
  /\ bt_position \in [Tokens -> Positions]
  /\ bt_timers \subseteq Tokens
  /\ bt_tried \subseteq Tokens
  /\ bt_advanced \in BOOLEAN

Init ==
  /\ bt_mode = "Manual" /\ bt_level = "Free" /\ bt_config = NoConfig
  /\ bt_call = [c \in Callers |-> idle]
  /\ bt_position = [t \in Tokens |-> "none"]
  /\ bt_timers = {} /\ bt_tried = {} /\ bt_advanced = FALSE

quiet == \A c \in Callers : bt_call[c] = idle
setVars == <<bt_call, bt_position, bt_timers, bt_tried, bt_advanced>>

(***************************************************************************)
(* Settings; they take &mut self, so no call is under way.                 *)
(***************************************************************************)
switch_mode == quiet /\ \E m \in {"Manual", "Auto"} : bt_mode' = m /\ UNCHANGED <<bt_level, bt_config, setVars>>

default_config == [two_leg |-> TRUE, trailing |-> TRUE]

set_auto_trade_config ==
  /\ quiet /\ bt_config' = default_config
  /\ UNCHANGED <<bt_mode, bt_level, setVars>>

\* The flags a level gets; what the subscription settings decide is left open.
update_auto_trade_config_for_subscription(level) ==
  \E two_leg, trailing \in BOOLEAN :
    bt_config' = [two_leg  |-> level = "VIP" /\ two_leg,
                  trailing |-> CASE level = "Free" -> FALSE
                                 [] level = "Premium" -> TRUE
                                 [] level = "VIP" -> trailing]

set_user_level(level) ==
  /\ bt_level' = level
  /\ update_auto_trade_config_for_subscription(level)

update_user_subscription ==
  /\ quiet /\ \E l \in Levels : set_user_level(l)
  /\ UNCHANGED <<bt_mode, setVars>>

\* A user with an active subscription: the level is theirs, the mode is Auto.
start_auto_trade ==
  /\ quiet /\ \E l \in Levels : set_user_level(l)
  /\ bt_mode' = "Auto"
  /\ UNCHANGED setVars

(***************************************************************************)
(* Trades on the chain (external).  A purchase adds to the position, which *)
(* keeps the protection it had; a sale of everything closes it.            *)
(***************************************************************************)
opened(t, how) == [bt_position EXCEPT ![t] = IF @ = "none" THEN how ELSE @]
sold(t) == [bt_position EXCEPT ![t] = "none"]

idles(c) == bt_call' = [bt_call EXCEPT ![c] = idle]
goes(c, r) == bt_call' = [bt_call EXCEPT ![c] = r]
settings == <<bt_mode, bt_level, bt_config>>

manual_buy ==
  /\ bt_mode = "Manual"
  /\ \E t \in Tokens : bt_position' = opened(t, "bare")
  /\ UNCHANGED <<settings, bt_call, bt_timers, bt_tried, bt_advanced>>

\* Selling up to everything; zero balances and failed approvals end the call.
manual_sell ==
  /\ bt_mode = "Manual"
  /\ \E t \in Tokens : bt_position[t] # "none" /\ bt_position' = sold(t)
  /\ UNCHANGED <<settings, bt_call, bt_timers, bt_tried, bt_advanced>>

(***************************************************************************)
(* auto_trade: analyse, check the reserve, look at the colour, act.        *)
(***************************************************************************)
auto_trade(c) ==
  /\ bt_call[c] = idle
  /\ bt_mode = "Auto"
  /\ \E t \in Tokens, s \in Safety, a \in Actions : goes(c, [pc |-> "auto", token |-> t, seen |-> s, action |-> a])
  /\ UNCHANGED <<settings, bt_position, bt_timers, bt_tried, bt_advanced>>

configured == bt_config # NoConfig

\* With a configuration a purchase needs a large order in the mempool or one
\* to run ahead of, and there are none: only without one does it go through.
auto_buy(c) ==
  /\ bt_call[c].pc = "auto" /\ bt_call[c].action = "buy"
  /\ bt_call[c].seen # "Red" /\ ~configured
  /\ bt_position' = opened(bt_call[c].token, "bare")
  /\ idles(c)
  /\ UNCHANGED <<settings, bt_timers, bt_tried, bt_advanced>>

auto_sell(c) ==
  /\ bt_call[c].pc = "auto" /\ bt_call[c].action = "sell"
  /\ bt_call[c].seen # "Red"
  /\ bt_position' = sold(bt_call[c].token)
  /\ idles(c)
  /\ UNCHANGED <<settings, bt_timers, bt_tried, bt_advanced>>

\* The trailing stop is recorded in the trade manager for tokens held or not.
activate_trailing_stop_loss(t) == bt_position' = [bt_position EXCEPT ![t] = IF @ = "none" THEN @ ELSE "trailing"]

auto_tsl(c) ==
  /\ bt_call[c].pc = "auto" /\ bt_call[c].action = "tsl"
  /\ bt_call[c].seen = "Green" /\ configured /\ bt_config.trailing
  /\ activate_trailing_stop_loss(bt_call[c].token)
  /\ idles(c)
  /\ UNCHANGED <<settings, bt_timers, bt_tried, bt_advanced>>

auto_two_leg(c) ==
  /\ bt_call[c].pc = "auto" /\ bt_call[c].action = "sandwich"
  /\ bt_call[c].seen # "Red" /\ configured /\ bt_config.two_leg
  /\ goes(c, [pc |-> "leg1", token |-> bt_call[c].token])
  /\ UNCHANGED <<settings, bt_position, bt_timers, bt_tried, bt_advanced>>

find_sandwich_opportunity == bt_level # "Free"

\* The first purchase; without an opportunity, or when it fails, the call ends.
two_leg_buy(c) ==
  /\ bt_call[c].pc = "leg1" /\ find_sandwich_opportunity
  /\ bt_position' = opened(bt_call[c].token, "bare")
  /\ bt_advanced' = (bt_advanced \/ bt_level = "Free")
  /\ goes(c, [bt_call[c] EXCEPT !.pc = "leg2"])
  /\ UNCHANGED <<settings, bt_timers, bt_tried>>

two_leg_sell(c) ==
  /\ bt_call[c].pc = "leg2"
  /\ bt_position' = sold(bt_call[c].token)
  /\ idles(c)
  /\ UNCHANGED <<settings, bt_timers, bt_tried, bt_advanced>>

\* Every refusal and every error returned through ? ends a call here.
call_fails(c) ==
  /\ bt_call[c].pc \in {"auto", "by_safety", "leg1", "leg2"}
  /\ idles(c)
  /\ UNCHANGED <<settings, bt_position, bt_timers, bt_tried, bt_advanced>>

(***************************************************************************)
(* auto_trade_by_safety asks neither for the mode nor for the reserve.     *)
(***************************************************************************)
auto_trade_by_safety(c) ==
  /\ bt_call[c] = idle
  /\ \E t \in Tokens, s \in Safety : goes(c, [pc |-> "by_safety", token |-> t, seen |-> s])
  /\ UNCHANGED <<settings, bt_position, bt_timers, bt_tried, bt_advanced>>

buys(c, how) ==
  /\ bt_call[c].pc = "by_safety" /\ bt_call[c].seen # "Red" /\ configured
  /\ bt_position' = [bt_position EXCEPT ![bt_call[c].token] = how]

\* Free: a small purchase, then the sale is scheduled.
by_safety_free(c) ==
  /\ bt_level = "Free" /\ buys(c, "free")
  /\ bt_tried' = bt_tried \ {bt_call[c].token}
  /\ goes(c, [pc |-> "protect", token |-> bt_call[c].token, with |-> "timer"])
  /\ UNCHANGED <<settings, bt_timers, bt_advanced>>

\* Premium: the AI decides, then take profit and stop loss are set.
by_safety_premium(c) ==
  /\ bt_level = "Premium" /\ buys(c, "bare")
  /\ goes(c, [pc |-> "protect", token |-> bt_call[c].token, with |-> "tp_sl"])
  /\ UNCHANGED <<settings, bt_timers, bt_tried, bt_advanced>>

\* VIP: a purchase with a trailing stop where the configuration has one, a
\* larger one without any when the AI expects a rise, or a two-leg trade.
by_safety_vip(c) ==
  /\ bt_level = "VIP" /\ buys(c, "bare")
  /\ \/ bt_config.trailing /\ goes(c, [pc |-> "protect", token |-> bt_call[c].token, with |-> "trailing"])
     \/ idles(c)
  /\ UNCHANGED <<settings, bt_timers, bt_tried, bt_advanced>>

schedule_auto_sell(t) == bt_timers' = bt_timers \cup {t}

protect(c) ==
  /\ bt_call[c].pc = "protect"
  /\ \/ bt_call[c].with = "timer" /\ schedule_auto_sell(bt_call[c].token) /\ UNCHANGED bt_position
     \/ /\ bt_call[c].with # "timer"
        /\ bt_position' = [bt_position EXCEPT ![bt_call[c].token] = IF @ = "none" THEN @ ELSE bt_call[c].with]
        /\ UNCHANGED bt_timers
  /\ idles(c)
  /\ UNCHANGED <<settings, bt_tried, bt_advanced>>

\* Setting a target or analysing the token once more fails after the purchase:
\* the call returns an error and the position stays as it is.
protect_fails(c) ==
  /\ bt_call[c].pc = "protect" /\ bt_call[c].with # "timer"
  /\ idles(c)
  /\ UNCHANGED <<settings, bt_position, bt_timers, bt_tried, bt_advanced>>

\* The task of schedule_auto_sell wakes up: it sells what is still held, once.
auto_sell_fires ==
  \E t \in bt_timers :
    /\ bt_timers' = bt_timers \ {t}
    /\ bt_tried' = bt_tried \cup {t}
    /\ bt_position' = sold(t) \/ UNCHANGED bt_position
    /\ UNCHANGED <<settings, bt_call, bt_advanced>>

callSteps(c) ==
  \/ auto_buy(c) \/ auto_sell(c) \/ auto_tsl(c) \/ auto_two_leg(c)
  \/ two_leg_buy(c) \/ two_leg_sell(c) \/ call_fails(c)
  \/ by_safety_free(c) \/ by_safety_premium(c) \/ by_safety_vip(c)
  \/ protect(c) \/ protect_fails(c)

Next ==
  \/ switch_mode \/ set_auto_trade_config \/ update_user_subscription \/ start_auto_trade
  \/ manual_buy \/ manual_sell
  \/ \E c \in Callers : auto_trade(c) \/ auto_trade_by_safety(c) \/ callSteps(c)
  \/ auto_sell_fires

\* Spawned tasks run, and calls that have begun go on.
Fairness == WF_vars(auto_sell_fires) /\ \A c \in Callers : WF_vars(callSteps(c))

Spec == Init /\ [][Next]_vars /\ Fairness

(***************************************************************************)
(* Properties.                                                             *)
(***************************************************************************)

\* Two-leg trades are begun for paying levels only, also when the
\* configuration was set directly and allows them to everybody.
AdvancedOnlyForPaying == ~bt_advanced

\* A position bought for a Free user by its colour is never just forgotten: its
\* sale is about to be scheduled, is scheduled, or has been tried.
FreePositionsRemembered ==
  \A t \in Tokens : bt_position[t] = "free" =>
     \/ t \in bt_timers \/ t \in bt_tried
     \/ \E c \in Callers : bt_call[c].pc = "protect" /\ bt_call[c].token = t /\ bt_call[c].with = "timer"

\* Whatever happens to mode and level meanwhile, the scheduled sale of a Free
\* position is tried.
FreePositionsTried ==
  \A t \in Tokens : bt_position[t] = "free" ~> (t \in bt_tried \/ bt_position[t] # "free")
=============================================================================
