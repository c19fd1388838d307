---------------------------- MODULE BotServices ----------------------------
(***************************************************************************)
(* The background services of a SnipeBot (snipebot/src/snipebot.rs): the   *)
(* token tracker and the trade manager behind shared pointers, the monitor *)
(* task that holds only a weak pointer to the tracker it was started for,  *)
(* the task that applies status updates, and the replacement of tracker    *)
(* and manager when they are thought to be deadlocked.  Replacing one of   *)
(* them does not touch the tasks, nor the pointer to the tracker that the  *)
(* trade manager keeps: old trackers live on as long as somebody has them. *)
(* A tracker is named by the order of its creation.  A holder of a lock may*)
(* never return, which is what the recovery is for.                        *)
(***************************************************************************)
EXTENDS Naturals

CONSTANTS Tracked,   \* tokens
          MaxGen,    \* bound on the trackers made
          MaxQueue   \* capacity of the status channel

VARIABLES bs_auto,      \* bot_mode is Auto
          bs_made,      \* trackers made so far
          bs_tracker,   \* token_status_tracker
          bs_manager,   \* the tracker inside trade_manager, 0 for a manager without one
          bs_tokens,    \* bs_tokens[g]: tokens tracker g tracks
          bs_lock,      \* bs_lock[g]: who holds the mutex of tracker g
          bs_monitor,   \* bs_monitor[g]: the task monitoring tracker g
          bs_risk,      \* managers (named by their tracker) whose risk monitoring runs
          bs_listener,  \* tracker captured by the status task, 0 before the receiver is taken
          bs_queue      \* status updates in the channel

vars == <<bs_auto, bs_made, bs_tracker, bs_manager, bs_tokens, bs_lock, bs_monitor, bs_risk, bs_listener, bs_queue>>

Gens == 1 .. MaxGen

TypeOK ==
  /\ bs_auto \in BOOLEAN
  /\ bs_made \in Gens /\ bs_tracker \in 1 .. bs_made
  /\ bs_manager \in 0 .. bs_made /\ bs_listener \in 0 .. bs_made
  /\ bs_tokens \in [Gens -> SUBSET Tracked]
  /\ bs_lock \in [Gens -> {"free", "monitor", "caller"}]
  /\ bs_monitor \in [Gens -> {"none", "sleeping", "updating", "ended"}]
  /\ bs_risk \subseteq Gens
  /\ bs_queue \in 0 .. MaxQueue

\* initialize_components: a tracker, and a manager that has none.
Init ==
  /\ bs_auto = FALSE
  /\ bs_made = 1 /\ bs_tracker = 1 /\ bs_manager = 0
  /\ bs_tokens = [g \in Gens |-> {}]
  /\ bs_lock = [g \in Gens |-> "free"]
  /\ bs_monitor = [g \in Gens |-> "none"]
  /\ bs_risk = {} /\ bs_listener = 0 /\ bs_queue = 0

\* Strong pointers to a tracker: the bot's, the manager's, those of running tasks.
upgrade(g) == g \in {bs_tracker, bs_manager} \/ g \in bs_risk \/ bs_monitor[g] = "updating" \/ bs_lock[g] # "free"

switch_mode ==
  /\ bs_auto' \in BOOLEAN
  /\ UNCHANGED <<bs_made, bs_tracker, bs_manager, bs_tokens, bs_lock, bs_monitor, bs_risk, bs_listener, bs_queue>>

(***************************************************************************)
(* initialize_auto_mode makes a tracker and a manager that share it, starts*)
(* the monitor if the mode is Auto, and takes the receiver if it is there. *)
(***************************************************************************)
start_monitoring_services(g) == bs_monitor' = IF bs_auto THEN [bs_monitor EXCEPT ![g] = "sleeping"] ELSE bs_monitor

\* A plausible slip: the task waits for the next tracker instead of this one.
process_status_updates_next(g) == bs_listener' = IF bs_listener = 0 THEN g + 1 ELSE bs_listener

process_status_updates(g) == bs_listener' = IF bs_listener = 0 THEN g ELSE bs_listener

initialize_auto_mode ==
  /\ bs_made < MaxGen
  /\ bs_made' = bs_made + 1
  /\ bs_tracker' = bs_made' /\ bs_manager' = bs_made'
  /\ start_monitoring_services(bs_made')
  /\ process_status_updates(bs_made')
  /\ UNCHANGED <<bs_auto, bs_tokens, bs_lock, bs_risk, bs_queue>>

(***************************************************************************)
(* Callers that lock the tracker, add a token, and let go - or do not.     *)
(***************************************************************************)
lock_tracker ==
  /\ bs_lock[bs_tracker] = "free"
  /\ bs_lock' = [bs_lock EXCEPT ![bs_tracker] = "caller"]
  /\ UNCHANGED <<bs_auto, bs_made, bs_tracker, bs_manager, bs_tokens, bs_monitor, bs_risk, bs_listener, bs_queue>>

add_token_to_track(g) ==
  /\ bs_lock[g] = "caller"
  /\ \E t \in Tracked : bs_tokens' = [bs_tokens EXCEPT ![g] = @ \cup {t}]
  /\ bs_lock' = [bs_lock EXCEPT ![g] = "free"]
  /\ UNCHANGED <<bs_auto, bs_made, bs_tracker, bs_manager, bs_monitor, bs_risk, bs_listener, bs_queue>>

(***************************************************************************)
(* The monitor wakes up: it ends when its tracker is gone, else it tries   *)
(* the lock and updates all tokens, or finds it busy and goes on; then it  *)
(* starts the risk monitoring of its manager if that is still there.       *)
(***************************************************************************)
monitor_ends(g) ==
  /\ bs_monitor[g] = "sleeping" /\ ~upgrade(g)
  /\ bs_monitor' = [bs_monitor EXCEPT ![g] = "ended"]
  /\ UNCHANGED <<bs_lock, bs_risk>>

monitor_locks(g) ==
  /\ bs_monitor[g] = "sleeping" /\ upgrade(g) /\ bs_lock[g] = "free"
  /\ bs_monitor' = [bs_monitor EXCEPT ![g] = "updating"]
  /\ bs_lock' = [bs_lock EXCEPT ![g] = "monitor"]
  /\ UNCHANGED bs_risk

run_continuous_risk_monitoring(g) == bs_risk' = IF bs_manager = g THEN bs_risk \cup {g} ELSE bs_risk

monitor_busy(g) ==
  /\ bs_monitor[g] = "sleeping" /\ upgrade(g) /\ bs_lock[g] # "free"
  /\ run_continuous_risk_monitoring(g)
  /\ UNCHANGED <<bs_monitor, bs_lock>>

\* update_all_tokens returns, with success or an error.
monitor_updated(g) ==
  /\ bs_monitor[g] = "updating"
  /\ bs_monitor' = [bs_monitor EXCEPT ![g] = "sleeping"]
  /\ bs_lock' = [bs_lock EXCEPT ![g] = "free"]
  /\ run_continuous_risk_monitoring(g)

monitorVars == <<bs_monitor, bs_lock, bs_risk>>
othersUnchanged == UNCHANGED <<bs_auto, bs_made, bs_tracker, bs_manager, bs_tokens, bs_listener, bs_queue>>

monitor_tick(g) == monitor_ends(g) \/ monitor_locks(g) \/ monitor_busy(g)

risk_monitoring_done ==
  /\ \E g \in bs_risk : bs_risk' = bs_risk \ {g}
  /\ UNCHANGED <<bs_monitor, bs_lock>>

(***************************************************************************)
(* Status updates.  A full channel makes the sender wait.  The task tries  *)
(* the lock of the tracker it captured and drops the update if it is busy  *)
(* or gone; it never waits.                                                *)
(***************************************************************************)
send_status ==
  /\ bs_queue < MaxQueue
  /\ bs_queue' = bs_queue + 1
  /\ UNCHANGED <<bs_auto, bs_made, bs_tracker, bs_manager, bs_tokens, bs_lock, bs_monitor, bs_risk, bs_listener>>

\* A plausible slip: the task waits for the lock where the code tries it.
update_token_status_waiting ==
  /\ bs_listener # 0 /\ bs_queue > 0
  /\ bs_lock[bs_listener] = "free"
  /\ bs_queue' = bs_queue - 1
  /\ bs_tokens' \in IF upgrade(bs_listener)
                    THEN {bs_tokens} \cup {[bs_tokens EXCEPT ![bs_listener] = @ \cup {t}] : t \in Tracked}
                    ELSE {bs_tokens}
  /\ UNCHANGED <<bs_auto, bs_made, bs_tracker, bs_manager, bs_lock, bs_monitor, bs_risk, bs_listener>>

update_token_status ==
  /\ bs_listener # 0 /\ bs_queue > 0
  /\ bs_queue' = bs_queue - 1
  /\ bs_tokens' \in IF upgrade(bs_listener) /\ bs_lock[bs_listener] = "free"
                    THEN {bs_tokens} \cup {[bs_tokens EXCEPT ![bs_listener] = @ \cup {t}] : t \in Tracked}
                    ELSE {bs_tokens}
  /\ UNCHANGED <<bs_auto, bs_made, bs_tracker, bs_manager, bs_lock, bs_monitor, bs_risk, bs_listener>>

(***************************************************************************)
(* Recovery.  The tokens are copied if the old tracker's lock is free (a   *)
(* token may fail to be added); a manager is replaced by one without a     *)
(* tracker.                                                                *)
(***************************************************************************)
replace_token_tracker(g) ==
  \E kept \in SUBSET bs_tokens[bs_tracker] :
    /\ bs_lock[bs_tracker] # "free" => kept = {}
    /\ bs_tokens' = [bs_tokens EXCEPT ![g] = kept]
    /\ bs_tracker' = g

recover_token_tracker ==
  /\ bs_made < MaxGen
  /\ bs_made' = bs_made + 1
  /\ replace_token_tracker(bs_made')
  /\ UNCHANGED <<bs_auto, bs_manager, bs_lock, bs_monitor, bs_risk, bs_listener, bs_queue>>

recover_trade_manager ==
  /\ bs_manager' = 0
  /\ UNCHANGED <<bs_auto, bs_made, bs_tracker, bs_tokens, bs_lock, bs_monitor, bs_risk, bs_listener, bs_queue>>

Next ==
  \/ switch_mode \/ initialize_auto_mode \/ lock_tracker
  \/ \E g \in Gens : add_token_to_track(g)
  \/ \E g \in Gens : (monitor_tick(g) \/ monitor_updated(g)) /\ othersUnchanged
  \/ risk_monitoring_done /\ othersUnchanged
  \/ send_status \/ update_token_status
  \/ recover_token_tracker \/ recover_trade_manager

\* The timers of the runtime fire and its tasks run; nothing says that an
\* update under the lock ever returns.
Fairness ==
  /\ \A g \in Gens : WF_vars(monitor_tick(g) /\ othersUnchanged)
  /\ WF_vars(update_token_status)

Spec == Init /\ [][Next]_vars /\ Fairness

(***************************************************************************)
(* Properties.                                                             *)
(***************************************************************************)

\* A monitor never gives up on a tracker that the bot or its trade manager still
\* uses, whatever locks hang and whichever of the two was replaced.
NoMonitorAbandons == \A g \in Gens : bs_monitor[g] = "ended" => g \notin {bs_tracker, bs_manager}

\* Once nobody holds a tracker any more, the task monitoring it ends.
OrphanMonitorsEnd == \A g \in Gens : (bs_monitor[g] = "sleeping" /\ ~upgrade(g)) ~> bs_monitor[g] = "ended"

\* A tracker that hangs does not stop the status task: a full channel is
\* always drained, so the senders behind it are not stuck with it.
StatusChannelDrains == (bs_listener # 0 /\ bs_queue = MaxQueue) ~> bs_queue < MaxQueue
=============================================================================
