---------------------------- MODULE BotProcess ----------------------------
(***************************************************************************)
(* The process of the bot: its start and end in main.rs, and the loop of   *)
(* the service manager, one of the tasks main.rs spawns.                   *)
(***************************************************************************)
EXTENDS Naturals, Sequences, SequencesExt

(***************************************************************************)
(* main.rs: the steps of the start, the tasks they spawn, and the end.  A  *)
(* step that fails ends the process, and with it the tasks spawned so far; *)
(* after Ctrl-C main waits for three of its tasks and tells none of them   *)
(* to stop.                                                                *)
(***************************************************************************)
VARIABLES bm_stage,     \* the step main has come to
          bm_tasks,     \* task -> waiting, running, done or dropped
          bm_loaded     \* what is ready: users, adapters, bot

mainVars == <<bm_stage, bm_tasks, bm_loaded>>

Stages == {"config", "storage", "users", "endpoints", "adapters", "bot", "spawn", "serving", "joining", "ended", "failed"}
Background == {"endpoint_manager", "gas_optimizer", "cleanup"}
Joined == {"mempool", "service_manager", "api"}
MainTasks == Background \cup Joined

mainTypeOK ==
  /\ bm_stage \in Stages /\ bm_tasks \in [MainTasks -> {"waiting", "running", "done", "dropped"}]
  /\ bm_loaded \subseteq {"users", "adapters", "bot"}

mainInit == bm_stage = "config" /\ bm_tasks = [t \in MainTasks |-> "waiting"] /\ bm_loaded = {}

stage(from, to) == bm_stage = from /\ bm_stage' = to
running(spawned) == [t \in MainTasks |-> IF t \in spawned THEN "running" ELSE bm_tasks[t]]

\* When main returns, the runtime drops every task.
dropped == [t \in MainTasks |-> IF bm_tasks[t] = "running" THEN "dropped" ELSE bm_tasks[t]]
fails(from) == stage(from, "failed") /\ bm_tasks' = dropped /\ UNCHANGED bm_loaded

\* Neither a bad environment nor a bad transactions file stops the start.
load_config == stage("config", "storage") /\ UNCHANGED <<bm_tasks, bm_loaded>>
load_storage == stage("storage", "users") /\ UNCHANGED <<bm_tasks, bm_loaded>>

load_users ==
  \/ stage("users", "endpoints") /\ bm_loaded' = bm_loaded \cup {"users"} /\ UNCHANGED bm_tasks
  \/ fails("users")

\* The endpoints of the configuration, and the task that checks them.
add_endpoints ==
  stage("endpoints", "adapters") /\ bm_tasks' = running({"endpoint_manager"}) /\ UNCHANGED bm_loaded

init_adapters ==
  \/ stage("adapters", "bot") /\ bm_loaded' = bm_loaded \cup {"adapters"} /\ UNCHANGED bm_tasks
  \/ fails("adapters")

\* The adapter of the chain configured, and the bot.
init_bot ==
  \/ stage("bot", "spawn") /\ bm_loaded' = bm_loaded \cup {"bot"} /\ UNCHANGED bm_tasks
  \/ fails("bot")

spawn_services ==
  /\ stage("spawn", "serving") /\ bm_tasks' = running({"gas_optimizer", "cleanup"} \cup Joined)
  /\ UNCHANGED bm_loaded

\* The watcher and the service manager may end, the server by an error or alone;
\* the loops of the background tasks have no end.
task_ends(t) ==
  /\ t \in Joined /\ bm_tasks[t] = "running" /\ bm_tasks' = [bm_tasks EXCEPT ![t] = "done"]
  /\ UNCHANGED <<bm_stage, bm_loaded>>

\* start_gas_optimizer_service and cleanup_tasks: an error of one chain is logged,
\* and the loop goes on.
service_turn(t) == t \in Background /\ bm_tasks[t] = "running" /\ UNCHANGED mainVars

\* Ctrl-C, or a signal handler that cannot be set up: either way main goes on to
\* the end.
ctrl_c == stage("serving", "joining") /\ UNCHANGED <<bm_tasks, bm_loaded>>

join ==
  /\ stage("joining", "ended") /\ \A t \in Joined : bm_tasks[t] = "done"
  /\ bm_tasks' = dropped /\ UNCHANGED bm_loaded

over == bm_stage \in {"ended", "failed"} /\ UNCHANGED mainVars

mainNext ==
  \/ load_config \/ load_storage \/ load_users \/ add_endpoints \/ init_adapters \/ init_bot
  \/ spawn_services \/ ctrl_c \/ join \/ over
  \/ \E t \in MainTasks : task_ends(t) \/ service_turn(t)

\* main runs on once what it waits for is there; nothing makes a task end.
mainFairness == WF_mainVars(join)

\* Nobody is served before the users, the adapters and the bot are there, and a
\* process that ended, well or not, leaves no task running.
ServesOnlyReady ==
  /\ \A t \in Joined : bm_tasks[t] # "waiting" => bm_loaded = {"users", "adapters", "bot"}
  /\ bm_stage \in {"ended", "failed"} => \A t \in MainTasks : bm_tasks[t] # "running"

\* The server, the watcher and the service manager are never cut off by an end that
\* was asked for.
NoneCutOff == bm_stage = "ended" => \A t \in Joined : bm_tasks[t] = "done"

\* After Ctrl-C the process ends, once the watcher, the service manager and the
\* server have all ended by themselves: nothing else is waited for.
EndsOnceAllEnded ==
  bm_stage = "joining" /\ (\A t \in Joined : bm_tasks[t] = "done") ~> bm_stage = "ended"

(***************************************************************************)
(* service.rs: one loop takes the messages of a bounded channel and does   *)
(* each to its end before the next, a transaction by process_transaction.  *)
(* The manager holds a sender of its own, so the channel never closes, and *)
(* what comes after the message that stops the loop stays in it.           *)
(***************************************************************************)
CONSTANTS Requests, Room, MaxOthers

VARIABLES sv_running,
          sv_queue,      \* the channel: requests, monitor, stop, other
          sv_doing,      \* the request whose transaction is under way, or none
          sv_step,       \* idle, sniping, recording
          sv_sent,       \* the requests in the order they were sent
          sv_sniped,     \* ghost: the requests given to snipe, in order
          sv_ended,      \* how the requests ended
          sv_stored,     \* failed transactions in the storage
          sv_others      \* messages sent that are not requests

servicesVars == <<sv_running, sv_queue, sv_doing, sv_step, sv_sent, sv_sniped, sv_ended, sv_stored, sv_others>>

Messages == Requests \cup {"monitor", "stop", "other"}
Ends == {"none", "refused", "done", "failed", "unstored"}
nothing == "other"

servicesTypeOK ==
  /\ sv_running \in BOOLEAN /\ sv_queue \in Seq(Messages) /\ Len(sv_queue) <= Room
  /\ sv_doing \in Requests \cup {nothing} /\ sv_step \in {"idle", "sniping", "recording"}
  /\ ToSet(sv_sent) \subseteq Requests /\ ToSet(sv_sniped) \subseteq Requests
  /\ sv_ended \in [Requests -> Ends] /\ sv_stored \subseteq Requests /\ sv_others \in 0 .. MaxOthers

\* new and start: the loop runs.
servicesInit ==
  /\ sv_running = TRUE /\ sv_queue = <<>> /\ sv_doing = nothing /\ sv_step = "idle"
  /\ sv_sent = <<>> /\ sv_sniped = <<>> /\ sv_ended = [r \in Requests |-> "none"]
  /\ sv_stored = {} /\ sv_others = 0

\* A plausible slip: the channel has no bound.
send_unbounded(r) ==
  /\ r \notin ToSet(sv_queue) \cup ToSet(sv_sent)
  /\ sv_queue' = Append(sv_queue, r) /\ sv_sent' = Append(sv_sent, r)
  /\ UNCHANGED <<sv_running, sv_doing, sv_step, sv_sniped, sv_ended, sv_stored, sv_others>>

\* Senders of the channel: one that finds no room waits.
send(r) ==
  /\ r \notin ToSet(sv_sent) /\ Len(sv_queue) < Room
  /\ sv_queue' = Append(sv_queue, r) /\ sv_sent' = Append(sv_sent, r)
  /\ UNCHANGED <<sv_running, sv_doing, sv_step, sv_sniped, sv_ended, sv_stored, sv_others>>

send_other(m) ==
  /\ sv_others < MaxOthers /\ Len(sv_queue) < Room
  /\ sv_queue' = Append(sv_queue, m) /\ sv_others' = sv_others + 1
  /\ UNCHANGED <<sv_running, sv_doing, sv_step, sv_sent, sv_sniped, sv_ended, sv_stored>>

\* recv, for a message that is not a request.
takes(m) ==
  /\ sv_running /\ sv_step = "idle" /\ sv_queue # <<>> /\ Head(sv_queue) = m /\ sv_queue' = Tail(sv_queue)

stop_service ==
  /\ takes("stop") /\ sv_running' = FALSE
  /\ UNCHANGED <<sv_doing, sv_step, sv_sent, sv_sniped, sv_ended, sv_stored, sv_others>>

\* A monitor gets a task of its own, which never ends; others do nothing.
start_monitoring == takes("monitor") /\ UNCHANGED <<sv_running, sv_doing, sv_step, sv_sent, sv_sniped, sv_ended, sv_stored, sv_others>>
take_other == takes("other") /\ UNCHANGED <<sv_running, sv_doing, sv_step, sv_sent, sv_sniped, sv_ended, sv_stored, sv_others>>

\* process_transaction: an amount that is none is an error at once.
parse_fails(r) ==
  /\ takes(r) /\ sv_ended' = [sv_ended EXCEPT ![r] = "refused"]
  /\ UNCHANGED <<sv_running, sv_doing, sv_step, sv_sent, sv_sniped, sv_stored, sv_others>>

process_transaction(r) ==
  /\ takes(r) /\ sv_doing' = r /\ sv_step' = "sniping" /\ sv_sniped' = Append(sv_sniped, r)
  /\ UNCHANGED <<sv_running, sv_sent, sv_ended, sv_stored, sv_others>>

finishes(end) ==
  /\ sv_ended' = [sv_ended EXCEPT ![sv_doing] = end] /\ sv_doing' = nothing /\ sv_step' = "idle"
  /\ UNCHANGED <<sv_running, sv_queue, sv_sent, sv_sniped, sv_others>>

snipe_ok == sv_step = "sniping" /\ finishes("done") /\ UNCHANGED sv_stored

snipe_fails ==
  /\ sv_step = "sniping" /\ sv_step' = "recording"
  /\ UNCHANGED <<sv_running, sv_queue, sv_doing, sv_sent, sv_sniped, sv_ended, sv_stored, sv_others>>

add_failed_transaction == sv_step = "recording" /\ finishes("failed") /\ sv_stored' = sv_stored \cup {sv_doing}

\* The storage fails: its error is returned instead of the transaction's.
storage_fails == sv_step = "recording" /\ finishes("unstored") /\ UNCHANGED sv_stored

\* Nobody receives any more, or there is nothing to receive.
waits == (~sv_running \/ sv_queue = <<>>) /\ sv_step = "idle" /\ UNCHANGED servicesVars

worker == \E r \in Requests : parse_fails(r) \/ process_transaction(r)
snipes == snipe_ok \/ snipe_fails
records == add_failed_transaction \/ storage_fails

servicesNext ==
  \/ stop_service \/ start_monitoring \/ take_other \/ waits \/ worker \/ snipes \/ records
  \/ \E r \in Requests : send(r)
  \/ \E m \in {"monitor", "stop", "other"} : send_other(m)

\* The runtime runs the loop, and a snipe ends: it has a timeout of its own.
servicesFairness ==
  /\ WF_servicesVars(stop_service \/ start_monitoring \/ take_other \/ worker)
  /\ WF_servicesVars(snipes) /\ WF_servicesVars(records)

\* The first was sent before the other.
Before(r, q) == \E i, j \in DOMAIN sv_sent : i < j /\ sv_sent[i] = r /\ sv_sent[j] = q

\* A request is given to snipe at most once, in the order the requests were sent,
\* and none overtakes one that is still waiting.
SnipedOnceInOrder ==
  /\ ToSet(sv_sniped) = {r \in ToSet(sv_sent) : sv_ended[r] # "refused" /\ r \notin ToSet(sv_queue)}
  /\ \A i, j \in DOMAIN sv_sniped : i < j => Before(sv_sniped[i], sv_sniped[j])

\* What failed is in the storage, unless the storage itself failed, and nothing
\* else is.
FailuresStored == sv_stored = {r \in Requests : sv_ended[r] = "failed"}

\* A request that was sent comes to an end, unless the loop is stopped first.
SentRequestsEnd == \A r \in Requests : r \in ToSet(sv_queue) /\ sv_running ~> sv_ended[r] # "none" \/ ~sv_running
=============================================================================
