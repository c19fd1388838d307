---------------------------- MODULE Endpoints -----------------------------
(***************************************************************************)
(* The endpoints of the bot's main.rs: the list of those of one chain,     *)
(* which is checked and asked, and what is counted of the requests to      *)
(* each.                                                                   *)
(***************************************************************************)
EXTENDS Integers, Sequences, SequencesExt, FiniteSets, Lists

(***************************************************************************)
(* The EndpointManager of main.rs behind its read-write lock: the          *)
(* endpoints of one chain, in the order they are asked for.                *)
(***************************************************************************)
CONSTANTS EndpointUrls, Priorities

VARIABLES em_list,      \* the endpoints: url, priority, enabled
          em_checking   \* the health check holds the lock: how many it has asked, or None

managerVars == <<em_list, em_checking>>

None == -1
Endpoint == [url : EndpointUrls, priority : Priorities, enabled : BOOLEAN]

managerTypeOK ==
  /\ ToSet(em_list) \subseteq Endpoint /\ em_checking \in {None} \cup 0 .. Cardinality(EndpointUrls)

managerInit ==
  /\ em_list = <<>> /\ em_checking = None

unlocked == em_checking = None

\* add_endpoint keeps one endpoint for a URL, the highest priority first.
higher == {p \in Endpoint \X Endpoint : p[1].priority > p[2].priority}
add_endpoint(e) ==
  /\ unlocked /\ \A i \in DOMAIN em_list : em_list[i].url # e.url
  /\ em_list' = sorted(Append(em_list, e), higher)
  /\ UNCHANGED em_checking

add_known(e) == unlocked /\ (\E i \in DOMAIN em_list : em_list[i].url = e.url) /\ UNCHANGED managerVars

disable_endpoint(url) ==
  /\ unlocked
  /\ \E i \in DOMAIN em_list : em_list[i].url = url /\ em_list' = [em_list EXCEPT ![i].enabled = FALSE]
  /\ UNCHANGED em_checking

\* Every five minutes the service takes the write lock and keeps it for the check.
start_endpoint_manager_service == unlocked /\ em_checking' = 0 /\ UNCHANGED em_list

\* A block number within five seconds, an error, or no answer in time.
check_endpoint_health == BOOLEAN

\* The endpoints are asked in turn.
check_endpoints_health ==
  /\ ~unlocked /\ em_checking < Len(em_list) /\ em_checking' = em_checking + 1
  /\ \E healthy \in check_endpoint_health : em_list' = [em_list EXCEPT ![em_checking + 1].enabled = healthy]

\* Those that are enabled first, each kind by priority.
before == {p \in Endpoint \X Endpoint : (p[1].enabled /\ ~p[2].enabled) \/ (p[1].enabled = p[2].enabled /\ p \in higher)}

health_checked ==
  /\ ~unlocked /\ em_checking = Len(em_list) /\ em_checking' = None
  /\ em_list' = sorted(em_list, before)

\* get_best_endpoint gives the first that is enabled; readers wait for the check,
\* those that take all the endpoints of the chain too.
enabled == retained(em_list, {e \in Endpoint : e.enabled})
get_best_endpoint == unlocked /\ enabled # <<>> /\ UNCHANGED managerVars
get_endpoints_for_chain == unlocked /\ UNCHANGED managerVars

managerNext ==
  \/ start_endpoint_manager_service \/ check_endpoints_health \/ health_checked
  \/ get_best_endpoint \/ get_endpoints_for_chain
  \/ \E e \in [url : EndpointUrls, priority : Priorities, enabled : {TRUE}] : add_endpoint(e) \/ add_known(e)
  \/ \E u \in EndpointUrls : disable_endpoint(u)

\* Through additions, disablings and health checks, the endpoint given is always
\* an enabled one of the highest priority there is among them.
BestIsBest == unlocked /\ enabled # <<>> => \A i \in DOMAIN enabled : enabled[i].priority <= enabled[1].priority

(***************************************************************************)
(* What update_stats of main.rs makes of the requests to one endpoint.     *)
(***************************************************************************)
CONSTANTS Latencies, MaxCalls

VARIABLES es_total,       \* total_requests
          es_count,       \* the successes that success_rate stands for
          es_avg,         \* average_latency
          es_successes,   \* ghost: the successes there were
          es_seen         \* ghost: the latencies there were

statsVars == <<es_total, es_count, es_avg, es_successes, es_seen>>

statsTypeOK ==
  /\ es_total \in 0 .. MaxCalls /\ {es_count, es_avg, es_successes} \subseteq Nat /\ es_seen \subseteq Latencies

statsInit == es_total = 0 /\ es_count = 0 /\ es_avg = 0 /\ es_successes = 0 /\ es_seen = {}

average(latency) == (es_avg * es_total + latency) \div (es_total + 1)

\* The count is won back from the rate, whose product with the number of requests
\* may come out just below it, and is truncated.
recounted == {es_count, es_count - 1} \cap Nat

update_stats(success, latency) ==
  /\ es_total < MaxCalls /\ es_total' = es_total + 1 /\ es_avg' = average(latency)
  /\ es_seen' = es_seen \cup {latency}
  /\ \E n \in recounted : es_count' = n + (IF success THEN 1 ELSE 0)
  /\ es_successes' = es_successes + (IF success THEN 1 ELSE 0)

\* get_stats, get_last_update.
get_stats == UNCHANGED statsVars

statsNext == get_stats \/ \E s \in BOOLEAN, l \in Latencies : update_stats(s, l)

\* What the statistics say drifts only down: no success is counted that was none,
\* and the average latency stays between the shortest and the longest.
StatsDriftDown ==
  /\ es_count <= es_successes
  /\ es_seen # {} => (\E l \in es_seen : l <= es_avg) /\ (\E l \in es_seen : es_avg <= l)
=============================================================================
