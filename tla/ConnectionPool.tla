--------------------------- MODULE ConnectionPool ---------------------------
(***************************************************************************)
(* The pool of RPC endpoints of a chain                                    *)
(* (snipebot/src/chain_adapters/connection_pool.rs): round robin over the  *)
(* primary endpoints, then the backups, a semaphore and the counts of      *)
(* successes and errors of each, and a periodic health check.  The pool is *)
(* behind a lock, so that its operations do not overlap; guards with a     *)
(* permit outlive them.                                                    *)
(***************************************************************************)
EXTENDS Naturals, Sequences, FiniteSets, SequencesExt

CONSTANTS Urls, MaxConnections,
          MaxRequests, MaxFailures   \* bounds on what is counted

VARIABLES cp_open,                 \* CONNECTION_POOL_MANAGER has the pool
          cp_primary, cp_backup,   \* primary_endpoints, backup_endpoints
          cp_next,                 \* next_primary_index, next_backup_index
          cp_info,                 \* status and counts by url
          cp_held                  \* permits that guards hold, by url

vars == <<cp_open, cp_primary, cp_backup, cp_next, cp_info, cp_held>>

EndpointInfo == [status : {"Healthy", "Degraded", "Down"}, success : 0 .. MaxRequests, error : 0 .. MaxFailures]
new_info == [status |-> "Healthy", success |-> 0, error |-> 0]
Lists == {q \in BoundedSeq(Urls, Cardinality(Urls)) : IsInjective(q)}

TypeOK ==
  /\ cp_open \in BOOLEAN /\ cp_primary \in Lists /\ cp_backup \in Lists
  /\ cp_next \in [primary : Nat, backup : Nat]
  /\ cp_info \in [Urls -> EndpointInfo] /\ cp_held \in [Urls -> Nat]

Init ==
  /\ cp_open = FALSE /\ cp_primary = <<>> /\ cp_backup = <<>>
  /\ cp_next = [primary |-> 0, backup |-> 0]
  /\ cp_info = [u \in Urls |-> new_info] /\ cp_held = [u \in Urls |-> 0]

(***************************************************************************)
(* One endpoint.                                                           *)
(***************************************************************************)
total(i) == i.success + i.error

\* Only a degraded endpoint recovers, below an error rate of a tenth.
record_success(i) ==
  LET j == [i EXCEPT !.success = @ + 1]
  IN  IF i.status = "Degraded" /\ 10 * j.error < total(j) THEN [j EXCEPT !.status = "Healthy"] ELSE j

record_error(i) ==
  LET j == [i EXCEPT !.error = @ + 1]
  IN  CASE 2 * j.error > total(j)  -> [j EXCEPT !.status = "Down"]
        [] 2 * j.error <= total(j) /\ 10 * j.error > total(j) -> [j EXCEPT !.status = "Degraded"]
        [] OTHER -> j

is_available(u) == cp_info[u].status # "Down"

\* The outcome of a request to u, within the bounds.
recorded(u, ok) == IF ok THEN record_success(cp_info[u]) ELSE record_error(cp_info[u])
CanCount(u, ok) == total(cp_info[u]) < MaxRequests /\ (ok \/ cp_info[u].error < MaxFailures)

(***************************************************************************)
(* The pool.                                                               *)
(***************************************************************************)
\* Of the urls that are given, those that answered become endpoints; without a
\* primary one there is no pool.
new(primary, backup) ==
  /\ primary # <<>> /\ ToSet(primary) \cap ToSet(backup) = {}
  /\ cp_primary' = primary /\ cp_backup' = backup

\* A call that got no pool changes nothing, and a later one tries again.
get_or_create_pool ==
  /\ ~cp_open /\ \E p \in Lists, b \in Lists : new(p, b)
  /\ cp_open' = TRUE /\ UNCHANGED <<cp_next, cp_info, cp_held>>

\* add_endpoint refuses a url it has and one that does not answer.
add_endpoint(u, is_primary) ==
  /\ cp_open /\ u \notin ToSet(cp_primary) \cup ToSet(cp_backup)
  /\ cp_primary' = IF is_primary THEN Append(cp_primary, u) ELSE cp_primary
  /\ cp_backup' = IF is_primary THEN cp_backup ELSE Append(cp_backup, u)
  /\ UNCHANGED <<cp_open, cp_next, cp_info, cp_held>>

\* The semaphore gives a permit before connection_timeout.
usable(u) == is_available(u) /\ cp_held[u] < MaxConnections

\* The tries of a round robin of q from index i that come before the first
\* usable endpoint, Len(q) when there is none.
skipped(q, i) ==
  LET at(k) == q[((i + k) % Len(q)) + 1]
  IN  CHOOSE k \in 0 .. Len(q) :
        /\ \A j \in 0 .. k - 1 : ~usable(at(j))
        /\ k < Len(q) => usable(at(k))

\* The list get_provider takes an endpoint from: the backups are asked only
\* after every primary.
choice ==
  LET np == cp_next.primary   nb == cp_next.backup
      kp == skipped(cp_primary, np)   kb == skipped(cp_backup, nb)
      after(q, i, k) == IF k < Len(q) THEN (i + k + 1) % Len(q) ELSE i
  IN  IF kp < Len(cp_primary)
      THEN [url |-> {cp_primary[((np + kp) % Len(cp_primary)) + 1]}, next |-> [cp_next EXCEPT !.primary = after(cp_primary, np, kp)]]
      ELSE IF kb < Len(cp_backup)
      THEN [url |-> {cp_backup[((nb + kb) % Len(cp_backup)) + 1]}, next |-> [cp_next EXCEPT !.backup = after(cp_backup, nb, kb)]]
      ELSE [url |-> {}, next |-> cp_next]

get_provider ==
  /\ cp_open /\ cp_held' = [u \in Urls |-> cp_held[u] + (IF u \in choice.url THEN 1 ELSE 0)]
  /\ cp_next' = choice.next
  /\ UNCHANGED <<cp_open, cp_primary, cp_backup, cp_info>>

drop_guard(u) ==
  /\ cp_held[u] > 0 /\ cp_held' = [cp_held EXCEPT ![u] = @ - 1]
  /\ UNCHANGED <<cp_open, cp_primary, cp_backup, cp_next, cp_info>>

\* report_error, report_success and the timeout of a guard: the guard's weak
\* pointer is to an Arc that was dropped when get_provider returned, so that
\* nothing is recorded.
report(u) == cp_held[u] > 0 /\ UNCHANGED vars

with_provider(ok) ==
  /\ cp_open /\ cp_next' = choice.next
  /\ \A u \in choice.url : CanCount(u, ok)
  /\ cp_info' = [u \in Urls |-> IF u \in choice.url THEN recorded(u, ok) ELSE cp_info[u]]
  /\ UNCHANGED <<cp_open, cp_primary, cp_backup, cp_held>>

\* Every endpoint is asked, the ones that are down too.
health_check_all(up) ==
  LET all == ToSet(cp_primary) \cup ToSet(cp_backup)
  IN  /\ cp_open /\ up \subseteq all /\ \A u \in all : CanCount(u, u \in up)
      /\ cp_info' = [u \in Urls |-> IF u \in all THEN recorded(u, u \in up) ELSE cp_info[u]]
      /\ UNCHANGED <<cp_open, cp_primary, cp_backup, cp_next, cp_held>>

Next ==
  \/ get_or_create_pool \/ get_provider
  \/ \E ok \in BOOLEAN : with_provider(ok)
  \/ \E u \in Urls : drop_guard(u) \/ report(u) \/ \E b \in BOOLEAN : add_endpoint(u, b)
  \/ \E up \in SUBSET Urls : health_check_all(up)

Spec == Init /\ [][Next]_vars

(***************************************************************************)
(* Properties.                                                             *)
(***************************************************************************)
\* The status of an endpoint says what its error rate is: a healthy one is at
\* most at a tenth, a degraded one between a tenth and a half, whatever the
\* order of requests and health checks.
StatusMatchesRate ==
  \A u \in Urls : LET i == cp_info[u] IN
    /\ i.status = "Healthy" => 10 * i.error <= total(i)
    /\ i.status = "Degraded" => 2 * i.error <= total(i) /\ 10 * i.error >= total(i)

\* An endpoint that is down comes back only when a request to it fails: the
\* health checks it passes lower its error rate but leave it down.
DownEndsWithAnError ==
  [][\A u \in Urls : cp_info[u].status = "Down" /\ cp_info'[u].status # "Down" => cp_info'[u].error > cp_info[u].error]_vars

\* No more guards are out for an endpoint than its semaphore allows, and only
\* for endpoints of the pool.
GuardsWithinLimit ==
  \A u \in Urls : cp_held[u] <= MaxConnections /\ (cp_held[u] > 0 => u \in ToSet(cp_primary) \cup ToSet(cp_backup))
=============================================================================
