------------------------------- MODULE RpcPool -------------------------------
(***************************************************************************)
(* chain_adapters/retry.rs: RPCPool, whose tasks ask for the best URL and  *)
(* probe them all when the last probe is ten minutes old, and              *)
(* with_rpc_rotation, one call that goes from URL to URL.                  *)
(***************************************************************************)
EXTENDS Naturals, Sequences

CONSTANTS UrlCount,    \* the primary URL and its backups, by position
          Askers

VARIABLES rp_list,     \* availability: URLs with what the last probe or a mark says
          rp_fresh,    \* last_checked is less than ten minutes old
          rp_stage,    \* where each task stands
          rp_probe,    \* what its probe has found
          ro_step,     \* the rotation: idle, calls, ok, err
          ro_at,       \* the position it has come to
          ro_failed    \* what the primary failed with: nothing, connection, other

pool == <<rp_list, rp_fresh, rp_stage, rp_probe>>
rotation == <<ro_step, ro_at, ro_failed>>
vars == <<pool, rotation>>

Urls == 1 .. UrlCount
Lists == {l \in [Urls -> [url : Urls, up : BOOLEAN]] : {l[i].url : i \in Urls} = Urls}

\* What check_rpc_availability may return: every URL, those that answer first.
sorted(l) == \A i, j \in Urls : i < j /\ l[j].up => l[i].up

TypeOK ==
  /\ rp_list \in UNION {[1 .. n -> [url : Urls, up : BOOLEAN]] : n \in 0 .. UrlCount} /\ rp_fresh \in BOOLEAN
  /\ rp_stage \in [Askers -> {"idle", "probing", "writing", "stamping", "choosing"}]
  /\ rp_probe \in [Askers -> Lists \cup {<<>>}]
  /\ ro_step \in {"idle", "calls", "ok", "err"} /\ ro_at \in 0 .. UrlCount
  /\ ro_failed \in {"nothing", "connection", "other"}

Init ==
  /\ rp_list = <<>> /\ rp_fresh = FALSE
  /\ rp_stage = [t \in Askers |-> "idle"] /\ rp_probe = [t \in Askers |-> <<>>]
  /\ ro_step = "idle" /\ ro_at = 0 /\ ro_failed = "nothing"

goes(t, from, to) == rp_stage[t] = from /\ rp_stage' = [rp_stage EXCEPT ![t] = to]

\* get_best_url: is the last check recent enough?
get_best_url(t) ==
  /\ goes(t, "idle", IF rp_fresh THEN "choosing" ELSE "probing")
  /\ UNCHANGED <<rp_list, rp_fresh, rp_probe>> /\ UNCHANGED rotation

check_availability(t) ==
  /\ goes(t, "probing", "writing")
  /\ \E l \in Lists : sorted(l) /\ rp_probe' = [rp_probe EXCEPT ![t] = l]
  /\ UNCHANGED <<rp_list, rp_fresh>> /\ UNCHANGED rotation

\* A plausible slip: what did not answer is left out of the list.
found(t) == SelectSeq(rp_probe[t], LAMBDA e : e.up)

\* The list the probe has made is taken over whole.
probed(t) == rp_probe[t]

\* The two locks are taken one after the other.
write_availability(t) ==
  /\ goes(t, "writing", "stamping") /\ rp_list' = probed(t)
  /\ rp_probe' = [rp_probe EXCEPT ![t] = <<>>] /\ UNCHANGED rp_fresh /\ UNCHANGED rotation

write_last_checked(t) ==
  /\ goes(t, "stamping", "choosing") /\ rp_fresh' = TRUE /\ UNCHANGED <<rp_list, rp_probe>> /\ UNCHANGED rotation

\* The first that is available, or the first of all.
choose_url(t) == goes(t, "choosing", "idle") /\ UNCHANGED <<rp_list, rp_fresh, rp_probe>> /\ UNCHANGED rotation

mark_unavailable(u) ==
  /\ \E i \in DOMAIN rp_list : rp_list[i].url = u /\ rp_list' = [rp_list EXCEPT ![i].up = FALSE]
  /\ UNCHANGED <<rp_fresh, rp_stage, rp_probe>> /\ UNCHANGED rotation

ten_minutes == rp_fresh' = FALSE /\ UNCHANGED <<rp_list, rp_stage, rp_probe>> /\ UNCHANGED rotation

(***************************************************************************)
(* with_rpc_rotation.                                                      *)
(***************************************************************************)
rotates(step, at) == ro_step' = step /\ ro_at' = at /\ UNCHANGED pool

with_rpc_rotation == ro_step # "calls" /\ rotates("calls", 1) /\ ro_failed' = "nothing"

call_ok == ro_step = "calls" /\ rotates("ok", ro_at) /\ UNCHANGED ro_failed

\* Errors that name the connection, a timeout or a rate limit.
rotatable(error) == error = "connection"

primary_fails(error) ==
  /\ ro_step = "calls" /\ ro_at = 1 /\ ro_failed' = error
  /\ IF rotatable(error) /\ UrlCount > 1 THEN rotates("calls", 2) ELSE rotates("err", 1)

\* Whatever a backup fails with, the next one is tried; in the end the error of
\* the primary is returned.
backup_fails ==
  /\ ro_step = "calls" /\ ro_at > 1 /\ UNCHANGED ro_failed
  /\ IF ro_at < UrlCount THEN rotates("calls", ro_at + 1) ELSE rotates("err", ro_at)

Next ==
  \/ ten_minutes \/ with_rpc_rotation \/ call_ok \/ backup_fails
  \/ \E e \in {"connection", "other"} : primary_fails(e)
  \/ \E u \in Urls : mark_unavailable(u)
  \/ \E t \in Askers :
       \/ get_best_url(t) \/ check_availability(t) \/ write_availability(t)
       \/ write_last_checked(t) \/ choose_url(t)

Spec == Init /\ [][Next]_vars

(***************************************************************************)
(* Properties.                                                             *)
(***************************************************************************)

\* Whatever tasks check and mark at once: when the last check counts as recent, or
\* a task is about to choose, the list has every URL, so a choice never falls back
\* on the first URL while the pool knows another to be up.
FreshIsFilled == rp_fresh \/ (\E t \in Askers : rp_stage[t] = "choosing") => rp_list \in Lists

\* A backup is called only after the connection to the primary failed, and an
\* error is returned only when every URL was tried, or the primary refused.
RotationIsForConnections ==
  /\ ro_at > 1 => ro_failed = "connection"
  /\ ro_step = "err" => ro_at = UrlCount \/ ro_failed = "other"
=============================================================================
