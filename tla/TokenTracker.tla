---------------------------- MODULE TokenTracker ----------------------------
(***************************************************************************)
(* TokenStatusTracker (snipebot/src/trade/token_status.rs): the tokens the *)
(* bot follows, each with the time of its last update.  update_all_tokens  *)
(* starts a task per token, at most Permits of them fetching at a time,    *)
(* collects results until all are in or its deadline passes, abandons the  *)
(* rest, drops what is too old and shrinks the map to its bound.  The      *)
(* tracker sits behind a mutex, so nothing else runs during a batch but    *)
(* its own tasks and the clock.                                            *)
(***************************************************************************)
EXTENDS Naturals, FiniteSets

CONSTANTS Followed,   \* tokens
          Permits,    \* MAX_CONCURRENT_UPDATES
          Ttl,        \* 300 s, until an entry expires
          MaxAge,     \* 24 h, until a token is dropped
          MaxTokens,  \* max_cache_size
          MaxNow      \* bound on the clock

VARIABLES tk_now,      \* utils::safe_now
          tk_entries,  \* tracked_tokens: token -> last_updated
          tk_batch,    \* update_all_tokens is running
          tk_task      \* tk_task[t]: its task for t

vars == <<tk_now, tk_entries, tk_batch, tk_task>>

Entries == UNION {[S -> 0 .. MaxNow] : S \in SUBSET Followed}

TypeOK ==
  /\ tk_now \in 0 .. MaxNow
  /\ tk_entries \in Entries
  /\ tk_batch \in BOOLEAN
  /\ tk_task \in [Followed -> {"none", "queued", "fetching", "ok", "failed"}]

tracked == DOMAIN tk_entries
noTasks == [t \in Followed |-> "none"]
without(gone) == [t \in tracked \ gone |-> tk_entries[t]]
insert(t) == [u \in tracked \cup {t} |-> IF u = t THEN tk_now ELSE tk_entries[u]]

Init == tk_now = 0 /\ tk_entries = [t \in {} |-> 0] /\ tk_batch = FALSE /\ tk_task = noTasks

tick == tk_now < MaxNow /\ tk_now' = tk_now + 1 /\ UNCHANGED <<tk_entries, tk_batch, tk_task>>

(***************************************************************************)
(* Calls outside a batch.  Those that ask the chain change nothing when    *)
(* the answer is an error or late.                                         *)
(***************************************************************************)
outside == ~tk_batch /\ UNCHANGED <<tk_now, tk_batch, tk_task>>

add_token == outside /\ \E t \in Followed : tk_entries' = insert(t)

remove_token == outside /\ \E t \in tracked : tk_entries' = without({t})

clear == outside /\ tk_entries' = without(tracked)

expired(t) == tk_now - tk_entries[t] > Ttl

cleanup_cache == outside /\ tk_entries' = without({t \in tracked : expired(t)})

\* The new status is stored before it is sent to the AI module: an error or a
\* timeout there reports a failure of an update that was made.
update_token_status == outside /\ \E t \in Followed : tk_entries' = insert(t)

\* Prices that could be had are written to tokens that are still there.
update_token_prices ==
  /\ outside
  /\ \E priced \in SUBSET tracked :
       tk_entries' = [t \in tracked |-> IF t \in priced THEN tk_now ELSE tk_entries[t]]

(***************************************************************************)
(* update_all_tokens.                                                      *)
(***************************************************************************)
update_all_tokens ==
  /\ ~tk_batch /\ tk_batch' = TRUE
  /\ tk_task' = [t \in Followed |-> IF t \in tracked THEN "queued" ELSE "none"]
  /\ UNCHANGED <<tk_now, tk_entries>>

acquire ==
  /\ Cardinality({t \in Followed : tk_task[t] = "fetching"}) < Permits
  /\ \E t \in Followed : tk_task[t] = "queued" /\ tk_task' = [tk_task EXCEPT ![t] = "fetching"]
  /\ UNCHANGED <<tk_now, tk_entries, tk_batch>>

\* The answer, an error, or the task's own timeout; the permit is given back.
get_token_status_with_adapter ==
  /\ \E t \in Followed, r \in {"ok", "failed"} : tk_task[t] = "fetching" /\ tk_task' = [tk_task EXCEPT ![t] = r]
  /\ UNCHANGED <<tk_now, tk_entries, tk_batch>>

join_next ==
  /\ \E t \in Followed :
       /\ tk_task[t] \in {"ok", "failed"}
       /\ tk_task' = [tk_task EXCEPT ![t] = "none"]
       /\ tk_entries' = IF tk_task[t] = "ok" THEN insert(t) ELSE tk_entries
  /\ UNCHANGED <<tk_now, tk_batch>>

cleanup_old_tokens == {t \in tracked : tk_now - tk_entries[t] > MaxAge}

oldest(gone, among) == \A r \in gone, k \in among \ gone : tk_entries[r] <= tk_entries[k]

\* The sets reduce_cache_size may remove: ties are broken by the map's order.
reduce_cache_size(kept) ==
  {gone \in SUBSET kept : /\ Cardinality(gone) = IF Cardinality(kept) > MaxTokens THEN Cardinality(kept) - MaxTokens ELSE 0
                          /\ oldest(gone, kept)}

shrink ==
  LET old == cleanup_old_tokens IN
    \E gone \in reduce_cache_size(tracked \ old) : tk_entries' = without(old \cup gone)

\* All results are in, or the deadline has passed and the rest is aborted.
finish_batch ==
  /\ tk_batch /\ tk_batch' = FALSE
  /\ tk_task' = noTasks
  /\ shrink
  /\ UNCHANGED tk_now

Next ==
  \/ tick \/ add_token \/ remove_token \/ clear \/ cleanup_cache \/ update_token_status \/ update_token_prices
  \/ update_all_tokens \/ acquire \/ get_token_status_with_adapter \/ join_next \/ finish_batch

\* The deadline passes; nothing says that a fetch returns.
Fairness == WF_vars(finish_batch)

Spec == Init /\ [][Next]_vars /\ Fairness

(***************************************************************************)
(* Properties.                                                             *)
(***************************************************************************)

\* Whatever a batch drops, for age or for space, was updated no later than
\* anything it keeps.
OldestGoFirst ==
  [][tk_batch /\ ~tk_batch' =>
       \A r \in tracked \ DOMAIN tk_entries', k \in DOMAIN tk_entries' : tk_entries[r] <= tk_entries[k]]_vars

\* A batch leaves the map within its bound, however many tokens were added
\* before it.
BoundedAfterBatch == [][tk_batch /\ ~tk_batch' => Cardinality(DOMAIN tk_entries') <= MaxTokens]_vars

\* A batch ends although a fetch may hang, so the tracker's mutex is given back.
BatchEnds == tk_batch ~> ~tk_batch
=============================================================================
