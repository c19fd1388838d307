--------------------------- MODULE CommonRetry ----------------------------
(***************************************************************************)
(* The retry policy of the common crate, and the circuit breaker beside    *)
(* it.                                                                     *)
(***************************************************************************)
EXTENDS Naturals, FiniteSets, FiniteSetsExt

(***************************************************************************)
(* common/retry_policy.rs, RetryPolicy: an operation is tried until it     *)
(* succeeds or has been tried again as often as the configuration says,    *)
(* with a delay that grows to a maximum, before jitter.  Callers share the *)
(* counts, which a call adds to when it ends; a policy that is switched    *)
(* off tries once and counts nothing.                                      *)
(***************************************************************************)
CONSTANTS RetryCallers, MaxAgain, InitialDelay, MaxDelay, Factor, MaxRounds

VARIABLES cr_enabled,
          cr_step,     \* each caller: idle, trying, sleeping
          cr_again,    \* retries of the call so far
          cr_delay,    \* the delay before the next
          cr_total, cr_ok, cr_failed,  \* the shared counts
          cr_tried,    \* ghost: operations tried in each call
          cr_tries,    \* ghost: operations tried in calls that were counted
          cr_ended,    \* ghost: calls that were counted
          cr_rounds

policyVars == <<cr_enabled, cr_step, cr_again, cr_delay, cr_total, cr_ok, cr_failed, cr_tried, cr_tries,
                cr_ended, cr_rounds>>
counts == <<cr_total, cr_ok, cr_failed, cr_ended>>

policyTypeOK ==
  /\ cr_enabled \in BOOLEAN /\ cr_step \in [RetryCallers -> {"idle", "once", "trying", "sleeping"}]
  /\ cr_again \in [RetryCallers -> 0 .. MaxAgain] /\ cr_delay \in [RetryCallers -> Nat] /\ cr_rounds \in 0 .. MaxRounds
  /\ cr_total \in Nat /\ cr_ok \in Nat /\ cr_failed \in Nat /\ cr_tried \in [RetryCallers -> 0 .. MaxAgain + 1] /\ cr_tries \in Nat /\ cr_ended \in Nat

policyInit ==
  /\ cr_enabled \in BOOLEAN /\ cr_step = [c \in RetryCallers |-> "idle"] /\ cr_again = [c \in RetryCallers |-> 0]
  /\ cr_delay = [c \in RetryCallers |-> 0] /\ cr_total = 0 /\ cr_ok = 0 /\ cr_failed = 0 /\ cr_tries = 0
  /\ cr_tried = [c \in RetryCallers |-> 0] /\ cr_ended = 0 /\ cr_rounds = 0

goes(c, from, to) == cr_step[c] = from /\ cr_step' = [cr_step EXCEPT ![c] = to]

\* The policy is changed only while nobody uses it.
set_enabled ==
  /\ \A c \in RetryCallers : cr_step[c] = "idle"
  /\ cr_enabled' = ~cr_enabled /\ UNCHANGED <<cr_step, cr_again, cr_delay, counts, cr_tried, cr_tries, cr_rounds>>

retry(c) ==
  /\ cr_rounds < MaxRounds /\ cr_rounds' = cr_rounds + 1
  /\ goes(c, "idle", IF cr_enabled THEN "trying" ELSE "once")
  /\ cr_again' = [cr_again EXCEPT ![c] = 0] /\ cr_delay' = [cr_delay EXCEPT ![c] = InitialDelay]
  /\ cr_tried' = [cr_tried EXCEPT ![c] = 1] /\ UNCHANGED <<cr_enabled, counts, cr_tries>>

tried_once(c) ==
  /\ goes(c, "once", "idle") /\ UNCHANGED <<cr_enabled, cr_again, cr_delay, counts, cr_tried, cr_tries, cr_rounds>>

ends(c) ==
  /\ goes(c, "trying", "idle") /\ cr_total' = cr_total + cr_again[c] /\ cr_ended' = cr_ended + 1
  /\ cr_tries' = cr_tries + cr_tried[c] /\ cr_tried' = [cr_tried EXCEPT ![c] = 0]
  /\ UNCHANGED <<cr_enabled, cr_again, cr_delay, cr_rounds>>

succeeds(c) == ends(c) /\ cr_ok' = cr_ok + 1 /\ UNCHANGED cr_failed

gives_up(c) == ends(c) /\ cr_again[c] >= MaxAgain /\ cr_failed' = cr_failed + 1 /\ UNCHANGED cr_ok

sleeps(c) ==
  /\ cr_again[c] < MaxAgain /\ goes(c, "trying", "sleeping") /\ cr_again' = [cr_again EXCEPT ![c] = @ + 1]
  /\ UNCHANGED <<cr_enabled, cr_delay, counts, cr_tried, cr_tries, cr_rounds>>

grown(delay) == Min({delay * Factor, MaxDelay})

wakes(c) ==
  /\ goes(c, "sleeping", "trying") /\ cr_delay' = [cr_delay EXCEPT ![c] = grown(@)]
  /\ cr_tried' = [cr_tried EXCEPT ![c] = @ + 1] /\ UNCHANGED <<cr_enabled, cr_again, counts, cr_tries, cr_rounds>>

policyNext == set_enabled \/ \E c \in RetryCallers : retry(c) \/ tried_once(c) \/ succeeds(c) \/ gives_up(c) \/ sleeps(c) \/ wakes(c)

\* get_stats: its attempts are the retries and the successes, which leaves out the
\* first try of every call that failed, and no other.
StatsMissFirstTries == cr_tries = (cr_total + cr_ok) + cr_failed /\ cr_ended = cr_ok + cr_failed

\* The delay never passes its maximum, unless it starts there, however often a call
\* is tried again.
DelayBounded == \A c \in RetryCallers : cr_delay[c] <= Max({InitialDelay, MaxDelay})

(***************************************************************************)
(* common/retry_policy.rs, CircuitBreaker: calls ask whether they may go,  *)
(* and report how they ended.  The first failure opens the breaker,        *)
(* whatever its threshold, and starts a timer that opens it by half; a     *)
(* success then closes it, and a failure then changes nothing.             *)
(***************************************************************************)
CONSTANTS BreakerCalls, MaxTimers

VARIABLES cb_state,    \* Closed, Open, HalfOpen
          cb_timers,   \* timers that run
          cb_calls,    \* what each call does: none or running
          cb_started   \* timers started so far

breakerVars == <<cb_state, cb_timers, cb_calls, cb_started>>

breakerTypeOK ==
  /\ cb_state \in {"Closed", "Open", "HalfOpen"} /\ cb_timers \in 0 .. MaxTimers /\ cb_started \in 0 .. MaxTimers
  /\ cb_calls \in [BreakerCalls -> {"none", "running"}]

breakerInit == cb_state = "Closed" /\ cb_timers = 0 /\ cb_calls = [c \in BreakerCalls |-> "none"] /\ cb_started = 0

can_execute(c) ==
  /\ cb_calls[c] = "none" /\ cb_state # "Open" /\ cb_calls' = [cb_calls EXCEPT ![c] = "running"]
  /\ UNCHANGED <<cb_state, cb_timers, cb_started>>

cannot_execute == cb_state = "Open" /\ UNCHANGED breakerVars

call_ends(c) == cb_calls[c] = "running" /\ cb_calls' = [cb_calls EXCEPT ![c] = "none"]

on_success(c) ==
  /\ call_ends(c) /\ cb_state' = IF cb_state = "HalfOpen" THEN "Closed" ELSE cb_state
  /\ UNCHANGED <<cb_timers, cb_started>>

\* A call that was let go before the breaker opened reports after, and nothing happens.
on_failure(c) ==
  /\ call_ends(c)
  /\ IF cb_state = "Closed"
     THEN cb_started < MaxTimers /\ cb_state' = "Open" /\ cb_timers' = cb_timers + 1 /\ cb_started' = cb_started + 1
     ELSE UNCHANGED <<cb_state, cb_timers, cb_started>>

reset_timeout ==
  /\ cb_timers > 0 /\ cb_timers' = cb_timers - 1 /\ cb_state' = "HalfOpen" /\ UNCHANGED <<cb_calls, cb_started>>

breakerNext == reset_timeout \/ cannot_execute \/ \E c \in BreakerCalls : can_execute(c) \/ on_success(c) \/ on_failure(c)

\* The breaker is open exactly while one timer runs: it never stays open for good,
\* and no timer of an earlier failure half-opens a breaker that has closed since.
OpenHasItsTimer == cb_timers = IF cb_state = "Open" THEN 1 ELSE 0
=============================================================================
