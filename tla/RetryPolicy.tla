----------------------------- MODULE RetryPolicy -----------------------------
(***************************************************************************)
(* ExponentialRetryPolicy with the CircuitBreaker of one endpoint          *)
(* (snipebot/src/chain_adapters/retry_policy.rs).  Each element of         *)
(* Requests is a task that calls retry_async again and again; the tasks    *)
(* share one breaker.                                                      *)
(*                                                                         *)
(* The breaker's state is behind a RwLock used mostly through try_read and *)
(* try_write, which give up when the lock is taken, so the lock is part of *)
(* the model: `readers' holds the tasks with a read guard, `writer' the    *)
(* one with the write guard.  last_state_change is only locked under a     *)
(* guard of the state that excludes its other users, so its try_locks      *)
(* always succeed; last_error_time is written and never read.              *)
(*                                                                         *)
(* Time is what is compared: the age of the last state change, up to       *)
(* OpenDuration, and error_count up to ErrorThreshold.  The time limit of  *)
(* a retry, the delay and the errors of the operation are free.  Gas       *)
(* prices, metrics and logs are left out.                                  *)
(***************************************************************************)
EXTENDS Integers

CONSTANTS
  Requests,          \* concurrent users of the endpoint
  Nobody,            \* no write guard
  Resetter,          \* the caller of reset
  ErrorThreshold,    \* circuit_breaker.error_threshold
  OpenDuration,      \* circuit_breaker.open_duration
  HalfOpenAllowed,   \* circuit_breaker.half_open_allowed_requests
  MaxRetries         \* max_retries

VARIABLES
  state,               \* CircuitBreakerState
  error_count,         \* saturates at ErrorThreshold
  half_open_requests,  \* saturates at HalfOpenAllowed
  age,                 \* ticks since last_state_change, saturates at OpenDuration
  readers, writer,     \* holders of the guards of `state'
  pc,                  \* request -> where it is in retry_async
  current_retry,       \* request -> local of retry_async
  seen,                \* request -> copy of the state it has read
  tripping,            \* request -> its failure was the threshold's or a later one
  after_open           \* history: request -> operations begun since the breaker opened

breakerVars == <<state, error_count, half_open_requests, age>>
lockVars == <<readers, writer>>
localVars == <<current_retry, seen, tripping>>
vars == <<breakerVars, lockVars, pc, localVars, after_open>>

ASSUME RetryAssumption ==
  /\ ErrorThreshold \in Nat \ {0}
  /\ OpenDuration \in Nat /\ HalfOpenAllowed \in Nat \ {0} /\ MaxRetries \in Nat
  /\ Nobody \notin Requests /\ Resetter \notin Requests /\ Nobody # Resetter

CircuitBreakerState == {"Closed", "Open", "HalfOpen"}

PC == {"idle", "admit", "admitting", "loop", "calling", "succeeded", "counting",
       "reading", "comparing", "opening", "opened", "readmit", "readmitting", "deciding"}

-----------------------------------------------------------------------------
upto(limit, n) == IF n > limit THEN limit ELSE n

new ==
  /\ state = "Closed"
  /\ error_count = 0 /\ half_open_requests = 0 /\ age = 0
  /\ readers = {} /\ writer = Nobody
  /\ pc = [r \in Requests |-> "idle"]
  /\ current_retry = [r \in Requests |-> 0]
  /\ seen = [r \in Requests |-> "Closed"]
  /\ tripping = [r \in Requests |-> FALSE]
  /\ after_open = [r \in Requests |-> 0]

Goto(r, here, there) ==
  /\ pc[r] = here
  /\ pc' = [pc EXCEPT ![r] = there]

(* try_read on the state: a guard, or an error while somebody writes. *)
try_read(r) ==
  /\ writer = Nobody
  /\ readers' = readers \cup {r}
  /\ seen' = [seen EXCEPT ![r] = state]
  /\ UNCHANGED writer

CanWrite == readers = {} /\ writer = Nobody

(* can_execute, first half: the state is read and the guard is kept; when  *)
(* it cannot be read the answer is no and retry_async returns an error.    *)
can_execute_read(r, here, there) ==
  \/ /\ Goto(r, here, there)
     /\ try_read(r)
     /\ UNCHANGED <<breakerVars, current_retry, tripping, after_open>>
  \/ /\ writer # Nobody
     /\ Goto(r, here, "idle")
     /\ UNCHANGED <<breakerVars, lockVars, localVars, after_open>>

\* What the code means to do: the guard is dropped before the lock is tried.
can_execute_dropping(r, here, there) ==
  LET expired == seen[r] = "Open" /\ age = OpenDuration
      probes == readers = {r} /\ writer = Nobody /\ expired
      allowed == \/ seen[r] = "Closed"
                 \/ probes
                 \/ seen[r] = "HalfOpen" /\ half_open_requests < HalfOpenAllowed
  IN  /\ Goto(r, here, IF allowed THEN there ELSE "idle")
      /\ state' = IF probes THEN "HalfOpen" ELSE state
      /\ age' = IF probes THEN 0 ELSE age
      /\ half_open_requests' = IF probes THEN 0
                               ELSE IF seen[r] = "HalfOpen"
                               THEN upto(HalfOpenAllowed, half_open_requests + 1)
                               ELSE half_open_requests
      /\ readers' = readers \ {r}
      /\ UNCHANGED <<error_count, writer, localVars, after_open>>

\* A plausible slip: an expired breaker that cannot be locked lets the request pass.
can_execute_fail_open(r, here, there) ==
  LET expired == seen[r] = "Open" /\ age = OpenDuration
  IN  /\ Goto(r, here, IF seen[r] # "Open" \/ expired THEN there ELSE "idle")
      /\ readers' = readers \ {r}
      /\ UNCHANGED <<breakerVars, writer, localVars, after_open>>

(* can_execute, second half: an expired open breaker tries to become       *)
(* half-open and let the request through, with its own read guard held.    *)
can_execute(r, here, there) ==
  LET expired == seen[r] = "Open" /\ age = OpenDuration
      probes == CanWrite /\ expired
      allowed == \/ seen[r] = "Closed"
                 \/ probes
                 \/ seen[r] = "HalfOpen" /\ half_open_requests < HalfOpenAllowed
  IN  /\ Goto(r, here, IF allowed THEN there ELSE "idle")
      /\ state' = IF probes THEN "HalfOpen" ELSE state
      /\ age' = IF probes THEN 0 ELSE age
      /\ half_open_requests' = IF probes THEN 0
                               ELSE IF seen[r] = "HalfOpen"
                               THEN upto(HalfOpenAllowed, half_open_requests + 1)
                               ELSE half_open_requests
      /\ readers' = readers \ {r}
      /\ UNCHANGED <<error_count, writer, localVars, after_open>>

(* retry_async: a call starts with its counters at zero. *)
retry_async(r) ==
  /\ Goto(r, "idle", "admit")
  /\ current_retry' = [current_retry EXCEPT ![r] = 0]
  /\ UNCHANGED <<breakerVars, lockVars, seen, tripping, after_open>>

(* The head of the loop: too many retries or, at any moment but the first, *)
(* too much time is an error; otherwise the operation is begun.            *)
begin_operation(r) ==
  /\ current_retry[r] < MaxRetries
  /\ Goto(r, "loop", "calling")
  /\ after_open' = IF state = "Open" THEN [after_open EXCEPT ![r] = @ + 1] ELSE after_open
  /\ UNCHANGED <<breakerVars, lockVars, localVars>>

give_up(r) ==
  /\ current_retry[r] >= MaxRetries \/ current_retry[r] > 0
  /\ Goto(r, "loop", "idle")
  /\ UNCHANGED <<breakerVars, lockVars, localVars, after_open>>

(* Success is only reported to the breaker after a retry. *)
operation_ok(r) ==
  /\ Goto(r, "calling", IF current_retry[r] > 0 THEN "succeeded" ELSE "idle")
  /\ UNCHANGED <<breakerVars, lockVars, localVars, after_open>>

operation_failed(r) ==
  /\ Goto(r, "calling", "counting")
  /\ UNCHANGED <<breakerVars, lockVars, localVars, after_open>>

(* record_success waits for the lock; it only acts on a half-open breaker. *)
record_success(r) ==
  LET closes == state = "HalfOpen" /\ half_open_requests >= HalfOpenAllowed
  IN  /\ writer = Nobody
      /\ closes => readers = {}
      /\ Goto(r, "succeeded", "idle")
      /\ state' = IF closes THEN "Closed" ELSE state
      /\ age' = IF closes THEN 0 ELSE age
      /\ error_count' = IF closes THEN 0 ELSE error_count
      /\ UNCHANGED <<half_open_requests, lockVars, localVars, after_open>>

(* record_failure, step by step.  The error is counted ... *)
count_error(r) ==
  /\ Goto(r, "counting", "reading")
  /\ error_count' = upto(ErrorThreshold, error_count + 1)
  /\ tripping' = [tripping EXCEPT ![r] = error_count + 1 >= ErrorThreshold]
  /\ UNCHANGED <<state, half_open_requests, age, lockVars, current_retry, seen, after_open>>

(* ... the state is read, or record_failure gives up ... *)
read_state(r) ==
  \/ /\ Goto(r, "reading", "comparing")
     /\ try_read(r)
     /\ UNCHANGED <<breakerVars, current_retry, tripping, after_open>>
  \/ /\ writer # Nobody
     /\ Goto(r, "reading", "readmit")
     /\ UNCHANGED <<breakerVars, lockVars, localVars, after_open>>

(* ... the guard is dropped and the copy compared ... *)
compare_state(r) ==
  /\ Goto(r, "comparing",
          IF seen[r] = "HalfOpen" \/ (seen[r] = "Closed" /\ tripping[r])
          THEN "opening" ELSE "readmit")
  /\ readers' = readers \ {r}
  /\ UNCHANGED <<breakerVars, writer, localVars, after_open>>

(* ... and the breaker is opened, unless somebody holds a guard right now. *)
open_circuit(r) ==
  \/ /\ CanWrite
     /\ Goto(r, "opening", "opened")
     /\ writer' = r
     /\ state' = "Open" /\ age' = 0
     /\ after_open' = IF state = "Open" THEN after_open ELSE [q \in Requests |-> 0]
     /\ UNCHANGED <<error_count, half_open_requests, readers, localVars>>
  \/ /\ ~CanWrite
     /\ Goto(r, "opening", "readmit")
     /\ UNCHANGED <<breakerVars, lockVars, localVars, after_open>>

\* A plausible slip: the write guard is leaked.
drop_guard_leaking(r) ==
  /\ Goto(r, "opened", "readmit")
  /\ UNCHANGED <<breakerVars, lockVars, localVars, after_open>>

drop_guard(r) ==
  /\ Goto(r, "opened", "readmit")
  /\ writer' = Nobody
  /\ UNCHANGED <<breakerVars, readers, localVars, after_open>>

(* Back in retry_async, let through again: an error that cannot be retried *)
(* is returned, otherwise the task sleeps and the loop starts over.        *)
not_retryable(r) ==
  /\ Goto(r, "deciding", "idle")
  /\ UNCHANGED <<breakerVars, lockVars, localVars, after_open>>

wake_up(r) ==
  /\ Goto(r, "deciding", "loop")
  /\ current_retry' = [current_retry EXCEPT ![r] = @ + 1]
  /\ UNCHANGED <<breakerVars, lockVars, seen, tripping, after_open>>

(* reset waits for the lock and keeps it while it clears the counter. *)
reset ==
  /\ CanWrite
  /\ writer' = Resetter
  /\ state' = "Closed" /\ age' = 0
  /\ after_open' = [r \in Requests |-> 0]
  /\ UNCHANGED <<error_count, half_open_requests, readers, pc, localVars>>

reset_counter ==
  /\ writer = Resetter
  /\ writer' = Nobody
  /\ error_count' = 0
  /\ UNCHANGED <<state, half_open_requests, age, readers, pc, localVars, after_open>>

(* Time passes. *)
Tick ==
  /\ age' = upto(OpenDuration, age + 1)
  /\ UNCHANGED <<state, error_count, half_open_requests, lockVars, pc, localVars, after_open>>

-----------------------------------------------------------------------------
record_failure(r) ==
  \/ count_error(r) \/ read_state(r) \/ compare_state(r)
  \/ open_circuit(r) \/ drop_guard(r)

Proceed(r) ==
  \/ can_execute_read(r, "admit", "admitting") \/ can_execute(r, "admitting", "loop")
  \/ begin_operation(r) \/ give_up(r)
  \/ operation_ok(r) \/ operation_failed(r)
  \/ record_success(r) \/ record_failure(r)
  \/ can_execute_read(r, "readmit", "readmitting") \/ can_execute(r, "readmitting", "deciding")
  \/ not_retryable(r) \/ wake_up(r)

Next ==
  \/ \E r \in Requests : retry_async(r) \/ Proceed(r)
  \/ reset \/ reset_counter
  \/ Tick

Spec == new /\ [][Next]_vars

(* A task that has started is scheduled until it is done (the operation    *)
(* itself is taken to return), a reset that has the lock finishes, time    *)
(* passes, and there is always another request.                            *)
Fairness ==
  /\ \A r \in Requests : WF_vars(retry_async(r)) /\ WF_vars(Proceed(r))
  /\ WF_vars(reset_counter)
  /\ WF_vars(Tick)

FairSpec == Spec /\ Fairness

-----------------------------------------------------------------------------
(* However the tasks interleave with the try_locks of the breaker, after   *)
(* it has opened no task begins more than one operation: the one it had    *)
(* been let through for.                                                   *)
OneMoreOperation == \A r \in Requests : state = "Open" => after_open[r] <= 1

(* An open breaker is never left but by reset: the way through HalfOpen    *)
(* that can_execute is written for is closed by its own read guard.        *)
OnlyResetCloses == [][state = "Open" /\ state' # "Open" => writer' = Resetter]_vars

(* Unless reset is called for ever, every call of retry_async returns: the *)
(* retries are limited and the only lock waited for, by record_success, is *)
(* given back.                                                             *)
CallsReturn ==
  <>[](writer # Resetter) => \A r \in Requests : (pc[r] # "idle") ~> (pc[r] = "idle")

(* retry_policy.rs:62 names the time the circuit stays open; after it, as  *)
(* line 158 says, can_execute moves the breaker to half-open.              *)
OpenIsLeft == (state = "Open") ~> (state # "Open")
=============================================================================
