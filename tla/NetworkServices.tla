------------------------- MODULE NetworkServices --------------------------
(***************************************************************************)
(* What the network crate keeps in Redis: a pool of connections, a lock    *)
(* and a counter, and queues of messages.                                  *)
(***************************************************************************)
EXTENDS Integers, Sequences, FiniteSets, SequencesExt

(***************************************************************************)
(* network/redis_service.rs: connections to Redis, kept in a stack behind  *)
(* a mutex, that each operation takes one from and gives back, and the     *)
(* operations several processes meet in: the lock, a key that expires and  *)
(* holds its owner's token, and the counter, which is read and then set.   *)
(***************************************************************************)
CONSTANTS Owners, Nobody, PoolSize, MaxOpened, LockTtl, LockTime, MaxCalls

VARIABLES rd_idle,     \* the stack of idle connections
          rd_opened,   \* connections opened so far
          rd_inside,   \* who has the mutex of the pool
          rd_step,     \* idle, asking, chosen, has, returning, counting
          rd_conn,     \* the connection each caller has, or 0
          rd_call,     \* what the caller is doing: lock, unlock, incr or none
          rd_key,      \* the lock in Redis: the token, or nobody
          rd_until,    \* when the key expires
          rd_lease,    \* what each caller knows: it has the lock until then, 0 if it has not
          rd_now,
          rd_counter, rd_read,   \* the counter, and what each caller read of it
          rd_added, rd_overlap,  \* ghosts: calls that ended, and whether two ever overlapped
          rd_calls

serviceVars == <<rd_idle, rd_opened, rd_inside, rd_step, rd_conn, rd_call, rd_key, rd_until, rd_lease,
                 rd_now, rd_counter, rd_read, rd_added, rd_overlap, rd_calls>>
pool == <<rd_idle, rd_opened, rd_inside>>
locks == <<rd_key, rd_until, rd_lease, rd_now>>
counters == <<rd_counter, rd_read, rd_added, rd_overlap>>
Steps == {"idle", "asking", "chosen", "has", "returning", "counting"}

serviceTypeOK ==
  /\ rd_idle \in Seq(1 .. MaxOpened) /\ Len(rd_idle) <= PoolSize /\ rd_opened \in 0 .. MaxOpened
  /\ rd_inside \in Owners \cup {Nobody} /\ rd_step \in [Owners -> Steps] /\ rd_conn \in [Owners -> 0 .. MaxOpened]
  /\ rd_call \in [Owners -> {"none", "lock", "unlock", "incr"}] /\ rd_key \in Owners \cup {Nobody}
  /\ rd_until \in 0 .. LockTime + LockTtl /\ rd_lease \in [Owners -> 0 .. LockTime + LockTtl] /\ rd_now \in 0 .. LockTime
  /\ rd_counter \in 0 .. MaxCalls /\ rd_read \in [Owners -> 0 .. MaxCalls] /\ rd_added \in 0 .. MaxCalls
  /\ rd_overlap \in BOOLEAN /\ rd_calls \in 0 .. MaxCalls

serviceInit ==
  /\ rd_idle = <<>> /\ rd_opened = 0 /\ rd_inside = Nobody /\ rd_step = [o \in Owners |-> "idle"]
  /\ rd_conn = [o \in Owners |-> 0] /\ rd_call = [o \in Owners |-> "none"] /\ rd_key = Nobody /\ rd_until = 0
  /\ rd_lease = [o \in Owners |-> 0] /\ rd_now = 0 /\ rd_counter = 0 /\ rd_read = [o \in Owners |-> 0]
  /\ rd_added = 0 /\ rd_overlap = FALSE /\ rd_calls = 0

goes(o, from, to) == rd_step[o] = from /\ rd_step' = [rd_step EXCEPT ![o] = to]
expired(at) == rd_until <= at

\* Redis forgets a lock whose time has come.
second_passes ==
  /\ rd_now < LockTime /\ rd_now' = rd_now + 1 /\ rd_key' = IF expired(rd_now + 1) THEN Nobody ELSE rd_key
  /\ UNCHANGED <<pool, rd_step, rd_conn, rd_call, rd_until, rd_lease, counters, rd_calls>>

\* The calls: of a lock, of the counter, or one that only looks (publish, check).
begin(o, call) ==
  /\ rd_calls < MaxCalls /\ rd_calls' = rd_calls + 1 /\ rd_call[o] = "none" /\ rd_step[o] = "idle"
  /\ call = "unlock" => rd_lease[o] > 0
  /\ call = "lock" => rd_lease[o] = 0
  /\ rd_call' = [rd_call EXCEPT ![o] = call]
  /\ rd_step' = [rd_step EXCEPT ![o] = IF call = "incr" THEN "counting" ELSE "asking"]
  /\ rd_read' = IF call = "incr" THEN [rd_read EXCEPT ![o] = rd_counter] ELSE rd_read
  /\ rd_overlap' = (rd_overlap \/ (call = "incr" /\ \E p \in Owners : rd_call[p] = "incr"))
  /\ UNCHANGED <<pool, rd_conn, locks, rd_counter, rd_added>>

(***************************************************************************)
(* The pool.  get_conn keeps its mutex while it tries a connection and,    *)
(* when that one is dead, while it opens another.                          *)
(***************************************************************************)
enter(o) ==
  /\ rd_inside = Nobody /\ rd_step[o] \in {"asking", "returning"} /\ rd_inside' = o
  /\ UNCHANGED <<rd_idle, rd_opened, rd_step, rd_conn, rd_call, locks, counters, rd_calls>>

\* The connection used last answers PING.
ping_ok(o) ==
  /\ rd_inside = o /\ rd_idle # <<>> /\ goes(o, "asking", "has") /\ rd_inside' = Nobody
  /\ rd_conn' = [rd_conn EXCEPT ![o] = Last(rd_idle)] /\ rd_idle' = Front(rd_idle)
  /\ UNCHANGED <<rd_opened, rd_call, locks, counters, rd_calls>>

\* It does not, or there is none: the pool is not looked into again.
ping_fails(o) ==
  /\ rd_inside = o /\ goes(o, "asking", "chosen") /\ rd_idle' = IF rd_idle = <<>> THEN <<>> ELSE Front(rd_idle)
  /\ UNCHANGED <<rd_opened, rd_inside, rd_conn, rd_call, locks, counters, rd_calls>>

connect(o) ==
  /\ rd_inside = o /\ rd_opened < MaxOpened /\ goes(o, "chosen", "has") /\ rd_opened' = rd_opened + 1
  /\ rd_conn' = [rd_conn EXCEPT ![o] = rd_opened + 1] /\ rd_inside' = Nobody
  /\ UNCHANGED <<rd_idle, rd_call, locks, counters, rd_calls>>

connect_fails(o) ==
  /\ rd_inside = o /\ goes(o, "chosen", "idle") /\ rd_inside' = Nobody /\ rd_call' = [rd_call EXCEPT ![o] = "none"]
  /\ UNCHANGED <<rd_idle, rd_opened, rd_conn, locks, counters, rd_calls>>

\* A plausible slip: what is given back is always kept.
return_always(o) ==
  /\ rd_inside = o /\ goes(o, "returning", "idle") /\ rd_inside' = Nobody
  /\ rd_idle' = Append(rd_idle, rd_conn[o])
  /\ rd_conn' = [rd_conn EXCEPT ![o] = 0] /\ rd_call' = [rd_call EXCEPT ![o] = "none"]
  /\ UNCHANGED <<rd_opened, locks, counters, rd_calls>>

return_conn(o) ==
  /\ rd_inside = o /\ goes(o, "returning", "idle") /\ rd_inside' = Nobody
  /\ rd_idle' = IF Len(rd_idle) < PoolSize THEN Append(rd_idle, rd_conn[o]) ELSE rd_idle
  /\ rd_conn' = [rd_conn EXCEPT ![o] = 0] /\ rd_call' = [rd_call EXCEPT ![o] = "none"]
  /\ UNCHANGED <<rd_opened, locks, counters, rd_calls>>

(***************************************************************************)
(* The operations.                                                         *)
(***************************************************************************)
replied(o) == goes(o, "has", "returning") /\ UNCHANGED <<pool, rd_conn, rd_call, counters, rd_calls, rd_now>>

\* create_lock: SET NX EX; the lease is counted from the answer.
create_lock(o) ==
  /\ rd_call[o] = "lock" /\ rd_key = Nobody /\ rd_key' = o /\ rd_until' = rd_now + LockTtl
  /\ rd_lease' = [rd_lease EXCEPT ![o] = rd_now + LockTtl] /\ replied(o)

\* Somebody has it: an error, for nil is not the string the code reads.
lock_taken(o) == rd_call[o] = "lock" /\ rd_key # Nobody /\ replied(o) /\ UNCHANGED <<rd_key, rd_until, rd_lease>>

\* release_lock: a script deletes the key if it holds the caller's token.
release_lock(o) ==
  /\ rd_call[o] = "unlock" /\ rd_key' = IF rd_key = o THEN Nobody ELSE rd_key
  /\ rd_lease' = [rd_lease EXCEPT ![o] = 0] /\ replied(o) /\ UNCHANGED rd_until

\* incr: what was read plus one is stored, through the cache's own connections.
incr(o) ==
  /\ goes(o, "counting", "idle") /\ rd_counter' = rd_read[o] + 1
  /\ rd_added' = rd_added + 1 /\ rd_call' = [rd_call EXCEPT ![o] = "none"]
  /\ rd_read' = [rd_read EXCEPT ![o] = 0] /\ UNCHANGED <<pool, rd_conn, locks, rd_overlap, rd_calls>>

\* A subscriber has a connection of its own.
create_subscriber == UNCHANGED serviceVars

get_conn(o) == ping_ok(o) \/ ping_fails(o) \/ connect(o) \/ connect_fails(o)
operation(o) == create_lock(o) \/ lock_taken(o) \/ release_lock(o) \/ incr(o)

serviceNext ==
  \/ second_passes \/ create_subscriber
  \/ \E o \in Owners : enter(o) \/ get_conn(o) \/ return_conn(o) \/ operation(o)
  \/ \E o \in Owners, call \in {"lock", "unlock", "incr"} : begin(o, call)

\* A connection is in one place: no two callers write to the same one, and none
\* that is in use waits in the pool, or twice.
ConnectionsApart ==
  /\ IsInjective(rd_idle)
  /\ \A o \in Owners : rd_conn[o] # 0 => rd_conn[o] \notin ToSet(rd_idle) /\ \A p \in Owners : rd_conn[p] = rd_conn[o] => p = o

\* Two callers never have the lock at once while the time each was given runs,
\* whoever releases a lock that ran out.
LockExclusive == \A o, p \in Owners : rd_lease[o] > rd_now /\ rd_lease[p] > rd_now => o = p

\* The counter counts every call, as long as no two overlapped.
CountsAlone == ~rd_overlap => rd_counter = rd_added

(***************************************************************************)
(* network/slave_node/message_queue.rs: messages in Redis.  The body of a  *)
(* message is a key that expires, its identifier a member of the sorted    *)
(* set of its queue; a consumer takes the identifier with the highest      *)
(* score, reads the body and puts the identifier in a second set until it  *)
(* acknowledges or rejects it.  Each Redis command is a step, and the      *)
(* process that issues the commands may stop between any two, or be given  *)
(* an error.  Nothing ever looks for the identifiers a consumer left in    *)
(* the second set.  Time is in units of 1000 seconds, what a timestamp     *)
(* adds to a score.                                                        *)
(***************************************************************************)
CONSTANTS Messages, Calls, Consumers, QueueTime, Ttl, CallTtl, MaxFaults

VARIABLES mq_now,
          mq_sent,        \* progress of each send: new, stored, sent, waiting, answered, over
          mq_level,       \* the priority in the metadata: 100 normal, 200 high
          mq_score,       \* the sorted set of the queue: a score, or out
          mq_processing,  \* the set of what consumers work on
          mq_body,        \* when the body of a message expires, 0 when there is none
          mq_step,        \* the consumers: idle, popped, read, holding, deleting, replying, requeueing
          mq_hand,        \* the message each consumer has
          mq_acked, mq_rejected,   \* ghosts: acknowledged, and rejected for good
          mq_lost,        \* ghost: between two sets when its consumer failed, or without a body
          mq_failures

queueVars == <<mq_now, mq_sent, mq_level, mq_score, mq_processing, mq_body, mq_step, mq_hand, mq_acked,
               mq_rejected, mq_lost, mq_failures>>
store == <<mq_score, mq_processing, mq_body>>
consumers == <<mq_step, mq_hand, mq_acked, mq_rejected, mq_lost>>
out == -1

queueTypeOK ==
  /\ mq_now \in 0 .. QueueTime /\ mq_failures \in 0 .. MaxFaults
  /\ mq_sent \in [Messages -> {"new", "stored", "sent", "waiting", "answered", "over"}]
  /\ mq_level \in [Messages -> {100, 200}] /\ mq_score \in [Messages -> Nat \cup {out}]
  /\ mq_body \in [Messages -> Nat] /\ mq_hand \in [Consumers -> Messages \cup {Nobody}]
  /\ mq_step \in [Consumers -> {"idle", "popped", "read", "holding", "deleting", "replying", "requeueing"}]
  /\ mq_processing \cup mq_acked \cup mq_rejected \cup mq_lost \subseteq Messages

queueInit ==
  /\ mq_now = 0 /\ mq_sent = [m \in Messages |-> "new"] /\ mq_score = [m \in Messages |-> out]
  /\ mq_level \in [Messages -> {100, 200}] /\ \A m \in Calls : mq_level[m] = 200
  /\ mq_processing = {} /\ mq_body = [m \in Messages |-> 0] /\ mq_failures = 0
  /\ mq_step = [c \in Consumers |-> "idle"] /\ mq_hand = [c \in Consumers |-> Nobody]
  /\ mq_acked = {} /\ mq_rejected = {} /\ mq_lost = {}

queued == {m \in Messages : mq_score[m] # out}
live(m) == mq_body[m] > mq_now

tick == mq_now < QueueTime /\ mq_now' = mq_now + 1 /\ UNCHANGED <<mq_sent, mq_level, store, consumers, mq_failures>>

(***************************************************************************)
(* Producers: the body, then the identifier.                               *)
(***************************************************************************)
store_body(m) ==
  /\ mq_sent[m] = "new" /\ mq_sent' = [mq_sent EXCEPT ![m] = "stored"]
  /\ mq_body' = [mq_body EXCEPT ![m] = mq_now + IF m \in Calls THEN CallTtl ELSE Ttl]
  /\ UNCHANGED <<mq_now, mq_level, mq_score, mq_processing, consumers, mq_failures>>

\* A plausible slip: the timestamp is not divided.
score_in_seconds(m) == mq_level[m] + 1000 * mq_now

\* The score of a send: the priority, 250 for a call, and the time in thousands.
score(m) == (IF m \in Calls THEN 250 ELSE mq_level[m]) + mq_now

send(m) ==
  /\ mq_sent[m] = "stored" /\ mq_sent' = [mq_sent EXCEPT ![m] = "sent"]
  /\ mq_score' = [mq_score EXCEPT ![m] = score(m)]
  /\ UNCHANGED <<mq_now, mq_level, mq_processing, mq_body, consumers, mq_failures>>

\* send_and_receive listens for the reply after the message is in the queue, and
\* waits for so long.
subscribe(m) ==
  /\ m \in Calls /\ mq_sent[m] = "sent" /\ mq_sent' = [mq_sent EXCEPT ![m] = "waiting"]
  /\ UNCHANGED <<mq_now, mq_level, store, consumers, mq_failures>>

times_out(m) ==
  /\ mq_sent[m] = "waiting" /\ mq_sent' = [mq_sent EXCEPT ![m] = "over"]
  /\ UNCHANGED <<mq_now, mq_level, store, consumers, mq_failures>>

(***************************************************************************)
(* Consumers.                                                              *)
(***************************************************************************)
consumer_goes(c, from, to) == mq_step[c] = from /\ mq_step' = [mq_step EXCEPT ![c] = to]
keeps == UNCHANGED <<mq_hand, mq_acked, mq_rejected, mq_lost, mq_failures, mq_now, mq_level>>
ends(c, from) == consumer_goes(c, from, "idle") /\ mq_hand' = [mq_hand EXCEPT ![c] = Nobody]

\* receive: BZPOPMAX takes the identifier with the highest score.
receive(c) ==
  \E m \in queued :
    /\ \A n \in queued : mq_score[n] <= mq_score[m]
    /\ consumer_goes(c, "idle", "popped") /\ mq_hand' = [mq_hand EXCEPT ![c] = m]
    /\ mq_score' = [mq_score EXCEPT ![m] = out]
    /\ UNCHANGED <<mq_now, mq_sent, mq_level, mq_processing, mq_body, mq_acked, mq_rejected, mq_lost, mq_failures>>

\* Nothing comes while it waits.
receive_nothing(c) == queued = {} /\ mq_step[c] = "idle" /\ UNCHANGED queueVars

read_body(c) == mq_step[c] = "popped" /\ live(mq_hand[c]) /\ consumer_goes(c, "popped", "read") /\ UNCHANGED <<mq_sent, store>> /\ keeps

\* The body is gone: the caller is told that there is no message.
no_body(c) ==
  /\ mq_step[c] = "popped" /\ ~live(mq_hand[c]) /\ ends(c, "popped") /\ mq_lost' = mq_lost \cup {mq_hand[c]}
  /\ UNCHANGED <<mq_now, mq_sent, mq_level, store, mq_acked, mq_rejected, mq_failures>>

\* A plausible slip: the message is handed out before it is in the second set.
hand_out(c) == consumer_goes(c, "read", "holding") /\ UNCHANGED <<mq_sent, store>> /\ keeps

\* The retry count is raised in the copy the consumer is given alone, so that it
\* is 1 at every delivery.
start_processing(c) ==
  /\ consumer_goes(c, "read", "holding") /\ mq_processing' = mq_processing \cup {mq_hand[c]}
  /\ UNCHANGED <<mq_sent, mq_score, mq_body>> /\ keeps

\* acknowledge: out of the second set, then the body, then the reply.
acknowledge(c) ==
  /\ consumer_goes(c, "holding", "deleting") /\ mq_processing' = mq_processing \ {mq_hand[c]}
  /\ UNCHANGED <<mq_sent, mq_score, mq_body>> /\ keeps

delete_body(c) ==
  /\ consumer_goes(c, "deleting", "replying") /\ mq_body' = [mq_body EXCEPT ![mq_hand[c]] = 0]
  /\ mq_acked' = mq_acked \cup {mq_hand[c]}
  /\ UNCHANGED <<mq_now, mq_sent, mq_level, mq_score, mq_processing, mq_hand, mq_rejected, mq_lost, mq_failures>>

\* What a reply reaches: whoever listens at that moment.
published(m) == mq_sent' = [mq_sent EXCEPT ![m] = IF @ = "waiting" THEN "answered" ELSE @]

publish(c) ==
  /\ ends(c, "replying") /\ published(mq_hand[c])
  /\ UNCHANGED <<mq_now, mq_level, store, mq_acked, mq_rejected, mq_lost, mq_failures>>

\* reject: out of the second set; for good, or back into the queue below the
\* messages of its priority.
reject(c) ==
  /\ ends(c, "holding") /\ mq_processing' = mq_processing \ {mq_hand[c]} /\ mq_rejected' = mq_rejected \cup {mq_hand[c]}
  /\ UNCHANGED <<mq_now, mq_sent, mq_level, mq_score, mq_body, mq_acked, mq_lost, mq_failures>>

reject_requeue(c) ==
  /\ consumer_goes(c, "holding", "requeueing") /\ mq_processing' = mq_processing \ {mq_hand[c]}
  /\ UNCHANGED <<mq_sent, mq_score, mq_body>> /\ keeps

requeue(c) ==
  /\ ends(c, "requeueing") /\ mq_score' = [mq_score EXCEPT ![mq_hand[c]] = mq_level[mq_hand[c]] - 10 + mq_now]
  /\ UNCHANGED <<mq_now, mq_sent, mq_level, mq_processing, mq_body, mq_acked, mq_rejected, mq_lost, mq_failures>>

\* A command fails, or the consumer stops: what it has is in no set between the
\* pop and the entry, and between the removal and the requeue.
fails(c) ==
  /\ mq_step[c] # "idle" /\ mq_failures < MaxFaults /\ mq_failures' = mq_failures + 1
  /\ mq_step' = [mq_step EXCEPT ![c] = "idle"] /\ mq_hand' = [mq_hand EXCEPT ![c] = Nobody]
  /\ mq_lost' = IF mq_step[c] \in {"popped", "read", "deleting", "requeueing"} THEN mq_lost \cup {mq_hand[c]} ELSE mq_lost
  /\ UNCHANGED <<mq_now, mq_sent, mq_level, store, mq_acked, mq_rejected>>

takes(c) == receive(c) \/ receive_nothing(c) \/ read_body(c) \/ no_body(c) \/ start_processing(c)
settles(c) == acknowledge(c) \/ delete_body(c) \/ publish(c) \/ reject(c) \/ reject_requeue(c) \/ requeue(c)

queueNext ==
  \/ tick
  \/ \E m \in Messages : store_body(m) \/ send(m) \/ subscribe(m) \/ times_out(m)
  \/ \E c \in Consumers : takes(c) \/ settles(c) \/ fails(c)

\* No two consumers have the same message, and none has one that waits in the queue.
OneHolder ==
  /\ \A c, d \in Consumers : mq_hand[c] # Nobody /\ mq_hand[c] = mq_hand[d] => c = d
  /\ \A c \in Consumers : mq_hand[c] \notin queued

\* An acknowledged message is in neither set again.
AckedStaysOut == mq_acked \cap (queued \cup mq_processing) = {}

\* A message that was put in the queue and neither acknowledged nor rejected can
\* still be found, in a set or in a hand, unless its body expired or its consumer
\* failed where it was in neither set.
StillFound ==
  \A m \in Messages : mq_sent[m] \notin {"new", "stored"} =>
    \/ m \in queued \cup mq_processing \cup mq_acked \cup mq_rejected \cup mq_lost
    \/ \E c \in Consumers : mq_hand[c] = m

\* A consumer is never given a message while one of a higher priority, that can
\* still be read, waits: neither the age of a message nor a rejection upsets the
\* priorities.
PriorityFirst ==
  [][\A c \in Consumers : mq_step[c] = "idle" /\ mq_step'[c] = "popped" =>
       \A n \in queued : live(n) => mq_level[n] <= mq_level[mq_hand'[c]]]_queueVars

\* Whoever has a reply to a call knows that its message is settled: it is in no
\* set, and has no body.
AnsweredIsSettled == \A m \in Messages : mq_sent[m] = "answered" => m \in mq_acked /\ ~live(m) /\ m \notin mq_processing
=============================================================================
