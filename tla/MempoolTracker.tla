-------------------------- MODULE MempoolTracker --------------------------
(***************************************************************************)
(* How the chain adapters learn of transactions that wait: the watcher of  *)
(* a token, and the check that asks a node for all of them.                *)
(***************************************************************************)
EXTENDS Integers, FiniteSets, Functions

(***************************************************************************)
(* How chain_adapters/base.rs watches for transactions of a token: over a  *)
(* stream of pending hashes, or block after block when there is none.      *)
(* Transaction i is the i-th hash of the stream, or the one in block i.    *)
(***************************************************************************)
CONSTANT MaxItems

VARIABLES mw_mode,      \* off, stream, sandwich, polling, ended
          mw_head,      \* transactions, or blocks, there are so far
          mw_kind,      \* what each of them is
          mw_last,      \* last_block, or the last hash taken from the stream
          mw_upto,      \* the head the loop under way goes up to
          mw_looked,    \* ghost: how often each was asked for
          mw_reported   \* ghost: how often each was given to the callback

watcherVars == <<mw_mode, mw_head, mw_kind, mw_last, mw_upto, mw_looked, mw_reported>>

Items == 1 .. MaxItems
Kinds == {"swap", "call", "other"}   \* swaps of the token, other calls that name it, and the rest

watcherTypeOK ==
  /\ mw_mode \in {"off", "stream", "sandwich", "polling", "ended"}
  /\ {mw_head, mw_last, mw_upto} \subseteq 0 .. MaxItems /\ mw_kind \in [Items -> Kinds]
  /\ mw_looked \in [Items -> Nat] /\ mw_reported \in [Items -> Nat]

watcherInit ==
  /\ mw_mode = "off" /\ mw_head = 0 /\ mw_kind = [i \in Items |-> "other"] /\ mw_last = 0 /\ mw_upto = 0
  /\ mw_looked = [i \in Items |-> 0] /\ mw_reported = [i \in Items |-> 0]

starts(mode) == mw_mode' = mode /\ UNCHANGED <<mw_head, mw_kind, mw_last, mw_upto, mw_looked, mw_reported>>

\* watch_token_transactions: without a websocket, or a subscription, it polls; a
\* wrong address, of the token or the router, is an error.
watch_token_transactions == mw_mode = "off" /\ (starts("stream") \/ starts("polling") \/ UNCHANGED watcherVars)

\* watch_for_sandwich_opportunities: without a stream it is an error.
watch_for_sandwich_opportunities == mw_mode = "off" /\ (starts("sandwich") \/ UNCHANGED watcherVars)

concerns(i) ==
  mw_kind[i] = "swap" \/ (mw_mode # "sandwich" /\ mw_kind[i] = "call")

\* One item is asked for; the answer may be an error, or that there is none, and
\* is not asked for again.
looks(i) ==
  /\ mw_looked' = [mw_looked EXCEPT ![i] = @ + 1]
  /\ \/ concerns(i) /\ mw_reported' = [mw_reported EXCEPT ![i] = @ + 1]
     \/ UNCHANGED mw_reported

\* The task of a stream takes the next hash.
stream_next ==
  /\ mw_mode \in {"stream", "sandwich"} /\ mw_last < mw_head
  /\ mw_last' = mw_last + 1 /\ looks(mw_last + 1) /\ UNCHANGED <<mw_mode, mw_head, mw_kind, mw_upto>>

\* The stream ends, and the task with it: nobody subscribes again.
stream_ends == mw_mode \in {"stream", "sandwich"} /\ starts("ended")

task_ended == mw_mode = "ended" /\ UNCHANGED watcherVars

\* The polling task: every wait_time it asks for the head.
poll_wakes ==
  /\ mw_mode = "polling" /\ mw_upto = 0 /\ mw_head > mw_last
  /\ mw_upto' = mw_head /\ UNCHANGED <<mw_mode, mw_head, mw_kind, mw_last, mw_looked, mw_reported>>

poll_nothing == mw_mode = "polling" /\ mw_upto = 0 /\ mw_head <= mw_last /\ UNCHANGED watcherVars

first_block == mw_last + 1

\* The loop over the blocks up to the head it was told.
poll_block ==
  /\ mw_mode = "polling" /\ mw_upto > 0
  /\ looks(first_block) /\ mw_last' = first_block
  /\ mw_upto' = (IF first_block = mw_upto THEN 0 ELSE mw_upto)
  /\ UNCHANGED <<mw_mode, mw_head, mw_kind>>

\* The chain: something arrives, or the newest block is given up for another.
arrives ==
  /\ mw_head < MaxItems /\ mw_head' = mw_head + 1
  /\ \E k \in Kinds : mw_kind' = [mw_kind EXCEPT ![mw_head + 1] = k]
  /\ UNCHANGED <<mw_mode, mw_last, mw_upto, mw_looked, mw_reported>>

reorganised ==
  /\ mw_mode = "polling" /\ mw_head > 0 /\ mw_head' = mw_head - 1
  /\ UNCHANGED <<mw_mode, mw_kind, mw_last, mw_upto, mw_looked, mw_reported>>

watcherNext ==
  \/ watch_token_transactions \/ watch_for_sandwich_opportunities \/ stream_next \/ stream_ends \/ task_ended
  \/ poll_nothing \/ poll_wakes \/ poll_block \/ arrives \/ reorganised

\* The stream or the loop passes over no transaction and comes to none twice, also
\* when the head goes back; the callback hears of each at most once.
LookedAtOnce ==
  /\ \A i \in Items : mw_looked[i] = (IF i <= mw_last THEN 1 ELSE 0)
  /\ \A i \in Items : mw_reported[i] <= mw_looked[i]

(***************************************************************************)
(* check_mempool of chain_adapters/eth.rs: everything that waits is asked  *)
(* for at most once an interval.  The lock of the time of the last check   *)
(* is held to read it and to write it, not in between.                     *)
(***************************************************************************)
CONSTANTS Checkers, Interval, LastTick

VARIABLES mk_now,      \* the clock
          mk_last,     \* last_mempool_check
          mk_pc,       \* where each caller stands
          mk_fetched   \* ghost: answers of the node, by time

checkVars == <<mk_now, mk_last, mk_pc, mk_fetched>>

Ticks == 0 .. LastTick
Never == -1

checkTypeOK ==
  /\ mk_now \in Ticks /\ mk_last \in Ticks \cup {Never}
  /\ mk_pc \in [Checkers -> {"idle", "asking", "writing"}] /\ mk_fetched \in [Ticks -> Nat]

checkInit ==
  /\ mk_now = 0 /\ mk_last = Never /\ mk_pc = [c \in Checkers |-> "idle"] /\ mk_fetched = [t \in Ticks |-> 0]

goes(c, pc) == mk_pc' = [mk_pc EXCEPT ![c] = pc]

recent == mk_last # Never /\ mk_now - mk_last < Interval

\* Checked again too soon, the answer is empty.
too_soon(c) == mk_pc[c] = "idle" /\ recent /\ UNCHANGED checkVars

check_mempool(c) ==
  /\ mk_pc[c] = "idle" /\ ~recent /\ goes(c, "asking") /\ UNCHANGED <<mk_now, mk_last, mk_fetched>>

\* The node fails or takes more than ten seconds: nothing is remembered.
check_fails(c) == mk_pc[c] = "asking" /\ goes(c, "idle") /\ UNCHANGED <<mk_now, mk_last, mk_fetched>>

check_answered(c) ==
  /\ mk_pc[c] = "asking" /\ goes(c, "writing") /\ mk_fetched' = [mk_fetched EXCEPT ![mk_now] = @ + 1]
  /\ UNCHANGED <<mk_now, mk_last>>

\* The time is written; what the transactions are is left out.
check_written(c) == mk_pc[c] = "writing" /\ mk_last' = mk_now /\ goes(c, "idle") /\ UNCHANGED <<mk_now, mk_fetched>>

tick == mk_now < LastTick /\ mk_now' = mk_now + 1 /\ UNCHANGED <<mk_last, mk_pc, mk_fetched>>

checkNext ==
  \/ tick
  \/ \E c \in Checkers : too_soon(c) \/ check_mempool(c) \/ check_fails(c) \/ check_answered(c) \/ check_written(c)

fetched_from(t) == FoldFunctionOnSet(LAMBDA x, y : x + y, 0, mk_fetched, {s \in Ticks : t <= s /\ s < t + Interval})

\* Callers that come together may all find the last check old; even so, in no
\* stretch as long as the interval has the node answered more than once for each.
FetchesBounded == \A t \in Ticks : fetched_from(t) <= Cardinality(Checkers)
=============================================================================
