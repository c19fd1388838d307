---------------------------- MODULE EvmRequests ----------------------------
(***************************************************************************)
(* Concurrent requests of EVMChainAdapter                                  *)
(* (snipebot/src/chain_adapters/chain_adapter_impl.rs).  A request takes a *)
(* guard of the pool, behind the lock of the pool, and holds its permit    *)
(* through all the tries of its retry policy; some requests make another   *)
(* one while they hold a guard.  The tries of one exchange with the node   *)
(* are a single step here: RetryPolicy and EvmSender are about them.       *)
(***************************************************************************)
EXTENDS Naturals, FiniteSets, FiniteSetsExt

CONSTANTS Tasks, Permits   \* of the only endpoint

VARIABLES er_op,      \* the request of each task
          er_pc,      \* "idle", "lock", "permit", "asks", "ok" or "error"
          er_left,    \* exchanges with the node that are to be made
          er_bad,     \* one of them has failed
          er_guards,  \* guards the task holds
          er_lock     \* the task that holds the pool, as a set

vars == <<er_op, er_pc, er_left, er_bad, er_guards, er_lock>>

\* One exchange; four that are joined; three in turn; a wait with a timeout;
\* and the ones with a request inside: get_gas_info, swap_eth_for_tokens.
Ops == {"read", "details", "node_info", "receipt", "gas_info", "swap"}
exchanges(op) == CASE op = "details" -> 4 [] op = "node_info" -> 3 [] op = "swap" -> 0 [] OTHER -> 1

\* Requests made inside: the price, when the block names no base fee, or the
\* quote and the transaction.
inner(op) == CASE op = "gas_info" -> 1 [] op = "swap" -> 2 [] OTHER -> 0

TypeOK ==
  /\ er_op \in [Tasks -> Ops] /\ er_pc \in [Tasks -> {"idle", "lock", "permit", "asks", "ok", "error"}]
  /\ er_left \in [Tasks -> Nat] /\ er_bad \in [Tasks -> BOOLEAN] /\ er_guards \in [Tasks -> Nat]
  /\ er_lock \subseteq Tasks

Init ==
  /\ er_op = [t \in Tasks |-> "read"] /\ er_pc = [t \in Tasks |-> "idle"] /\ er_left = [t \in Tasks |-> 0]
  /\ er_bad = [t \in Tasks |-> FALSE] /\ er_guards = [t \in Tasks |-> 0] /\ er_lock = {}

free == Permits - FoldFunctionOnSet(LAMBDA x, y : x + y, 0, er_guards, Tasks)

(***************************************************************************)
(* get_provider.                                                           *)
(***************************************************************************)
\* What is left of an operation counts its exchanges and the requests inside.
begins(t, op) ==
  /\ er_pc[t] \in {"idle", "ok", "error"}
  /\ er_op' = [er_op EXCEPT ![t] = op] /\ er_pc' = [er_pc EXCEPT ![t] = "lock"]
  /\ er_left' = [er_left EXCEPT ![t] = exchanges(op) + inner(op)]
  /\ er_bad' = [er_bad EXCEPT ![t] = FALSE] /\ UNCHANGED <<er_guards, er_lock>>

begin_read(t) == begins(t, "read")     \* a block, the price of gas
begin_send(t) == begins(t, "read")     \* a transaction, once for each try
begin_query(t) == begins(t, "read")    \* an account, a transaction
begin_call(t) == begins(t, "read")     \* logs, nonce, estimate, call
begin_contract(t) == begins(t, "read") \* a balance or an allowance of a token
begin_details(t) == begins(t, "details")
begin_node_info(t) == begins(t, "node_info")
begin_receipt(t) == begins(t, "receipt")
begin_gas_info(t) == begins(t, "gas_info")
begin_swap(t) == begins(t, "swap")

pool_write(t) ==
  /\ er_pc[t] = "lock" /\ er_lock = {}
  /\ er_lock' = {t} /\ er_pc' = [er_pc EXCEPT ![t] = "permit"]
  /\ UNCHANGED <<er_op, er_left, er_bad, er_guards>>

get_provider(t) ==
  /\ er_pc[t] = "permit" /\ free > 0
  /\ er_guards' = [er_guards EXCEPT ![t] = @ + 1] /\ er_lock' = {}
  /\ er_pc' = [er_pc EXCEPT ![t] = IF er_op[t] = "swap" /\ er_guards[t] = 0 THEN "lock" ELSE "asks"]
  /\ UNCHANGED <<er_op, er_left, er_bad>>

\* The task's guards go with its answer.
answers(t, a) ==
  /\ er_pc' = [er_pc EXCEPT ![t] = a] /\ er_guards' = [er_guards EXCEPT ![t] = 0]

\* A plausible slip: only a task that has no guard gives up.
permit_timeout_outer(t) ==
  /\ er_pc[t] = "permit" /\ free = 0 /\ er_guards[t] = 0 /\ er_lock' = {} /\ answers(t, "error")
  /\ UNCHANGED <<er_op, er_left, er_bad>>

\* No permit before connection_timeout, while others wait for the pool.
permit_timeout(t) ==
  /\ er_pc[t] = "permit" /\ free = 0 /\ er_lock' = {} /\ answers(t, "error")
  /\ UNCHANGED <<er_op, er_left, er_bad>>

\* A swap needs a wallet and a path; it looks for them when it has its guard.
swap_refused(t) ==
  /\ er_op[t] = "swap" /\ er_pc[t] = "lock" /\ er_left[t] = inner("swap") /\ er_guards[t] > 0
  /\ answers(t, "error") /\ UNCHANGED <<er_op, er_left, er_bad, er_lock>>

(***************************************************************************)
(* Exchanges.                                                              *)
(***************************************************************************)
\* The answer of a joined exchange is looked at when all of them have ended.
ends(t, ok) == IF er_op[t] = "details" THEN er_left[t] = 1 ELSE ~ok \/ er_left[t] = 1

\* Between the requests inside, only the guard of the outer one is kept.
exchange(t, ok) ==
  /\ er_pc[t] = "asks"
  /\ er_left' = [er_left EXCEPT ![t] = @ - 1] /\ er_bad' = [er_bad EXCEPT ![t] = @ \/ ~ok]
  /\ \/ ends(t, ok) /\ answers(t, IF er_bad'[t] THEN "error" ELSE "ok")
     \/ /\ ~ends(t, ok) /\ inner(er_op[t]) = 0 /\ UNCHANGED <<er_pc, er_guards>>
     \/ /\ ~ends(t, ok) /\ inner(er_op[t]) > 0
        /\ er_pc' = [er_pc EXCEPT ![t] = "lock"] /\ er_guards' = [er_guards EXCEPT ![t] = 1]
  /\ UNCHANGED <<er_op, er_lock>>

\* Waiting is not a deadlock: the time-outs run.
time_passes == UNCHANGED vars

Next ==
  \/ \E t \in Tasks :
       \/ begin_read(t) \/ begin_send(t) \/ begin_query(t) \/ begin_call(t) \/ begin_contract(t) \/ swap_refused(t)
       \/ begin_details(t) \/ begin_node_info(t) \/ begin_receipt(t) \/ begin_gas_info(t) \/ begin_swap(t)
       \/ pool_write(t) \/ get_provider(t) \/ permit_timeout(t) \/ \E ok \in BOOLEAN : exchange(t, ok)
  \/ time_passes

\* The lock is fair (tokio queues its waiters), a permit that is waited for
\* comes or the time is up, and an exchange ends with its last try.
Fairness ==
  \A t \in Tasks :
    /\ SF_vars(pool_write(t)) /\ WF_vars(get_provider(t) \/ permit_timeout(t))
    /\ WF_vars(\E ok \in BOOLEAN : exchange(t, ok))

Spec == Init /\ [][Next]_vars /\ Fairness

(***************************************************************************)
(* Properties.                                                             *)
(***************************************************************************)
\* Every request gets an answer: requests that hold a permit and wait for
\* another, in the lock of the pool, may be all there are, but do not wait for
\* each other for ever.
RequestsEnd == \A t \in Tasks : er_pc[t] \in {"lock", "permit"} ~> er_pc[t] \in {"ok", "error"}

\* When a request has been answered every exchange of it that is joined has
\* ended, its guards are gone, and it is a success only if none has failed.
AnsweredWhole ==
  \A t \in Tasks :
    /\ er_pc[t] \in {"ok", "error"} => er_guards[t] = 0
    /\ er_pc[t] = "ok" => er_left[t] = 0 /\ ~er_bad[t]
    /\ er_pc[t] = "error" /\ er_op[t] = "details" /\ er_bad[t] => er_left[t] = 0
=============================================================================
