------------------------- MODULE TransactionSender -------------------------
(***************************************************************************)
(* TransactionManager and WalletIntegration                                *)
(* (snipebot/src/chain_adapters/wallet_integration.rs): several callers    *)
(* send for one wallet.  A call holds a read guard of the chain registry   *)
(* while it talks to the node; approve_token, transfer_token and           *)
(* swap_tokens hold one and ask for a second in send_transaction.  The     *)
(* lock is tokio's fair RwLock: no reader passes a waiting writer.         *)
(***************************************************************************)
EXTENDS Naturals, FiniteSets

CONSTANTS Senders, MaxMined   \* bound on the mined transactions

VARIABLES ts_pc, ts_guards, ts_nonce,  \* per caller
          ts_writer,                   \* a change of the registry
          ts_adapters,                 \* WalletIntegration has the adapter
          ts_mined,                    \* transactions of the wallet in blocks
          ts_pool                      \* nonces waiting in the node's pool

vars == <<ts_pc, ts_guards, ts_nonce, ts_writer, ts_adapters, ts_mined, ts_pool>>

TypeOK ==
  /\ ts_pc \in [Senders -> {"idle", "outer", "ready", "signing", "waiting"}]
  /\ ts_guards \in [Senders -> 0 .. 2] /\ ts_nonce \in [Senders -> 0 .. MaxMined]
  /\ ts_writer \in {"idle", "queued", "holding"} /\ ts_adapters \in BOOLEAN
  /\ ts_mined \in 0 .. MaxMined /\ ts_pool \subseteq 0 .. MaxMined

Init ==
  /\ ts_pc = [t \in Senders |-> "idle"] /\ ts_guards = [t \in Senders |-> 0] /\ ts_nonce = [t \in Senders |-> 0]
  /\ ts_writer = "idle" /\ ts_adapters = FALSE /\ ts_mined = 0 /\ ts_pool = {}

moves(t, from, to) == ts_pc[t] = from /\ ts_pc' = [ts_pc EXCEPT ![t] = to]
read(t) == ts_writer = "idle" /\ ts_guards' = [ts_guards EXCEPT ![t] = @ + 1]
chainVars == <<ts_mined, ts_pool>>

(***************************************************************************)
(* Senders.                                                                *)
(***************************************************************************)
takes_guard(t, pc) == moves(t, "idle", pc) /\ read(t) /\ UNCHANGED <<ts_nonce, ts_writer, ts_adapters, chainVars>>

send_transaction(t) == takes_guard(t, "ready")

\* These take a guard of the registry for the adapter and keep it while they call
\* send_transaction, which takes another.
approve_token(t) == takes_guard(t, "outer")
transfer_token(t) == takes_guard(t, "outer")
swap_tokens(t) == takes_guard(t, "outer")

nested_send(t) == moves(t, "outer", "ready") /\ read(t) /\ UNCHANGED <<ts_nonce, ts_writer, ts_adapters, chainVars>>

\* WalletIntegration clones the adapter and holds no guard while it sends.
integration_send(t) ==
  /\ ts_adapters /\ moves(t, "idle", "ready")
  /\ UNCHANGED <<ts_guards, ts_nonce, ts_writer, ts_adapters, chainVars>>

\* get_transaction_count(address, None): what has been mined.
get_transaction_count == ts_mined

fetch_nonce(t) ==
  /\ moves(t, "ready", "signing") /\ get_transaction_count <= MaxMined
  /\ ts_nonce' = [ts_nonce EXCEPT ![t] = get_transaction_count]
  /\ UNCHANGED <<ts_guards, ts_writer, ts_adapters, chainVars>>

release(t) == ts_guards' = [ts_guards EXCEPT ![t] = 0]

\* The node takes it in, in place of one with the same nonce, or refuses a
\* nonce that has been used.
submit(t) ==
  /\ moves(t, "signing", "idle") /\ release(t)
  /\ ts_pool' = IF ts_nonce[t] >= ts_mined THEN ts_pool \cup {ts_nonce[t]} ELSE ts_pool
  /\ UNCHANGED <<ts_nonce, ts_writer, ts_adapters, ts_mined>>

\* A request for the nonce, the price, the gas limit or the signature fails.
fail(t) ==
  /\ \E from \in {"ready", "signing"} : moves(t, from, "idle")
  /\ release(t)
  /\ UNCHANGED <<ts_nonce, ts_writer, ts_adapters, chainVars>>

\* One guard for the whole wait, or for all requests of the balances.
wait_for_transaction(t) == takes_guard(t, "waiting")
get_wallet_balances(t) == takes_guard(t, "waiting")

\* The receipt, or the time is up.
wait_ends(t) ==
  /\ moves(t, "waiting", "idle") /\ release(t)
  /\ UNCHANGED <<ts_nonce, ts_writer, ts_adapters, chainVars>>

(***************************************************************************)
(* The registry, the adapters and the chain.                               *)
(***************************************************************************)
register_chain ==
  /\ ts_writer = "idle" /\ ts_writer' = "queued"
  /\ UNCHANGED <<ts_pc, ts_guards, ts_nonce, ts_adapters, chainVars>>

write_granted ==
  /\ ts_writer = "queued" /\ ts_writer' = "holding" /\ \A t \in Senders : ts_guards[t] = 0
  /\ UNCHANGED <<ts_pc, ts_guards, ts_nonce, ts_adapters, chainVars>>

write_done ==
  /\ ts_writer = "holding" /\ ts_writer' = "idle"
  /\ UNCHANGED <<ts_pc, ts_guards, ts_nonce, ts_adapters, chainVars>>

add_adapter == ts_adapters' = TRUE /\ UNCHANGED <<ts_pc, ts_guards, ts_nonce, ts_writer, chainVars>>

refresh_adapters == ts_adapters' = FALSE /\ UNCHANGED <<ts_pc, ts_guards, ts_nonce, ts_writer, chainVars>>

mine ==
  /\ ts_mined \in ts_pool /\ ts_mined < MaxMined
  /\ ts_mined' = ts_mined + 1 /\ ts_pool' = ts_pool \ {ts_mined}
  /\ UNCHANGED <<ts_pc, ts_guards, ts_nonce, ts_writer, ts_adapters>>

Next ==
  \/ \E t \in Senders :
       \/ send_transaction(t) \/ approve_token(t) \/ transfer_token(t) \/ swap_tokens(t) \/ nested_send(t) \/ integration_send(t)
       \/ fetch_nonce(t) \/ submit(t) \/ fail(t) \/ wait_for_transaction(t) \/ wait_ends(t)
       \/ get_wallet_balances(t)
  \/ register_chain \/ write_granted \/ write_done \/ add_adapter \/ refresh_adapters \/ mine

\* Requests return or fail, the time of a wait runs out, a free lock is given.
Fairness ==
  /\ \A t \in Senders : WF_vars(nested_send(t)) /\ WF_vars(fetch_nonce(t) \/ fail(t)) /\ WF_vars(submit(t) \/ fail(t)) /\ WF_vars(wait_ends(t))
  /\ WF_vars(write_granted) /\ WF_vars(write_done)

Spec == Init /\ [][Next]_vars /\ Fairness

(***************************************************************************)
(* Properties.                                                             *)
(***************************************************************************)
\* A change of the registry gets the lock, although sends and waits hold it,
\* unless a caller that holds a guard is asking for a second one: that caller
\* then waits for the writer that waits for it.
WriterServed == ts_writer = "queued" ~> (ts_writer # "queued" \/ \E t \in Senders : ts_pc[t] = "outer")

\* The nonce of a send is the number of mined transactions, so that sends
\* made together replace each other: a wallet has at most one transaction in
\* the pool, and it is the next to be mined.
OnePending == ts_pool \subseteq {ts_mined}
=============================================================================
