---------------------------- MODULE EvmSender -----------------------------
(***************************************************************************)
(* How an EVM adapter sends: one transaction with retries, and several     *)
(* that are to go together.                                                *)
(***************************************************************************)
EXTENDS Naturals, FiniteSets, Sequences

(***************************************************************************)
(* Sending a transaction with retries: retry_blockchain_operation          *)
(* (snipebot/src/chain_adapters/retry.rs) as EVMAdapter uses it            *)
(* (chain_adapters/base.rs).  send_transaction_with_retry takes a nonce    *)
(* from the nonce manager for every attempt and waits for the receipt;     *)
(* swap_eth_for_tokens lets the signer take the count of the chain and     *)
(* answers with the hash.  The node may take a transaction in and the      *)
(* answer be lost.                                                         *)
(***************************************************************************)
CONSTANTS MaxRetries, GasPrice   \* attempts in all, and the first gas price

VARIABLES rs_pc, rs_mode,  \* where the call is, and which of the two it is
          rs_tries, rs_gas, rs_nonce,
          rs_next,         \* the nonce manager's next nonce
          rs_pool,         \* nonce and gas price of what waits in the pool
          rs_mined,        \* transactions of the wallet in blocks
          rs_lost,         \* answers of the node that were lost
          rs_result

retriedVars == <<rs_pc, rs_mode, rs_tries, rs_gas, rs_nonce, rs_next, rs_pool, rs_mined, rs_lost, rs_result>>

Nonces == 0 .. 2 * MaxRetries

retriedTypeOK ==
  /\ rs_pc \in {"idle", "attempt", "sent", "done"} /\ rs_mode \in {"send", "swap"}
  /\ rs_tries \in 0 .. MaxRetries + 1 /\ rs_gas \in Nat /\ rs_nonce \in Nonces /\ rs_next \in Nonces
  /\ rs_pool \subseteq Nonces \X Nat /\ rs_mined \in Nonces /\ rs_lost \in Nat
  /\ rs_result \in {"none", "ok", "err"}

retriedInit ==
  /\ rs_pc = "idle" /\ rs_mode \in {"send", "swap"} /\ rs_tries = 0 /\ rs_gas = GasPrice /\ rs_nonce = 0 /\ rs_next = 0
  /\ rs_pool = {} /\ rs_mined = 0 /\ rs_lost = 0 /\ rs_result = "none"

(***************************************************************************)
(* The errors: a message is the set of the words it contains.              *)
(***************************************************************************)
Messages == {{"funds"}, {"allowance"}, {"nonce"}, {"already known"}, {"replacement", "underpriced"}, {"underpriced"},
             {"reverted"}, {"connection"}, {"rate limit"}, {"other"}}

\* The words are looked for in this order.
classify(m) ==
  CASE m \cap {"funds", "allowance"} # {} -> "InsufficientBalance"
    [] "nonce" \in m -> "InvalidNonce"
    [] m \cap {"underpriced", "gas price"} # {} -> "LowGas"
    [] "reverted" \in m -> "ContractError"
    [] m \cap {"connection", "timeout", "rate limit"} # {} -> "RPCConnection"
    [] OTHER -> "Other"

is_retryable(class) == class \in {"RPCConnection", "LowGas", "InvalidNonce", "Timeout"}

adjust_gas_for_retry(class, gas) == IF class = "LowGas" THEN gas + (gas * 20) \div 100 ELSE gas

is_last(tries) == tries >= MaxRetries

\* The attempt failed with message m: the call ends, or tries again after a pause.
failed(m) ==
  LET class == classify(m)   tries == rs_tries + 1
      over == is_last(tries) \/ ~is_retryable(class)
  IN  /\ rs_tries' = tries
      /\ rs_pc' = IF over THEN "done" ELSE "attempt"
      /\ rs_result' = IF over THEN "err" ELSE rs_result
      /\ rs_gas' = IF over THEN rs_gas ELSE adjust_gas_for_retry(class, rs_gas)

answered == rs_pc' = "done" /\ rs_result' = "ok" /\ UNCHANGED <<rs_tries, rs_gas>>

(***************************************************************************)
(* One attempt.                                                            *)
(***************************************************************************)
start ==
  /\ rs_pc = "idle" /\ rs_pc' = "attempt"
  /\ UNCHANGED <<rs_mode, rs_tries, rs_gas, rs_nonce, rs_next, rs_pool, rs_mined, rs_lost, rs_result>>

\* The manager counts on, the signer asks the chain.
nonce_to_use == IF rs_mode = "send" THEN rs_next ELSE rs_mined
takes_nonce == rs_nonce' = nonce_to_use /\ rs_next' = IF rs_mode = "send" THEN rs_next + 1 ELSE rs_next

\* The node refuses a used nonce, and one that waits at no lower a price.
node_takes(n) == n >= rs_mined /\ \A t \in rs_pool : t[1] = n => t[2] < rs_gas
pool_with(n) == {t \in rs_pool : t[1] # n} \cup {<<n, rs_gas>>}

submit ==
  /\ rs_pc = "attempt" /\ takes_nonce /\ node_takes(nonce_to_use)
  /\ rs_pool' = pool_with(nonce_to_use)
  /\ IF rs_mode = "swap" THEN answered ELSE rs_pc' = "sent" /\ UNCHANGED <<rs_tries, rs_gas, rs_result>>
  /\ UNCHANGED <<rs_mode, rs_mined, rs_lost>>

\* The node has it, the caller sees a broken connection.
submit_lost ==
  /\ rs_pc = "attempt" /\ takes_nonce /\ node_takes(nonce_to_use)
  /\ rs_pool' = pool_with(nonce_to_use) /\ rs_lost' = rs_lost + 1 /\ failed({"connection"})
  /\ UNCHANGED <<rs_mode, rs_mined>>

\* The nonce is read again from the chain after the errors that speak of it.
submit_refused(m) ==
  /\ rs_pc = "attempt"
  /\ ~node_takes(nonce_to_use) => m = IF nonce_to_use < rs_mined THEN {"nonce"} ELSE {"replacement", "underpriced"}
  /\ node_takes(nonce_to_use) => m \notin {{"nonce"}, {"already known"}, {"replacement", "underpriced"}}
  /\ rs_nonce' = nonce_to_use
  /\ rs_next' = CASE rs_mode = "swap" -> rs_next
                  [] m \cap {"nonce", "already known", "replacement"} # {} -> rs_mined
                  [] OTHER -> rs_next + 1
  /\ failed(m) /\ UNCHANGED <<rs_mode, rs_pool, rs_mined, rs_lost>>

receipt ==
  /\ rs_pc = "sent" /\ rs_nonce < rs_mined /\ answered
  /\ rs_next' = IF rs_next < rs_nonce + 1 THEN rs_nonce + 1 ELSE rs_next
  /\ UNCHANGED <<rs_mode, rs_nonce, rs_pool, rs_mined, rs_lost>>

\* The connection breaks, or there is no receipt.
receipt_lost(m) ==
  /\ rs_pc = "sent" /\ m \in {{"connection"}, {"other"}} /\ failed(m) /\ rs_lost' = rs_lost + 1
  /\ UNCHANGED <<rs_mode, rs_nonce, rs_next, rs_pool, rs_mined>>

mine ==
  /\ \E t \in rs_pool : t[1] = rs_mined /\ rs_pool' = rs_pool \ {t}
  /\ rs_mined' = rs_mined + 1
  /\ UNCHANGED <<rs_pc, rs_mode, rs_tries, rs_gas, rs_nonce, rs_next, rs_lost, rs_result>>

\* The call is over and the chain goes on.
finished == rs_pc = "done" /\ UNCHANGED retriedVars

retriedNext ==
  \/ start \/ submit \/ submit_lost \/ receipt \/ mine \/ finished
  \/ \E m \in Messages : submit_refused(m) \/ receipt_lost(m)

\* The node answers or the connection breaks.
retriedFairness ==
  /\ WF_retriedVars(submit \/ submit_lost \/ \E m \in Messages : submit_refused(m))
  /\ WF_retriedVars(receipt \/ \E m \in Messages : receipt_lost(m))

\* An operation may be executed more than once, because a retry does not know
\* of a transaction whose answer was lost: there is one transaction more at
\* most for each lost answer, and never more than attempts.
CopiesBounded ==
  LET copies == Cardinality(rs_pool) + rs_mined
  IN  copies <= rs_lost + 1 /\ copies <= MaxRetries

\* A call that answers with success has its transaction in a block, or in
\* the pool when it is a swap.  One that answers with an error and lost no
\* answer has left nothing behind.
AnswerIsTrue ==
  /\ rs_result = "ok" => IF rs_mode = "send" THEN rs_mined > rs_nonce ELSE rs_mined > 0 \/ rs_pool # {}
  /\ rs_result = "err" /\ rs_lost = 0 => rs_mined = 0 /\ rs_pool = {}

\* A call that has begun ends: attempts run out, whatever the node refuses
\* them for.
SendEnds == rs_pc \in {"attempt", "sent"} ~> rs_pc = "done"

(***************************************************************************)
(* create_flashbots_bundle of EVMAdapter                                   *)
(* (snipebot/src/chain_adapters/base.rs): several transactions that are to *)
(* go together.  On Ethereum they are one bundle for a relay; on other     *)
(* chains they are sent one after the other, each after the receipt of the *)
(* one before.  A receipt may be missing and the transaction mined later.  *)
(***************************************************************************)
CONSTANTS TxCount,      \* transactions of the call
          BlockWindow   \* blocks after the target block that the bundle is good for

VARIABLES bs_kind,      \* "bundle" or "sequence"
          bs_block,     \* blocks since the call began
          bs_relay,     \* what the relay has: "nothing", "bundle", "executed"
          bs_sent,      \* of the transactions that were sent in turn: what became of each
          bs_cached,    \* the information about the bundle is in the cache
          bs_answer     \* "none", "running", "ok" or "error"

bundleVars == <<bs_kind, bs_block, bs_relay, bs_sent, bs_cached, bs_answer>>

\* missing: there was no receipt, and the transaction waits.
Outcomes == {"pending", "succeeded", "failed", "missing", "succeeded late", "failed late"}

bundleTypeOK ==
  /\ bs_kind \in {"bundle", "sequence"} /\ bs_block \in Nat /\ bs_relay \in {"nothing", "bundle", "executed"}
  /\ bs_sent \in Seq(Outcomes) /\ bs_cached \in BOOLEAN /\ bs_answer \in {"none", "running", "ok", "error"}

bundleInit ==
  /\ bs_kind \in {"bundle", "sequence"} /\ bs_block = 0 /\ bs_relay = "nothing"
  /\ bs_sent = <<>> /\ bs_cached = FALSE /\ bs_answer = "none"

(***************************************************************************)
(* A bundle: signed with no price of its own, for the next block and the   *)
(* ones after it.                                                          *)
(***************************************************************************)
create_flashbots_bundle ==
  /\ bs_answer = "none" /\ bs_answer' = "running" /\ bs_block' = 0
  /\ UNCHANGED <<bs_kind, bs_relay, bs_sent, bs_cached>>

relay_takes(ok) ==
  /\ bs_kind = "bundle" /\ bs_answer = "running" /\ bs_relay = "nothing"
  /\ bs_relay' = IF ok THEN "bundle" ELSE "nothing"
  /\ bs_answer' = IF ok THEN "running" ELSE "error"
  /\ UNCHANGED <<bs_kind, bs_block, bs_sent, bs_cached>>

\* After the relay has the bundle, its statistics are asked for and what is
\* known of it is put in the cache if the lock is free: either may fail.
cache_bundle_info(stats, lock) ==
  /\ bs_kind = "bundle" /\ bs_answer = "running" /\ bs_relay # "nothing"
  /\ bs_answer' = IF stats /\ lock THEN "ok" ELSE "error"
  /\ bs_cached' = (stats /\ lock)
  /\ UNCHANGED <<bs_kind, bs_block, bs_relay, bs_sent>>

\* Blocks past the last one of the bundle are not told apart.
new_block ==
  /\ bs_block' = IF bs_block <= BlockWindow + 1 THEN bs_block + 1 ELSE bs_block
  /\ UNCHANGED <<bs_kind, bs_relay, bs_sent, bs_cached, bs_answer>>

\* Target block to max_block, all of it or nothing.
bundle_lands ==
  /\ bs_relay = "bundle" /\ bs_block \in 1 .. BlockWindow + 1 /\ bs_relay' = "executed"
  /\ UNCHANGED <<bs_kind, bs_block, bs_sent, bs_cached, bs_answer>>

(***************************************************************************)
(* One transaction after the other.                                        *)
(***************************************************************************)
waits == bs_sent # <<>> /\ bs_sent[Len(bs_sent)] = "pending"

send_next(ok) ==
  /\ bs_kind = "sequence" /\ bs_answer = "running" /\ ~waits /\ Len(bs_sent) < TxCount
  /\ bs_sent' = IF ok THEN Append(bs_sent, "pending") ELSE bs_sent
  /\ bs_answer' = IF ok THEN "running" ELSE "error"
  /\ UNCHANGED <<bs_kind, bs_block, bs_relay, bs_cached>>

\* A failure ends the sequence, a missing receipt is only logged.
sequence_receipt(outcome) ==
  /\ bs_kind = "sequence" /\ bs_answer = "running" /\ waits
  /\ bs_sent' = [bs_sent EXCEPT ![Len(bs_sent)] = outcome]
  /\ bs_answer' = CASE outcome = "failed" -> "error"
                    [] outcome # "failed" /\ Len(bs_sent) = TxCount -> "ok"
                    [] OTHER -> "running"
  /\ UNCHANGED <<bs_kind, bs_block, bs_relay, bs_cached>>

mined_late(i, ok) ==
  /\ bs_sent[i] = "missing"
  /\ bs_sent' = [bs_sent EXCEPT ![i] = IF ok THEN "succeeded late" ELSE "failed late"]
  /\ UNCHANGED <<bs_kind, bs_block, bs_relay, bs_cached, bs_answer>>

bundleNext ==
  \/ create_flashbots_bundle \/ new_block \/ bundle_lands
  \/ \E ok \in BOOLEAN : relay_takes(ok) \/ send_next(ok) \/ \E i \in DOMAIN bs_sent : mined_late(i, ok)
  \/ \E stats, lock \in BOOLEAN : cache_bundle_info(stats, lock)
  \/ \E outcome \in {"succeeded", "failed", "missing"} : sequence_receipt(outcome)

\* Nothing is sent after a transaction that was seen to fail.  What follows a
\* missing receipt may follow a failure that nobody has seen.
StopsAtFailure ==
  \A i \in DOMAIN bs_sent : bs_sent[i] = "failed" => i = Len(bs_sent) /\ bs_answer = "error"

\* A bundle that is reported sent is with the relay and known to the cache; one
\* that is reported to have failed may be with the relay, but is then not in
\* the cache.
BundleAnswer ==
  bs_kind = "bundle" =>
    /\ bs_answer = "ok" => bs_relay # "nothing" /\ bs_cached
    /\ bs_answer = "error" => ~bs_cached
=============================================================================
