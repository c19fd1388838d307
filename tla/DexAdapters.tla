---------------------------- MODULE DexAdapters ----------------------------
(***************************************************************************)
(* The adapters of the chains (snipebot/src/chain_adapters/ethereum.rs,    *)
(* bsc.rs, avalanche.rs, monad.rs, base_adapter.rs and EVMAdapter of       *)
(* base.rs): a wallet, approvals and swaps on the router of the chain, and *)
(* sends that are named "with retry" but submit once.  One call at a time: *)
(* its transaction is submitted, is mined or not, and the caller gets an   *)
(* answer.  A chain takes in only what is signed for its id.               *)
(***************************************************************************)
EXTENDS Naturals

CONSTANTS WalletIds,   \* chain ids a wallet comes with
          SwapGas      \* the gas a swap needs

VARIABLES da_self,     \* the adapter
          da_wallet,   \* the chain id its wallet signs for, 0 without a wallet
          da_tx,       \* the transaction of the call
          da_chain,    \* what the chain has made of it
          da_answer    \* what the caller has been told

vars == <<da_self, da_wallet, da_tx, da_chain, da_answer>>

Adapters == {"Ethereum", "BSC", "Avalanche", "Monad", "Base", "EVM"}
Ops == {"approve", "buy", "sell", "send", "approve_retried"}
Swaps == {"buy", "sell"}

ethereum == [chain_id |-> 1, eip1559 |-> TRUE]
bsc == [chain_id |-> 56, eip1559 |-> FALSE]
avalanche == [chain_id |-> 43114, eip1559 |-> FALSE]
monad == [chain_id |-> 1284, eip1559 |-> TRUE]
base == [chain_id |-> 8453, eip1559 |-> TRUE, default_gas_limit |-> 21000]

\* An EVMAdapter has the configuration it is given, here that of Arbitrum.
config == [chain_id |-> 42161]

chain_id(a) ==
  CASE a = "Ethereum" -> ethereum.chain_id [] a = "BSC" -> bsc.chain_id [] a = "Avalanche" -> avalanche.chain_id
    [] a = "Monad" -> monad.chain_id [] a = "Base" -> base.chain_id [] OTHER -> config.chain_id

\* limit is the caller's, 0 for none.
NoTx == [op |-> "none", signed_for |-> 0, gas |-> 0, limit |-> 0]

TypeOK ==
  /\ da_self \in Adapters /\ da_wallet \in Nat
  /\ da_tx \in [op : Ops \cup {"none"}, signed_for : Nat, gas : Nat, limit : Nat]
  /\ da_chain \in {"nothing", "pending", "executed", "reverted", "dropped"}
  /\ da_answer \in {"none", "waiting", "ok", "timeout", "error", "panic"}

Init ==
  /\ da_self \in Adapters /\ da_wallet = 0 /\ da_tx = NoTx
  /\ da_chain = "nothing" /\ da_answer = "none"

(***************************************************************************)
(* Wallets.                                                                *)
(***************************************************************************)
\* set_wallet of Base binds the wallet to its chain, the others keep it.
base_wallet(id) == base.chain_id

set_wallet(id) ==
  /\ da_answer # "waiting"
  /\ da_wallet' = IF da_self = "Base" THEN base_wallet(id) ELSE id
  /\ UNCHANGED <<da_self, da_tx, da_chain, da_answer>>

\* The wallet EVMAdapter signs with is bound to the chain at each use.
get_wallet_with_chain_id == config.chain_id

(***************************************************************************)
(* A call: without a wallet, or for an address that cannot be read, it     *)
(* fails before anything is sent.                                          *)
(***************************************************************************)
refused == da_answer' = "error" /\ da_tx' = NoTx /\ da_chain' = "nothing" /\ UNCHANGED <<da_self, da_wallet>>

submits(op, id, gas, limit) ==
  /\ da_answer' = "waiting" /\ da_chain' = "pending"
  /\ da_tx' = [op |-> op, signed_for |-> id, gas |-> gas, limit |-> limit] /\ UNCHANGED <<da_self, da_wallet>>

call(a, op, id, limit, gas, readable) ==
  /\ da_self = a /\ da_answer # "waiting"
  /\ IF da_wallet # 0 /\ readable THEN submits(op, id, gas, limit) ELSE refused

\* Without a limit of the caller the node estimates the gas.
estimated(limit) == IF limit = 0 THEN SwapGas ELSE limit

ethereum_swaps(op, limit, readable) == call("Ethereum", op, ethereum.chain_id, limit, estimated(limit), readable)
bsc_swaps(op, limit, readable) == call("BSC", op, bsc.chain_id, limit, estimated(limit), readable)
avalanche_swaps(op, limit, readable) == call("Avalanche", op, avalanche.chain_id, limit, estimated(limit), readable)
monad_swaps(op, limit, readable) == call("Monad", op, monad.chain_id, limit, estimated(limit), readable)

\* swap_exact_eth_for_tokens and swap_exact_tokens_for_eth of EVMAdapter.
swap_exact_eth_for_tokens(limit, readable) == call("EVM", "buy", get_wallet_with_chain_id, limit, estimated(limit), readable)
swap_exact_tokens_for_eth(limit, readable) == call("EVM", "sell", get_wallet_with_chain_id, limit, estimated(limit), readable)

\* get_native_to_token_path of Base unwraps the address; the others give an
\* empty path, which their swaps do not ask for.
base_path_panics(readable) == ~readable /\ da_wallet # 0

\* Without a limit a swap of Base is sent with the gas of a plain transfer.
base_gas(limit) == IF limit = 0 THEN base.default_gas_limit ELSE limit

base_swaps(op, limit, readable) ==
  \/ /\ da_self = "Base" /\ da_answer # "waiting" /\ base_path_panics(readable)
     /\ da_answer' = "panic" /\ da_tx' = NoTx /\ da_chain' = "nothing" /\ UNCHANGED <<da_self, da_wallet>>
  \/ ~base_path_panics(readable) /\ call("Base", op, da_wallet, limit, base_gas(limit), readable)

\* approve_token: the gas is estimated, Base gives enough of it.
approve_token(readable) ==
  call(da_self, "approve", IF da_self = "Base" THEN da_wallet ELSE chain_id(da_self), 0, SwapGas, readable)

\* send_transaction_with_retry and approve_token_with_retry submit once, with
\* a wallet that is bound to the chain.
ethereum_sends(op, readable) == call("Ethereum", op, ethereum.chain_id, 0, SwapGas, readable)
bsc_sends(op, readable) == call("BSC", op, bsc.chain_id, 0, SwapGas, readable)
avalanche_sends(op, readable) == call("Avalanche", op, avalanche.chain_id, 0, SwapGas, readable)
monad_sends(op, readable) == call("Monad", op, monad.chain_id, 0, SwapGas, readable)
base_sends(op, readable) == call("Base", op, base.chain_id, 0, SwapGas, readable)

(***************************************************************************)
(* The chain, and the answer.                                              *)
(***************************************************************************)
\* Mined, in time or after the deadline; or dropped.
mine(outcome) ==
  /\ da_chain = "pending" /\ da_tx.signed_for = chain_id(da_self)
  /\ outcome = "executed" => da_tx.gas >= SwapGas
  /\ da_chain' = outcome /\ UNCHANGED <<da_self, da_wallet, da_tx, da_answer>>

\* A receipt is a success to the adapters whatever its status.
answered == da_answer = "waiting" /\ da_chain \in {"executed", "reverted"} /\ da_answer' = "ok"

\* No receipt: the transaction may still wait to be mined.
unanswered ==
  /\ da_answer = "waiting" /\ da_chain \in {"pending", "dropped"}
  /\ da_answer' = IF da_tx.op = "send" THEN "timeout" ELSE "error"

await_receipt == (answered \/ unanswered) /\ UNCHANGED <<da_self, da_wallet, da_tx, da_chain>>

Next ==
  \/ \E id \in WalletIds : set_wallet(id)
  \/ \E readable \in BOOLEAN :
       \/ approve_token(readable)
       \/ \E limit \in {0, SwapGas} :
            \/ \E op \in Swaps : \/ ethereum_swaps(op, limit, readable) \/ bsc_swaps(op, limit, readable)
                                 \/ avalanche_swaps(op, limit, readable) \/ monad_swaps(op, limit, readable)
                                 \/ base_swaps(op, limit, readable)
            \/ swap_exact_eth_for_tokens(limit, readable) \/ swap_exact_tokens_for_eth(limit, readable)
       \/ \E op \in {"send", "approve_retried"} :
            \/ ethereum_sends(op, readable) \/ bsc_sends(op, readable) \/ avalanche_sends(op, readable)
            \/ monad_sends(op, readable) \/ base_sends(op, readable)
  \/ \E o \in {"executed", "reverted", "dropped"} : mine(o)
  \/ await_receipt

Spec == Init /\ [][Next]_vars

(***************************************************************************)
(* Properties.                                                             *)
(***************************************************************************)
\* Whatever chain id a wallet comes with, what an adapter submits is signed for
\* the adapter's chain: most bind the wallet at each use, Base when it is set.
SignedForItsChain == da_tx # NoTx => da_tx.signed_for = chain_id(da_self)

\* A call that is reported done has been mined; that it succeeded is not said.
DoneMeansMined == da_answer = "ok" => da_chain \in {"executed", "reverted"}

\* A swap of Base is executed only when the caller has named a limit: with the
\* default it has the gas of a transfer.
BaseNeedsALimit ==
  da_self = "Base" /\ da_tx.op \in Swaps /\ da_chain = "executed" => da_tx.limit >= SwapGas
=============================================================================
