--------------------------- MODULE CommonErrors ---------------------------
(***************************************************************************)
(* Errors: the classes the bot puts them in, which decide what is tried    *)
(* again, and the store that the common crate keeps them in.               *)
(***************************************************************************)
EXTENDS Naturals, FiniteSets

(***************************************************************************)
(* What the bot makes of an error message of a node.  Four classifiers     *)
(* look for words in it, each in its own order: ChainError::               *)
(* from_anyhow (snipebot/src/chain_adapters/interfaces.rs),                *)
(* parse_error_message (error_handler.rs), BlockchainError (retry.rs), and *)
(* handle_transaction_error (base.rs), which counts the retries it grants. *)
(* A message is the set of the words it contains.                          *)
(***************************************************************************)
CONSTANT MaxGranted   \* max_retries of handle_transaction_error

VARIABLES ec_msg, ec_class,  \* the message at hand, and its TransactionError
          ec_retries,        \* retry_count
          ec_state           \* "idle", "failed", "again" or "gone"

classesVars == <<ec_msg, ec_class, ec_retries, ec_state>>

Classes == {"Timeout", "Underpriced", "InsufficientFunds", "NonceTooLow", "ExecutionReverted", "Other"}

Words == {"connect", "connection", "rate limit", "nonce", "gas required exceeds", "gas price", "timeout", "transaction",
          "execution reverted", "reverted", "token", "insufficient funds", "underpriced", "gas cap", "not found", "block", "max retry", "rpc"}

\* Messages of one or two of the words.
Msgs == {{a, b} : a \in Words, b \in Words}

classesTypeOK ==
  /\ ec_msg \subseteq Words /\ ec_class \in Classes /\ ec_retries \in Nat
  /\ ec_state \in {"idle", "failed", "again", "gone"}

classesInit == ec_msg = {} /\ ec_class = "Other" /\ ec_retries = 0 /\ ec_state = "idle"

(***************************************************************************)
(* The classifiers: the first line whose words are found decides.          *)
(***************************************************************************)
has(m, ws) == m \cap ws # {}

from_anyhow(m) ==
  IF has(m, {"connect"})                                    THEN "ConnectionError"
  ELSE IF has(m, {"rate limit"})                            THEN "RateLimitExceeded"
  ELSE IF has(m, {"nonce"})                                 THEN "NonceError"
  ELSE IF has(m, {"gas required exceeds", "gas price"})     THEN "GasEstimationError"
  ELSE IF has(m, {"timeout"})                               THEN "TimeoutError"
  ELSE IF has(m, {"transaction"})                           THEN "TransactionError"
  ELSE IF has(m, {"execution reverted"})                    THEN "ContractCallError"
  ELSE IF has(m, {"token"})                                 THEN "TokenError"
  ELSE IF has(m, {"insufficient funds"})                    THEN "InsufficientBalance"
  ELSE IF has(m, {"reverted"})                              THEN "Revert"
  ELSE IF has(m, {"underpriced"})                           THEN "Underpriced"
  ELSE IF has(m, {"gas cap"})                               THEN "GasCap"
  ELSE IF has(m, {"max retry"})                             THEN "MaxRetryReached"
  ELSE IF has(m, {"rpc"})                                   THEN "ConnectionError"
  ELSE "Unknown"

parse_error_message(m) ==
  IF has(m, {"insufficient funds", "gas required exceeds"}) THEN "InsufficientGas"
  ELSE IF has(m, {"nonce"})                                 THEN "NonceError"
  ELSE IF has(m, {"underpriced"})                           THEN "Underpriced"
  ELSE IF has(m, {"execution reverted", "reverted"})        THEN "Revert"
  ELSE IF has(m, {"connection"})                            THEN "ConnectionError"
  ELSE IF has(m, {"timeout"})                               THEN "TimeoutError"
  ELSE IF has(m, {"rate limit"})                            THEN "RateLimitExceeded"
  ELSE IF {"not found", "block"} \subseteq m                THEN "BlockNotFound"
  ELSE IF {"not found", "transaction"} \subseteq m          THEN "TransactionNotFound"
  ELSE IF has(m, {"max retry"})                             THEN "MaxRetryReached"
  ELSE IF has(m, {"gas cap"})                               THEN "GasCap"
  ELSE "Unknown"

\* ChainError::is_retryable.
is_retryable(class) ==
  class \in {"ConnectionError", "TimeoutError", "RateLimitExceeded", "ProviderNotAvailable", "Underpriced"}

\* BlockchainError of retry.rs, and whether it is tried again.
retried(m) ==
  /\ ~has(m, {"insufficient funds", "gas required exceeds"})
  /\ \/ has(m, {"nonce", "underpriced", "gas price"})
     \/ ~has(m, {"execution reverted"}) /\ has(m, {"connection", "timeout", "rate limit"})

(***************************************************************************)
(* handle_transaction_error, on the class another classifier gave.         *)
(***************************************************************************)
fails(m, class) ==
  /\ ec_state \in {"idle", "again"} /\ ec_msg' = m /\ ec_class' = class /\ ec_state' = "failed"
  /\ UNCHANGED ec_retries

\* Ok(None): the caller is to try again.
grants == ec_class \notin {"InsufficientFunds", "ExecutionReverted"} /\ ec_retries < MaxGranted

handle_transaction_error ==
  /\ ec_state = "failed"
  /\ \/ grants /\ ec_state' = "again" /\ ec_retries' = ec_retries + 1
     \/ ~grants /\ ec_state' = "gone" /\ UNCHANGED ec_retries
  /\ ec_msg' = {} /\ UNCHANGED ec_class

over == ec_state = "gone" /\ UNCHANGED classesVars

classesNext == (\E m \in Msgs, c \in Classes : fails(m, c)) \/ handle_transaction_error \/ over

\* A node that says the account cannot pay is not asked again: the classifiers
\* of retry.rs and error_handler.rs never retry such a message, from_anyhow
\* only when the message speaks of the connection, the limit or a timeout too.
NoRetryWithoutFunds ==
  "insufficient funds" \in ec_msg =>
    /\ ~retried(ec_msg) /\ ~is_retryable(parse_error_message(ec_msg))
    /\ is_retryable(from_anyhow(ec_msg)) => has(ec_msg, {"connect", "rate limit", "timeout"})

\* The retries that are granted are within the limit and not for an error
\* that a retry cannot mend.
GrantsJustified ==
  /\ ec_retries <= MaxGranted
  /\ ec_state = "again" => ec_class \notin {"InsufficientFunds", "ExecutionReverted"}

(***************************************************************************)
(* common/error_handling.rs: errors kept by an identifier, the name of the *)
(* error and the second it was met in.  Every method of the handler is one *)
(* step under its lock; a change of status reads and then adds, and a      *)
(* cleanup takes all errors and removes the old ones one by one.           *)
(***************************************************************************)
CONSTANTS ErrorNames, Statuses, LastMoment, MaxAge

VARIABLES eh_now,
          eh_errors,    \* the status of each identifier, or absent
          eh_update,    \* the change of status that has read, or none
          eh_cleaning,  \* what the cleanup has yet to remove, or idle
          eh_old,       \* ghost: what it found to be old
          eh_met,       \* ghost: identifiers that were recorded
          eh_taken,     \* ghost: identifiers removed by hand since
          eh_revived    \* ghost: identifiers a change of status added during the cleanup

storeVars == <<eh_now, eh_errors, eh_update, eh_cleaning, eh_old, eh_met, eh_taken, eh_revived>>
ghosts == <<eh_old, eh_met, eh_taken, eh_revived>>
Ids == ErrorNames \X (0 .. LastMoment)
none == <<"none", 0, "none">>
idle == {<<>>}

storeTypeOK ==
  /\ eh_now \in 0 .. LastMoment /\ eh_errors \in [Ids -> Statuses \cup {"absent"}]
  /\ eh_update = none \/ (eh_update[1] \in ErrorNames /\ eh_update[3] \in Statuses)
  /\ eh_cleaning = idle \/ eh_cleaning \subseteq Ids
  /\ eh_old \cup eh_met \cup eh_taken \cup eh_revived \subseteq Ids

storeInit ==
  /\ eh_now = 0 /\ eh_errors = [i \in Ids |-> "absent"] /\ eh_update = none /\ eh_cleaning = idle
  /\ eh_old = {} /\ eh_met = {} /\ eh_taken = {} /\ eh_revived = {}

present == {i \in Ids : eh_errors[i] # "absent"}
age(i) == eh_now - i[2]

store_tick == eh_now < LastMoment /\ eh_now' = eh_now + 1 /\ UNCHANGED <<eh_errors, eh_update, eh_cleaning, ghosts>>

\* A second error of the same name in a second replaces the first, whatever its
\* status has become.
add_transaction_error(name) ==
  LET i == <<name, eh_now>> IN
  /\ eh_errors' = [eh_errors EXCEPT ![i] = "Pending"]
  /\ eh_met' = eh_met \cup {i} /\ eh_taken' = eh_taken \ {i}
  /\ UNCHANGED <<eh_now, eh_update, eh_cleaning, eh_old, eh_revived>>

\* update_error_status: the error is read, and added with its new status; one that
\* was removed in between is there again.
get_error(i, status) ==
  /\ eh_update = none /\ i \in present /\ eh_update' = <<i[1], i[2], status>>
  /\ UNCHANGED <<eh_now, eh_errors, eh_cleaning, ghosts>>

update_error_status ==
  LET i == <<eh_update[1], eh_update[2]>> IN
  /\ eh_update # none /\ eh_update' = none /\ eh_errors' = [eh_errors EXCEPT ![i] = eh_update[3]]
  /\ eh_revived' = eh_revived \cup {i} /\ UNCHANGED <<eh_now, eh_cleaning, eh_old, eh_met, eh_taken>>

not_found(i) == i \notin present /\ UNCHANGED storeVars

takes(ids) ==
  /\ eh_errors' = [i \in Ids |-> IF i \in ids THEN "absent" ELSE eh_errors[i]] /\ eh_taken' = eh_taken \cup ids
  /\ UNCHANGED <<eh_now, eh_update, eh_cleaning, eh_old, eh_met, eh_revived>>

remove_error(i) == i \in present /\ takes({i})
clear_errors == takes(present)

\* What is past the age it may reach.
old == {i \in present : age(i) > MaxAge}

get_errors ==
  /\ eh_cleaning = idle /\ eh_cleaning' = old /\ eh_old' = old /\ eh_revived' = {}
  /\ UNCHANGED <<eh_now, eh_errors, eh_update, eh_met, eh_taken>>

cleanup_removes(i) ==
  /\ eh_cleaning # idle /\ i \in eh_cleaning /\ eh_cleaning' = eh_cleaning \ {i}
  /\ eh_errors' = [eh_errors EXCEPT ![i] = "absent"] /\ UNCHANGED <<eh_now, eh_update, ghosts>>

cleanup_ends ==
  /\ eh_cleaning = {} /\ eh_cleaning' = idle /\ UNCHANGED <<eh_now, eh_errors, eh_update, ghosts>>

cleanup_old_errors == get_errors \/ cleanup_ends \/ \E i \in Ids : cleanup_removes(i)

storeNext ==
  \/ store_tick \/ update_error_status \/ clear_errors \/ cleanup_old_errors
  \/ \E name \in ErrorNames : add_transaction_error(name)
  \/ \E i \in Ids : remove_error(i) \/ not_found(i) \/ \E s \in Statuses : get_error(i, s)

\* An error that was met stays until it is old or somebody removes it by hand: no
\* cleanup takes a young one, however late it comes to it.
YoungErrorsKept == \A i \in eh_met \ eh_taken : age(i) <= MaxAge => i \in present

\* What a cleanup found to be old is gone when it ends, unless a change of status
\* that had read it added it again.
OldErrorsGone == [][eh_cleaning # idle /\ eh_cleaning' = idle => eh_old \cap present \subseteq eh_revived]_storeVars
=============================================================================
