---------------------------- MODULE MPCController ----------------------------
(***************************************************************************)
(* The multi-signature controller of the bridge (MPCController in          *)
(* blockchain/src/diamond_token/src/bridge.rs).  Anyone opens a bridge     *)
(* transaction between two enabled chains; authorized signers sign it, and *)
(* the signature that reaches the threshold completes it.  The owner edits *)
(* the signers, the threshold and the chains meanwhile.                    *)
(*                                                                         *)
(* pending_transactions is keyed by tx_id, which create_transaction keeps  *)
(* unique; sender, receiver, amount, memo and the bytes of a signature     *)
(* are left out.  Calls that panic or return false change nothing.         *)
(***************************************************************************)
EXTENDS Integers, Sequences, Functions, FiniteSets, Lists

CONSTANTS
  Accounts,      \* signers and owners
  TxIds,         \* transaction ids
  Chains,        \* chain ids
  MaxSigners,    \* bound on the length of the initial signer list
  MaxChains      \* bound on the list of supported chains

VARIABLES
  authorized_signers,    \* Vec<AccountId>: may hold an account twice
  threshold,             \* u8
  pending_transactions,  \* tx_id -> [signatures, completed], partial
  supported_chains,      \* Vec<SupportedChain>
  owner_id

mpcVars == <<authorized_signers, threshold, pending_transactions, supported_chains, owner_id>>

ASSUME MPCBounds == MaxSigners \in 1 .. 255 /\ MaxChains \in Nat

SupportedChain == [chain_id : Chains, enabled : BOOLEAN]

MPCTransaction == [signatures : Seq(Accounts), completed : BOOLEAN]

-----------------------------------------------------------------------------
valid_threshold(t, signers) == t > 0 /\ t <= Len(signers)

new_controller(signers, t, owner) ==
  /\ valid_threshold(t, signers)
  /\ authorized_signers = signers
  /\ threshold = t
  /\ pending_transactions = [id \in {} |-> {}]
  /\ supported_chains = << >>
  /\ owner_id = owner

add_supported_chain(caller, chain) ==
  /\ caller = owner_id
  /\ \A i \in DOMAIN supported_chains : supported_chains[i].chain_id # chain.chain_id
  /\ supported_chains' = Append(supported_chains, chain)
  /\ UNCHANGED <<authorized_signers, threshold, pending_transactions, owner_id>>

(* The first entry for chain_id is replaced; the new entry may name        *)
(* another chain.                                                          *)
update_supported_chain(caller, chain_id, chain) ==
  /\ caller = owner_id
  /\ \E i \in DOMAIN supported_chains :
       /\ supported_chains[i].chain_id = chain_id
       /\ \A j \in 1 .. i - 1 : supported_chains[j].chain_id # chain_id
       /\ supported_chains' = [supported_chains EXCEPT ![i] = chain]
  /\ UNCHANGED <<authorized_signers, threshold, pending_transactions, owner_id>>

is_chain_supported(chain_id) ==
  \E i \in DOMAIN supported_chains :
    supported_chains[i].chain_id = chain_id /\ supported_chains[i].enabled

\* A plausible slip: an id that is already known starts again.
create_transaction_again(tx_id, from_chain, to_chain) ==
  /\ is_chain_supported(from_chain)
  /\ is_chain_supported(to_chain)
  /\ pending_transactions' =
       [id \in DOMAIN pending_transactions \cup {tx_id} |->
          IF id = tx_id THEN [signatures |-> << >>, completed |-> FALSE]
          ELSE pending_transactions[id]]
  /\ UNCHANGED <<authorized_signers, threshold, supported_chains, owner_id>>

create_transaction(tx_id, from_chain, to_chain) ==
  /\ tx_id \notin DOMAIN pending_transactions
  /\ is_chain_supported(from_chain)
  /\ is_chain_supported(to_chain)
  /\ pending_transactions' =
       [id \in DOMAIN pending_transactions \cup {tx_id} |->
          IF id = tx_id THEN [signatures |-> << >>, completed |-> FALSE]
          ELSE pending_transactions[id]]
  /\ UNCHANGED <<authorized_signers, threshold, supported_chains, owner_id>>

\* A plausible slip: the check that the signer has not signed yet is missing.
sign_transaction_twice(caller, tx_id) ==
  /\ caller \in Range(authorized_signers)
  /\ tx_id \in DOMAIN pending_transactions
  /\ ~pending_transactions[tx_id].completed
  /\ LET signatures == Append(pending_transactions[tx_id].signatures, caller)
     IN  pending_transactions' = [pending_transactions EXCEPT ![tx_id] =
           [signatures |-> signatures, completed |-> Len(signatures) >= threshold]]
  /\ UNCHANGED <<authorized_signers, threshold, supported_chains, owner_id>>

\* A plausible slip: the signature is added before the threshold is compared.
sign_transaction_early(caller, tx_id) ==
  /\ caller \in Range(authorized_signers)
  /\ tx_id \in DOMAIN pending_transactions
  /\ ~pending_transactions[tx_id].completed
  /\ caller \notin Range(pending_transactions[tx_id].signatures)
  /\ LET signatures == Append(pending_transactions[tx_id].signatures, caller)
     IN  pending_transactions' = [pending_transactions EXCEPT ![tx_id] =
           [signatures |-> signatures, completed |-> Len(signatures) + 1 >= threshold]]
  /\ UNCHANGED <<authorized_signers, threshold, supported_chains, owner_id>>

sign_transaction(caller, tx_id) ==
  /\ caller \in Range(authorized_signers)
  /\ tx_id \in DOMAIN pending_transactions
  /\ ~pending_transactions[tx_id].completed
  /\ caller \notin Range(pending_transactions[tx_id].signatures)
  /\ LET signatures == Append(pending_transactions[tx_id].signatures, caller)
     IN  pending_transactions' = [pending_transactions EXCEPT ![tx_id] =
           [signatures |-> signatures, completed |-> Len(signatures) >= threshold]]
  /\ UNCHANGED <<authorized_signers, threshold, supported_chains, owner_id>>

add_authorized_signer(caller, signer) ==
  /\ caller = owner_id
  /\ signer \notin Range(authorized_signers)
  /\ authorized_signers' = Append(authorized_signers, signer)
  /\ UNCHANGED <<threshold, pending_transactions, supported_chains, owner_id>>

(* authorized_signers.retain(|id| id != signer_id): the other entries, in  *)
(* their order.                                                            *)
retain_others(signers, signer) == retained(signers, Accounts \ {signer})

\* A plausible slip: the remaining signers are not counted.
remove_authorized_signer_unchecked(caller, signer) ==
  /\ caller = owner_id
  /\ authorized_signers' = retain_others(authorized_signers, signer)
  /\ UNCHANGED <<threshold, pending_transactions, supported_chains, owner_id>>

(* The list is filtered first; the call reverts when too few are left. *)
remove_authorized_signer(caller, signer) ==
  /\ caller = owner_id
  /\ authorized_signers' = retain_others(authorized_signers, signer)
  /\ Len(authorized_signers') >= threshold
  /\ UNCHANGED <<threshold, pending_transactions, supported_chains, owner_id>>

set_threshold(caller, t) ==
  /\ caller = owner_id
  /\ valid_threshold(t, authorized_signers)
  /\ threshold' = t
  /\ UNCHANGED <<authorized_signers, pending_transactions, supported_chains, owner_id>>

transfer_ownership(caller, new_owner) ==
  /\ caller = owner_id
  /\ owner_id' = new_owner
  /\ UNCHANGED <<authorized_signers, threshold, pending_transactions, supported_chains>>

-----------------------------------------------------------------------------
SignerLists == UNION {[1 .. n -> Accounts] : n \in 1 .. MaxSigners}

Thresholds == 0 .. 1 + MaxSigners

mpcInit == \E signers \in SignerLists, t \in Thresholds, owner \in Accounts : new_controller(signers, t, owner)

mpcNext ==
  \E caller \in Accounts :
    \/ \E c \in SupportedChain : Len(supported_chains) < MaxChains /\ add_supported_chain(caller, c)
    \/ \E id \in Chains, c \in SupportedChain : update_supported_chain(caller, id, c)
    \/ \E id \in TxIds, from, to \in Chains : create_transaction(id, from, to)
    \/ \E id \in TxIds : sign_transaction(caller, id)
    \/ \E s \in Accounts : add_authorized_signer(caller, s)
    \/ \E s \in Accounts : remove_authorized_signer(caller, s)
    \/ \E t \in Thresholds : set_threshold(caller, t)
    \/ \E a \in Accounts : transfer_ownership(caller, a)

MPCSpec == mpcInit /\ [][mpcNext]_mpcVars

-----------------------------------------------------------------------------
Completed(id) == id \in DOMAIN pending_transactions /\ pending_transactions[id].completed

Signers(id) == Range(pending_transactions[id].signatures)

(* The threshold stays between 1 and the length of the signer list through *)
(* set_threshold, add_authorized_signer and remove_authorized_signer.      *)
ThresholdInRange == valid_threshold(threshold, authorized_signers)

(* No account counts twice towards a threshold: sign_transaction refuses a *)
(* second signature, also after the signer was removed and added again.    *)
OneSignatureEach ==
  \A id \in DOMAIN pending_transactions : IsInjective(pending_transactions[id].signatures)

(* A transaction is completed only by the signature that brings it to the  *)
(* threshold in force: at that moment as many signatures as the threshold  *)
(* asks for are there, the last by an authorized signer.                   *)
CompletionNeedsThreshold ==
  [][\A id \in TxIds : Completed(id)' /\ ~Completed(id) =>
       /\ Cardinality(Signers(id)') >= threshold
       /\ \E s \in Signers(id)' \ Signers(id) : s \in Range(authorized_signers)]_mpcVars

(* A completed transaction is final: it never changes again and its id is  *)
(* never reused, whatever happens to signers, threshold and chains.        *)
CompletedIsFinal ==
  [][\A id \in TxIds : Completed(id) =>
       /\ id \in DOMAIN pending_transactions'
       /\ pending_transactions'[id] = pending_transactions[id]]_mpcVars
=============================================================================
