----------------------------- MODULE DiamondToken -----------------------------
(***************************************************************************)
(* The DiamondToken contract on NEAR (blockchain/src/diamond_token/src):   *)
(* the NEP-141 ledger, the SupplyTracker with one entry per chain, the     *)
(* bridge configurations and the embedded ModuleManager.                   *)
(*                                                                         *)
(* A call is one atomic step.  A `require!', an `expect' or an arithmetic  *)
(* underflow (overflow-checks = true, panic = abort) reverts it, so their  *)
(* conditions are guards.  Calls that return false without touching state  *)
(* are stuttering steps and are not written down.  `caller' is             *)
(* env::predecessor_account_id().                                          *)
(*                                                                         *)
(* Left out: last_update and other timestamps, metadata, logs, memos, the  *)
(* NEAR deposits, ft_transfer_call of the token library.                   *)
(***************************************************************************)
EXTENDS Integers, Sequences, Functions

CONSTANTS
  Accounts,        \* NEAR accounts
  Chains,          \* LayerZero chain ids
  NEAR,            \* near_chain_id
  NoOracle,        \* supply_oracle = None
  Switches,        \* values of ChainConfig the owner may set (bound on inputs):
  FeeRates,        \*   enabled, fee_basis_points, min_fee and max_fee
  MinFees,
  MaxFees,
  Amounts,         \* amounts passed to calls (bound on inputs)
  Fees,            \* lz_params.fees passed to bridge_out (bound on inputs)
  MAX_SUPPLY,
  INITIAL_SUPPLY,
  Names            \* module names

VARIABLES
  accounts,        \* token.accounts: registered account -> balance, partial
  total_supply,    \* token.total_supply
  owner_id,
  lz_endpoint,
  chain_configs,   \* chain -> ChainConfig, partial
  tracker_owner,   \* supply_tracker.owner_id
  supplies,        \* supply_tracker.supplies: chain -> supply, partial
  modules, module_keys, authorized_callers, mm_owner, admins, \* module_manager
  foreign          \* history: someone else than the owner moved the NEAR supply

mm == INSTANCE ModuleManager WITH owner_id <- mm_owner, Permissions <- {}

ledgerVars == <<accounts, total_supply>>
mmVars == <<modules, module_keys, authorized_callers, mm_owner, admins>>
bridgeVars == <<lz_endpoint, chain_configs>>
trackerVars == <<supplies, tracker_owner>>
tokenVars == <<ledgerVars, owner_id, bridgeVars, trackerVars, mmVars, foreign>>

ChainConfig == [enabled : BOOLEAN, fee_basis_points : Nat, min_fee : Nat,
                max_fee : Nat, supply_oracle : Accounts \cup {NoOracle}]

(* What the owner may pass to set_chain_config; an oracle is set apart. *)
Configs == [enabled : Switches, fee_basis_points : FeeRates, min_fee : MinFees,
            max_fee : MaxFees, supply_oracle : {NoOracle}]

ASSUME SupplyAssumption ==
  /\ MAX_SUPPLY \in Nat
  /\ INITIAL_SUPPLY \in 0 .. MAX_SUPPLY

ASSUME InputAssumption ==
  /\ Amounts \subseteq Nat
  /\ Fees \subseteq Nat
  /\ NEAR \in Chains
  /\ Switches \subseteq BOOLEAN
  /\ FeeRates \subseteq Nat /\ MinFees \subseteq Nat /\ MaxFees \subseteq Nat

insert(map, k, v) == mm!insert(map, k, v)

remove(map, k) == mm!remove(map, k)

TypeOK ==
  /\ DOMAIN accounts \in SUBSET Accounts
  /\ accounts \in [DOMAIN accounts -> Nat]
  /\ total_supply \in Nat
  /\ owner_id \in Accounts
  /\ lz_endpoint \in Accounts
  /\ DOMAIN chain_configs \in SUBSET Chains
  /\ chain_configs \in [DOMAIN chain_configs -> ChainConfig]
  /\ tracker_owner \in Accounts
  /\ DOMAIN supplies \in SUBSET Chains
  /\ supplies \in [DOMAIN supplies -> Nat]
  /\ mm_owner \in Accounts
  /\ admins \in SUBSET Accounts

-----------------------------------------------------------------------------
(* The FungibleToken library (near-contract-standards). *)

registered(account) == account \in DOMAIN accounts

ft_balance_of(account) == IF registered(account) THEN accounts[account] ELSE 0

internal_deposit(account, amount) ==
  /\ registered(account)
  /\ accounts' = [accounts EXCEPT ![account] = @ + amount]
  /\ total_supply' = total_supply + amount

internal_withdraw(account, amount) ==
  /\ registered(account)
  /\ accounts[account] >= amount
  /\ total_supply >= amount
  /\ accounts' = [accounts EXCEPT ![account] = @ - amount]
  /\ total_supply' = total_supply - amount

internal_transfer(sender, receiver, amount) ==
  /\ sender # receiver
  /\ amount > 0
  /\ registered(sender)
  /\ registered(receiver)
  /\ accounts[sender] >= amount
  /\ accounts' = [accounts EXCEPT ![sender] = @ - amount, ![receiver] = @ + amount]
  /\ UNCHANGED total_supply

-----------------------------------------------------------------------------
(* SupplyTracker. *)

(* get_total_circulating_supply: the sum over all tracked chains. *)
tracked_total == SumFunction(supplies)

(* update_chain_supply: anybody but the tracker's owner is ignored. *)
update_chain_supply(caller, chain, supply) ==
  supplies' = IF caller = tracker_owner THEN insert(supplies, chain, supply)
              ELSE supplies

\* A plausible slip: the cap on the NEAR supply is checked against the tracker only.
within_cap_tracked(amount) == tracked_total + amount <= MAX_SUPPLY

(* The two checks that mint and bridge_in make before creating tokens. *)
within_cap(amount) ==
  /\ total_supply + amount <= MAX_SUPPLY
  /\ tracked_total + amount <= MAX_SUPPLY

(* The NEAR entry follows an increase, if there is one. *)
track_near_up(caller, amount) ==
  IF NEAR \in DOMAIN supplies
  THEN update_chain_supply(caller, NEAR, supplies[NEAR] + amount)
  ELSE UNCHANGED supplies

\* A plausible slip: the subtraction is not checked for underflow.
track_near_down_unchecked(caller, amount) ==
  IF NEAR \in DOMAIN supplies
  THEN update_chain_supply(caller, NEAR, supplies[NEAR] - amount)
  ELSE UNCHANGED supplies

(* The NEAR entry follows a decrease, if there is one: the subtraction is  *)
(* made, and may underflow, before the tracker looks at the caller.        *)
track_near_down(caller, amount) ==
  IF NEAR \in DOMAIN supplies
  THEN /\ supplies[NEAR] >= amount
       /\ update_chain_supply(caller, NEAR, supplies[NEAR] - amount)
  ELSE UNCHANGED supplies

note_foreign(caller) == foreign' = (foreign \/ caller # owner_id)

-----------------------------------------------------------------------------
(* new, called by the deployer: the first tracker update is ignored unless *)
(* the deployer is the owner it names.                                     *)
new(deployer, owner, endpoint) ==
  /\ accounts = [a \in {owner} |-> INITIAL_SUPPLY]
  /\ total_supply = INITIAL_SUPPLY
  /\ owner_id = owner
  /\ lz_endpoint = endpoint
  /\ chain_configs = mm!EmptyMap
  /\ tracker_owner = owner
  /\ supplies = IF deployer = owner THEN [c \in {NEAR} |-> INITIAL_SUPPLY]
                ELSE mm!EmptyMap
  /\ mm!new(owner, {})
  /\ foreign = (deployer # owner)

assert_owner(caller) == caller = owner_id

ft_transfer(caller, receiver, amount) ==
  /\ internal_transfer(caller, receiver, amount)
  /\ UNCHANGED <<owner_id, bridgeVars, trackerVars, mmVars, foreign>>

\* A plausible slip: the tracker is told before tokens exist and never again.
mint_untracked(caller, receiver, amount) ==
  /\ assert_owner(caller)
  /\ within_cap(amount)
  /\ internal_deposit(receiver, amount)
  /\ UNCHANGED <<owner_id, bridgeVars, trackerVars, mmVars, foreign>>

mint(caller, receiver, amount) ==
  /\ assert_owner(caller)
  /\ within_cap(amount)
  /\ internal_deposit(receiver, amount)
  /\ track_near_up(caller, amount)
  /\ UNCHANGED <<owner_id, bridgeVars, tracker_owner, mmVars, foreign>>

burn(caller, amount) ==
  /\ internal_withdraw(caller, amount)
  /\ track_near_down(caller, amount)
  /\ note_foreign(caller)
  /\ UNCHANGED <<owner_id, bridgeVars, tracker_owner, mmVars>>

set_lz_endpoint(caller, endpoint) ==
  /\ assert_owner(caller)
  /\ lz_endpoint' = endpoint
  /\ UNCHANGED <<ledgerVars, owner_id, chain_configs, trackerVars, mmVars, foreign>>

add_module_admin(caller, admin) ==
  /\ assert_owner(caller)
  /\ mm!add_admin(caller, admin)
  /\ UNCHANGED <<ledgerVars, owner_id, bridgeVars, trackerVars, foreign>>

add_module(caller, module) ==
  /\ assert_owner(caller)
  /\ mm!add_module(caller, module)
  /\ UNCHANGED <<ledgerVars, owner_id, bridgeVars, trackerVars, foreign>>

\* A plausible slip: the tracker is forgotten.
transfer_ownership_partial(caller, new_owner) ==
  /\ assert_owner(caller)
  /\ mm!transfer_ownership(caller, new_owner)
  /\ owner_id' = new_owner
  /\ UNCHANGED <<ledgerVars, bridgeVars, trackerVars, foreign>>

(* The three owners move together: tracker, module manager, contract. *)
transfer_ownership(caller, new_owner) ==
  /\ assert_owner(caller)
  /\ caller = tracker_owner
  /\ tracker_owner' = new_owner
  /\ mm!transfer_ownership(caller, new_owner)
  /\ owner_id' = new_owner
  /\ UNCHANGED <<ledgerVars, bridgeVars, supplies, foreign>>

-----------------------------------------------------------------------------
(* impl BridgeAdapter *)

(* The percentage fee clamped to [min_fee, max_fee]; min_fee wins when the *)
(* two are in the wrong order.                                             *)
estimate_bridge_fee(chain, amount) ==
  LET config == chain_configs[chain]
      fee == (amount * config.fee_basis_points) \div 10000
  IN  IF fee < config.min_fee THEN config.min_fee
      ELSE IF fee > config.max_fee THEN config.max_fee
      ELSE fee

(* The tokens are burned and a LayerZero message is sent (see OmniBridge). *)
bridge_out(caller, chain, amount, fees) ==
  /\ chain \in DOMAIN chain_configs
  /\ chain_configs[chain].enabled
  /\ fees >= estimate_bridge_fee(chain, amount)
  /\ internal_withdraw(caller, amount)
  /\ track_near_down(caller, amount)
  /\ note_foreign(caller)
  /\ UNCHANGED <<owner_id, bridgeVars, tracker_owner, mmVars>>

\* A plausible slip: registering the receiver drops the balance it had.
bridge_in_register(caller, chain, receiver, amount) ==
  /\ caller = lz_endpoint
  /\ chain \in DOMAIN chain_configs
  /\ chain_configs[chain].enabled
  /\ within_cap(amount)
  /\ accounts' = insert(accounts, receiver, amount)
  /\ total_supply' = total_supply + amount
  /\ track_near_up(caller, amount)
  /\ note_foreign(caller)
  /\ UNCHANGED <<owner_id, bridgeVars, tracker_owner, mmVars>>

(* The receiver is registered when needed, then credited. *)
bridge_in(caller, chain, receiver, amount) ==
  /\ caller = lz_endpoint
  /\ chain \in DOMAIN chain_configs
  /\ chain_configs[chain].enabled
  /\ within_cap(amount)
  /\ accounts' = insert(accounts, receiver, ft_balance_of(receiver) + amount)
  /\ total_supply' = total_supply + amount
  /\ track_near_up(caller, amount)
  /\ note_foreign(caller)
  /\ UNCHANGED <<owner_id, bridgeVars, tracker_owner, mmVars>>

set_chain_config(caller, chain, config) ==
  /\ assert_owner(caller)
  /\ chain_configs' = insert(chain_configs, chain, config)
  /\ IF chain \in DOMAIN supplies THEN UNCHANGED supplies
     ELSE update_chain_supply(caller, chain, 0)
  /\ UNCHANGED <<ledgerVars, owner_id, lz_endpoint, tracker_owner, mmVars, foreign>>

(* The owner or the chain's oracle reports a supply and is told `true'. A  *)
(* report for NEAR itself replaces the entry the contract keeps.           *)
update_remote_chain_supply(caller, chain, supply) ==
  /\ chain \in DOMAIN chain_configs
  /\ caller = owner_id \/ caller = chain_configs[chain].supply_oracle
  /\ update_chain_supply(caller, chain, supply)
  /\ foreign' = (foreign \/ chain = NEAR)
  /\ UNCHANGED <<ledgerVars, owner_id, bridgeVars, tracker_owner, mmVars>>

set_supply_oracle(caller, chain, oracle) ==
  /\ assert_owner(caller)
  /\ chain \in DOMAIN chain_configs
  /\ chain_configs' = [chain_configs EXCEPT ![chain].supply_oracle = oracle]
  /\ UNCHANGED <<ledgerVars, owner_id, lz_endpoint, trackerVars, mmVars, foreign>>

-----------------------------------------------------------------------------
(* NEP-145 storage management, from impl_fungible_token_storage!. *)

storage_deposit(account) ==
  /\ ~registered(account)
  /\ accounts' = insert(accounts, account, 0)
  /\ UNCHANGED <<total_supply, owner_id, bridgeVars, trackerVars, mmVars, foreign>>

(* With force, the balance left on the account is burned. *)
storage_unregister(caller, force) ==
  /\ registered(caller)
  /\ accounts[caller] = 0 \/ force
  /\ total_supply >= accounts[caller]
  /\ accounts' = remove(accounts, caller)
  /\ total_supply' = total_supply - accounts[caller]
  /\ foreign' = (foreign \/ accounts[caller] > 0)
  /\ UNCHANGED <<owner_id, bridgeVars, trackerVars, mmVars>>

-----------------------------------------------------------------------------
TokenInit == \E deployer, owner, endpoint \in Accounts : new(deployer, owner, endpoint)

(* Every call that neither sends nor receives a bridge message. *)
LocalCall(caller) ==
  \/ \E a \in Accounts, n \in Amounts : ft_transfer(caller, a, n)
  \/ \E a \in Accounts, n \in Amounts : mint(caller, a, n)
  \/ \E n \in Amounts : burn(caller, n)
  \/ \E a \in Accounts : set_lz_endpoint(caller, a)
  \/ \E a \in Accounts : add_module_admin(caller, a)
  \/ \E m \in mm!Module : add_module(caller, m)
  \/ \E a \in Accounts : transfer_ownership(caller, a)
  \/ \E c \in Chains, k \in Configs : set_chain_config(caller, c, k)
  \/ \E c \in Chains, n \in Amounts : update_remote_chain_supply(caller, c, n)
  \/ \E c \in Chains, a \in Accounts : set_supply_oracle(caller, c, a)
  \/ storage_deposit(caller)
  \/ \E force \in BOOLEAN : storage_unregister(caller, force)

BridgeCall(caller) ==
  \/ \E c \in Chains, n \in Amounts, f \in Fees : bridge_out(caller, c, n, f)
  \/ \E c \in Chains, a \in Accounts, n \in Amounts : bridge_in(caller, c, a, n)

TokenNext == \E caller \in Accounts : LocalCall(caller) \/ BridgeCall(caller)

TokenSpec == TokenInit /\ [][TokenNext]_tokenVars

-----------------------------------------------------------------------------
(* Properties *)

(* mint and bridge_in never take the supply on NEAR over max_supply,       *)
(* whatever the tracker believes.                                          *)
NearCap == total_supply <= MAX_SUPPLY

(* The ledger adds up: through mint, burn, both bridge directions and a    *)
(* forced unregistration the balances sum to ft_total_supply.              *)
BalancesAddUp == SumFunction(accounts) = total_supply

(* The three owner fields (contract, SupplyTracker, ModuleManager) never   *)
(* part, and the owner is a module admin: otherwise transfer_ownership     *)
(* would panic half way and owner-only updates would be silently ignored.  *)
OwnersInStep ==
  /\ tracker_owner = owner_id
  /\ mm_owner = owner_id
  /\ owner_id \in admins

(* As long as the owner deployed the contract and only the owner has       *)
(* burned, bridged or been credited, the NEAR entry of the tracker is the  *)
(* NEAR supply.                                                            *)
TrackerExactForOwner ==
  foreign \/ (NEAR \in DOMAIN supplies /\ supplies[NEAR] = total_supply)
=============================================================================
