-------------------------- MODULE DiamondTokenProofs --------------------------
(***************************************************************************)
(* Theorems about the DiamondToken contract and its bridge: types, the cap *)
(* on the NEAR supply, the three owner fields, the ledger's sum and the    *)
(* tracker; that the contract behind the bridge makes only steps of the    *)
(* contract alone; and that messages conserve tokens.                      *)
(***************************************************************************)
EXTENDS OmniBridge, DataTheorems, TLAPS

(* What inserting into and removing from a map of the NEAR SDK does to its *)
(* type.                                                                   *)
LEMMA InsertType ==
  ASSUME NEW K, NEW V, NEW map, NEW k \in K, NEW v \in V,
         DOMAIN map \in SUBSET K, map \in [DOMAIN map -> V]
  PROVE  /\ DOMAIN insert(map, k, v) \in SUBSET K
         /\ insert(map, k, v) \in [DOMAIN insert(map, k, v) -> V]
BY DEF insert, mm!insert

(* remove keeps the type of a partial function. *)
LEMMA RemoveType ==
  ASSUME NEW K, NEW V, NEW map, NEW k,
         DOMAIN map \in SUBSET K, map \in [DOMAIN map -> V]
  PROVE  /\ DOMAIN remove(map, k) \in SUBSET K
         /\ remove(map, k) \in [DOMAIN remove(map, k) -> V]
BY DEF remove, mm!remove

(* The tracker's entries stay natural numbers under update_chain_supply,   *)
(* and under the two ways of following the NEAR supply.                    *)
TrackerType == DOMAIN supplies \in SUBSET Chains /\ supplies \in [DOMAIN supplies -> Nat]

(* update_chain_supply keeps the type of the supplies, whoever calls. *)
LEMMA UpdateChainSupplyType ==
  ASSUME TrackerType, NEW caller, NEW c \in Chains, NEW n \in Nat,
         update_chain_supply(caller, c, n)
  PROVE  TrackerType'
<1>1. CASE caller = tracker_owner
  <2>1. supplies' = insert(supplies, c, n)
    BY <1>1 DEF update_chain_supply
  <2> QED
    BY <2>1, InsertType DEF TrackerType
<1>2. CASE caller # tracker_owner
  BY <1>2 DEF update_chain_supply, TrackerType
<1> QED
  BY <1>1, <1>2

(* An increase of the NEAR entry keeps the type of the supplies. *)
LEMMA TrackNearUpType ==
  ASSUME TrackerType, NEW caller, NEW n \in Nat, track_near_up(caller, n)
  PROVE  TrackerType'
<1>1. CASE NEAR \in DOMAIN supplies
  <2>1. NEAR \in Chains /\ supplies[NEAR] + n \in Nat
    BY <1>1, InputAssumption DEF TrackerType
  <2> QED
    BY <1>1, <2>1, UpdateChainSupplyType DEF track_near_up
<1>2. CASE NEAR \notin DOMAIN supplies
  BY <1>2 DEF track_near_up, TrackerType
<1> QED
  BY <1>1, <1>2

(* A decrease does too: the subtraction is checked for underflow. *)
LEMMA TrackNearDownType ==
  ASSUME TrackerType, NEW caller, NEW n \in Nat, track_near_down(caller, n)
  PROVE  TrackerType'
<1>1. CASE NEAR \in DOMAIN supplies
  <2>1. NEAR \in Chains /\ supplies[NEAR] - n \in Nat
    BY <1>1, InputAssumption DEF TrackerType, track_near_down
  <2> QED
    BY <1>1, <2>1, UpdateChainSupplyType DEF track_near_down
<1>2. CASE NEAR \notin DOMAIN supplies
  BY <1>2 DEF track_near_down, TrackerType
<1> QED
  BY <1>1, <1>2

(* The parts of TypeOK, each with its own reason to be preserved. *)
LedgerType ==
  /\ DOMAIN accounts \in SUBSET Accounts
  /\ accounts \in [DOMAIN accounts -> Nat]
  /\ total_supply \in Nat

ConfigType ==
  /\ DOMAIN chain_configs \in SUBSET Chains
  /\ chain_configs \in [DOMAIN chain_configs -> ChainConfig]

RoleType ==
  /\ owner_id \in Accounts
  /\ lz_endpoint \in Accounts
  /\ tracker_owner \in Accounts
  /\ mm_owner \in Accounts
  /\ admins \in SUBSET Accounts

(* The type invariant split by the calls that can disturb each part. *)
LEMMA TypeParts == TypeOK <=> LedgerType /\ TrackerType /\ ConfigType /\ RoleType
BY DEF TypeOK, LedgerType, TrackerType, ConfigType, RoleType

(***************************************************************************)
(* The inductive invariant.  The cap needs the supply to be a number, a    *)
(* transfer of ownership needs the owners to agree.                        *)
(***************************************************************************)
TokenInv == TypeOK /\ NearCap /\ OwnersInStep

(* new establishes the invariant, whoever deploys the contract. *)
LEMMA InitTokenInv == TokenInit => TokenInv
<1> SUFFICES ASSUME NEW deployer \in Accounts, NEW owner \in Accounts,
                    NEW endpoint \in Accounts, new(deployer, owner, endpoint)
             PROVE  TokenInv
  BY DEF TokenInit
<1>1. LedgerType /\ NearCap
  BY SupplyAssumption DEF new, LedgerType, NearCap
<1>2. TrackerType
  BY SupplyAssumption, InputAssumption DEF new, TrackerType, mm!EmptyMap
<1>3. ConfigType
  BY DEF new, ConfigType, mm!EmptyMap
<1>4. RoleType /\ OwnersInStep
  BY DEF new, mm!new, RoleType, OwnersInStep
<1> QED
  BY <1>1, <1>2, <1>3, <1>4, TypeParts DEF TokenInv

(* The calls that move tokens. *)
LEMMA LedgerCalls ==
  ASSUME TokenInv, NEW caller \in Accounts, NEW a, NEW n, NEW c, NEW f, NEW force,
         \/ n \in Nat /\ a \in Accounts /\ ft_transfer(caller, a, n)
         \/ n \in Nat /\ a \in Accounts /\ mint(caller, a, n)
         \/ n \in Nat /\ (burn(caller, n) \/ bridge_out(caller, c, n, f))
         \/ n \in Nat /\ a \in Accounts /\ bridge_in(caller, c, a, n)
         \/ storage_deposit(caller)
         \/ storage_unregister(caller, force)
  PROVE  TokenInv'
<1> MAX_SUPPLY \in Nat
  BY SupplyAssumption
<1> LedgerType /\ TrackerType /\ ConfigType /\ RoleType /\ NearCap /\ OwnersInStep
  BY TypeParts DEF TokenInv
<1>1. (ConfigType /\ RoleType /\ OwnersInStep)'
  BY DEF ft_transfer, mint, burn, bridge_out, bridge_in, storage_deposit,
         storage_unregister, ConfigType, RoleType, OwnersInStep, bridgeVars,
         trackerVars, mmVars
<1>2. (LedgerType /\ NearCap)'
  <2>1. CASE n \in Nat /\ a \in Accounts /\ ft_transfer(caller, a, n)
    BY <2>1 DEF ft_transfer, internal_transfer, registered, LedgerType, NearCap
  <2>2. CASE n \in Nat /\ a \in Accounts /\ mint(caller, a, n)
    BY <2>2 DEF mint, internal_deposit, registered, within_cap, LedgerType, NearCap
  <2>3. CASE n \in Nat /\ (burn(caller, n) \/ bridge_out(caller, c, n, f))
    <3>1. internal_withdraw(caller, n)
      BY <2>3 DEF burn, bridge_out
    <3> QED
      BY <2>3, <3>1 DEF internal_withdraw, registered, LedgerType, NearCap
  <2>4. CASE n \in Nat /\ a \in Accounts /\ bridge_in(caller, c, a, n)
    <3>1. ft_balance_of(a) + n \in Nat
      BY <2>4 DEF ft_balance_of, registered, LedgerType
    <3>2. DOMAIN accounts' \in SUBSET Accounts /\ accounts' \in [DOMAIN accounts' -> Nat]
      <4>1. PICK b \in Nat : accounts' = insert(accounts, a, b)
        BY <2>4, <3>1 DEF bridge_in
      <4> QED
        BY <2>4, <4>1, InsertType DEF LedgerType
    <3>3. total_supply' \in Nat /\ total_supply' <= MAX_SUPPLY
      BY <2>4 DEF bridge_in, within_cap, LedgerType
    <3> QED
      BY <3>2, <3>3 DEF LedgerType, NearCap
  <2>5. CASE storage_deposit(caller)
    <3>1. DOMAIN accounts' \in SUBSET Accounts /\ accounts' \in [DOMAIN accounts' -> Nat]
      <4>1. accounts' = insert(accounts, caller, 0) /\ 0 \in Nat
        BY <2>5 DEF storage_deposit
      <4> QED
        BY <4>1, InsertType DEF LedgerType
    <3> QED
      BY <2>5, <3>1 DEF storage_deposit, LedgerType, NearCap
  <2>6. CASE storage_unregister(caller, force)
    <3>1. DOMAIN accounts' \in SUBSET Accounts /\ accounts' \in [DOMAIN accounts' -> Nat]
      BY <2>6, RemoveType DEF storage_unregister, LedgerType
    <3>2. total_supply' \in Nat /\ total_supply' <= MAX_SUPPLY
      BY <2>6 DEF storage_unregister, registered, LedgerType, NearCap
    <3> QED
      BY <3>1, <3>2 DEF LedgerType, NearCap
  <2> QED
    BY <2>1, <2>2, <2>3, <2>4, <2>5, <2>6
<1>3. TrackerType'
  <2>1. CASE n \in Nat /\ (mint(caller, a, n) \/ bridge_in(caller, c, a, n))
    BY <2>1, TrackNearUpType DEF mint, bridge_in
  <2>2. CASE n \in Nat /\ (burn(caller, n) \/ bridge_out(caller, c, n, f))
    BY <2>2, TrackNearDownType DEF burn, bridge_out
  <2>3. CASE ft_transfer(caller, a, n) \/ storage_deposit(caller) \/ storage_unregister(caller, force)
    BY <2>3 DEF ft_transfer, storage_deposit, storage_unregister, trackerVars, TrackerType
  <2> QED
    BY <2>1, <2>2, <2>3
<1>4. TypeOK'
  BY <1>1, <1>2, <1>3 DEF TypeOK, LedgerType, TrackerType, ConfigType, RoleType
<1> QED
  BY <1>1, <1>2, <1>4 DEF TokenInv

(* The calls that administer the contract. *)
LEMMA AdminCalls ==
  ASSUME TokenInv, NEW caller \in Accounts, NEW a, NEW n, NEW c, NEW k, NEW m,
         \/ a \in Accounts /\ set_lz_endpoint(caller, a)
         \/ a \in Accounts /\ add_module_admin(caller, a)
         \/ add_module(caller, m)
         \/ a \in Accounts /\ transfer_ownership(caller, a)
         \/ c \in Chains /\ k \in Configs /\ set_chain_config(caller, c, k)
         \/ c \in Chains /\ n \in Amounts /\ update_remote_chain_supply(caller, c, n)
         \/ a \in Accounts /\ set_supply_oracle(caller, c, a)
  PROVE  TokenInv'
<1> Amounts \subseteq Nat /\ Configs \subseteq ChainConfig
  BY InputAssumption DEF Configs, ChainConfig
<1> LedgerType /\ TrackerType /\ ConfigType /\ RoleType /\ NearCap /\ OwnersInStep
  BY TypeParts DEF TokenInv
<1>1. (LedgerType /\ NearCap)'
  BY DEF set_lz_endpoint, add_module_admin, add_module, transfer_ownership,
         set_chain_config, update_remote_chain_supply, set_supply_oracle,
         ledgerVars, LedgerType, NearCap
<1>2. TrackerType'
  <2>1. CASE c \in Chains /\ k \in Configs /\ set_chain_config(caller, c, k)
    BY <2>1, UpdateChainSupplyType DEF set_chain_config, TrackerType
  <2>2. CASE c \in Chains /\ n \in Amounts /\ update_remote_chain_supply(caller, c, n)
    BY <2>2, UpdateChainSupplyType DEF update_remote_chain_supply
  <2>3. ASSUME UNCHANGED supplies PROVE TrackerType'
    BY <2>3 DEF TrackerType
  <2> QED
    BY <2>1, <2>2, <2>3 DEF set_lz_endpoint, add_module_admin, add_module,
       transfer_ownership, set_supply_oracle, trackerVars
<1>3. ConfigType'
  <2>1. CASE c \in Chains /\ k \in Configs /\ set_chain_config(caller, c, k)
    BY <2>1, InsertType DEF set_chain_config, ConfigType
  <2>2. CASE a \in Accounts /\ set_supply_oracle(caller, c, a)
    <3>1. [chain_configs[c] EXCEPT !.supply_oracle = a] \in ChainConfig
      BY <2>2 DEF set_supply_oracle, ConfigType, ChainConfig
    <3> QED
      BY <2>2, <3>1 DEF set_supply_oracle, ConfigType
  <2>3. ASSUME UNCHANGED chain_configs PROVE ConfigType'
    BY <2>3 DEF ConfigType
  <2> QED
    BY <2>1, <2>2, <2>3 DEF set_lz_endpoint, add_module_admin, add_module,
       transfer_ownership, update_remote_chain_supply, bridgeVars
<1>4. (RoleType /\ OwnersInStep)'
  <2>1. CASE a \in Accounts /\ set_lz_endpoint(caller, a)
    BY <2>1 DEF set_lz_endpoint, RoleType, OwnersInStep, trackerVars, mmVars
  <2>2. CASE a \in Accounts /\ add_module_admin(caller, a)
    BY <2>2 DEF add_module_admin, mm!add_admin, RoleType, OwnersInStep,
                trackerVars, bridgeVars
  <2>3. CASE add_module(caller, m)
    BY <2>3 DEF add_module, mm!add_module, RoleType, OwnersInStep,
                trackerVars, bridgeVars
  <2>4. CASE a \in Accounts /\ transfer_ownership(caller, a)
    BY <2>4 DEF transfer_ownership, mm!transfer_ownership, RoleType,
                OwnersInStep, bridgeVars
  <2>5. CASE c \in Chains /\ k \in Configs /\ set_chain_config(caller, c, k)
    BY <2>5 DEF set_chain_config, RoleType, OwnersInStep, mmVars
  <2>6. CASE c \in Chains /\ n \in Amounts /\ update_remote_chain_supply(caller, c, n)
    BY <2>6 DEF update_remote_chain_supply, RoleType, OwnersInStep, mmVars, bridgeVars
  <2>7. CASE a \in Accounts /\ set_supply_oracle(caller, c, a)
    BY <2>7 DEF set_supply_oracle, RoleType, OwnersInStep, mmVars, trackerVars
  <2> QED
    BY <2>1, <2>2, <2>3, <2>4, <2>5, <2>6, <2>7
<1>5. TypeOK'
  BY <1>1, <1>2, <1>3, <1>4 DEF TypeOK, LedgerType, TrackerType, ConfigType, RoleType
<1> QED
  BY <1>1, <1>4, <1>5 DEF TokenInv

(* Every call keeps the invariant. *)
LEMMA TokenInvStep == TokenInv /\ [TokenNext]_tokenVars => TokenInv'
<1> SUFFICES ASSUME TokenInv, [TokenNext]_tokenVars PROVE TokenInv'
  OBVIOUS
<1> Amounts \subseteq Nat
  BY InputAssumption
<1>1. CASE UNCHANGED tokenVars
  BY <1>1 DEF tokenVars, ledgerVars, bridgeVars, trackerVars, mmVars,
              TokenInv, TypeOK, NearCap, OwnersInStep
<1>2. ASSUME NEW caller \in Accounts, LocalCall(caller) PROVE TokenInv'
  BY <1>2, LedgerCalls, AdminCalls DEF LocalCall
<1>3. ASSUME NEW caller \in Accounts, BridgeCall(caller) PROVE TokenInv'
  BY <1>3, LedgerCalls DEF BridgeCall
<1> QED
  BY <1>1, <1>2, <1>3 DEF TokenNext

(* The invariant holds in every reachable state. *)
LEMMA TokenInvAlways == TokenSpec => []TokenInv
BY InitTokenInv, TokenInvStep, PTL DEF TokenSpec

(* Every reachable state of the contract is well typed, for any number of  *)
(* accounts and chains: in particular no balance, supply or tracked supply *)
(* is negative.                                                            *)
THEOREM TokenTypeCorrect == TokenSpec => []TypeOK
BY TokenInvAlways, PTL DEF TokenInv

(* The supply on NEAR never exceeds MAX_SUPPLY.                            *)
THEOREM NearSupplyCapped == TokenSpec => []NearCap
BY TokenInvAlways, PTL DEF TokenInv

(* The contract, its SupplyTracker and its ModuleManager have the same     *)
(* owner, and that owner is a module admin.                                *)
THEOREM OwnersAgree == TokenSpec => []OwnersInStep
BY TokenInvAlways, PTL DEF TokenInv

-----------------------------------------------------------------------------
(***************************************************************************)
(* The tracker's NEAR entry.                                               *)
(***************************************************************************)

(* An update of another chain's entry keeps the one of NEAR, and one by    *)
(* the owner for NEAR sets it.                                             *)
LEMMA NearEntry ==
  ASSUME OwnersInStep, NEW caller, NEW c, NEW n, update_chain_supply(caller, c, n)
  PROVE  /\ NEAR \in DOMAIN supplies /\ c # NEAR =>
              NEAR \in DOMAIN supplies' /\ supplies'[NEAR] = supplies[NEAR]
         /\ caller = owner_id /\ c = NEAR =>
              NEAR \in DOMAIN supplies' /\ supplies'[NEAR] = n
BY DEF OwnersInStep, update_chain_supply, insert, mm!insert

(* The contract starts with the entry exact, or deployed by a stranger. *)
LEMMA TrackerExactInit == TokenInit => TrackerExactForOwner
BY DEF TokenInit, new, TrackerExactForOwner

(* Every call keeps it exact, as long as only the owner moves the supply.  *)
LEMMA TrackerExactStep ==
  ASSUME TokenInv, TrackerExactForOwner, [TokenNext]_tokenVars
  PROVE  TrackerExactForOwner'
<1> USE DEF TrackerExactForOwner
<1>0. OwnersInStep /\ Amounts \subseteq Nat
  BY InputAssumption DEF TokenInv
<1>1. foreign => foreign'
  BY DEF TokenNext, LocalCall, BridgeCall, ft_transfer, mint, burn, bridge_out, bridge_in,
         set_lz_endpoint, add_module_admin, add_module, transfer_ownership, set_chain_config,
         update_remote_chain_supply, set_supply_oracle, storage_deposit,
         storage_unregister, note_foreign, tokenVars
<1> SUFFICES ASSUME ~foreign, ~foreign'
             PROVE  NEAR \in DOMAIN supplies' /\ supplies'[NEAR] = total_supply'
  BY <1>1
<1>2. ASSUME UNCHANGED <<supplies, total_supply>>
      PROVE  NEAR \in DOMAIN supplies' /\ supplies'[NEAR] = total_supply'
  BY <1>2
<1>3. ASSUME NEW caller \in Accounts, LocalCall(caller)
      PROVE  NEAR \in DOMAIN supplies' /\ supplies'[NEAR] = total_supply'
  <2>1. ASSUME NEW a \in Accounts, NEW n \in Amounts, mint(caller, a, n)
        PROVE  NEAR \in DOMAIN supplies' /\ supplies'[NEAR] = total_supply'
    BY <1>0, <2>1, NearEntry DEF mint, assert_owner, internal_deposit, track_near_up
  <2>2. ASSUME NEW n \in Amounts, burn(caller, n)
        PROVE  NEAR \in DOMAIN supplies' /\ supplies'[NEAR] = total_supply'
    BY <1>0, <2>2, NearEntry DEF burn, internal_withdraw, track_near_down, note_foreign
  <2>3. ASSUME NEW c \in Chains, NEW k \in Configs, set_chain_config(caller, c, k)
        PROVE  NEAR \in DOMAIN supplies' /\ supplies'[NEAR] = total_supply'
    <3>1. CASE c \in DOMAIN supplies
      BY <1>2, <2>3, <3>1 DEF set_chain_config, ledgerVars
    <3>2. CASE c \notin DOMAIN supplies
      <4>1. c # NEAR /\ update_chain_supply(caller, c, 0) /\ total_supply' = total_supply
        BY <2>3, <3>2 DEF set_chain_config, ledgerVars
      <4> QED
        BY <1>0, <4>1, NearEntry
    <3> QED
      BY <3>1, <3>2
  <2>4. ASSUME NEW c \in Chains, NEW n \in Amounts, update_remote_chain_supply(caller, c, n)
        PROVE  NEAR \in DOMAIN supplies' /\ supplies'[NEAR] = total_supply'
    <3>1. c # NEAR
      BY <2>4 DEF update_remote_chain_supply
    <3>2. update_chain_supply(caller, c, n) /\ total_supply' = total_supply
      BY <2>4 DEF update_remote_chain_supply, ledgerVars
    <3> QED
      BY <1>0, <3>1, <3>2, NearEntry
  <2>5. ASSUME NEW force \in BOOLEAN, storage_unregister(caller, force)
        PROVE  NEAR \in DOMAIN supplies' /\ supplies'[NEAR] = total_supply'
    <3>1. accounts[caller] = 0 /\ total_supply \in Nat
      BY <2>5 DEF storage_unregister, registered, TokenInv, TypeOK
    <3> QED
      BY <2>5, <3>1 DEF storage_unregister, trackerVars
  <2> QED
    BY <1>2, <1>3, <2>1, <2>2, <2>3, <2>4, <2>5
       DEF LocalCall, ft_transfer, internal_transfer, set_lz_endpoint, add_module_admin,
           add_module, transfer_ownership, set_supply_oracle, storage_deposit,
           ledgerVars, trackerVars
<1>4. ASSUME NEW caller \in Accounts, BridgeCall(caller)
      PROVE  NEAR \in DOMAIN supplies' /\ supplies'[NEAR] = total_supply'
  <2>1. ASSUME NEW c \in Chains, NEW n \in Amounts, NEW f \in Fees, bridge_out(caller, c, n, f)
        PROVE  NEAR \in DOMAIN supplies' /\ supplies'[NEAR] = total_supply'
    BY <1>0, <2>1, NearEntry DEF bridge_out, internal_withdraw, track_near_down, note_foreign
  <2>2. ASSUME NEW c \in Chains, NEW a \in Accounts, NEW n \in Amounts,
               bridge_in(caller, c, a, n)
        PROVE  NEAR \in DOMAIN supplies' /\ supplies'[NEAR] = total_supply'
    BY <1>0, <2>2, NearEntry DEF bridge_in, track_near_up, note_foreign
  <2> QED
    BY <1>4, <2>1, <2>2 DEF BridgeCall
<1> QED
  BY <1>2, <1>3, <1>4 DEF TokenNext, tokenVars, ledgerVars, trackerVars

-----------------------------------------------------------------------------
(***************************************************************************)
(* The ledger adds up.                                                     *)
(***************************************************************************)

(* The balances can be summed, and their sum is total_supply. *)
LedgerSum == IsFiniteSet(DOMAIN accounts) /\ BalancesAddUp

(* new gives the whole supply to the owner. *)
LEMMA LedgerSumInit == TokenInit => LedgerSum
<1> SUFFICES ASSUME NEW owner \in Accounts, accounts = [a \in {owner} |-> INITIAL_SUPPLY],
                    total_supply = INITIAL_SUPPLY
             PROVE  LedgerSum
  BY DEF TokenInit, new
<1>1. INITIAL_SUPPLY \in Int
  BY SupplyAssumption
<1>2. IsFiniteSet({owner})
  BY FS_Singleton
<1> QED
  BY <1>1, <1>2, SumSingle DEF LedgerSum, BalancesAddUp

(* The calls that move tokens change the balances and the supply alike. *)
LEMMA LedgerSumCalls ==
  ASSUME TokenInv, LedgerSum, NEW caller, NEW a, NEW n, NEW c, NEW f, NEW force,
         \/ n \in Nat /\ ft_transfer(caller, a, n)
         \/ n \in Nat /\ mint(caller, a, n)
         \/ n \in Nat /\ (burn(caller, n) \/ bridge_out(caller, c, n, f))
         \/ n \in Nat /\ bridge_in(caller, c, a, n)
         \/ storage_deposit(caller)
         \/ storage_unregister(caller, force)
  PROVE  LedgerSum'
<1> USE DEF LedgerSum, BalancesAddUp
<1>1. /\ IsFiniteSet(DOMAIN accounts)
      /\ \A x \in DOMAIN accounts : accounts[x] \in Int
      /\ total_supply \in Int
  BY DEF TokenInv, TypeOK
<1>2. ASSUME NEW x \in DOMAIN accounts, NEW v \in Int,
             accounts' = [accounts EXCEPT ![x] = accounts[x] + v],
             total_supply' = total_supply + v
      PROVE  LedgerSum'
  <2>1. SumFunction([accounts EXCEPT ![x] = accounts[x] + v])
          = SumFunction(accounts) + (accounts[x] + v) - accounts[x]
    <3> DEFINE w == accounts[x] + v
    <3>1. w \in Int
      BY <1>1
    <3> HIDE DEF w
    <3>2. SumFunction([accounts EXCEPT ![x] = w]) = SumFunction(accounts) + w - accounts[x]
      BY <1>1, <3>1, SumExcept
    <3> QED
      BY <3>2 DEF w
  <2> QED
    BY <1>1, <1>2, <2>1
<1>3. ASSUME NEW x, NEW v \in Int,
             accounts' = insert(accounts, x, ft_balance_of(x) + v),
             total_supply' = total_supply + v
      PROVE  LedgerSum'
  <2> DEFINE w == ft_balance_of(x) + v
  <2>1. w \in Int /\ ft_balance_of(x) = IF x \in DOMAIN accounts THEN accounts[x] ELSE 0
    BY <1>1 DEF ft_balance_of, registered
  <2>2. accounts' = [y \in DOMAIN accounts \cup {x} |-> IF y = x THEN w ELSE accounts[y]]
    BY <1>3 DEF insert, mm!insert
  <2> HIDE DEF w
  <2>3. /\ IsFiniteSet(DOMAIN accounts')
        /\ SumFunction(accounts') = SumFunction(accounts) + w
              - IF x \in DOMAIN accounts THEN accounts[x] ELSE 0
    BY <1>1, <2>1, <2>2, SumInsert
  <2> QED
    BY <1>1, <1>3, <2>1, <2>3 DEF w
<1>4. CASE n \in Nat /\ ft_transfer(caller, a, n)
  <2> DEFINE half == [accounts EXCEPT ![caller] = accounts[caller] - n]
  <2>1. /\ caller \in DOMAIN accounts /\ a \in DOMAIN accounts /\ caller # a
        /\ accounts' = [half EXCEPT ![a] = half[a] + n]
        /\ total_supply' = total_supply
    BY <1>4 DEF ft_transfer, internal_transfer, registered
  <2>2. DOMAIN half = DOMAIN accounts /\ \A x \in DOMAIN half : half[x] \in Int
    BY <1>1, <1>4
  <2>3. SumFunction(half) = SumFunction(accounts) - n
    <3> DEFINE w == accounts[caller] - n
    <3>1. w \in Int
      BY <1>1, <1>4, <2>1
    <3> HIDE DEF w
    <3>2. SumFunction([accounts EXCEPT ![caller] = w])
            = SumFunction(accounts) + w - accounts[caller]
      BY <1>1, <2>1, <3>1, SumExcept
    <3> QED
      BY <1>1, <1>4, <2>1, <3>2 DEF w
  <2> HIDE DEF half
  <2>4. SumFunction(accounts') = SumFunction(half) + n
    <3> DEFINE w == half[a] + n
    <3>1. w \in Int /\ half[a] \in Int
      BY <1>4, <2>1, <2>2
    <3> HIDE DEF w
    <3>2. /\ SumFunction(half) \in Int
          /\ SumFunction([half EXCEPT ![a] = w]) = SumFunction(half) + w - half[a]
      BY <1>1, <2>1, <2>2, <3>1, SumExcept
    <3> QED
      BY <1>4, <2>1, <3>1, <3>2 DEF w
  <2> QED
    BY <1>1, <1>4, <2>1, <2>2, <2>3, <2>4
<1>5. CASE n \in Nat /\ mint(caller, a, n)
  <2>1. /\ a \in DOMAIN accounts /\ n \in Int
        /\ accounts' = [accounts EXCEPT ![a] = accounts[a] + n]
        /\ total_supply' = total_supply + n
    BY <1>5 DEF mint, internal_deposit, registered
  <2> QED
    BY <1>2, <2>1
<1>6. CASE n \in Nat /\ (burn(caller, n) \/ bridge_out(caller, c, n, f))
  <2>1. /\ caller \in DOMAIN accounts
        /\ accounts' = [accounts EXCEPT ![caller] = accounts[caller] - n]
        /\ total_supply' = total_supply - n
    BY <1>6 DEF burn, bridge_out, internal_withdraw, registered
  <2>2. -n \in Int /\ accounts[caller] - n = accounts[caller] + (-n)
        /\ total_supply - n = total_supply + (-n)
    BY <1>1, <1>6, <2>1
  <2> QED
    BY <1>2, <2>1, <2>2
<1>7. CASE n \in Nat /\ bridge_in(caller, c, a, n)
  BY <1>3, <1>7 DEF bridge_in
<1>8. CASE storage_deposit(caller)
  <2>1. accounts' = insert(accounts, caller, ft_balance_of(caller) + 0)
        /\ total_supply' = total_supply + 0
    BY <1>1, <1>8 DEF storage_deposit, ft_balance_of
  <2> QED
    BY <1>3, <2>1
<1>9. CASE storage_unregister(caller, force)
  <2>1. /\ caller \in DOMAIN accounts
        /\ accounts' = [y \in DOMAIN accounts \ {caller} |-> accounts[y]]
        /\ total_supply' = total_supply - accounts[caller]
    BY <1>9 DEF storage_unregister, registered, remove, mm!remove
  <2>2. IsFiniteSet(DOMAIN accounts')
        /\ SumFunction(accounts') = SumFunction(accounts) - accounts[caller]
    BY <1>1, <2>1, SumRemove
  <2> QED
    BY <2>1, <2>2
<1> QED
  BY <1>4, <1>5, <1>6, <1>7, <1>8, <1>9

(* Every call keeps the ledger adding up. *)
LEMMA LedgerSumStep ==
  ASSUME TokenInv, LedgerSum, [TokenNext]_tokenVars
  PROVE  LedgerSum'
<1>1. Amounts \subseteq Nat
  BY InputAssumption
<1>2. ASSUME UNCHANGED ledgerVars
      PROVE  LedgerSum'
  BY <1>2 DEF ledgerVars, LedgerSum, BalancesAddUp
<1>3. ASSUME NEW caller \in Accounts, LocalCall(caller)
      PROVE  LedgerSum'
  BY <1>1, <1>2, <1>3, LedgerSumCalls
     DEF LocalCall, set_lz_endpoint, add_module_admin, add_module, transfer_ownership,
         set_chain_config, update_remote_chain_supply, set_supply_oracle
<1>4. ASSUME NEW caller \in Accounts, BridgeCall(caller)
      PROVE  LedgerSum'
  BY <1>1, <1>4, LedgerSumCalls DEF BridgeCall
<1> QED
  BY <1>2, <1>3, <1>4 DEF TokenNext, tokenVars

(* Mints, burns, both directions of the bridge, transfers and a forced     *)
(* unregistration keep the balances summing to ft_total_supply.            *)
THEOREM BalancesSumToSupply == TokenSpec => []BalancesAddUp
<1>1. LedgerSum => BalancesAddUp
  BY DEF LedgerSum
<1> QED
  BY <1>1, TokenInvAlways, LedgerSumInit, LedgerSumStep, PTL DEF TokenSpec

(* As long as the owner deployed the contract and nobody else burned or    *)
(* bridged, the tracker's NEAR entry is the NEAR supply.                   *)
THEOREM TrackerFollowsOwner == TokenSpec => []TrackerExactForOwner
BY TokenInvAlways, TrackerExactInit, TrackerExactStep, PTL DEF TokenSpec

-----------------------------------------------------------------------------
(***************************************************************************)
(* The token composed with its bridge.                                     *)
(***************************************************************************)

(* Every message carries an amount some call named, under an id that was   *)
(* given out: the next message is not one that is in flight.               *)
MessagesOK ==
  /\ outbound \in SUBSET Message /\ IsFiniteSet(outbound)
  /\ inbound \in SUBSET Message /\ IsFiniteSet(inbound)
  /\ \A m \in outbound \cup inbound : m.id <= sent /\ m.amount \in Amounts

CountersOK ==
  /\ remote \in [Chains -> Nat]
  /\ lost \in Nat /\ issued \in Int /\ sent \in 0 .. MaxMessages

BridgeInv == TokenInv /\ MessagesOK /\ CountersOK

(* A step of the composition is a call of the token contract, or none.     *)
LEMMA BridgeStepIsTokenStep ==
  ASSUME BridgeInv, [Next]_vars
  PROVE  [TokenNext]_tokenVars
<1>1. ASSUME NEW m \in inbound, BridgeIn(m)
      PROVE  TokenNext
  <2>1. /\ lz_endpoint \in Accounts /\ m.chain \in Chains
        /\ m.receiver \in Accounts /\ m.amount \in Amounts
    BY DEF BridgeInv, TokenInv, TypeOK, MessagesOK, Message
  <2> QED
    BY <1>1, <2>1 DEF BridgeIn, BridgeCall, TokenNext
<1>2. ASSUME NEW caller \in Accounts, Local(caller)
      PROVE  TokenNext
  BY <1>2 DEF Local, TokenNext
<1>3. ASSUME NEW caller \in Accounts, NEW c \in Chains, NEW n \in Amounts, NEW f \in Fees,
             BridgeOut(caller, c, n, f)
      PROVE  TokenNext
  BY <1>3 DEF BridgeOut, BridgeCall, TokenNext
<1>4. ASSUME \/ \E m \in outbound : LzSendFails(m) \/ RemoteReceive(m)
             \/ \E c \in Chains, a \in Accounts, n \in Amounts : RemoteSend(c, a, n)
             \/ UNCHANGED vars
      PROVE  UNCHANGED tokenVars
  BY <1>4 DEF LzSendFails, RemoteReceive, RemoteSend, vars
<1> QED
  BY <1>1, <1>2, <1>3, <1>4 DEF Next

(* A message that is sent is new, and a set of messages that loses one     *)
(* stays in order.                                                         *)
LEMMA SendOK ==
  ASSUME MessagesOK, CountersOK, sent < MaxMessages,
         NEW c \in Chains, NEW a \in Accounts, NEW n \in Amounts,
         NEW m, m = [id |-> sent + 1, chain |-> c, receiver |-> a, amount |-> n]
  PROVE  /\ m \in Message /\ m.id = sent + 1 /\ m.amount = n
         /\ m \notin outbound /\ m \notin inbound
         /\ IsFiniteSet(outbound \cup {m}) /\ IsFiniteSet(inbound \cup {m})
         /\ sent + 1 \in 0 .. MaxMessages
<1>1. n \in Nat /\ sent \in Nat /\ MaxMessages \in Nat
  BY InputAssumption, MessageBound DEF CountersOK
<1>2. m \in Message /\ m.id = sent + 1 /\ m.amount = n
  BY <1>1 DEF Message
<1>3. \A r \in outbound \cup inbound : r.id \in Int /\ r.id <= sent
  BY DEF MessagesOK, Message
<1>4. m \notin outbound /\ m \notin inbound
  BY <1>1, <1>2, <1>3
<1>5. IsFiniteSet(outbound \cup {m}) /\ IsFiniteSet(inbound \cup {m})
  BY FS_AddElement DEF MessagesOK
<1> QED
  BY <1>1, <1>2, <1>4, <1>5

(* The messages stay well formed. *)
LEMMA MessagesStep ==
  ASSUME BridgeInv, [Next]_vars
  PROVE  MessagesOK' /\ CountersOK'
<1>0. MessagesOK /\ CountersOK /\ total_supply \in Nat /\ total_supply' \in Nat
  BY BridgeStepIsTokenStep, TokenInvStep DEF BridgeInv, TokenInv, TypeOK
<1>1. ASSUME NEW caller \in Accounts, Local(caller)
      PROVE  MessagesOK' /\ CountersOK'
  BY <1>0, <1>1 DEF Local, MessagesOK, CountersOK
<1>2. ASSUME NEW caller \in Accounts, NEW c \in Chains, NEW n \in Amounts, NEW f \in Fees,
             BridgeOut(caller, c, n, f)
      PROVE  MessagesOK' /\ CountersOK'
  <2> DEFINE m == [id |-> sent + 1, chain |-> c, receiver |-> caller, amount |-> n]
  <2>1. /\ sent < MaxMessages /\ sent' = sent + 1 /\ outbound' = outbound \cup {m}
        /\ UNCHANGED <<inbound, remote, lost, issued>>
    BY <1>2 DEF BridgeOut, lz_send
  <2>2. /\ m \in Message /\ m.id = sent + 1 /\ m.amount = n
        /\ IsFiniteSet(outbound \cup {m}) /\ sent + 1 \in 0 .. MaxMessages
    BY <1>0, <2>1, SendOK
  <2> HIDE DEF m
  <2>3. \A r \in outbound \cup inbound : r.id <= sent + 1
    BY <1>0 DEF MessagesOK, CountersOK, Message
  <2> QED
    BY <1>0, <2>1, <2>2, <2>3 DEF MessagesOK, CountersOK
<1>3. ASSUME NEW m \in outbound, LzSendFails(m) \/ RemoteReceive(m)
      PROVE  MessagesOK' /\ CountersOK'
  <2>1. m.amount \in Nat /\ m.chain \in Chains /\ IsFiniteSet(outbound \ {m})
    BY <1>0, FS_RemoveElement DEF MessagesOK, Message
  <2>2. MessagesOK'
    BY <1>0, <1>3, <2>1 DEF LzSendFails, RemoteReceive, MessagesOK
  <2>3. remote[m.chain] + m.amount \in Nat /\ lost + m.amount \in Nat
    BY <1>0, <2>1 DEF CountersOK
  <2>4. CountersOK'
    BY <1>0, <1>3, <2>3 DEF LzSendFails, RemoteReceive, CountersOK
  <2> QED
    BY <2>2, <2>4
<1>4. ASSUME NEW c \in Chains, NEW a \in Accounts, NEW n \in Amounts, RemoteSend(c, a, n)
      PROVE  MessagesOK' /\ CountersOK'
  <2> DEFINE m == [id |-> sent + 1, chain |-> c, receiver |-> a, amount |-> n]
  <2>1. /\ sent < MaxMessages /\ sent' = sent + 1 /\ inbound' = inbound \cup {m}
        /\ remote[c] >= n /\ remote' = [remote EXCEPT ![c] = remote[c] - n]
        /\ UNCHANGED <<outbound, lost, issued>>
    BY <1>4 DEF RemoteSend
  <2>2. /\ m \in Message /\ m.id = sent + 1 /\ m.amount = n
        /\ IsFiniteSet(inbound \cup {m}) /\ sent + 1 \in 0 .. MaxMessages
    BY <1>0, <2>1, SendOK
  <2> HIDE DEF m
  <2>3. \A r \in outbound \cup inbound : r.id <= sent + 1
    BY <1>0 DEF MessagesOK, CountersOK, Message
  <2>4. remote' \in [Chains -> Nat]
    <3>1. n \in Nat /\ remote[c] \in Nat
      BY <1>0, InputAssumption DEF CountersOK
    <3> QED
      BY <1>0, <2>1, <3>1 DEF CountersOK
  <2> QED
    BY <1>0, <2>1, <2>2, <2>3, <2>4 DEF MessagesOK, CountersOK
<1>5. ASSUME NEW m \in inbound, BridgeIn(m)
      PROVE  MessagesOK' /\ CountersOK'
  <2>1. IsFiniteSet(inbound \ {m})
    BY <1>0, FS_RemoveElement DEF MessagesOK
  <2> QED
    BY <1>0, <1>5, <2>1 DEF BridgeIn, MessagesOK, CountersOK
<1>6. CASE UNCHANGED vars
  BY <1>0, <1>6 DEF vars, lzVars, MessagesOK, CountersOK
<1> QED
  BY <1>1, <1>2, <1>3, <1>4, <1>5, <1>6 DEF Next

(* The invariant of the composition holds in every reachable state. *)
LEMMA BridgeInvAlways == Spec => []BridgeInv
<1>1. Init => BridgeInv
  BY InitTokenInv, FS_EmptySet, MessageBound DEF Init, BridgeInv, MessagesOK, CountersOK
<1>2. BridgeInv /\ [Next]_vars => BridgeInv'
  BY BridgeStepIsTokenStep, TokenInvStep, MessagesStep DEF BridgeInv
<1> QED
  BY <1>1, <1>2, PTL DEF Spec

(* The composition implements the token contract: whatever LayerZero does  *)
(* with the messages, the contract sees a sequence of its own calls.       *)
THEOREM BridgeImplementsToken == Spec => TokenSpec
<1>1. Init => TokenInit
  BY DEF Init
<1>2. BridgeInv /\ [Next]_vars => [TokenNext]_tokenVars
  BY BridgeStepIsTokenStep
<1> QED
  BY <1>1, <1>2, BridgeInvAlways, PTL DEF Spec, TokenSpec

(* The composition is well typed: no balance, remote supply or lost amount *)
(* is negative and every message in flight is well formed.                 *)
THEOREM BridgeTypeCorrect == Spec => []BridgeTypeOK
<1>1. BridgeInv => BridgeTypeOK
  BY DEF BridgeInv, TokenInv, MessagesOK, CountersOK, BridgeTypeOK
<1> QED
  BY <1>1, BridgeInvAlways, PTL

-----------------------------------------------------------------------------
(* The amounts in flight are sums of integers. *)
LEMMA InFlightType ==
  ASSUME BridgeInv
  PROVE  /\ IsFiniteSet(outbound) /\ \A r \in outbound : r.amount \in Int
         /\ IsFiniteSet(inbound) /\ \A r \in inbound : r.amount \in Int
         /\ InFlight(outbound) \in Int /\ InFlight(inbound) \in Int
         /\ IsFiniteSet(DOMAIN remote) /\ \A c \in DOMAIN remote : remote[c] \in Int
         /\ SumFunction(remote) \in Int
         /\ total_supply \in Int /\ lost \in Int /\ issued \in Int
<1>1. /\ IsFiniteSet(outbound) /\ \A r \in outbound : r.amount \in Int
      /\ IsFiniteSet(inbound) /\ \A r \in inbound : r.amount \in Int
  <2>1. MessagesOK /\ \A n \in Amounts : n \in Int
    BY InputAssumption DEF BridgeInv
  <2> QED
    BY <2>1 DEF MessagesOK
<1>2. InFlight(outbound) \in Int /\ InFlight(inbound) \in Int
  BY <1>1, TotalAmountType DEF InFlight, TotalAmount
<1>3. IsFiniteSet(DOMAIN remote) /\ \A c \in DOMAIN remote : remote[c] \in Int
  BY MessageBound DEF BridgeInv, CountersOK
<1>4. SumFunction(remote) \in Int
  BY <1>3, SumType DEF SumFunction
<1> QED
  BY <1>1, <1>2, <1>3, <1>4 DEF BridgeInv, TokenInv, TypeOK, CountersOK

(* What the calls of the token contract do to its supply. *)
LEMMA SupplyChange ==
  ASSUME NEW caller, NEW c, NEW a, NEW n, NEW f
  PROVE  /\ bridge_out(caller, c, n, f) => total_supply' = total_supply - n
         /\ bridge_in(caller, c, a, n) => total_supply' = total_supply + n
BY DEF bridge_out, internal_withdraw, bridge_in

(* No step creates or destroys a token that is not noted. *)
LEMMA ConservationStep ==
  ASSUME BridgeInv, BridgeInv', Conservation, [Next]_vars
  PROVE  Conservation'
<1> USE DEF Conservation, GlobalSupply
<1>0. INITIAL_SUPPLY \in Int /\ Amounts \subseteq Nat /\ MessagesOK /\ CountersOK
  BY SupplyAssumption, InputAssumption DEF BridgeInv
<1>1. ASSUME NEW caller \in Accounts, Local(caller)
      PROVE  Conservation'
  <2>1. /\ issued' = issued + (total_supply' - total_supply)
        /\ InFlight(outbound') = InFlight(outbound) /\ InFlight(inbound') = InFlight(inbound)
        /\ SumFunction(remote') = SumFunction(remote) /\ lost' = lost
    BY <1>1 DEF Local
  <2>2. total_supply' \in Int
    BY InFlightType DEF BridgeInv, TokenInv, TypeOK
  <2> QED
    BY <1>0, <2>1, <2>2, InFlightType
<1>2. ASSUME NEW caller \in Accounts, NEW c \in Chains, NEW n \in Amounts, NEW f \in Fees,
             BridgeOut(caller, c, n, f)
      PROVE  Conservation'
  <2> DEFINE m == [id |-> sent + 1, chain |-> c, receiver |-> caller, amount |-> n]
  <2>1. sent < MaxMessages /\ outbound' = outbound \cup {m}
        /\ UNCHANGED <<inbound, remote, lost, issued>> /\ total_supply' = total_supply - n
    BY <1>2, SupplyChange DEF BridgeOut, lz_send
  <2>2. m \notin outbound /\ m.amount = n /\ n \in Int
    <3>1. m \notin outbound /\ m.amount = n
      BY <1>0, <2>1, SendOK
    <3>2. n \in Int
      BY <1>0
    <3> QED
      BY <3>1, <3>2
  <2> HIDE DEF m
  <2>3. InFlight(outbound') = InFlight(outbound) + n
    BY <2>1, <2>2, InFlightType, TotalAmountAdd DEF InFlight, TotalAmount
  <2> QED
    BY <1>0, <2>1, <2>2, <2>3, InFlightType
<1>3. ASSUME NEW m \in outbound, LzSendFails(m)
      PROVE  Conservation'
  <2>1. InFlight(outbound) = InFlight(outbound \ {m}) + m.amount
        /\ InFlight(outbound \ {m}) \in Int /\ m.amount \in Int
    BY InFlightType, TotalAmountRemove DEF InFlight, TotalAmount
  <2> QED
    BY <1>0, <1>3, <2>1, InFlightType DEF LzSendFails, tokenVars, ledgerVars
<1>4. ASSUME NEW m \in outbound, RemoteReceive(m)
      PROVE  Conservation'
  <2>1. InFlight(outbound) = InFlight(outbound \ {m}) + m.amount
        /\ InFlight(outbound \ {m}) \in Int /\ m.amount \in Int
    BY InFlightType, TotalAmountRemove DEF InFlight, TotalAmount
  <2>2. SumFunction(remote') = SumFunction(remote) + m.amount
    <3>1. m.chain \in DOMAIN remote /\ remote[m.chain] \in Int
      BY <1>0 DEF MessagesOK, CountersOK, Message
    <3> DEFINE w == remote[m.chain] + m.amount
    <3>2. w \in Int /\ remote' = [remote EXCEPT ![m.chain] = w]
      BY <1>4, <2>1, <3>1 DEF RemoteReceive
    <3> HIDE DEF w
    <3>3. SumFunction(remote') = SumFunction(remote) + w - remote[m.chain]
      BY <3>1, <3>2, InFlightType, SumExcept
    <3> QED
      BY <2>1, <3>1, <3>3, InFlightType DEF w
  <2> QED
    BY <1>0, <1>4, <2>1, <2>2, InFlightType DEF RemoteReceive, tokenVars, ledgerVars
<1>5. ASSUME NEW c \in Chains, NEW a \in Accounts, NEW n \in Amounts, RemoteSend(c, a, n)
      PROVE  Conservation'
  <2> DEFINE m == [id |-> sent + 1, chain |-> c, receiver |-> a, amount |-> n]
  <2>1. sent < MaxMessages /\ inbound' = inbound \cup {m}
        /\ remote' = [remote EXCEPT ![c] = remote[c] - n]
        /\ UNCHANGED <<outbound, lost, issued>> /\ total_supply' = total_supply
    BY <1>5 DEF RemoteSend, tokenVars, ledgerVars
  <2>2. m \notin inbound /\ m.amount = n /\ n \in Int
    <3>1. m \notin inbound /\ m.amount = n
      BY <1>0, <2>1, SendOK
    <3>2. n \in Int
      BY <1>0
    <3> QED
      BY <3>1, <3>2
  <2> HIDE DEF m
  <2>3. InFlight(inbound') = InFlight(inbound) + n
    BY <2>1, <2>2, InFlightType, TotalAmountAdd DEF InFlight, TotalAmount
  <2>4. SumFunction(remote') = SumFunction(remote) - n
    <3> DEFINE w == remote[c] - n
    <3>1. c \in DOMAIN remote /\ remote[c] \in Int /\ w \in Int
          /\ remote' = [remote EXCEPT ![c] = w]
      BY <1>0, <2>1, <2>2 DEF CountersOK
    <3> HIDE DEF w
    <3>2. SumFunction(remote') = SumFunction(remote) + w - remote[c]
      BY <3>1, InFlightType, SumExcept
    <3> QED
      BY <2>2, <3>1, <3>2, InFlightType DEF w
  <2> QED
    BY <1>0, <2>1, <2>2, <2>3, <2>4, InFlightType
<1>6. ASSUME NEW m \in inbound, BridgeIn(m)
      PROVE  Conservation'
  <2>1. InFlight(inbound) = InFlight(inbound \ {m}) + m.amount
        /\ InFlight(inbound \ {m}) \in Int /\ m.amount \in Int
    BY InFlightType, TotalAmountRemove DEF InFlight, TotalAmount
  <2>2. total_supply' = total_supply + m.amount /\ inbound' = inbound \ {m}
        /\ UNCHANGED <<outbound, remote, lost, issued>>
    BY <1>6, SupplyChange DEF BridgeIn
  <2> QED
    BY <1>0, <2>1, <2>2, InFlightType
<1>7. CASE UNCHANGED vars
  BY <1>7 DEF vars, lzVars, tokenVars, ledgerVars
<1> QED
  BY <1>1, <1>2, <1>3, <1>4, <1>5, <1>6, <1>7 DEF Next

(* At the start every token is on NEAR. *)
LEMMA ConservationInit == Init => Conservation
<1> SUFFICES ASSUME Init PROVE Conservation
  OBVIOUS
<1>1. total_supply = INITIAL_SUPPLY /\ INITIAL_SUPPLY \in Int
  BY SupplyAssumption DEF Init, TokenInit, new
<1>2. InFlight(outbound) = 0 /\ InFlight(inbound) = 0
  BY TotalAmountNone DEF Init, InFlight, TotalAmount
<1>3. SumFunction(remote) = 0
  BY MessageBound, SumOfZeros DEF Init
<1> QED
  BY <1>1, <1>2, <1>3 DEF Init, Conservation, GlobalSupply

(* The bridge neither creates nor destroys tokens, but for the ones whose  *)
(* lz_send failed after bridge_out had burned them.                        *)
THEOREM TokensConserved == Spec => []Conservation
BY ConservationInit, ConservationStep, BridgeInvAlways, PTL DEF Spec
=============================================================================
