-------------------------------- MODULE Mining --------------------------------
(***************************************************************************)
(* The DiamondMining contract (blockchain/src/mining/src/lib.rs): every    *)
(* account earns reward_rate per block since its last update, and claims   *)
(* by a cross-contract mint whose callback puts the reward back when the   *)
(* mint failed.                                                            *)
(*                                                                         *)
(* A claim is a promise chain: the mint and the callback run in later      *)
(* blocks, interleaved with anything else.  The mint itself belongs to     *)
(* DiamondToken and may succeed or fail.                                   *)
(***************************************************************************)
EXTENDS Integers, FiniteSetsExt

CONSTANTS
  Accounts,
  Rates,        \* the rates the owner may set (bound on inputs)
  InitialRate,  \* 10 DMD
  MaxBlock,     \* bound on the block height
  MaxClaims     \* bound on the claims ever made

VARIABLES
  block,              \* env::block_height()
  owner_id,
  reward_rate,
  last_reward_block,
  rewards,            \* account -> U128, partial
  last_update,        \* account -> block of the last update, partial
  promises,           \* claims whose mint or callback has not run yet
  claims,             \* number of claims so far, and the id of the last
  accrued,            \* history: account -> everything update_rewards credited
  paid                \* history: account -> everything minted

contractVars == <<owner_id, reward_rate, last_reward_block, rewards, last_update>>
vars == <<block, contractVars, promises, claims, accrued, paid>>

ASSUME MiningAssumption ==
  /\ Rates \subseteq Nat
  /\ InitialRate \in Rates
  /\ \E r \in Rates : \A s \in Rates : s <= r
  /\ MaxBlock \in Nat
  /\ MaxClaims \in Nat

Promise == [id : 1 .. MaxClaims, user : Accounts, amount : Nat,
            mint : {"pending", "ok", "failed"}]

-----------------------------------------------------------------------------
insert(map, k, v) == [x \in DOMAIN map \cup {k} |-> IF x = k THEN v ELSE map[x]]

get_or(map, k, default) == IF k \in DOMAIN map THEN map[k] ELSE default

(* new, at block 0. *)
Init ==
  /\ block = 0
  /\ owner_id \in Accounts
  /\ reward_rate = InitialRate
  /\ last_reward_block = block
  /\ rewards = [x \in {} |-> 0]
  /\ last_update = [x \in {} |-> 0]
  /\ promises = {}
  /\ claims = 0
  /\ accrued = [u \in Accounts |-> 0]
  /\ paid = [u \in Accounts |-> 0]

(* The block up to which an account has been credited. *)
last_block_of(user) == get_or(last_update, user, last_reward_block)

blocks_passed(user) == block - last_block_of(user)

(* get_pending_reward: what a claim would pay now. *)
get_pending_reward(user) == get_or(rewards, user, 0) + blocks_passed(user) * reward_rate

\* A plausible slip: the reward is added, the block of the update is not noted.
credit_forgetful(user) ==
  /\ rewards' = insert(rewards, user, get_pending_reward(user))
  /\ accrued' = [accrued EXCEPT ![user] = @ + blocks_passed(user) * reward_rate]
  /\ UNCHANGED last_update

(* update_rewards for the caller; nothing happens within one block. *)
credit(user) ==
  IF blocks_passed(user) > 0
  THEN /\ rewards' = insert(rewards, user, get_pending_reward(user))
       /\ last_update' = insert(last_update, user, block)
       /\ accrued' = [accrued EXCEPT ![user] = @ + blocks_passed(user) * reward_rate]
  ELSE UNCHANGED <<rewards, last_update, accrued>>

update_rewards(user) ==
  /\ credit(user)
  /\ UNCHANGED <<block, owner_id, reward_rate, last_reward_block, promises, claims, paid>>

(* The account is credited, its reward reset, and the mint sent. *)
claim_rewards(user) ==
  /\ claims < MaxClaims
  /\ get_pending_reward(user) > 0
  /\ rewards' = insert(rewards, user, 0)
  /\ last_update' = IF blocks_passed(user) > 0 THEN insert(last_update, user, block)
                    ELSE last_update
  /\ accrued' = [accrued EXCEPT ![user] = @ + blocks_passed(user) * reward_rate]
  /\ promises' = promises \cup
       {[id |-> claims + 1, user |-> user, amount |-> get_pending_reward(user), mint |-> "pending"]}
  /\ claims' = claims + 1
  /\ UNCHANGED <<block, owner_id, reward_rate, last_reward_block, paid>>

(* DiamondToken::mint runs for a claim: the tokens appear or it panics. *)
MintRuns(p, ok) ==
  /\ p.mint = "pending"
  /\ promises' = (promises \ {p}) \cup {[p EXCEPT !.mint = IF ok THEN "ok" ELSE "failed"]}
  /\ paid' = IF ok THEN [paid EXCEPT ![p.user] = @ + p.amount] ELSE paid
  /\ UNCHANGED <<block, contractVars, claims, accrued>>

\* A plausible slip: the callback has no branch for a failed mint.
claim_reward_callback_ok_only(p) ==
  /\ p.mint = "ok"
  /\ promises' = promises \ {p}
  /\ UNCHANGED <<block, contractVars, claims, accrued, paid>>

\* A plausible slip: the restored reward overwrites what was earned meanwhile.
claim_reward_callback_overwrite(p) ==
  /\ p.mint # "pending"
  /\ promises' = promises \ {p}
  /\ rewards' = IF p.mint = "ok" THEN rewards ELSE insert(rewards, p.user, p.amount)
  /\ UNCHANGED <<block, owner_id, reward_rate, last_reward_block, last_update,
                 claims, accrued, paid>>

claim_reward_callback(p) ==
  /\ p.mint # "pending"
  /\ promises' = promises \ {p}
  /\ rewards' = IF p.mint = "ok" THEN rewards
                ELSE insert(rewards, p.user, get_or(rewards, p.user, 0) + p.amount)
  /\ UNCHANGED <<block, owner_id, reward_rate, last_reward_block, last_update,
                 claims, accrued, paid>>

set_reward_rate(caller, rate) ==
  /\ caller = owner_id
  /\ reward_rate' = rate
  /\ UNCHANGED <<block, owner_id, last_reward_block, rewards, last_update,
                 promises, claims, accrued, paid>>

\* A plausible slip: the next block is taken for the current one.
force_update_global_reward_ahead(caller) ==
  /\ caller = owner_id
  /\ last_reward_block' = block + 1
  /\ UNCHANGED <<block, owner_id, reward_rate, rewards, last_update,
                 promises, claims, accrued, paid>>

force_update_global_reward(caller) ==
  /\ caller = owner_id
  /\ last_reward_block' = block
  /\ UNCHANGED <<block, owner_id, reward_rate, rewards, last_update,
                 promises, claims, accrued, paid>>

transfer_ownership(caller, new_owner) ==
  /\ caller = owner_id
  /\ owner_id' = new_owner
  /\ UNCHANGED <<block, reward_rate, last_reward_block, rewards, last_update,
                 promises, claims, accrued, paid>>

NewBlock ==
  /\ block < MaxBlock
  /\ block' = block + 1
  /\ UNCHANGED <<contractVars, promises, claims, accrued, paid>>

Next ==
  \/ NewBlock
  \/ \E u \in Accounts : update_rewards(u)
  \/ \E u \in Accounts : claim_rewards(u)
  \/ \E p \in promises, ok \in BOOLEAN : MintRuns(p, ok)
  \/ \E p \in promises : claim_reward_callback(p)
  \/ \E u \in Accounts, r \in Rates : set_reward_rate(u, r)
  \/ \E u \in Accounts : force_update_global_reward(u)
  \/ \E u, v \in Accounts : transfer_ownership(u, v)

Spec == Init /\ [][Next]_vars

(* Blocks are produced and every receipt of a promise chain is executed. *)
Fairness ==
  /\ WF_vars(NewBlock)
  /\ WF_vars(\E p \in promises, ok \in BOOLEAN : MintRuns(p, ok))
  /\ WF_vars(\E p \in promises : claim_reward_callback(p))

FairSpec == Spec /\ Fairness

-----------------------------------------------------------------------------
UnsettledOf(ps, user) == {p \in ps : p.user = user /\ p.mint # "ok"}

Amount(ps) == MapThenSumSet(LAMBDA p : p.amount, ps)

InFlight(user) == Amount(UnsettledOf(promises, user))

(* Every reward credited is waiting in `rewards', on its way to a mint or  *)
(* minted, exactly once: through overlapping claims, failed mints and      *)
(* credits between a claim and its callback.                               *)
RewardsConserved ==
  \A u \in Accounts : get_or(rewards, u, 0) + InFlight(u) + paid[u] = accrued[u]

(* `current_block - last_update' never underflows (the call would panic):  *)
(* neither the account's block nor the global one is ahead of the chain.   *)
BlocksNotAhead ==
  /\ last_reward_block <= block
  /\ \A u \in DOMAIN last_update : last_update[u] <= block

(* No block is rewarded twice: whatever the order of updates, claims and   *)
(* forced updates, an account has been credited at most the highest rate   *)
(* for each block up to its last update.                                   *)
HighestRate == CHOOSE r \in Rates : \A s \in Rates : s <= r

NoBlockPaidTwice ==
  \A u \in Accounts : accrued[u] <= HighestRate * last_block_of(u)

(* A claim is settled: its reward is minted or put back.                   *)
ClaimsSettle == \A i \in 1 .. MaxClaims :
  (\E p \in promises : p.id = i) ~> (\A p \in promises : p.id # i)
=============================================================================
