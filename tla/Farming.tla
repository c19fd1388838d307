------------------------------- MODULE Farming -------------------------------
(***************************************************************************)
(* The Farming contract (blockchain/src/farming/src/lib.rs): DMD is staked *)
(* for at least a lock period and earns a reward proportional to amount    *)
(* and time.  stake, unstake and claim_rewards each start a token transfer *)
(* whose callback runs in a later block; in between anything may happen.   *)
(*                                                                         *)
(* Time is the block timestamp in nanoseconds; last_update is kept in      *)
(* seconds of the wall clock, taken to agree with it.  The token contract  *)
(* is external: a transfer succeeds or fails.  A panic reverts its call    *)
(* (or its callback), nothing else.                                        *)
(***************************************************************************)
EXTENDS Integers, Functions, FiniteSetsExt

CONSTANTS
  Accounts,
  Amounts,       \* amounts passed to stake and unstake (bound on inputs)
  Rates,         \* reward rates the owner may set (bound on inputs)
  LockPeriods,   \* lock periods the owner may set (bound on inputs)
  LOCK_PERIOD,   \* initial lock period
  InitialRate,   \* initial reward rate
  RewardUnit,    \* the divisor 100 * 10^18
  NsPerSec,      \* nanoseconds per second
  U128_MAX,      \* where amount * rate * elapsed overflows
  MaxTime,       \* bound on the block timestamp
  MaxCalls       \* bound on the calls that start transfers

VARIABLES
  now,           \* env::block_timestamp()
  owner_id,
  total_staked,
  reward_rate,
  lock_period,
  stakes,        \* account -> Stake, partial
  promises,      \* transfers started whose callback has not run yet
  calls,         \* number of such calls so far, and the id of the last
  deposited,     \* history: account -> tokens taken in by stake
  returned       \* history: account -> tokens given back by unstake

contractVars == <<owner_id, total_staked, reward_rate, lock_period, stakes>>
historyVars == <<deposited, returned>>
vars == <<now, contractVars, promises, calls, historyVars>>

ASSUME FarmingAssumption ==
  /\ Amounts \subseteq Nat /\ Rates \subseteq Nat /\ LockPeriods \subseteq Nat
  /\ LOCK_PERIOD \in Nat /\ InitialRate \in Nat
  /\ RewardUnit \in Nat \ {0} /\ NsPerSec \in Nat \ {0}
  /\ U128_MAX \in Nat /\ MaxTime \in Nat /\ MaxCalls \in Nat

Stake == [amount : Nat, start_time : Nat, last_claim : Nat, last_update : Nat]

Promise == [id : 1 .. MaxCalls, kind : {"stake", "unstake", "claim"},
            user : Accounts, amount : Nat, transfer : {"pending", "ok", "failed"}]

TypeOK ==
  /\ now \in Nat
  /\ owner_id \in Accounts
  /\ total_staked \in Nat
  /\ reward_rate \in Nat
  /\ lock_period \in Nat
  /\ DOMAIN stakes \in SUBSET Accounts
  /\ stakes \in [DOMAIN stakes -> Stake]
  /\ promises \in SUBSET Promise
  /\ calls \in 0 .. MaxCalls
  /\ deposited \in [Accounts -> Nat]
  /\ returned \in [Accounts -> Nat]

-----------------------------------------------------------------------------
insert(map, k, v) == [x \in DOMAIN map \cup {k} |-> IF x = k THEN v ELSE map[x]]

remove(map, k) == [x \in DOMAIN map \ {k} |-> map[x]]

seconds == now \div NsPerSec

new(owner) ==
  /\ now = 0
  /\ owner_id = owner
  /\ total_staked = 0
  /\ reward_rate = InitialRate
  /\ lock_period = LOCK_PERIOD
  /\ stakes = [x \in {} |-> 0]
  /\ promises = {} /\ calls = 0
  /\ deposited = [u \in Accounts |-> 0]
  /\ returned = [u \in Accounts |-> 0]

(* The numerator of the reward; above U128_MAX the call panics. *)
reward_product(stake) == stake.amount * reward_rate * (now - stake.last_claim)

(* now - last_claim would panic on a last_claim in the future. *)
computable(stake) == stake.last_claim <= now /\ reward_product(stake) <= U128_MAX

calculate_reward(stake) == reward_product(stake) \div RewardUnit

(* The transfer of the current call; unstake starts one of each kind. *)
transfer(kind, user, amount) ==
  [id |-> calls + 1, kind |-> kind, user |-> user, amount |-> amount,
   transfer |-> "pending"]

(* stake: the tokens are asked for; the stake is recorded by the callback. *)
stake(user, amount) ==
  /\ calls < MaxCalls
  /\ amount > 0
  /\ promises' = promises \cup {transfer("stake", user, amount)}
  /\ calls' = calls + 1
  /\ UNCHANGED <<now, contractVars, historyVars>>

(* The token contract executes the transfer of a promise. *)
TransferRuns(p, ok) ==
  /\ p.transfer = "pending"
  /\ promises' = (promises \ {p}) \cup {[p EXCEPT !.transfer = IF ok THEN "ok" ELSE "failed"]}
  /\ deposited' = IF ok /\ p.kind = "stake"
                  THEN [deposited EXCEPT ![p.user] = @ + p.amount] ELSE deposited
  /\ returned' = IF ok /\ p.kind = "unstake"
                 THEN [returned EXCEPT ![p.user] = @ + p.amount] ELSE returned
  /\ UNCHANGED <<now, contractVars, calls>>

Settled(p, kind, result) ==
  /\ p.kind = kind
  /\ p.transfer = result
  /\ promises' = promises \ {p}
  /\ UNCHANGED <<now, calls>>

(* A first stake starts the lock.  A later one is added to it: start_time  *)
(* stays, and a reward due by then is dropped by moving last_claim.        *)
stake_callback(p) ==
  /\ Settled(p, "stake", "ok")
  /\ IF p.user \in DOMAIN stakes
     THEN LET old == stakes[p.user]
              claimed == IF calculate_reward(old) > 0 THEN now ELSE old.last_claim
          IN  /\ computable(old)
              /\ stakes' = insert(stakes, p.user,
                   [old EXCEPT !.amount = @ + p.amount, !.last_claim = claimed,
                               !.last_update = seconds])
     ELSE stakes' = insert(stakes, p.user,
            [amount |-> p.amount, start_time |-> now, last_claim |-> now,
             last_update |-> seconds])
  /\ total_staked' = total_staked + p.amount
  /\ UNCHANGED <<owner_id, reward_rate, lock_period, historyVars>>

\* A plausible slip: the callback is only scheduled on success.
stake_callback_on_success(p) ==
  /\ Settled(p, "stake", "ok")
  /\ p.user \in DOMAIN stakes /\ ~computable(stakes[p.user])
  /\ UNCHANGED <<contractVars, historyVars>>

(* The transfer failed (only a log), or calculate_reward panics. *)
stake_callback_nothing(p) ==
  /\ \/ Settled(p, "stake", "failed")
     \/ /\ Settled(p, "stake", "ok")
        /\ p.user \in DOMAIN stakes /\ ~computable(stakes[p.user])
  /\ UNCHANGED <<contractVars, historyVars>>

can_claim(user) ==
  /\ user \in DOMAIN stakes
  /\ computable(stakes[user])
  /\ calculate_reward(stakes[user]) > 0

claimed_stake(user) == [stakes[user] EXCEPT !.last_claim = now, !.last_update = seconds]

\* A plausible slip: the moment of the claim is noted in the wrong unit, one
\* second ahead.
claim_rewards_ahead(user) ==
  /\ calls < MaxCalls
  /\ can_claim(user)
  /\ stakes' = insert(stakes, user,
       [stakes[user] EXCEPT !.last_claim = now + NsPerSec, !.last_update = seconds])
  /\ promises' = promises \cup {transfer("claim", user, calculate_reward(stakes[user]))}
  /\ calls' = calls + 1
  /\ UNCHANGED <<now, owner_id, total_staked, reward_rate, lock_period, historyVars>>

claim_rewards(user) ==
  /\ calls < MaxCalls
  /\ can_claim(user)
  /\ stakes' = insert(stakes, user, claimed_stake(user))
  /\ promises' = promises \cup {transfer("claim", user, calculate_reward(stakes[user]))}
  /\ calls' = calls + 1
  /\ UNCHANGED <<now, owner_id, total_staked, reward_rate, lock_period, historyVars>>

(* A failed claim puts last_update, in seconds, into last_claim. *)
claim_callback(p) ==
  /\ p.transfer # "pending"
  /\ Settled(p, "claim", p.transfer)
  /\ stakes' = IF p.transfer = "failed" /\ p.user \in DOMAIN stakes
               THEN insert(stakes, p.user,
                      [stakes[p.user] EXCEPT !.last_claim = stakes[p.user].last_update])
               ELSE stakes
  /\ UNCHANGED <<owner_id, total_staked, reward_rate, lock_period, historyVars>>

\* A plausible slip: total_staked is decreased without an underflow check.
unstake_unchecked(user, amount) ==
  /\ calls < MaxCalls
  /\ can_claim(user)
  /\ stakes[user].amount >= amount
  /\ now >= stakes[user].start_time + lock_period
  /\ stakes' = insert(stakes, user, claimed_stake(user))
  /\ total_staked' = total_staked - amount
  /\ promises' = promises \cup {transfer("claim", user, calculate_reward(stakes[user])),
                                transfer("unstake", user, amount)}
  /\ calls' = calls + 1
  /\ UNCHANGED <<now, owner_id, reward_rate, lock_period, historyVars>>

(* unstake claims first, so it panics when there is nothing to claim; two  *)
(* transfers start, and the stake is reduced only by the callback.         *)
unstake(user, amount) ==
  /\ calls < MaxCalls
  /\ can_claim(user)
  /\ stakes[user].amount >= amount
  /\ now >= stakes[user].start_time + lock_period
  /\ total_staked >= amount
  /\ stakes' = insert(stakes, user, claimed_stake(user))
  /\ total_staked' = total_staked - amount
  /\ promises' = promises \cup {transfer("claim", user, calculate_reward(stakes[user])),
                                transfer("unstake", user, amount)}
  /\ calls' = calls + 1
  /\ UNCHANGED <<now, owner_id, reward_rate, lock_period, historyVars>>

\* A plausible slip: the amount is put back into total_staked whatever happened.
unstake_callback_readd(p) ==
  /\ Settled(p, "unstake", "ok")
  /\ p.user \in DOMAIN stakes
  /\ stakes[p.user].amount >= p.amount
  /\ stakes' = IF stakes[p.user].amount = p.amount THEN remove(stakes, p.user)
               ELSE insert(stakes, p.user,
                      [stakes[p.user] EXCEPT !.amount = @ - p.amount, !.last_update = seconds])
  /\ total_staked' = total_staked + p.amount
  /\ UNCHANGED <<owner_id, reward_rate, lock_period, historyVars>>

unstake_callback(p) ==
  /\ Settled(p, "unstake", "ok")
  /\ p.user \in DOMAIN stakes
  /\ stakes[p.user].amount >= p.amount
  /\ stakes' = IF stakes[p.user].amount = p.amount THEN remove(stakes, p.user)
               ELSE insert(stakes, p.user,
                      [stakes[p.user] EXCEPT !.amount = @ - p.amount, !.last_update = seconds])
  /\ UNCHANGED <<owner_id, total_staked, reward_rate, lock_period, historyVars>>

(* The stake is gone or too small by now: the callback panics. *)
unstake_callback_panics(p) ==
  /\ Settled(p, "unstake", "ok")
  /\ p.user \in DOMAIN stakes => stakes[p.user].amount < p.amount
  /\ UNCHANGED <<contractVars, historyVars>>

(* The transfer failed: only total_staked was changed, and is restored. *)
unstake_callback_failed(p) ==
  /\ Settled(p, "unstake", "failed")
  /\ total_staked' = total_staked + p.amount
  /\ UNCHANGED <<owner_id, reward_rate, lock_period, stakes, historyVars>>

set_reward_rate(caller, rate) ==
  /\ caller = owner_id
  /\ reward_rate' = rate
  /\ UNCHANGED <<now, owner_id, total_staked, lock_period, stakes, promises, calls, historyVars>>

set_lock_period(caller, period) ==
  /\ caller = owner_id
  /\ lock_period' = period
  /\ UNCHANGED <<now, owner_id, total_staked, reward_rate, stakes, promises, calls, historyVars>>

transfer_ownership(caller, new_owner) ==
  /\ caller = owner_id
  /\ owner_id' = new_owner
  /\ UNCHANGED <<now, total_staked, reward_rate, lock_period, stakes, promises, calls, historyVars>>

Tick ==
  /\ now < MaxTime
  /\ now' = now + 1
  /\ UNCHANGED <<contractVars, promises, calls, historyVars>>

-----------------------------------------------------------------------------
Init == \E owner \in Accounts : new(owner)

Callback(p) ==
  \/ stake_callback(p) \/ stake_callback_nothing(p)
  \/ claim_callback(p)
  \/ unstake_callback(p) \/ unstake_callback_panics(p) \/ unstake_callback_failed(p)

UserCall(u) ==
  \/ \E n \in Amounts : stake(u, n)
  \/ \E n \in Amounts : unstake(u, n)
  \/ claim_rewards(u)

OwnerCall(u) ==
  \/ \E r \in Rates : set_reward_rate(u, r)
  \/ \E l \in LockPeriods : set_lock_period(u, l)
  \/ \E v \in Accounts : transfer_ownership(u, v)

Next ==
  \/ Tick
  \/ \E u \in Accounts : UserCall(u) \/ OwnerCall(u)
  \/ \E p \in promises, ok \in BOOLEAN : TransferRuns(p, ok)
  \/ \E p \in promises : Callback(p)

Spec == Init /\ [][Next]_vars

(* Every receipt of a promise chain is executed. *)
Fairness ==
  /\ WF_vars(\E p \in promises, ok \in BOOLEAN : TransferRuns(p, ok))
  /\ WF_vars(\E p \in promises : Callback(p))

FairSpec == Spec /\ Fairness

-----------------------------------------------------------------------------
StakeTotal(map) == MapThenSumSet(LAMBDA u : map[u].amount, DOMAIN map)

Staked == StakeTotal(stakes)

Amount(ps) == MapThenSumSet(LAMBDA p : p.amount, ps)

Leaving == {p \in promises : p.kind = "unstake"}

(* total_staked never overstates what is staked, counting unstakes whose   *)
(* callback has not run: through failed transfers, overlapping unstakes    *)
(* and callbacks that panic.                                               *)
TotalNotOverstated ==
  total_staked + Amount(Leaving) <= Staked

(* now - last_claim never underflows: no stake is claimed in the future,   *)
(* also not after a failed claim wrote seconds into last_claim.            *)
ClaimsInThePast ==
  \A u \in DOMAIN stakes :
    /\ stakes[u].last_claim <= now
    /\ stakes[u].last_update <= now
    /\ stakes[u].start_time <= now

(* Every transfer is followed by its callback. *)
PromisesSettle == \A i \in 1 .. MaxCalls :
  (\E p \in promises : p.id = i) ~> (\A p \in promises : p.id # i)

(* lib.rs:255 says more than the staked amount cannot be unstaked. *)
NoOverdraw == \A u \in Accounts : returned[u] <= deposited[u]
=============================================================================
