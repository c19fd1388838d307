----------------------------- MODULE MiningProofs -----------------------------
(***************************************************************************)
(* Theorems about DiamondMining: block arithmetic never underflows and no  *)
(* block is rewarded twice, and every reward credited is waiting, on its   *)
(* way or minted exactly once, for any accounts, rates and bounds.         *)
(***************************************************************************)
EXTENDS Mining, DataTheorems, TLAPS

(* The types the arithmetic needs. *)
NumbersOK ==
  /\ block \in Nat
  /\ reward_rate \in Rates
  /\ last_reward_block \in Nat
  /\ last_update \in [DOMAIN last_update -> Nat]
  /\ accrued \in [Accounts -> Nat]

(* The inductive invariant: the bound of NoBlockPaidTwice is kept by a     *)
(* credit only because the credited blocks start at last_block_of and end  *)
(* at the current block, which needs BlocksNotAhead.                       *)
MiningInv == NumbersOK /\ BlocksNotAhead /\ NoBlockPaidTwice

(* The highest rate bounds every rate. *)
LEMMA HighestRateBound == HighestRate \in Nat /\ \A r \in Rates : r \in Nat /\ r <= HighestRate
BY MiningAssumption DEF HighestRate

(* Credits for b more blocks at a rate keep the bound. *)
LEMMA CreditBound ==
  ASSUME NEW H \in Nat, NEW r \in Nat, r <= H, NEW b \in Nat, NEW l \in Nat,
         NEW a \in Nat, a <= H * l
  PROVE  b * r \in Nat /\ a + b * r <= H * (l + b)
<1>1. b * r \in Nat /\ b * H \in Nat /\ H * l \in Nat
  OBVIOUS
<1>2. b * r <= b * H
  <2>1. b * H = b * r + b * (H - r)
    OBVIOUS
  <2>2. b * (H - r) \in Nat
    OBVIOUS
  <2> QED
    BY <1>1, <2>1, <2>2
<1>3. H * (l + b) = H * l + b * H
  OBVIOUS
<1> QED
  BY <1>1, <1>2, <1>3

(* The block up to which an account is credited is a past block. *)
LEMMA LastBlockType ==
  ASSUME MiningInv, NEW u
  PROVE  /\ last_block_of(u) \in Nat
         /\ last_block_of(u) <= block
         /\ blocks_passed(u) \in Nat
BY DEF MiningInv, NumbersOK, BlocksNotAhead, last_block_of, get_or, blocks_passed

(* Crediting an account up to the current block keeps the invariant. *)
LEMMA CreditStep ==
  ASSUME MiningInv, NEW u \in Accounts,
         last_update' = insert(last_update, u, block),
         accrued' = [accrued EXCEPT ![u] = @ + blocks_passed(u) * reward_rate],
         UNCHANGED <<block, reward_rate, last_reward_block>>
  PROVE  MiningInv'
<1> DEFINE b == blocks_passed(u)
<1>1. /\ last_block_of(u) \in Nat /\ b \in Nat /\ last_block_of(u) + b = block
      /\ block \in Nat
  BY LastBlockType DEF blocks_passed, MiningInv, NumbersOK
<1>2. reward_rate \in Nat /\ reward_rate <= HighestRate /\ HighestRate \in Nat
  BY HighestRateBound DEF MiningInv, NumbersOK
<1>3. accrued[u] \in Nat /\ accrued[u] <= HighestRate * last_block_of(u)
  BY DEF MiningInv, NumbersOK, NoBlockPaidTwice
<1>4. b * reward_rate \in Nat /\ accrued[u] + b * reward_rate <= HighestRate * block
  <2> HIDE DEF b
  <2>1. b * reward_rate \in Nat
        /\ accrued[u] + b * reward_rate <= HighestRate * (last_block_of(u) + b)
    BY <1>1, <1>2, <1>3, CreditBound
  <2> QED
    BY <1>1, <2>1
<1>5. /\ accrued' \in [Accounts -> Nat]
      /\ accrued'[u] = accrued[u] + b * reward_rate
      /\ \A v \in Accounts \ {u} : accrued'[v] = accrued[v]
  <2> HIDE DEF b
  <2>1. PICK n \in Nat : n = b * reward_rate
    BY <1>4
  <2>2. accrued' = [accrued EXCEPT ![u] = @ + n]
    BY <2>1 DEF b
  <2> QED
    BY <2>1, <2>2 DEF MiningInv, NumbersOK
<1>6. /\ DOMAIN last_update' = DOMAIN last_update \cup {u}
      /\ last_update' \in [DOMAIN last_update' -> Nat]
      /\ last_update'[u] = block
      /\ \A v \in DOMAIN last_update \ {u} : last_update'[v] = last_update[v]
  BY <1>1 DEF insert, MiningInv, NumbersOK
<1>7. NumbersOK' /\ BlocksNotAhead'
  BY <1>1, <1>5, <1>6 DEF MiningInv, NumbersOK, BlocksNotAhead
<1>8. last_block_of(u)' = block /\ \A v \in Accounts \ {u} : last_block_of(v)' = last_block_of(v)
  BY <1>6 DEF last_block_of, get_or
<1>9. NoBlockPaidTwice'
  <2> SUFFICES ASSUME NEW v \in Accounts PROVE accrued'[v] <= HighestRate * last_block_of(v)'
    BY DEF NoBlockPaidTwice
  <2>1. CASE v = u
    BY <2>1, <1>4, <1>5, <1>8
  <2>2. CASE v # u
    BY <2>2, <1>5, <1>8 DEF MiningInv, NoBlockPaidTwice
  <2> QED
    BY <2>1, <2>2
<1> QED
  BY <1>7, <1>9 DEF MiningInv

(* A step that credits nobody and moves the global block no further than   *)
(* the current one keeps the invariant.                                    *)
LEMMA QuietStep ==
  ASSUME MiningInv, UNCHANGED <<last_update, accrued>>, reward_rate' \in Rates,
         block' \in Nat, block <= block',
         last_reward_block' \in Nat, last_reward_block <= last_reward_block',
         last_reward_block' <= block'
  PROVE  MiningInv'
<1>1. NumbersOK' /\ BlocksNotAhead'
  BY DEF MiningInv, NumbersOK, BlocksNotAhead
<1>2. \A u \in Accounts : last_block_of(u)' \in Nat /\ last_block_of(u) <= last_block_of(u)'
  BY DEF MiningInv, NumbersOK, last_block_of, get_or
<1>3. ASSUME NEW u \in Accounts PROVE accrued'[u] <= HighestRate * last_block_of(u)'
  <2>1. HighestRate * last_block_of(u) <= HighestRate * last_block_of(u)'
    <3>1. PICK d \in Nat : last_block_of(u)' = last_block_of(u) + d
      <4>1. last_block_of(u)' - last_block_of(u) \in Nat /\ last_block_of(u) \in Nat
        BY <1>2, LastBlockType
      <4> QED
        BY <4>1, <1>2
    <3>2. HighestRate * (last_block_of(u) + d) = HighestRate * last_block_of(u) + HighestRate * d
      BY HighestRateBound, LastBlockType
    <3>3. HighestRate * d \in Nat /\ HighestRate * last_block_of(u) \in Nat
      BY HighestRateBound, LastBlockType
    <3> QED
      BY <3>1, <3>2, <3>3
  <2>2. accrued'[u] \in Nat /\ accrued'[u] <= HighestRate * last_block_of(u)
    BY DEF MiningInv, NumbersOK, NoBlockPaidTwice
  <2>3. HighestRate * last_block_of(u) \in Nat /\ HighestRate * last_block_of(u)' \in Nat
    BY <1>2, HighestRateBound, LastBlockType
  <2> QED
    BY <2>1, <2>2, <2>3
<1> QED
  BY <1>1, <1>3 DEF MiningInv, NoBlockPaidTwice

(* A new contract satisfies the invariant. *)
LEMMA MiningInvInit == Init => MiningInv
BY MiningAssumption, HighestRateBound
   DEF Init, MiningInv, NumbersOK, BlocksNotAhead, NoBlockPaidTwice, last_block_of, get_or

(* Every call and callback keeps the invariant. *)
LEMMA MiningInvStep == MiningInv /\ [Next]_vars => MiningInv'
<1> SUFFICES ASSUME MiningInv, [Next]_vars PROVE MiningInv'
  OBVIOUS
<1> /\ block \in Nat /\ reward_rate \in Rates /\ last_reward_block \in Nat
    /\ last_reward_block <= block
  BY DEF MiningInv, NumbersOK, BlocksNotAhead
<1>1. ASSUME UNCHANGED <<block, reward_rate, last_reward_block, last_update, accrued>>
      PROVE  MiningInv'
  BY <1>1, QuietStep
<1>2. CASE UNCHANGED vars
  BY <1>1, <1>2 DEF vars, contractVars
<1>3. CASE NewBlock
  BY <1>3, QuietStep DEF NewBlock, contractVars
<1>4. ASSUME NEW u \in Accounts, update_rewards(u) PROVE MiningInv'
  <2>1. CASE blocks_passed(u) > 0
    BY <1>4, <2>1, CreditStep DEF update_rewards, credit
  <2>2. CASE ~(blocks_passed(u) > 0)
    BY <1>1, <1>4, <2>2 DEF update_rewards, credit
  <2> QED
    BY <2>1, <2>2
<1>5. ASSUME NEW u \in Accounts, claim_rewards(u) PROVE MiningInv'
  <2>1. CASE blocks_passed(u) > 0
    BY <1>5, <2>1, CreditStep DEF claim_rewards
  <2>2. CASE ~(blocks_passed(u) > 0)
    <3>1. blocks_passed(u) = 0 /\ reward_rate \in Nat
      BY <2>2, LastBlockType, HighestRateBound
    <3>2. blocks_passed(u) * reward_rate = 0
      BY <3>1
    <3>3. accrued' = [accrued EXCEPT ![u] = accrued[u] + 0]
      BY <1>5, <3>2 DEF claim_rewards
    <3>4. accrued' = accrued
      BY <3>3 DEF MiningInv, NumbersOK
    <3> QED
      BY <1>1, <1>5, <2>2, <3>4 DEF claim_rewards
  <2> QED
    BY <2>1, <2>2
<1>6. ASSUME NEW p \in promises, NEW ok \in BOOLEAN, MintRuns(p, ok) PROVE MiningInv'
  BY <1>1, <1>6 DEF MintRuns, contractVars
<1>7. ASSUME NEW p \in promises, claim_reward_callback(p) PROVE MiningInv'
  BY <1>1, <1>7 DEF claim_reward_callback
<1>8. ASSUME NEW u \in Accounts, NEW r \in Rates, set_reward_rate(u, r) PROVE MiningInv'
  BY <1>8, QuietStep DEF set_reward_rate
<1>9. ASSUME NEW u \in Accounts, force_update_global_reward(u) PROVE MiningInv'
  BY <1>9, QuietStep DEF force_update_global_reward
<1>10. ASSUME NEW u \in Accounts, NEW v \in Accounts, transfer_ownership(u, v) PROVE MiningInv'
  BY <1>1, <1>10 DEF transfer_ownership
<1> QED
  BY <1>2, <1>3, <1>4, <1>5, <1>6, <1>7, <1>8, <1>9, <1>10 DEF Next

(* The invariant holds in every reachable state. *)
LEMMA MiningInvAlways == Spec => []MiningInv
BY MiningInvInit, MiningInvStep, PTL DEF Spec

(* The subtraction of blocks in update_rewards and get_pending_reward      *)
(* never underflows.                                                       *)
THEOREM BlockArithmeticSafe == Spec => []BlocksNotAhead
BY MiningInvAlways, PTL DEF MiningInv

(* No account is credited twice for a block. *)
THEOREM BlocksRewardedOnce == Spec => []NoBlockPaidTwice
BY MiningInvAlways, PTL DEF MiningInv
-----------------------------------------------------------------------------
(***************************************************************************)
(* Rewards are conserved.                                                  *)
(***************************************************************************)

(* What the sums need: every promise has an id of its own, no later than   *)
(* the last claim, so that a claim adds a new one and a mint that runs     *)
(* replaces one that is not there in its new form.                         *)
PromisesOK(ps, last) ==
  /\ IsFiniteSet(ps)
  /\ ps \in SUBSET Promise
  /\ \A p \in ps : p.id <= last
  /\ \A p, q \in ps : p.id = q.id => p = q

LedgersOK ==
  /\ claims \in Nat
  /\ PromisesOK(promises, claims)
  /\ rewards \in [DOMAIN rewards -> Nat]
  /\ paid \in [Accounts -> Nat]

RewardInv == LedgersOK /\ RewardsConserved

(* The total this module sums is the one of DataTheorems. *)
LEMMA AmountIsTotal == \A ps : Amount(ps) = TotalAmount(ps)
BY DEF Amount, TotalAmount

(* What is unsettled can be summed. *)
LEMMA UnsettledFinite ==
  ASSUME NEW ps, IsFiniteSet(ps), ps \in SUBSET Promise, NEW u
  PROVE  /\ IsFiniteSet(UnsettledOf(ps, u))
         /\ \A p \in UnsettledOf(ps, u) : p.amount \in Int
         /\ Amount(UnsettledOf(ps, u)) \in Int
<1>1. UnsettledOf(ps, u) \in SUBSET ps
  BY DEF UnsettledOf
<1>2. IsFiniteSet(UnsettledOf(ps, u))
  BY <1>1, FS_Subset
<1>3. \A p \in UnsettledOf(ps, u) : p.amount \in Int
  BY <1>1 DEF Promise
<1> QED
  BY <1>2, <1>3, TotalAmountType, AmountIsTotal

(* A new promise adds its amount to what is in flight for its user, unless *)
(* it is minted already.                                                   *)
LEMMA FlightAdd ==
  ASSUME NEW ps, IsFiniteSet(ps), ps \in SUBSET Promise, NEW t \in Promise, t \notin ps, NEW u
  PROVE  Amount(UnsettledOf(ps \cup {t}, u))
           = Amount(UnsettledOf(ps, u)) + (IF t.user = u /\ t.mint # "ok" THEN t.amount ELSE 0)
<1> DEFINE U == UnsettledOf(ps, u)
<1>1. IsFiniteSet(U) /\ (\A p \in U : p.amount \in Int) /\ Amount(U) \in Int
  BY UnsettledFinite
<1>2. t.amount \in Int /\ t \notin U
  BY DEF Promise, UnsettledOf
<1>3. CASE t.user = u /\ t.mint # "ok"
  <2>1. UnsettledOf(ps \cup {t}, u) = U \cup {t}
    BY <1>3 DEF UnsettledOf
  <2> HIDE DEF U
  <2>2. TotalAmount(U \cup {t}) = TotalAmount(U) + t.amount
    BY <1>1, <1>2, TotalAmountAdd
  <2> QED
    BY <1>3, <2>1, <2>2, AmountIsTotal DEF U
<1>4. CASE ~(t.user = u /\ t.mint # "ok")
  <2>1. UnsettledOf(ps \cup {t}, u) = U
    BY <1>4 DEF UnsettledOf
  <2> QED
    BY <1>1, <1>4, <2>1
<1> QED
  BY <1>3, <1>4

(* A promise that is settled takes its amount away. *)
LEMMA FlightRemove ==
  ASSUME NEW ps, IsFiniteSet(ps), ps \in SUBSET Promise, NEW t \in ps, NEW u
  PROVE  Amount(UnsettledOf(ps \ {t}, u))
           = Amount(UnsettledOf(ps, u)) - (IF t.user = u /\ t.mint # "ok" THEN t.amount ELSE 0)
<1> DEFINE rest == ps \ {t}
<1>1. /\ IsFiniteSet(rest) /\ rest \in SUBSET Promise /\ t \in Promise /\ t \notin rest
      /\ rest \cup {t} = ps
  BY FS_RemoveElement
<1>2. Amount(UnsettledOf(rest, u)) \in Int /\ t.amount \in Int
  BY <1>1, UnsettledFinite DEF Promise
<1>3. Amount(UnsettledOf(ps, u))
        = Amount(UnsettledOf(rest, u)) + (IF t.user = u /\ t.mint # "ok" THEN t.amount ELSE 0)
  <2> HIDE DEF rest
  <2> QED
    BY <1>1, FlightAdd
<1> QED
  BY <1>2, <1>3

(* insert writes one entry and keeps the others. *)
LEMMA InsertReward ==
  ASSUME NEW map, map \in [DOMAIN map -> Nat], NEW k, NEW v \in Nat
  PROVE  /\ insert(map, k, v) \in [DOMAIN insert(map, k, v) -> Nat]
         /\ get_or(insert(map, k, v), k, 0) = v
         /\ \A x : x # k => get_or(insert(map, k, v), x, 0) = get_or(map, x, 0)
BY DEF insert, get_or

(* What is credited for the blocks that passed. *)
LEMMA Credited ==
  ASSUME MiningInv, NEW u \in Accounts,
         accrued' = [accrued EXCEPT ![u] = @ + blocks_passed(u) * reward_rate]
  PROVE  /\ blocks_passed(u) * reward_rate \in Nat
         /\ \A v \in Accounts : accrued[v] \in Nat
         /\ accrued'[u] = accrued[u] + blocks_passed(u) * reward_rate
         /\ \A v \in Accounts \ {u} : accrued'[v] = accrued[v]
<1>1. blocks_passed(u) \in Nat /\ reward_rate \in Nat
  BY LastBlockType, MiningAssumption DEF MiningInv, NumbersOK
<1>2. blocks_passed(u) * reward_rate \in Nat
  BY <1>1
<1>3. accrued \in [Accounts -> Nat]
  BY DEF MiningInv, NumbersOK
<1> QED
  BY <1>2, <1>3

(* The parts of the sum of an account are numbers. *)
LEMMA PartsAreNumbers ==
  ASSUME RewardInv, NEW u \in Accounts
  PROVE  /\ get_or(rewards, u, 0) \in Nat
         /\ InFlight(u) \in Int
         /\ paid[u] \in Nat
         /\ get_or(rewards, u, 0) + InFlight(u) + paid[u] = accrued[u]
BY UnsettledFinite DEF RewardInv, LedgersOK, PromisesOK, RewardsConserved, get_or, InFlight

(* A credit outside a claim. *)
LEMMA UpdateConserves ==
  ASSUME MiningInv, RewardInv, NEW u \in Accounts, update_rewards(u)
  PROVE  RewardInv'
<1>1. UNCHANGED <<promises, claims, paid>>
  BY DEF update_rewards
<1>2. CASE blocks_passed(u) > 0
  <2> DEFINE n == blocks_passed(u) * reward_rate
             r == get_or(rewards, u, 0)
  <2>1. rewards' = insert(rewards, u, r + n)
        /\ accrued' = [accrued EXCEPT ![u] = @ + n]
    BY <1>2 DEF update_rewards, credit, get_pending_reward
  <2>2. /\ n \in Nat /\ accrued'[u] = accrued[u] + n
        /\ \A v \in Accounts \ {u} : accrued'[v] = accrued[v]
    BY <2>1, Credited
  <2>3. r \in Nat /\ rewards \in [DOMAIN rewards -> Nat]
    BY PartsAreNumbers DEF RewardInv, LedgersOK
  <2> HIDE DEF n
  <2>4. /\ rewards' \in [DOMAIN rewards' -> Nat]
        /\ get_or(rewards', u, 0) = r + n
        /\ \A v : v # u => get_or(rewards', v, 0) = get_or(rewards, v, 0)
    <3> HIDE DEF r
    <3>1. r + n \in Nat
      BY <2>2, <2>3
    <3> QED
      BY <2>1, <2>3, <3>1, InsertReward
  <2>5. LedgersOK'
    BY <1>1, <2>4 DEF RewardInv, LedgersOK
  <2>6. ASSUME NEW v \in Accounts
        PROVE  get_or(rewards', v, 0) + InFlight(v)' + paid'[v] = accrued'[v]
    <3>1. InFlight(v)' = InFlight(v) /\ paid' = paid
      BY <1>1 DEF InFlight, UnsettledOf
    <3> QED
      BY <2>2, <2>4, <3>1, PartsAreNumbers
  <2> QED
    BY <2>5, <2>6 DEF RewardInv, RewardsConserved, get_or
<1>3. CASE ~(blocks_passed(u) > 0)
  BY <1>1, <1>3 DEF update_rewards, credit, RewardInv, LedgersOK, RewardsConserved,
                    InFlight, UnsettledOf, get_or
<1> QED
  BY <1>2, <1>3

(* A claim moves all that is pending, the new credit included, into a new  *)
(* promise.                                                                *)
LEMMA ClaimConserves ==
  ASSUME MiningInv, RewardInv, NEW u \in Accounts, claim_rewards(u)
  PROVE  RewardInv'
<1> DEFINE n == blocks_passed(u) * reward_rate
           r == get_or(rewards, u, 0)
           t == [id |-> claims + 1, user |-> u, amount |-> r + n, mint |-> "pending"]
<1>1. /\ claims < MaxClaims
      /\ rewards' = insert(rewards, u, 0)
      /\ accrued' = [accrued EXCEPT ![u] = @ + n]
      /\ promises' = promises \cup {t}
      /\ claims' = claims + 1
      /\ paid' = paid
  BY DEF claim_rewards, get_pending_reward
<1>2. /\ n \in Nat /\ accrued'[u] = accrued[u] + n
      /\ \A v \in Accounts \ {u} : accrued'[v] = accrued[v]
  BY <1>1, Credited
<1>3. r \in Nat /\ PromisesOK(promises, claims) /\ claims \in Nat
      /\ rewards \in [DOMAIN rewards -> Nat] /\ paid \in [Accounts -> Nat]
  BY PartsAreNumbers DEF RewardInv, LedgersOK
<1> HIDE DEF n, r
<1>4. t \in Promise /\ t.id = claims + 1 /\ t.user = u /\ t.amount = r + n /\ t.mint # "ok"
  BY <1>1, <1>2, <1>3, MiningAssumption DEF Promise
<1> HIDE DEF t
<1>5. t \notin promises /\ \A p \in promises : p.id # t.id /\ p.id \in Nat
  BY <1>3, <1>4 DEF PromisesOK, Promise
<1>6. PromisesOK(promises', claims')
  <2>1. IsFiniteSet(promises')
    BY <1>1, <1>3, FS_AddElement DEF PromisesOK
  <2>2. \A p \in promises' : p.id <= claims'
    BY <1>1, <1>3, <1>4, <1>5 DEF PromisesOK
  <2>3. \A p, q \in promises' : p.id = q.id => p = q
    BY <1>1, <1>3, <1>5 DEF PromisesOK
  <2> QED
    BY <1>1, <1>3, <1>4, <2>1, <2>2, <2>3 DEF PromisesOK
<1>7. /\ rewards' \in [DOMAIN rewards' -> Nat]
      /\ get_or(rewards', u, 0) = 0
      /\ \A v : v # u => get_or(rewards', v, 0) = get_or(rewards, v, 0)
  BY <1>1, <1>3, InsertReward
<1>8. LedgersOK'
  BY <1>1, <1>3, <1>6, <1>7 DEF LedgersOK
<1>9. ASSUME NEW v \in Accounts
      PROVE  get_or(rewards', v, 0) + InFlight(v)' + paid'[v] = accrued'[v]
  <2>1. InFlight(v)' = InFlight(v) + (IF u = v THEN r + n ELSE 0)
    BY <1>1, <1>3, <1>4, <1>5, FlightAdd DEF InFlight, PromisesOK
  <2> QED
    BY <1>1, <1>2, <1>3, <1>7, <2>1, PartsAreNumbers DEF r
<1> QED
  BY <1>8, <1>9 DEF RewardInv, RewardsConserved, get_or

(* The mint moves what it mints from the promise to the account; one that  *)
(* fails leaves the reward in flight for the callback.                     *)
LEMMA MintConserves ==
  ASSUME RewardInv, NEW p \in promises, NEW ok \in BOOLEAN, MintRuns(p, ok),
         accrued \in [Accounts -> Nat]
  PROVE  RewardInv'
<1> DEFINE q == [p EXCEPT !.mint = IF ok THEN "ok" ELSE "failed"]
           rest == promises \ {p}
<1>1. /\ p.mint = "pending"
      /\ promises' = rest \cup {q}
      /\ paid' = IF ok THEN [paid EXCEPT ![p.user] = @ + p.amount] ELSE paid
      /\ UNCHANGED <<rewards, claims, accrued>>
  BY DEF MintRuns, contractVars
<1>2. PromisesOK(promises, claims) /\ claims \in Nat /\ paid \in [Accounts -> Nat]
  BY DEF RewardInv, LedgersOK
<1>3. p \in Promise /\ p.user \in Accounts /\ p.amount \in Nat
  BY <1>2 DEF PromisesOK, Promise
<1>4. /\ q \in Promise /\ q.id = p.id /\ q.user = p.user /\ q.amount = p.amount
      /\ q.mint = IF ok THEN "ok" ELSE "failed"
  BY <1>3 DEF Promise
<1>5. IsFiniteSet(rest) /\ rest \in SUBSET Promise /\ \A x \in rest : x.id # q.id
  BY <1>2, <1>4, FS_RemoveElement DEF PromisesOK
<1> HIDE DEF q
<1>6. q \notin rest
  BY <1>5
<1>7. PromisesOK(promises', claims')
  <2>1. IsFiniteSet(promises')
    BY <1>1, <1>5, FS_AddElement
  <2> QED
    BY <1>1, <1>2, <1>4, <1>5, <2>1 DEF PromisesOK
<1>8. /\ paid' \in [Accounts -> Nat]
      /\ \A v \in Accounts : paid'[v] = paid[v] + (IF ok /\ p.user = v THEN p.amount ELSE 0)
  BY <1>1, <1>2, <1>3
<1>9. LedgersOK'
  BY <1>1, <1>2, <1>7, <1>8 DEF RewardInv, LedgersOK
<1>10. ASSUME NEW v \in Accounts
       PROVE  get_or(rewards', v, 0) + InFlight(v)' + paid'[v] = accrued'[v]
  <2>1. Amount(UnsettledOf(rest, v)) = InFlight(v) - (IF p.user = v THEN p.amount ELSE 0)
    BY <1>1, <1>2, FlightRemove DEF InFlight, PromisesOK
  <2> HIDE DEF rest
  <2>2. InFlight(v)' = Amount(UnsettledOf(rest, v))
                         + (IF p.user = v /\ ~ok THEN p.amount ELSE 0)
    <3>1. Amount(UnsettledOf(rest \cup {q}, v))
            = Amount(UnsettledOf(rest, v)) + (IF q.user = v /\ q.mint # "ok" THEN q.amount ELSE 0)
      BY <1>4, <1>5, <1>6, FlightAdd
    <3>2. q.mint # "ok" <=> ~ok
      BY <1>4
    <3> QED
      BY <1>1, <1>4, <3>1, <3>2 DEF InFlight
  <2> QED
    BY <1>1, <1>3, <1>8, <2>1, <2>2, PartsAreNumbers
<1> QED
  BY <1>9, <1>10 DEF RewardInv, RewardsConserved, get_or

(* The callback puts back exactly what a failed mint left in flight.       *)
LEMMA CallbackConserves ==
  ASSUME RewardInv, NEW p \in promises, claim_reward_callback(p),
         accrued \in [Accounts -> Nat]
  PROVE  RewardInv'
<1> DEFINE r == get_or(rewards, p.user, 0)
<1>1. /\ p.mint # "pending"
      /\ promises' = promises \ {p}
      /\ rewards' = IF p.mint = "ok" THEN rewards ELSE insert(rewards, p.user, r + p.amount)
      /\ UNCHANGED <<claims, accrued, paid>>
  BY DEF claim_reward_callback
<1>2. /\ PromisesOK(promises, claims) /\ claims \in Nat /\ paid \in [Accounts -> Nat]
      /\ rewards \in [DOMAIN rewards -> Nat]
  BY DEF RewardInv, LedgersOK
<1>3. p.user \in Accounts /\ p.amount \in Nat
  BY <1>2 DEF PromisesOK, Promise
<1>4. r \in Nat /\ r + p.amount \in Nat
  BY <1>3, PartsAreNumbers
<1>5. PromisesOK(promises', claims')
  BY <1>1, <1>2, FS_RemoveElement DEF PromisesOK
<1>6. /\ rewards' \in [DOMAIN rewards' -> Nat]
      /\ \A v \in Accounts : get_or(rewards', v, 0) = get_or(rewards, v, 0)
                                 + (IF p.user = v /\ p.mint # "ok" THEN p.amount ELSE 0)
  <2>1. CASE p.mint = "ok"
    BY <1>1, <1>2, <2>1, PartsAreNumbers
  <2>2. CASE p.mint # "ok"
    <3>1. \A v \in Accounts : get_or(rewards, v, 0) \in Nat
      BY PartsAreNumbers
    <3>2. /\ rewards' \in [DOMAIN rewards' -> Nat]
          /\ get_or(rewards', p.user, 0) = r + p.amount
          /\ \A v : v # p.user => get_or(rewards', v, 0) = get_or(rewards, v, 0)
      <4>1. rewards' = insert(rewards, p.user, r + p.amount)
        BY <1>1, <2>2
      <4> HIDE DEF r
      <4> QED
        BY <1>2, <1>4, <4>1, InsertReward
    <3> QED
      BY <1>3, <2>2, <3>1, <3>2
  <2> QED
    BY <2>1, <2>2
<1>7. LedgersOK'
  BY <1>1, <1>2, <1>5, <1>6 DEF LedgersOK
<1>8. ASSUME NEW v \in Accounts
      PROVE  get_or(rewards', v, 0) + InFlight(v)' + paid'[v] = accrued'[v]
  <2>1. InFlight(v)' = InFlight(v)
                         - (IF p.user = v /\ p.mint # "ok" THEN p.amount ELSE 0)
    BY <1>1, <1>2, FlightRemove DEF InFlight, PromisesOK
  <2> QED
    BY <1>1, <1>3, <1>6, <2>1, PartsAreNumbers
<1> QED
  BY <1>7, <1>8 DEF RewardInv, RewardsConserved, get_or

(* A new contract owes nothing. *)
LEMMA RewardInvInit == Init => RewardInv
<1> SUFFICES ASSUME Init PROVE RewardInv
  OBVIOUS
<1>1. promises = {} /\ IsFiniteSet({})
  BY FS_EmptySet DEF Init
<1>2. \A u \in Accounts : InFlight(u) = 0
  <2>1. \A u \in Accounts : UnsettledOf(promises, u) = {}
    BY <1>1 DEF UnsettledOf
  <2> QED
    BY <2>1, TotalAmountNone, AmountIsTotal DEF InFlight
<1>3. LedgersOK
  BY <1>1 DEF Init, LedgersOK, PromisesOK
<1> QED
  BY <1>2, <1>3 DEF Init, RewardInv, RewardsConserved, get_or

(* Every call, mint and callback keeps the rewards. *)
LEMMA RewardInvStep == MiningInv /\ RewardInv /\ [Next]_vars => RewardInv'
<1> SUFFICES ASSUME MiningInv, RewardInv, [Next]_vars PROVE RewardInv'
  OBVIOUS
<1>1. accrued \in [Accounts -> Nat]
  BY DEF MiningInv, NumbersOK
<1>2. ASSUME UNCHANGED <<rewards, promises, claims, paid, accrued>>
      PROVE  RewardInv'
  BY <1>2 DEF RewardInv, LedgersOK, RewardsConserved, InFlight, UnsettledOf, get_or
<1>3. CASE UNCHANGED vars
  BY <1>2, <1>3 DEF vars, contractVars
<1>4. CASE NewBlock
  BY <1>2, <1>4 DEF NewBlock, contractVars
<1>5. ASSUME NEW u \in Accounts, NEW r \in Rates, set_reward_rate(u, r) PROVE RewardInv'
  BY <1>2, <1>5 DEF set_reward_rate
<1>6. ASSUME NEW u \in Accounts, force_update_global_reward(u) PROVE RewardInv'
  BY <1>2, <1>6 DEF force_update_global_reward
<1>7. ASSUME NEW u \in Accounts, NEW v \in Accounts, transfer_ownership(u, v) PROVE RewardInv'
  BY <1>2, <1>7 DEF transfer_ownership
<1> QED
  BY <1>1, <1>3, <1>4, <1>5, <1>6, <1>7, UpdateConserves, ClaimConserves, MintConserves,
     CallbackConserves DEF Next

(* Every reward an account was ever credited is waiting, in flight or      *)
(* minted, exactly once: nothing is lost to a failed mint and nothing is   *)
(* paid twice, however claims and credits overlap.                         *)
THEOREM RewardsNeverLost == Spec => []RewardsConserved
<1>1. Spec => []RewardInv
  BY RewardInvInit, RewardInvStep, MiningInvAlways, PTL DEF Spec
<1>2. RewardInv => RewardsConserved
  BY DEF RewardInv
<1> QED
  BY <1>1, <1>2, PTL
=============================================================================
