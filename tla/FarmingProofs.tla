---------------------------- MODULE FarmingProofs ----------------------------
(***************************************************************************)
(* Proofs about Farming, for every set of accounts, every amount, rate and *)
(* lock period and without a bound on time: all numbers stay naturals, no  *)
(* stake is ever claimed in the future, and the recorded total, with what  *)
(* is being withdrawn, never exceeds the stakes.                           *)
(***************************************************************************)
EXTENDS Farming, DataTheorems, TLAPS

(* A well-formed stake none of whose moments is later than t. *)
Past(s, t) ==
  /\ s \in Stake
  /\ s.last_claim <= t /\ s.last_update <= t /\ s.start_time <= t

AllPast(map, t) ==
  /\ DOMAIN map \in SUBSET Accounts
  /\ map = [u \in DOMAIN map |-> map[u]]
  /\ \A u \in DOMAIN map : Past(map[u], t)

FarmInv ==
  /\ now \in Nat
  /\ owner_id \in Accounts
  /\ total_staked \in Nat /\ reward_rate \in Nat /\ lock_period \in Nat
  /\ AllPast(stakes, now)
  /\ promises \in SUBSET Promise
  /\ calls \in 0 .. MaxCalls
  /\ deposited \in [Accounts -> Nat]
  /\ returned \in [Accounts -> Nat]

-----------------------------------------------------------------------------
(* The seconds written into last_update are not ahead of the nanoseconds.  *)
LEMMA SecondsPast == now \in Nat => seconds \in Nat /\ seconds <= now
BY FarmingAssumption DEF seconds

(* insert keeps a map of stakes in the past. *)
LEMMA InsertPast ==
  ASSUME NEW map, NEW t, AllPast(map, t), NEW u \in Accounts, NEW s, Past(s, t)
  PROVE  AllPast(insert(map, u, s), t)
BY DEF AllPast, insert

(* remove, likewise. *)
LEMMA RemovePast ==
  ASSUME NEW map, NEW t, AllPast(map, t), NEW u
  PROVE  AllPast(remove(map, u), t)
BY DEF AllPast, remove

(* The forms in which a stake is changed. *)
LEMMA ChangePast ==
  ASSUME NEW t \in Nat, NEW s, Past(s, t), NEW a \in Nat, NEW c \in Nat, c <= t,
         NEW d \in Nat, d <= t
  PROVE  /\ Past([s EXCEPT !.amount = a, !.last_claim = c, !.last_update = d], t)
         /\ Past([s EXCEPT !.last_claim = c, !.last_update = d], t)
         /\ Past([s EXCEPT !.amount = a, !.last_update = d], t)
         /\ Past([s EXCEPT !.last_claim = c], t)
BY DEF Past, Stake

(* A reward is a natural number. *)
LEMMA RewardNat ==
  ASSUME NEW s, now \in Nat, reward_rate \in Nat, Past(s, now)
  PROVE  calculate_reward(s) \in Nat
<1>1. s.amount \in Nat /\ now - s.last_claim \in Nat
  BY DEF Past, Stake
<1>2. \A a, b \in Nat : a * b \in Nat
  OBVIOUS
<1>3. reward_product(s) \in Nat
  BY <1>1, <1>2 DEF reward_product
<1>4. \A a \in Nat : \A d \in Nat \ {0} : a \div d \in Nat
  OBVIOUS
<1> QED
  BY <1>3, <1>4, FarmingAssumption DEF calculate_reward

(* A transfer that is started is a well-formed promise. *)
LEMMA TransferType ==
  ASSUME calls \in 0 .. MaxCalls, calls < MaxCalls, NEW u \in Accounts, NEW n \in Nat,
         NEW k \in {"stake", "unstake", "claim"}
  PROVE  transfer(k, u, n) \in Promise /\ calls + 1 \in 0 .. MaxCalls
BY FarmingAssumption DEF transfer, Promise

-----------------------------------------------------------------------------
(* The contract starts in the invariant. *)
LEMMA FarmInvInit == Init => FarmInv
<1> SUFFICES ASSUME NEW owner \in Accounts, new(owner)
             PROVE  FarmInv
  BY DEF Init
<1> QED
  BY FarmingAssumption DEF new, FarmInv, AllPast

(* The calls that start transfers. *)
LEMMA UserCallKeepsInv ==
  ASSUME FarmInv, NEW u \in Accounts, UserCall(u)
  PROVE  FarmInv'
<1> USE DEF contractVars, historyVars
<1>1. ASSUME NEW n \in Amounts, stake(u, n)
      PROVE  FarmInv'
  <2>1. transfer("stake", u, n) \in Promise /\ calls + 1 \in 0 .. MaxCalls
    BY <1>1, TransferType, FarmingAssumption DEF stake, FarmInv
  <2> QED
    BY <1>1, <2>1 DEF stake, FarmInv, AllPast
<1>2. ASSUME can_claim(u), calls < MaxCalls
      PROVE  /\ AllPast(insert(stakes, u, claimed_stake(u)), now)
             /\ transfer("claim", u, calculate_reward(stakes[u])) \in Promise
             /\ calls + 1 \in 0 .. MaxCalls
  <2>1. Past(stakes[u], now)
    BY <1>2 DEF FarmInv, AllPast, can_claim
  <2>2. Past(claimed_stake(u), now)
    <3> DEFINE old == stakes[u]
    <3>1. Past(old, now) /\ now \in Nat /\ now <= now /\ seconds \in Nat /\ seconds <= now
      BY <2>1, SecondsPast DEF FarmInv
    <3>2. claimed_stake(u) = [old EXCEPT !.last_claim = now, !.last_update = seconds]
      BY DEF claimed_stake
    <3> HIDE DEF old
    <3>3. Past([old EXCEPT !.last_claim = now, !.last_update = seconds], now)
      BY <3>1, ChangePast
    <3> QED
      BY <3>2, <3>3
  <2>3. calculate_reward(stakes[u]) \in Nat
    BY <2>1, RewardNat DEF FarmInv
  <2> QED
    BY <1>2, <2>2, <2>3, InsertPast, TransferType DEF FarmInv
<1>3. ASSUME claim_rewards(u)
      PROVE  FarmInv'
  <2>1. AllPast(stakes', now')
    BY <1>2, <1>3 DEF claim_rewards
  <2> QED
    BY <1>2, <1>3, <2>1 DEF claim_rewards, FarmInv
<1>4. ASSUME NEW n \in Amounts, unstake(u, n)
      PROVE  FarmInv'
  <2>1. AllPast(stakes', now')
    BY <1>2, <1>4 DEF unstake
  <2>2. transfer("unstake", u, n) \in Promise
    BY <1>4, TransferType, FarmingAssumption DEF unstake, FarmInv
  <2>3. total_staked' \in Nat
    BY <1>4, FarmingAssumption DEF unstake, FarmInv
  <2> QED
    BY <1>2, <1>4, <2>1, <2>2, <2>3 DEF unstake, FarmInv
<1> QED
  BY <1>1, <1>3, <1>4 DEF UserCall

(* The callbacks, also the ones that undo or panic. *)
LEMMA CallbackKeepsInv ==
  ASSUME FarmInv, NEW p \in promises, Callback(p)
  PROVE  FarmInv'
<1> USE DEF contractVars, historyVars, Settled
<1>0. /\ p.user \in Accounts /\ p.amount \in Nat
      /\ promises \ {p} \in SUBSET Promise
      /\ now \in Nat /\ seconds \in Nat /\ seconds <= now
      /\ AllPast(stakes, now)
      /\ p.user \in DOMAIN stakes => Past(stakes[p.user], now)
  BY SecondsPast DEF FarmInv, Promise, AllPast
<1>1. CASE stake_callback(p)
  <2>1. ASSUME p.user \in DOMAIN stakes
        PROVE  AllPast(stakes', now')
    <3> DEFINE old == stakes[p.user]
               c == IF calculate_reward(old) > 0 THEN now ELSE old.last_claim
    <3>1. Past(old, now)
      BY <1>0, <2>1
    <3>2. c \in Nat /\ c <= now /\ old.amount + p.amount \in Nat
      BY <1>0, <3>1 DEF Past, Stake
    <3>3. stakes' = insert(stakes, p.user,
                      [old EXCEPT !.amount = old.amount + p.amount, !.last_claim = c,
                                  !.last_update = seconds]) /\ now' = now
      BY <1>1, <2>1 DEF stake_callback
    <3> HIDE DEF old, c
    <3>4. Past([old EXCEPT !.amount = old.amount + p.amount, !.last_claim = c,
                           !.last_update = seconds], now)
      BY <1>0, <3>1, <3>2, ChangePast
    <3> QED
      BY <1>0, <3>3, <3>4, InsertPast
  <2>2. ASSUME p.user \notin DOMAIN stakes
        PROVE  AllPast(stakes', now')
    <3>1. Past([amount |-> p.amount, start_time |-> now, last_claim |-> now,
                last_update |-> seconds], now)
      BY <1>0 DEF Past, Stake
    <3> QED
      BY <1>0, <1>1, <2>2, <3>1, InsertPast DEF stake_callback
  <2>3. AllPast(stakes', now')
    BY <2>1, <2>2
  <2>4. total_staked' \in Nat
    BY <1>0, <1>1 DEF stake_callback, FarmInv
  <2> QED
    BY <1>0, <1>1, <2>3, <2>4 DEF stake_callback, FarmInv
<1>2. CASE stake_callback_nothing(p)
  BY <1>0, <1>2 DEF stake_callback_nothing, FarmInv
<1>3. CASE claim_callback(p)
  <2>1. AllPast(stakes', now')
    <3>1. CASE stakes' = stakes
      BY <1>0, <1>3, <3>1 DEF claim_callback
    <3>2. ASSUME p.user \in DOMAIN stakes,
                 stakes' = insert(stakes, p.user,
                   [stakes[p.user] EXCEPT !.last_claim = stakes[p.user].last_update])
          PROVE  AllPast(stakes', now')
      <4> DEFINE old == stakes[p.user]
      <4>1. Past(old, now)
        BY <1>0, <3>2
      <4>2. old.last_update \in Nat /\ old.last_update <= now
        BY <4>1 DEF Past, Stake
      <4>3. stakes' = insert(stakes, p.user, [old EXCEPT !.last_claim = old.last_update])
            /\ now' = now
        BY <1>3, <3>2 DEF claim_callback
      <4> HIDE DEF old
      <4>4. Past([old EXCEPT !.last_claim = old.last_update], now)
        BY <1>0, <4>1, <4>2, ChangePast
      <4> QED
        BY <1>0, <4>3, <4>4, InsertPast
    <3> QED
      BY <1>3, <3>1, <3>2 DEF claim_callback
  <2> QED
    BY <1>0, <1>3, <2>1 DEF claim_callback, FarmInv
<1>4. CASE unstake_callback(p)
  <2>1. AllPast(stakes', now')
    <3>1. CASE stakes' = remove(stakes, p.user)
      BY <1>0, <1>4, <3>1, RemovePast DEF unstake_callback
    <3>2. CASE stakes' = insert(stakes, p.user,
                 [stakes[p.user] EXCEPT !.amount = stakes[p.user].amount - p.amount,
                                        !.last_update = seconds])
      <4> DEFINE old == stakes[p.user]
      <4>1. Past(old, now) /\ old.amount >= p.amount /\ now' = now
        BY <1>0, <1>4 DEF unstake_callback
      <4>2. old.amount - p.amount \in Nat
        BY <1>0, <4>1 DEF Past, Stake
      <4>3. stakes' = insert(stakes, p.user,
                        [old EXCEPT !.amount = old.amount - p.amount, !.last_update = seconds])
        BY <3>2
      <4> HIDE DEF old
      <4>4. Past([old EXCEPT !.amount = old.amount - p.amount, !.last_update = seconds], now)
        BY <1>0, <4>1, <4>2, ChangePast
      <4> QED
        BY <1>0, <4>1, <4>3, <4>4, InsertPast
    <3> QED
      BY <1>4, <3>1, <3>2 DEF unstake_callback
  <2> QED
    BY <1>0, <1>4, <2>1 DEF unstake_callback, FarmInv
<1>5. CASE unstake_callback_panics(p)
  BY <1>0, <1>5 DEF unstake_callback_panics, FarmInv
<1>6. CASE unstake_callback_failed(p)
  BY <1>0, <1>6 DEF unstake_callback_failed, FarmInv
<1> QED
  BY <1>1, <1>2, <1>3, <1>4, <1>5, <1>6 DEF Callback

(* The token contract runs a transfer. *)
LEMMA TransferKeepsInv ==
  ASSUME FarmInv, NEW p \in promises, NEW ok \in BOOLEAN, TransferRuns(p, ok)
  PROVE  FarmInv'
<1>1. p \in Promise
  BY DEF FarmInv
<1>2. [p EXCEPT !.transfer = IF ok THEN "ok" ELSE "failed"] \in Promise
  BY <1>1 DEF Promise
<1>3. promises' \in SUBSET Promise
  BY <1>2 DEF TransferRuns, FarmInv
<1>4. p.user \in Accounts /\ p.amount \in Nat
  BY <1>1 DEF Promise
<1>5. deposited' \in [Accounts -> Nat] /\ returned' \in [Accounts -> Nat]
  BY <1>4 DEF TransferRuns, FarmInv
<1> QED
  BY <1>3, <1>5 DEF TransferRuns, FarmInv, contractVars

(* Every step keeps the invariant. *)
LEMMA FarmInvStep ==
  ASSUME FarmInv, [Next]_vars
  PROVE  FarmInv'
<1> USE DEF contractVars, historyVars
<1>1. CASE UNCHANGED vars
  BY <1>1 DEF vars, FarmInv
<1>2. CASE Tick
  <2>1. AllPast(stakes, now + 1)
    BY DEF FarmInv, AllPast, Past, Stake
  <2> QED
    BY <1>2, <2>1 DEF Tick, FarmInv
<1>3. ASSUME NEW u \in Accounts, OwnerCall(u)
      PROVE  FarmInv'
  BY <1>3, FarmingAssumption
     DEF OwnerCall, set_reward_rate, set_lock_period, transfer_ownership, FarmInv
<1> QED
  BY <1>1, <1>2, <1>3, UserCallKeepsInv, CallbackKeepsInv, TransferKeepsInv DEF Next

(* The invariant holds in every reachable state. *)
LEMMA FarmInvAlways == Spec => []FarmInv
BY FarmInvInit, FarmInvStep, PTL DEF Spec

-----------------------------------------------------------------------------
(* No number underflows: total_staked, the amount of every stake and every *)
(* amount promised stay naturals through failed and overlapping calls.     *)
THEOREM FarmingTypeCorrect == Spec => []TypeOK
<1>1. FarmInv => TypeOK
  BY DEF FarmInv, AllPast, Past, TypeOK
<1> QED
  BY <1>1, FarmInvAlways, PTL

(* No stake is claimed in the future, so the time since the last claim     *)
(* never underflows, also after a failed claim.                            *)
THEOREM ClaimsNeverAhead == Spec => []ClaimsInThePast
<1>1. FarmInv => ClaimsInThePast
  BY DEF FarmInv, AllPast, Past, ClaimsInThePast
<1> QED
  BY <1>1, FarmInvAlways, PTL

-----------------------------------------------------------------------------
(***************************************************************************)
(* total_staked against the stakes.                                        *)
(***************************************************************************)

(* The amount each account has at stake, and the unstakes among promises.  *)
AmountsOf(map) == [u \in DOMAIN map |-> map[u].amount]

LeavingOf(ps) == {p \in ps : p.kind = "unstake"}

(* The total of the stakes is a sum over a map. *)
LEMMA StakedIsSum == \A map : StakeTotal(map) = SumFunction(AmountsOf(map))
<1> TAKE map
<1> DEFINE S == DOMAIN map
           f == AmountsOf(map)
           step(iter, s) == IF s = {} THEN 0
                            ELSE map[Chosen(s)].amount + iter[s \ {Chosen(s)}]
           P(iter) == iter = [s \in SUBSET S |-> step(iter, s)]
           Q(iter) == iter = [s \in SUBSET S |-> Level(f, iter, s)]
<1>1. StakeTotal(map) = (CHOOSE iter : P(iter))[S]
  BY DEF StakeTotal, MapThenSumSet, MapThenFoldSet, Chosen
<1>2. \A iter : \A s \in SUBSET S : step(iter, s) = Level(f, iter, s)
  BY DEF Chosen, Level, AmountsOf
<1>3. \A iter : [s \in SUBSET S |-> step(iter, s)] = [s \in SUBSET S |-> Level(f, iter, s)]
  <2> HIDE DEF step, f, S
  <2> QED
    BY <1>2
<1>4. \A iter : P(iter) <=> Q(iter)
  BY <1>3
<1>5. FoldOver(f, S) = (CHOOSE iter : Q(iter))
  BY DEF FoldOver
<1> HIDE DEF P, Q
<1>6. (CHOOSE iter : P(iter)) = (CHOOSE iter : Q(iter))
  BY <1>4
<1>7. SumFunction(f) = FoldOver(f, S)[S]
  BY SumIsFold DEF SumFunction, AmountsOf
<1> QED
  BY <1>1, <1>5, <1>6, <1>7

(* What can be summed. *)
Summable ==
  /\ IsFiniteSet(DOMAIN stakes) /\ \A u \in DOMAIN stakes : stakes[u].amount \in Int
  /\ IsFiniteSet(promises) /\ \A p \in promises : p.amount \in Nat

(* A stake that is written or removed changes the total by what it holds.  *)
LEMMA StakedInsert ==
  ASSUME Summable, NEW u, NEW s, s.amount \in Int, stakes' = insert(stakes, u, s)
  PROVE  /\ IsFiniteSet(DOMAIN stakes')
         /\ Staked' = Staked + s.amount - (IF u \in DOMAIN stakes THEN stakes[u].amount ELSE 0)
<1> DEFINE f == AmountsOf(stakes)
           g == AmountsOf(stakes')
           v == s.amount
<1>1. /\ DOMAIN f = DOMAIN stakes
      /\ \A y \in DOMAIN f : f[y] \in Int /\ f[y] = stakes[y].amount
      /\ DOMAIN g = DOMAIN stakes'
      /\ g = [y \in DOMAIN f \cup {u} |-> IF y = u THEN v ELSE f[y]]
      /\ v \in Int
  BY DEF Summable, AmountsOf, insert
<1>2. IsFiniteSet(DOMAIN f)
  BY <1>1 DEF Summable
<1>3. Staked = SumFunction(f) /\ Staked' = SumFunction(g)
  BY StakedIsSum DEF Staked
<1> HIDE DEF f, g, v
<1>4. IsFiniteSet(DOMAIN g)
      /\ SumFunction(g) = SumFunction(f) + v - IF u \in DOMAIN f THEN f[u] ELSE 0
  BY <1>1, <1>2, SumInsert
<1> QED
  BY <1>1, <1>3, <1>4 DEF v

(* The same for a stake that is removed. *)
LEMMA StakedRemove ==
  ASSUME Summable, NEW u \in DOMAIN stakes, stakes' = remove(stakes, u)
  PROVE  /\ IsFiniteSet(DOMAIN stakes')
         /\ Staked' = Staked - stakes[u].amount
<1> DEFINE f == AmountsOf(stakes)
           g == AmountsOf(stakes')
<1>1. /\ DOMAIN f = DOMAIN stakes
      /\ \A y \in DOMAIN f : f[y] \in Int /\ f[y] = stakes[y].amount
      /\ DOMAIN g = DOMAIN stakes'
      /\ g = [y \in DOMAIN f \ {u} |-> f[y]]
  BY DEF Summable, AmountsOf, remove
<1>2. IsFiniteSet(DOMAIN f)
  BY <1>1 DEF Summable
<1>3. Staked = SumFunction(f) /\ Staked' = SumFunction(g)
  BY StakedIsSum DEF Staked
<1> HIDE DEF f, g
<1>4. IsFiniteSet(DOMAIN g) /\ SumFunction(g) = SumFunction(f) - f[u]
  BY <1>1, <1>2, SumRemove
<1> QED
  BY <1>1, <1>3, <1>4

(* A promise that starts or settles changes what is leaving by its amount  *)
(* when it is an unstake, and not at all otherwise.                        *)
LEMMA LeavingAdd ==
  ASSUME NEW ps, IsFiniteSet(ps), \A r \in ps : r.amount \in Nat,
         NEW t, t.amount \in Nat
  PROVE  /\ IsFiniteSet(ps \cup {t})
         /\ TotalAmount(LeavingOf(ps)) \in Int /\ TotalAmount(LeavingOf(ps \cup {t})) \in Int
         /\ t.kind # "unstake" => TotalAmount(LeavingOf(ps \cup {t})) = TotalAmount(LeavingOf(ps))
         /\ TotalAmount(LeavingOf(ps \cup {t})) <= TotalAmount(LeavingOf(ps)) + t.amount
<1>1. IsFiniteSet(ps \cup {t})
  BY FS_AddElement
<1>2. IsFiniteSet(LeavingOf(ps)) /\ \A r \in LeavingOf(ps) : r.amount \in Int
  <2>1. LeavingOf(ps) \in SUBSET ps
    BY DEF LeavingOf
  <2> QED
    BY <2>1, FS_Subset
<1>3. TotalAmount(LeavingOf(ps)) \in Int
  BY <1>2, TotalAmountType
<1>4. CASE t.kind # "unstake" \/ t \in ps
  <2>1. LeavingOf(ps \cup {t}) = LeavingOf(ps)
    BY <1>4 DEF LeavingOf
  <2> QED
    BY <1>1, <1>3, <2>1
<1>5. CASE t.kind = "unstake" /\ t \notin ps
  <2>1. LeavingOf(ps \cup {t}) = LeavingOf(ps) \cup {t} /\ t \notin LeavingOf(ps)
    BY <1>5 DEF LeavingOf
  <2>2. /\ TotalAmount(LeavingOf(ps) \cup {t}) \in Int
        /\ TotalAmount(LeavingOf(ps) \cup {t}) = TotalAmount(LeavingOf(ps)) + t.amount
    <3>1. t.amount \in Int
      OBVIOUS
    <3> QED
      BY <1>2, <2>1, <3>1, TotalAmountAdd
  <2>3. \A i \in Int : i <= i
    OBVIOUS
  <2> QED
    BY <1>1, <1>3, <1>5, <2>1, <2>2, <2>3
<1> QED
  BY <1>4, <1>5

(* The same for a promise that is settled. *)
LEMMA LeavingRemove ==
  ASSUME NEW ps, IsFiniteSet(ps), \A r \in ps : r.amount \in Nat, NEW t \in ps
  PROVE  /\ IsFiniteSet(ps \ {t})
         /\ TotalAmount(LeavingOf(ps)) \in Int /\ TotalAmount(LeavingOf(ps \ {t})) \in Int
         /\ t.kind # "unstake" => TotalAmount(LeavingOf(ps \ {t})) = TotalAmount(LeavingOf(ps))
         /\ t.kind = "unstake" =>
              TotalAmount(LeavingOf(ps)) = TotalAmount(LeavingOf(ps \ {t})) + t.amount
<1>1. IsFiniteSet(ps \ {t})
  BY FS_RemoveElement
<1>2. IsFiniteSet(LeavingOf(ps)) /\ \A r \in LeavingOf(ps) : r.amount \in Int
  <2>1. LeavingOf(ps) \in SUBSET ps
    BY DEF LeavingOf
  <2> QED
    BY <2>1, FS_Subset
<1>3. TotalAmount(LeavingOf(ps)) \in Int
  BY <1>2, TotalAmountType
<1>4. CASE t.kind # "unstake"
  <2>1. LeavingOf(ps \ {t}) = LeavingOf(ps)
    BY <1>4 DEF LeavingOf
  <2> QED
    BY <1>1, <1>3, <1>4, <2>1
<1>5. CASE t.kind = "unstake"
  <2>1. LeavingOf(ps \ {t}) = LeavingOf(ps) \ {t} /\ t \in LeavingOf(ps)
    BY <1>5 DEF LeavingOf
  <2>2. /\ TotalAmount(LeavingOf(ps) \ {t}) \in Int
        /\ TotalAmount(LeavingOf(ps)) = TotalAmount(LeavingOf(ps) \ {t}) + t.amount
    BY <1>2, <2>1, TotalAmountRemove
  <2> QED
    BY <1>1, <1>3, <1>5, <2>1, <2>2
<1> QED
  BY <1>4, <1>5

-----------------------------------------------------------------------------
TotalInv == IsFiniteSet(DOMAIN stakes) /\ IsFiniteSet(promises) /\ TotalNotOverstated

LeavingTotal == TotalAmount(LeavingOf(promises))

(* The property, with its sums written as the lemmas above speak of them.  *)
LEMMA TotalParts ==
  /\ TotalNotOverstated <=> total_staked + LeavingTotal <= Staked
  /\ TotalNotOverstated' <=> total_staked' + LeavingTotal' <= Staked'
<1>1. \A ps : Amount(ps) = TotalAmount(ps)
  BY DEF Amount, TotalAmount
<1> QED
  BY <1>1 DEF TotalNotOverstated, Leaving, LeavingOf, LeavingTotal

(* Everything can be summed in a state of the two invariants.              *)
LEMMA SumsDefined ==
  ASSUME FarmInv, TotalInv
  PROVE  /\ Summable
         /\ Staked \in Int /\ LeavingTotal \in Int /\ total_staked \in Nat
         /\ \A p \in promises : p \in Promise /\ p.amount \in Nat
         /\ \A u \in DOMAIN stakes : stakes[u] \in Stake /\ stakes[u].amount \in Nat
         /\ total_staked + LeavingTotal <= Staked
<1>1. \A p \in promises : p \in Promise /\ p.amount \in Nat
  BY DEF FarmInv, Promise
<1>2. \A u \in DOMAIN stakes : stakes[u] \in Stake /\ stakes[u].amount \in Nat
  BY DEF FarmInv, AllPast, Past, Stake
<1>3. Summable
  BY <1>1, <1>2 DEF Summable, TotalInv
<1>4. Staked \in Int
  <2> DEFINE f == AmountsOf(stakes)
  <2>1. DOMAIN f = DOMAIN stakes /\ \A y \in DOMAIN f : f[y] \in Int
    BY <1>3 DEF Summable, AmountsOf
  <2>2. Staked = SumFunction(f)
    BY StakedIsSum DEF Staked
  <2> HIDE DEF f
  <2> QED
    BY <1>3, <2>1, <2>2, SumType DEF SumFunction, Summable
<1>5. LeavingTotal \in Int
  <2>1. LeavingOf(promises) \in SUBSET promises
    BY DEF LeavingOf
  <2>2. IsFiniteSet(LeavingOf(promises)) /\ \A r \in LeavingOf(promises) : r.amount \in Int
    BY <1>1, <2>1, FS_Subset DEF TotalInv
  <2> QED
    BY <2>2, TotalAmountType DEF LeavingTotal
<1> QED
  BY <1>1, <1>2, <1>3, <1>4, <1>5, TotalParts DEF TotalInv, FarmInv

(* A claim writes the stake back with the amount it had.                   *)
LEMMA SameAmount ==
  ASSUME Summable, NEW u \in DOMAIN stakes, NEW s, s.amount = stakes[u].amount,
         stakes' = insert(stakes, u, s)
  PROVE  IsFiniteSet(DOMAIN stakes') /\ (Staked \in Int => Staked' = Staked)
<1>1. s.amount \in Int
  BY DEF Summable
<1> QED
  BY <1>1, StakedInsert

(* The calls that start transfers. *)
LEMMA UserCallKeepsTotal ==
  ASSUME FarmInv, TotalInv, NEW u \in Accounts, UserCall(u)
  PROVE  TotalInv'
<1> USE DEF contractVars, LeavingTotal
<1>0. /\ Summable /\ IsFiniteSet(promises) /\ \A p \in promises : p.amount \in Nat
      /\ Staked \in Int /\ TotalAmount(LeavingOf(promises)) \in Int /\ total_staked \in Nat
      /\ \A v \in DOMAIN stakes : stakes[v] \in Stake /\ stakes[v].amount \in Nat
      /\ total_staked + TotalAmount(LeavingOf(promises)) <= Staked
      /\ Amounts \subseteq Nat /\ IsFiniteSet(DOMAIN stakes)
  BY SumsDefined, FarmingAssumption DEF TotalInv
<1>1. ASSUME NEW n \in Amounts, stake(u, n)
      PROVE  TotalInv'
  <2> DEFINE t == transfer("stake", u, n)
  <2>1. t.kind = "stake" /\ t.amount \in Nat
    BY <1>0 DEF transfer
  <2>2. promises' = promises \cup {t} /\ stakes' = stakes /\ total_staked' = total_staked
        /\ Staked' = Staked
    BY <1>1 DEF stake, Staked
  <2> HIDE DEF t
  <2>3. IsFiniteSet(promises') /\ LeavingTotal' = LeavingTotal
    BY <1>0, <2>1, <2>2, LeavingAdd
  <2> QED
    BY <1>0, <2>2, <2>3, TotalParts DEF TotalInv
<1>2. ASSUME can_claim(u), stakes' = insert(stakes, u, claimed_stake(u))
      PROVE  IsFiniteSet(DOMAIN stakes') /\ Staked' = Staked
  <2>1. u \in DOMAIN stakes /\ claimed_stake(u).amount = stakes[u].amount
    BY <1>0, <1>2 DEF can_claim, claimed_stake, Stake
  <2> QED
    BY <1>0, <1>2, <2>1, SameAmount
<1>3. ASSUME can_claim(u)
      PROVE  /\ transfer("claim", u, calculate_reward(stakes[u])).kind = "claim"
             /\ transfer("claim", u, calculate_reward(stakes[u])).amount \in Nat
  <2>1. Past(stakes[u], now) /\ now \in Nat /\ reward_rate \in Nat
    BY <1>3 DEF FarmInv, AllPast, can_claim
  <2>2. calculate_reward(stakes[u]) \in Nat
    BY <2>1, RewardNat
  <2> QED
    BY <2>2 DEF transfer
<1>4. ASSUME claim_rewards(u)
      PROVE  TotalInv'
  <2> DEFINE t == transfer("claim", u, calculate_reward(stakes[u]))
  <2>1. t.kind = "claim" /\ t.amount \in Nat
    BY <1>3, <1>4 DEF claim_rewards
  <2>2. promises' = promises \cup {t} /\ total_staked' = total_staked
    BY <1>4 DEF claim_rewards
  <2>3. IsFiniteSet(DOMAIN stakes') /\ Staked' = Staked
    BY <1>2, <1>4 DEF claim_rewards
  <2> HIDE DEF t
  <2>4. IsFiniteSet(promises') /\ LeavingTotal' = LeavingTotal
    BY <1>0, <2>1, <2>2, LeavingAdd
  <2> QED
    BY <1>0, <2>2, <2>3, <2>4, TotalParts DEF TotalInv
<1>5. ASSUME NEW n \in Amounts, unstake(u, n)
      PROVE  TotalInv'
  <2> DEFINE t == transfer("claim", u, calculate_reward(stakes[u]))
             w == transfer("unstake", u, n)
             ps == promises \cup {t}
  <2>1. t.kind = "claim" /\ t.amount \in Nat /\ w.amount = n /\ n \in Nat
    BY <1>0, <1>3, <1>5 DEF unstake, transfer
  <2>2. promises' = ps \cup {w} /\ total_staked' = total_staked - n
    BY <1>5 DEF unstake
  <2>3. IsFiniteSet(DOMAIN stakes') /\ Staked' = Staked
    BY <1>2, <1>5 DEF unstake
  <2> HIDE DEF t, w
  <2>4. IsFiniteSet(ps) /\ TotalAmount(LeavingOf(ps)) = TotalAmount(LeavingOf(promises))
    BY <1>0, <2>1, LeavingAdd
  <2>5. \A r \in ps : r.amount \in Nat
    BY <1>0, <2>1
  <2> HIDE DEF ps
  <2>6. /\ IsFiniteSet(promises') /\ LeavingTotal' \in Int
        /\ LeavingTotal' <= LeavingTotal + n
    BY <2>1, <2>2, <2>4, <2>5, LeavingAdd
  <2> QED
    BY <1>0, <2>1, <2>2, <2>3, <2>6, TotalParts DEF TotalInv
<1> QED
  BY <1>1, <1>4, <1>5 DEF UserCall

(* The callbacks. *)
LEMMA CallbackKeepsTotal ==
  ASSUME FarmInv, TotalInv, NEW p \in promises, Callback(p)
  PROVE  TotalInv'
<1> USE DEF contractVars, LeavingTotal
<1>0. /\ Summable /\ IsFiniteSet(promises) /\ \A r \in promises : r.amount \in Nat
      /\ p.amount \in Nat
      /\ Staked \in Int /\ TotalAmount(LeavingOf(promises)) \in Int /\ total_staked \in Nat
      /\ \A v \in DOMAIN stakes : stakes[v] \in Stake /\ stakes[v].amount \in Nat
      /\ total_staked + TotalAmount(LeavingOf(promises)) <= Staked
      /\ IsFiniteSet(DOMAIN stakes)
  BY SumsDefined DEF TotalInv
<1>1. /\ IsFiniteSet(promises \ {p})
      /\ TotalAmount(LeavingOf(promises \ {p})) \in Int
      /\ p.kind # "unstake" =>
           TotalAmount(LeavingOf(promises \ {p})) = TotalAmount(LeavingOf(promises))
      /\ p.kind = "unstake" =>
           TotalAmount(LeavingOf(promises)) = TotalAmount(LeavingOf(promises \ {p})) + p.amount
  BY <1>0, LeavingRemove
<1>2. promises' = promises \ {p}
  BY DEF Callback, stake_callback, stake_callback_nothing, claim_callback, unstake_callback,
         unstake_callback_panics, unstake_callback_failed, Settled
<1>3. ASSUME UNCHANGED stakes
      PROVE  IsFiniteSet(DOMAIN stakes') /\ Staked' = Staked
  BY <1>0, <1>3 DEF Staked
<1>4. CASE stake_callback(p)
  <2>1. PICK s : /\ s.amount = p.amount + (IF p.user \in DOMAIN stakes
                                          THEN stakes[p.user].amount ELSE 0)
                 /\ stakes' = insert(stakes, p.user, s)
    <3>1. CASE p.user \in DOMAIN stakes
      <4> DEFINE old == stakes[p.user]
                 c == IF calculate_reward(old) > 0 THEN now ELSE old.last_claim
                 s == [old EXCEPT !.amount = old.amount + p.amount, !.last_claim = c,
                                  !.last_update = seconds]
      <4>1. stakes' = insert(stakes, p.user, s)
        BY <1>4, <3>1 DEF stake_callback
      <4>2. s.amount = p.amount + old.amount
        <5>1. old \in Stake
          BY <1>0, <3>1
        <5>2. old.amount \in Nat
          BY <1>0, <3>1
        <5> HIDE DEF old, c
        <5> QED
          BY <1>0, <5>1, <5>2 DEF Stake
      <4> HIDE DEF s
      <4> QED
        BY <3>1, <4>1, <4>2
    <3>2. CASE p.user \notin DOMAIN stakes
      BY <1>0, <1>4, <3>2 DEF stake_callback
    <3> QED
      BY <3>1, <3>2
  <2>2. s.amount \in Int
    BY <1>0, <2>1
  <2>3. IsFiniteSet(DOMAIN stakes') /\ Staked' = Staked + p.amount
    <3>1. IsFiniteSet(DOMAIN stakes') /\ Staked' = Staked + s.amount
            - (IF p.user \in DOMAIN stakes THEN stakes[p.user].amount ELSE 0)
      BY <1>0, <2>1, <2>2, StakedInsert
    <3> QED
      BY <1>0, <2>1, <3>1
  <2>4. p.kind = "stake" /\ total_staked' = total_staked + p.amount
    BY <1>4 DEF stake_callback, Settled
  <2> QED
    BY <1>0, <1>1, <1>2, <2>3, <2>4, TotalParts DEF TotalInv
<1>5. CASE stake_callback_nothing(p)
  BY <1>0, <1>1, <1>2, <1>3, <1>5, TotalParts DEF stake_callback_nothing, Settled, TotalInv
<1>6. CASE claim_callback(p)
  <2>1. IsFiniteSet(DOMAIN stakes') /\ Staked' = Staked
    <3>1. ASSUME p.user \in DOMAIN stakes,
                 stakes' = insert(stakes, p.user,
                   [stakes[p.user] EXCEPT !.last_claim = stakes[p.user].last_update])
          PROVE  IsFiniteSet(DOMAIN stakes') /\ Staked' = Staked
      <4>1. [stakes[p.user] EXCEPT !.last_claim = stakes[p.user].last_update].amount
              = stakes[p.user].amount
        BY <1>0, <3>1 DEF Stake
      <4> QED
        BY <1>0, <3>1, <4>1, SameAmount
    <3> QED
      BY <1>3, <1>6, <3>1 DEF claim_callback
  <2> QED
    BY <1>0, <1>1, <1>2, <1>6, <2>1, TotalParts DEF claim_callback, Settled, TotalInv
<1>7. CASE unstake_callback(p)
  <2>1. /\ p.kind = "unstake" /\ p.user \in DOMAIN stakes /\ total_staked' = total_staked
        /\ stakes[p.user] \in Stake /\ stakes[p.user].amount \in Nat
    BY <1>0, <1>7 DEF unstake_callback, Settled
  <2>2. IsFiniteSet(DOMAIN stakes') /\ Staked' = Staked - p.amount
    <3>1. CASE stakes' = remove(stakes, p.user) /\ stakes[p.user].amount = p.amount
      BY <1>0, <2>1, <3>1, StakedRemove
    <3>2. CASE stakes' = insert(stakes, p.user,
                 [stakes[p.user] EXCEPT !.amount = stakes[p.user].amount - p.amount,
                                        !.last_update = seconds])
      <4> DEFINE s == [stakes[p.user] EXCEPT !.amount = stakes[p.user].amount - p.amount,
                                             !.last_update = seconds]
      <4>1. s.amount = stakes[p.user].amount - p.amount /\ stakes' = insert(stakes, p.user, s)
        BY <2>1, <3>2 DEF Stake
      <4> HIDE DEF s
      <4>2. s.amount \in Int
        BY <1>0, <2>1, <4>1
      <4>3. IsFiniteSet(DOMAIN stakes') /\ Staked' = Staked + s.amount
              - (IF p.user \in DOMAIN stakes THEN stakes[p.user].amount ELSE 0)
        BY <1>0, <4>1, <4>2, StakedInsert
      <4> QED
        BY <1>0, <2>1, <4>1, <4>3
    <3> QED
      BY <1>7, <3>1, <3>2 DEF unstake_callback
  <2> QED
    BY <1>0, <1>1, <1>2, <2>1, <2>2, TotalParts DEF TotalInv
<1>8. CASE unstake_callback_panics(p)
  BY <1>0, <1>1, <1>2, <1>3, <1>8, TotalParts DEF unstake_callback_panics, Settled, TotalInv
<1>9. CASE unstake_callback_failed(p)
  BY <1>0, <1>1, <1>2, <1>3, <1>9, TotalParts DEF unstake_callback_failed, Settled, TotalInv
<1> QED
  BY <1>4, <1>5, <1>6, <1>7, <1>8, <1>9 DEF Callback

(* A transfer that runs leaves what is leaving as it was. *)
LEMMA TransferKeepsTotal ==
  ASSUME FarmInv, TotalInv, NEW p \in promises, NEW ok \in BOOLEAN, TransferRuns(p, ok)
  PROVE  TotalInv'
<1> USE DEF contractVars, LeavingTotal
<1> DEFINE ps == promises \ {p}
           q == [p EXCEPT !.transfer = IF ok THEN "ok" ELSE "failed"]
<1>0. /\ IsFiniteSet(promises) /\ \A r \in promises : r.amount \in Nat
      /\ p \in Promise /\ p.amount \in Nat
      /\ Staked \in Int /\ TotalAmount(LeavingOf(promises)) \in Int /\ total_staked \in Nat
      /\ total_staked + TotalAmount(LeavingOf(promises)) <= Staked
      /\ IsFiniteSet(DOMAIN stakes)
  BY SumsDefined DEF TotalInv
<1>1. q.amount = p.amount /\ q.kind = p.kind
  BY <1>0 DEF Promise
<1>2. /\ promises' = ps \cup {q}
      /\ UNCHANGED <<stakes, total_staked>> /\ Staked' = Staked
  BY DEF TransferRuns, Staked
<1>3. /\ IsFiniteSet(ps) /\ TotalAmount(LeavingOf(ps)) \in Int
      /\ p.kind # "unstake" => TotalAmount(LeavingOf(ps)) = TotalAmount(LeavingOf(promises))
      /\ p.kind = "unstake" =>
           TotalAmount(LeavingOf(promises)) = TotalAmount(LeavingOf(ps)) + p.amount
  BY <1>0, LeavingRemove
<1>4. \A r \in ps : r.amount \in Nat
  BY <1>0
<1> HIDE DEF ps, q
<1>5. /\ IsFiniteSet(ps \cup {q}) /\ TotalAmount(LeavingOf(ps \cup {q})) \in Int
      /\ q.kind # "unstake" => TotalAmount(LeavingOf(ps \cup {q})) = TotalAmount(LeavingOf(ps))
      /\ TotalAmount(LeavingOf(ps \cup {q})) <= TotalAmount(LeavingOf(ps)) + q.amount
  BY <1>0, <1>1, <1>3, <1>4, LeavingAdd
<1> QED
  BY <1>0, <1>1, <1>2, <1>3, <1>5, TotalParts DEF TotalInv

(* Every step keeps the total. *)
LEMMA TotalInvStep ==
  ASSUME FarmInv, TotalInv, [Next]_vars
  PROVE  TotalInv'
<1> USE DEF contractVars
<1>1. ASSUME UNCHANGED <<stakes, promises, total_staked>>
      PROVE  TotalInv'
  BY <1>1, TotalParts DEF TotalInv, LeavingTotal, Staked
<1>2. CASE Tick \/ UNCHANGED vars
  BY <1>1, <1>2 DEF Tick, vars
<1>3. ASSUME NEW u \in Accounts, OwnerCall(u)
      PROVE  TotalInv'
  BY <1>1, <1>3 DEF OwnerCall, set_reward_rate, set_lock_period, transfer_ownership
<1> QED
  BY <1>2, <1>3, UserCallKeepsTotal, CallbackKeepsTotal, TransferKeepsTotal DEF Next

(* Nothing is staked and nothing leaves at the start. *)
LEMMA TotalInvInit == Init => TotalInv
<1> SUFFICES ASSUME Init PROVE TotalInv
  OBVIOUS
<1>1. stakes = [x \in {} |-> 0] /\ promises = {} /\ total_staked = 0
  BY DEF Init, new
<1>2. IsFiniteSet(DOMAIN stakes) /\ IsFiniteSet(promises)
  BY <1>1, FS_EmptySet
<1>3. Staked = 0
  <2>1. DOMAIN AmountsOf(stakes) = {}
    BY <1>1 DEF AmountsOf
  <2> QED
    BY <2>1, StakedIsSum, SumOfNothing DEF Staked, SumFunction
<1>4. LeavingTotal = 0
  BY <1>1, TotalAmountNone DEF LeavingTotal, LeavingOf
<1> QED
  BY <1>1, <1>2, <1>3, <1>4, TotalParts DEF TotalInv

(* total_staked never overstates the stakes, counting the unstakes whose   *)
(* callback has not run: through failed transfers, overlapping unstakes    *)
(* and callbacks that panic.                                               *)
THEOREM TotalBackedByStakes == Spec => []TotalNotOverstated
<1>1. TotalInv => TotalNotOverstated
  BY DEF TotalInv
<1> QED
  BY <1>1, FarmInvAlways, TotalInvInit, TotalInvStep, PTL DEF Spec
=============================================================================
