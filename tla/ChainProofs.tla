------------------------------ MODULE ChainProofs ------------------------------
(***************************************************************************)
(* Proofs about Chain, for any number of callers, transactions, clients    *)
(* and messages and every setting: each part keeps its types and its       *)
(* promises.  A part that does not run stays as it began, so the invariant *)
(* is the conjunction of those of the parts, with no mention of the part   *)
(* that runs.                                                              *)
(***************************************************************************)
EXTENDS Chain, DataTheorems, TLAPS

(* The parts count with the same Cardinality. *)
LEMMA SameCount ==
  \A set : /\ R!Cardinality(set) = Cardinality(set)
           /\ M!Cardinality(set) = Cardinality(set)
           /\ W!Cardinality(set) = Cardinality(set)
BY DEF R!Cardinality, R!IsFiniteSet, M!Cardinality, M!IsFiniteSet, W!Cardinality, W!IsFiniteSet, Cardinality, IsFiniteSet

(***************************************************************************)
(* Senders of one wallet.  The guards of a caller follow from the place it *)
(* has come to, and a nonce that is about to be used was the count of the  *)
(* mined transactions when it was read, which only grows.                  *)
(***************************************************************************)
SenderInv ==
  /\ S!TypeOK /\ S!OnePending
  /\ \A t \in Senders : /\ ts_pc[t] = "idle" => ts_guards[t] = 0
                        /\ ts_pc[t] = "outer" => ts_guards[t] = 1
                        /\ ts_pc[t] = "signing" => ts_nonce[t] <= ts_mined

LEMMA SenderInit == S!Init => SenderInv
<1> SUFFICES ASSUME S!Init PROVE SenderInv
  OBVIOUS
<1>1. ts_adapters = FALSE
  BY DEF S!Init
<1>2. ts_adapters \in BOOLEAN
  BY <1>1
<1> USE ChainNumbers DEF S!Init
<1>3. /\ ts_pc \in [Senders -> {"idle", "outer", "ready", "signing", "waiting"}]
      /\ ts_guards \in [Senders -> 0 .. 2] /\ ts_nonce \in [Senders -> 0 .. MaxMined]
  OBVIOUS
<1>4. ts_writer \in {"idle", "queued", "holding"}
  OBVIOUS
<1>5. ts_mined \in 0 .. MaxMined /\ ts_pool \subseteq 0 .. MaxMined /\ ts_pool \subseteq {ts_mined}
  OBVIOUS
<1>6. \A t \in Senders : ts_pc[t] = "idle" /\ ts_guards[t] = 0
  OBVIOUS
<1>7. QED
  BY <1>3, <1>4, <1>5, <1>6, <1>2 DEF SenderInv, S!TypeOK, S!OnePending

(* A caller is done and gives its guards back. *)
LEMMA SenderLeaves ==
  ASSUME SenderInv, NEW t \in Senders, ts_pc' = [ts_pc EXCEPT ![t] = "idle"], S!release(t),
         ts_pool' \subseteq {ts_mined}, UNCHANGED <<ts_nonce, ts_writer, ts_adapters, ts_mined>>
  PROVE  SenderInv'
<1> USE ChainNumbers DEF SenderInv, S!TypeOK, S!OnePending, S!release
<1>1. ts_pc' \in [Senders -> {"idle", "outer", "ready", "signing", "waiting"}] /\ ts_guards' \in [Senders -> 0 .. 2]
  OBVIOUS
<1>2. ts_pool' \subseteq 0 .. MaxMined
  OBVIOUS
<1>3. \A u \in Senders : /\ ts_pc'[u] = "idle" => ts_guards'[u] = 0
                         /\ ts_pc'[u] = "outer" => ts_guards'[u] = 1
                         /\ ts_pc'[u] = "signing" => ts_nonce[u] <= ts_mined
  OBVIOUS
<1>4. QED
  BY <1>1, <1>2, <1>3

LEMMA SenderStep == SenderInv /\ [S!Next]_senderVars => SenderInv'
<1> SUFFICES ASSUME SenderInv, [S!Next]_senderVars
             PROVE  SenderInv'
  OBVIOUS
<1>1. ASSUME NEW t \in Senders, S!submit(t) PROVE SenderInv'
  <2>1. ts_nonce[t] \in Int /\ ts_mined \in Int /\ ts_nonce[t] <= ts_mined /\ ts_pool \subseteq {ts_mined}
    BY <1>1 DEF S!submit, S!moves, SenderInv, S!TypeOK, S!OnePending
  <2>2. ts_pool' = ts_pool \/ (ts_nonce[t] >= ts_mined /\ ts_pool' = ts_pool \cup {ts_nonce[t]})
    BY <1>1 DEF S!submit
  <2>3. ts_nonce[t] >= ts_mined => ts_nonce[t] = ts_mined
    BY <2>1
  <2>4. ts_pool' \subseteq {ts_mined}
    BY <2>1, <2>2, <2>3
  <2>5. QED
    BY <1>1, <2>4, SenderLeaves DEF S!submit, S!moves
<1>2. ASSUME NEW t \in Senders, S!fail(t) \/ S!wait_ends(t) PROVE SenderInv'
  <2>1. ts_pool' \subseteq {ts_mined}
    BY <1>2 DEF S!fail, S!wait_ends, S!chainVars, SenderInv, S!OnePending
  <2>2. QED
    BY <1>2, <2>1, SenderLeaves DEF S!fail, S!wait_ends, S!moves, S!chainVars
<1>3. CASE S!add_adapter \/ S!refresh_adapters
  <2>1. ts_adapters' = TRUE \/ ts_adapters' = FALSE
    BY <1>3 DEF S!add_adapter, S!refresh_adapters
  <2>2. ts_adapters' \in BOOLEAN
    BY <2>1
  <2>3. UNCHANGED <<ts_pc, ts_guards, ts_nonce, ts_writer, ts_mined, ts_pool>>
    BY <1>3 DEF S!add_adapter, S!refresh_adapters, S!chainVars
  <2>4. QED
    BY <2>2, <2>3 DEF SenderInv, S!TypeOK, S!OnePending
<1> USE ChainNumbers DEF SenderInv, S!TypeOK, S!OnePending, S!chainVars, S!moves, S!read
<1>4. CASE UNCHANGED senderVars
  BY <1>4 DEF senderVars
<1>5. ASSUME NEW t \in Senders,
             S!send_transaction(t) \/ S!approve_token(t) \/ S!transfer_token(t) \/ S!swap_tokens(t)
               \/ S!wait_for_transaction(t) \/ S!get_wallet_balances(t)
      PROVE  SenderInv'
  <2>1. PICK pc \in {"ready", "outer", "waiting"} : S!takes_guard(t, pc)
    BY <1>5 DEF S!send_transaction, S!approve_token, S!transfer_token, S!swap_tokens,
                S!wait_for_transaction, S!get_wallet_balances
  <2>2. QED
    BY <2>1 DEF S!takes_guard
<1>6. ASSUME NEW t \in Senders, S!nested_send(t) PROVE SenderInv'
  BY <1>6 DEF S!nested_send
<1>7. ASSUME NEW t \in Senders, S!integration_send(t) PROVE SenderInv'
  BY <1>7 DEF S!integration_send
<1>8. ASSUME NEW t \in Senders, S!fetch_nonce(t) PROVE SenderInv'
  BY <1>8 DEF S!fetch_nonce, S!get_transaction_count
<1>9. CASE S!register_chain \/ S!write_granted \/ S!write_done
  <2>1. ts_writer' \in {"idle", "queued", "holding"}
    BY <1>9 DEF S!register_chain, S!write_granted, S!write_done
  <2>2. UNCHANGED <<ts_pc, ts_guards, ts_nonce, ts_adapters, ts_mined, ts_pool>>
    BY <1>9 DEF S!register_chain, S!write_granted, S!write_done
  <2>3. QED
    BY <2>1, <2>2
<1>10. CASE S!mine
  BY <1>10 DEF S!mine
<1>11. QED
  BY <1>4, <1>5, <1>6, <1>7, <1>8, <1>1, <1>2, <1>9, <1>3, <1>10 DEF S!Next

(***************************************************************************)
(* A send with retries.  An attempt leaves one transaction at most, takes  *)
(* one number at most from the nonce manager, and counts as a try unless   *)
(* it is the one under way or the one that succeeded.                      *)
(***************************************************************************)
Copies == Cardinality(rs_pool) + rs_mined
Good == IF rs_pc = "sent" \/ rs_result = "ok" THEN 1 ELSE 0

RetriedInv ==
  /\ R!retriedTypeOK /\ R!AnswerIsTrue
  /\ IsFiniteSet(rs_pool)
  /\ Copies <= rs_lost + Good /\ Copies <= rs_tries + Good /\ rs_next <= rs_tries + Good
  /\ rs_tries + Good <= MaxRetries
  /\ rs_pc # "done" => rs_result = "none" /\ rs_tries < MaxRetries
  /\ rs_pc = "done" => rs_result # "none"
  /\ rs_pc = "sent" => rs_mode = "send" /\ rs_nonce <= rs_tries

LEMMA RetriedInit == R!retriedInit => RetriedInv
<1> SUFFICES ASSUME R!retriedInit PROVE RetriedInv
  OBVIOUS
<1> USE ChainNumbers DEF R!retriedInit
<1>1. IsFiniteSet(rs_pool) /\ Cardinality(rs_pool) = 0
  BY FS_EmptySet
<1>2. R!retriedTypeOK
  BY DEF R!retriedTypeOK, R!Nonces
<1>3. R!AnswerIsTrue
  BY DEF R!AnswerIsTrue
<1>4. QED
  BY <1>1, <1>2, <1>3 DEF RetriedInv, Copies, Good

(* The nonce of an attempt is not above the number of tries. *)
LEMMA NonceToUse ==
  ASSUME RetriedInv, rs_pc = "attempt"
  PROVE  /\ R!nonce_to_use \in Nat /\ R!nonce_to_use <= rs_tries
         /\ rs_tries \in Nat /\ rs_tries + 1 <= MaxRetries /\ Good = 0 /\ Cardinality(rs_pool) \in Nat
BY FS_CardinalityType, ChainNumbers DEF RetriedInv, R!retriedTypeOK, R!Nonces, R!nonce_to_use, Copies, Good

(* What the node makes of the pool when it takes an attempt in. *)
LEMMA PoolWith ==
  ASSUME RetriedInv, NEW n \in R!Nonces
  PROVE  /\ R!pool_with(n) \subseteq R!Nonces \X Nat /\ R!pool_with(n) # {}
         /\ IsFiniteSet(R!pool_with(n)) /\ Cardinality(R!pool_with(n)) <= Cardinality(rs_pool) + 1
         /\ Cardinality(R!pool_with(n)) \in Nat /\ Cardinality(rs_pool) \in Nat
<1> DEFINE kept == {t \in rs_pool : t[1] # n}
<1>1. rs_pool \subseteq R!Nonces \X Nat /\ IsFiniteSet(rs_pool) /\ rs_gas \in Nat
  BY DEF RetriedInv, R!retriedTypeOK
<1>2. IsFiniteSet(kept) /\ Cardinality(kept) <= Cardinality(rs_pool)
  BY <1>1, FS_Subset
<1>3. IsFiniteSet(kept \cup {<<n, rs_gas>>}) /\ Cardinality(kept \cup {<<n, rs_gas>>}) <= Cardinality(kept) + 1
  <2>1. /\ IsFiniteSet(kept \cup {<<n, rs_gas>>})
        /\ \/ Cardinality(kept \cup {<<n, rs_gas>>}) = Cardinality(kept)
           \/ Cardinality(kept \cup {<<n, rs_gas>>}) = Cardinality(kept) + 1
    BY <1>2, FS_AddElement
  <2>2. Cardinality(kept) \in Nat
    BY <1>2, FS_CardinalityType
  <2> HIDE DEF kept
  <2> QED
    BY <2>1, <2>2
<1>4. <<n, rs_gas>> \in R!Nonces \X Nat
  BY <1>1
<1>5. QED
  BY <1>1, <1>2, <1>3, <1>4, FS_CardinalityType DEF R!pool_with

(* A failed attempt ends the call or is followed by another one. *)
LEMMA FailedAttempt ==
  ASSUME RetriedInv, rs_pc \in {"attempt", "sent"}, NEW m, R!failed(m)
  PROVE  /\ rs_tries' = rs_tries + 1 /\ rs_gas' \in Nat
         /\ \/ rs_pc' = "done" /\ rs_result' = "err"
            \/ rs_pc' = "attempt" /\ rs_result' = "none" /\ rs_tries' < MaxRetries
         /\ Good' = 0
<1>1. rs_tries \in Nat /\ rs_gas \in Nat /\ rs_result = "none"
  BY ChainNumbers DEF RetriedInv, R!retriedTypeOK
<1>2. rs_tries' = rs_tries + 1
  BY DEF R!failed
<1>3. \A class : R!adjust_gas_for_retry(class, rs_gas) \in Nat
  BY <1>1 DEF R!adjust_gas_for_retry
<1>4. rs_gas' \in Nat
  BY <1>1, <1>3 DEF R!failed
<1>5. \/ rs_pc' = "done" /\ rs_result' = "err"
      \/ rs_pc' = "attempt" /\ rs_result' = "none" /\ rs_tries' < MaxRetries
  BY <1>1, ChainNumbers DEF R!failed, R!is_last
<1>6. QED
  BY <1>2, <1>4, <1>5 DEF Good

LEMMA RetriedStep == RetriedInv /\ [R!retriedNext]_retriedVars => RetriedInv'
<1> SUFFICES ASSUME RetriedInv, [R!retriedNext]_retriedVars
             PROVE  RetriedInv'
  OBVIOUS
<1>0. MaxRetries \in Nat /\ R!retriedTypeOK /\ IsFiniteSet(rs_pool) /\ Cardinality(rs_pool) \in Nat
  BY FS_CardinalityType, ChainNumbers DEF RetriedInv
<1>1. CASE UNCHANGED retriedVars
  BY <1>1 DEF retriedVars, RetriedInv, R!retriedTypeOK, R!AnswerIsTrue, Copies, Good
<1>2. CASE R!start
  BY <1>2 DEF R!start, RetriedInv, R!retriedTypeOK, R!AnswerIsTrue, Copies, Good
<1>3. ASSUME R!submit \/ R!submit_lost
      PROVE  RetriedInv'
  <2> DEFINE n == R!nonce_to_use
  <2>1. rs_pc = "attempt" /\ rs_result = "none"
    BY <1>3 DEF R!submit, R!submit_lost, RetriedInv
  <2>2. n \in R!Nonces /\ n <= rs_tries
    BY <1>0, <2>1, NonceToUse DEF R!Nonces
  <2>3. rs_nonce' = n /\ rs_pool' = R!pool_with(n) /\ rs_mode' = rs_mode /\ rs_mined' = rs_mined
    BY <1>3 DEF R!submit, R!submit_lost, R!takes_nonce
  <2>4. rs_next' \in Nat /\ rs_next' <= rs_tries + 1
    BY <1>0, <1>3, <2>1, NonceToUse DEF R!submit, R!submit_lost, R!takes_nonce, R!retriedTypeOK, R!Nonces, RetriedInv
  <2> HIDE DEF n
  <2>5. rs_pool' \subseteq R!Nonces \X Nat /\ rs_pool' # {} /\ IsFiniteSet(rs_pool') /\ Cardinality(rs_pool') \in Nat
        /\ Cardinality(rs_pool') <= Cardinality(rs_pool) + 1
    BY <2>2, <2>3, PoolWith
  <2>6. Copies' \in Nat /\ Copies' <= rs_lost + 1 /\ Copies' <= rs_tries + 1 /\ rs_lost \in Nat /\ rs_mined \in Nat
        /\ rs_tries \in Nat /\ rs_tries + 1 <= MaxRetries
    BY <1>0, <2>1, <2>3, <2>5, NonceToUse DEF Copies, RetriedInv, R!retriedTypeOK, R!Nonces
  <2>7. rs_next' \in R!Nonces
    BY <1>0, <2>4, <2>6 DEF R!Nonces
  <2>8. CASE R!submit
    <3>1. \/ rs_mode = "swap" /\ rs_pc' = "done" /\ rs_result' = "ok"
          \/ rs_mode = "send" /\ rs_pc' = "sent" /\ rs_result' = "none"
      BY <2>1, <2>8 DEF R!submit, R!answered, RetriedInv, R!retriedTypeOK
    <3>2. UNCHANGED <<rs_tries, rs_gas, rs_lost>>
      BY <2>8 DEF R!submit, R!answered
    <3>3. R!retriedTypeOK'
      BY <1>0, <2>2, <2>3, <2>5, <2>7, <3>1, <3>2 DEF R!retriedTypeOK
    <3>4. R!AnswerIsTrue'
      BY <2>3, <2>5, <3>1 DEF R!AnswerIsTrue
    <3>5. Good' = 1
      BY <3>1 DEF Good
    <3>6. QED
      BY <2>1, <2>2, <2>3, <2>4, <2>5, <2>6, <3>1, <3>2, <3>3, <3>4, <3>5 DEF RetriedInv
  <2>9. CASE R!submit_lost
    <3>1. rs_lost' = rs_lost + 1 /\ R!failed({"connection"})
      BY <2>9 DEF R!submit_lost
    <3>2. /\ rs_tries' = rs_tries + 1 /\ rs_gas' \in Nat /\ Good' = 0
          /\ \/ rs_pc' = "done" /\ rs_result' = "err"
             \/ rs_pc' = "attempt" /\ rs_result' = "none" /\ rs_tries' < MaxRetries
      BY <2>1, <3>1, FailedAttempt
    <3>3. R!retriedTypeOK'
      BY <1>0, <2>2, <2>3, <2>5, <2>6, <2>7, <3>1, <3>2 DEF R!retriedTypeOK
    <3>4. R!AnswerIsTrue'
      BY <2>6, <3>1, <3>2 DEF R!AnswerIsTrue
    <3>5. QED
      BY <2>4, <2>5, <2>6, <3>1, <3>2, <3>3, <3>4 DEF RetriedInv
  <2>10. QED
    BY <1>3, <2>8, <2>9
<1>4. ASSUME NEW m \in R!Messages, R!submit_refused(m)
      PROVE  RetriedInv'
  <2>1. rs_pc = "attempt" /\ R!failed(m)
    BY <1>4 DEF R!submit_refused
  <2>2. /\ rs_tries' = rs_tries + 1 /\ rs_gas' \in Nat /\ Good' = 0
        /\ \/ rs_pc' = "done" /\ rs_result' = "err"
           \/ rs_pc' = "attempt" /\ rs_result' = "none" /\ rs_tries' < MaxRetries
    BY <2>1, FailedAttempt
  <2>3. UNCHANGED <<rs_mode, rs_pool, rs_mined, rs_lost>> /\ rs_nonce' = R!nonce_to_use
    BY <1>4 DEF R!submit_refused
  <2>4. rs_next' \in {rs_next, rs_mined, rs_next + 1}
    BY <1>4 DEF R!submit_refused
  <2>5. /\ rs_mined \in Nat /\ rs_next \in Nat /\ rs_tries \in Nat /\ rs_lost \in Nat
        /\ rs_mined <= rs_tries /\ rs_next <= rs_tries /\ Copies <= rs_lost /\ Copies <= rs_tries
        /\ R!nonce_to_use \in Nat /\ R!nonce_to_use <= rs_tries /\ rs_tries + 1 <= MaxRetries
    BY <1>0, <2>1, NonceToUse DEF RetriedInv, R!retriedTypeOK, R!Nonces, Copies
  <2>6. rs_nonce' \in R!Nonces /\ rs_next' \in R!Nonces /\ rs_next' <= rs_tries'
    BY <1>0, <2>2, <2>3, <2>4, <2>5 DEF R!Nonces
  <2>7. R!retriedTypeOK'
    BY <1>0, <2>2, <2>3, <2>5, <2>6 DEF R!retriedTypeOK
  <2>8. Copies' = Copies /\ Copies = Cardinality(rs_pool) + rs_mined
    BY <2>3 DEF Copies
  <2>9. rs_lost = 0 => rs_mined = 0 /\ rs_pool = {}
    <3>1. ASSUME rs_lost = 0 PROVE rs_mined = 0 /\ Cardinality(rs_pool) = 0
      BY <1>0, <2>5, <2>8, <3>1
    <3>2. QED
      BY <1>0, <3>1, FS_EmptySet
  <2>10. R!AnswerIsTrue'
    BY <2>2, <2>3, <2>9 DEF R!AnswerIsTrue
  <2>11. QED
    BY <1>0, <2>2, <2>3, <2>5, <2>6, <2>7, <2>8, <2>10 DEF RetriedInv
<1>5. CASE R!receipt
  <2>1. rs_pc = "sent" /\ rs_mode = "send" /\ rs_nonce < rs_mined /\ rs_pc' = "done" /\ rs_result' = "ok"
    BY <1>5 DEF R!receipt, R!answered, RetriedInv
  <2>2. UNCHANGED <<rs_tries, rs_gas, rs_mode, rs_nonce, rs_pool, rs_mined, rs_lost>>
    BY <1>5 DEF R!receipt, R!answered
  <2>3. rs_next' \in {rs_next, rs_nonce + 1}
    BY <1>5 DEF R!receipt
  <2>4. Good = 1 /\ Good' = 1 /\ Copies' = Copies
    BY <2>1, <2>2 DEF Good, Copies
  <2>5. rs_next' \in Nat /\ rs_next' <= rs_tries + 1 /\ rs_tries \in Nat /\ rs_tries + 1 <= MaxRetries
    BY <1>0, <2>1, <2>3, <2>4 DEF RetriedInv, R!retriedTypeOK, R!Nonces
  <2>6. rs_next' \in R!Nonces
    BY <1>0, <2>5 DEF R!Nonces
  <2>7. R!retriedTypeOK'
    BY <1>0, <2>1, <2>2, <2>6 DEF R!retriedTypeOK
  <2>8. R!AnswerIsTrue'
    BY <1>0, <2>1, <2>2 DEF R!AnswerIsTrue, R!retriedTypeOK, R!Nonces
  <2>9. QED
    BY <2>1, <2>2, <2>4, <2>5, <2>7, <2>8 DEF RetriedInv
<1>6. ASSUME NEW m \in R!Messages, R!receipt_lost(m)
      PROVE  RetriedInv'
  <2>1. rs_pc = "sent" /\ R!failed(m)
    BY <1>6 DEF R!receipt_lost
  <2>2. /\ rs_tries' = rs_tries + 1 /\ rs_gas' \in Nat /\ Good' = 0
        /\ \/ rs_pc' = "done" /\ rs_result' = "err"
           \/ rs_pc' = "attempt" /\ rs_result' = "none" /\ rs_tries' < MaxRetries
    BY <2>1, FailedAttempt
  <2>3. rs_lost' = rs_lost + 1 /\ UNCHANGED <<rs_mode, rs_nonce, rs_next, rs_pool, rs_mined>>
    BY <1>6 DEF R!receipt_lost
  <2>4. Good = 1 /\ Copies' = Copies
    BY <2>1, <2>3 DEF Good, Copies
  <2>5. rs_lost \in Nat /\ rs_tries \in Nat /\ rs_tries + 1 <= MaxRetries
    BY <1>0, <2>4 DEF RetriedInv, R!retriedTypeOK
  <2>6. R!retriedTypeOK'
    BY <1>0, <2>2, <2>3, <2>5 DEF R!retriedTypeOK
  <2>7. R!AnswerIsTrue'
    BY <2>2, <2>3, <2>5 DEF R!AnswerIsTrue
  <2>8. QED
    BY <2>2, <2>3, <2>4, <2>5, <2>6, <2>7 DEF RetriedInv
<1>7. CASE R!mine
  <2>1. PICK t \in rs_pool : t[1] = rs_mined /\ rs_pool' = rs_pool \ {t}
    BY <1>7 DEF R!mine
  <2>2. rs_mined' = rs_mined + 1 /\ UNCHANGED <<rs_pc, rs_mode, rs_tries, rs_gas, rs_nonce, rs_next, rs_lost, rs_result>>
    BY <1>7 DEF R!mine
  <2>3. IsFiniteSet(rs_pool') /\ Cardinality(rs_pool') = Cardinality(rs_pool) - 1 /\ rs_pool' \subseteq rs_pool
        /\ Cardinality(rs_pool') \in Nat
    BY <1>0, <2>1, FS_RemoveElement, FS_CardinalityType
  <2>4. rs_mined \in Nat /\ Good \in 0 .. 1 /\ Good' = Good /\ Copies' = Copies /\ Copies <= MaxRetries
    BY <1>0, <2>2, <2>3 DEF RetriedInv, R!retriedTypeOK, R!Nonces, Good, Copies
  <2>5. rs_mined' \in R!Nonces
    BY <1>0, <2>2, <2>3, <2>4 DEF R!Nonces, Copies
  <2>6. R!retriedTypeOK'
    BY <1>0, <2>2, <2>3, <2>5 DEF R!retriedTypeOK
  <2>7. R!AnswerIsTrue'
    BY <1>0, <2>1, <2>2, <2>4 DEF RetriedInv, R!AnswerIsTrue, R!retriedTypeOK, R!Nonces
  <2>8. QED
    BY <2>2, <2>3, <2>4, <2>6, <2>7 DEF RetriedInv
<1>8. QED
  BY <1>1, <1>2, <1>3, <1>4, <1>5, <1>6, <1>7 DEF R!retriedNext, R!finished, R!retriedVars, retriedVars

(***************************************************************************)
(* Calls of the adapters.  Only Base keeps the wallet it is given, and has *)
(* bound it to its chain; the gas of its swaps is the limit, or that of a  *)
(* plain transfer.                                                         *)
(***************************************************************************)
DexInv ==
  /\ D!TypeOK /\ D!SignedForItsChain /\ D!DoneMeansMined /\ D!BaseNeedsALimit
  /\ da_self = "Base" /\ da_wallet # 0 => da_wallet = D!chain_id("Base")
  /\ da_self = "Base" /\ da_tx.op \in D!Swaps => da_tx.gas = D!base_gas(da_tx.limit)

LEMMA DexInit == D!Init => DexInv
<1> SUFFICES ASSUME D!Init PROVE DexInv
  OBVIOUS
<1>1. D!NoTx \in [op : D!Ops \cup {"none"}, signed_for : Nat, gas : Nat, limit : Nat] /\ D!NoTx.op = "none"
  BY DEF D!NoTx
<1>2. QED
  BY <1>1 DEF D!Init, DexInv, D!TypeOK, D!SignedForItsChain, D!DoneMeansMined, D!BaseNeedsALimit, D!Swaps

(* The ids of the chains. *)
LEMMA ChainIds ==
  /\ \A a \in D!Adapters : D!chain_id(a) \in Nat
  /\ D!chain_id("Ethereum") = D!ethereum.chain_id
  /\ D!chain_id("BSC") = D!bsc.chain_id
  /\ D!chain_id("Avalanche") = D!avalanche.chain_id
  /\ D!chain_id("Monad") = D!monad.chain_id
  /\ D!chain_id("Base") = D!base.chain_id
  /\ D!chain_id("EVM") = D!get_wallet_with_chain_id
BY DEF D!chain_id, D!Adapters, D!ethereum, D!bsc, D!avalanche, D!monad, D!base, D!config, D!get_wallet_with_chain_id

(* A call that is signed for the chain of the adapter. *)
LEMMA DexCall ==
  ASSUME DexInv, NEW a \in D!Adapters, NEW op \in D!Ops, NEW id, NEW limit \in Nat, NEW gas \in Nat, NEW readable,
         D!call(a, op, id, limit, gas, readable),
         da_self = a => da_wallet = 0 \/ id = D!chain_id(a),
         a = "Base" /\ op \in D!Swaps => gas = D!base_gas(limit)
  PROVE  DexInv'
<1>1. da_self = a /\ UNCHANGED <<da_self, da_wallet>>
  BY DEF D!call, D!submits, D!refused
<1>2. CASE D!refused
  <2>1. D!NoTx \in [op : D!Ops \cup {"none"}, signed_for : Nat, gas : Nat, limit : Nat] /\ D!NoTx.op = "none"
    BY DEF D!NoTx
  <2>2. QED
    BY <1>2, <2>1 DEF D!refused, DexInv, D!TypeOK, D!SignedForItsChain, D!DoneMeansMined, D!BaseNeedsALimit, D!Swaps
<1>3. CASE da_wallet # 0 /\ D!submits(op, id, gas, limit)
  <2>1. id = D!chain_id(a) /\ id \in Nat
    BY <1>1, <1>3, ChainIds
  <2>2. /\ da_answer' = "waiting" /\ da_chain' = "pending"
        /\ da_tx' = [op |-> op, signed_for |-> id, gas |-> gas, limit |-> limit]
    BY <1>3 DEF D!submits
  <2>3. da_tx' \in [op : D!Ops \cup {"none"}, signed_for : Nat, gas : Nat, limit : Nat]
    BY <2>1, <2>2
  <2>4. da_tx'.op = op /\ da_tx'.signed_for = id /\ da_tx'.gas = gas /\ da_tx'.limit = limit
    BY <2>2
  <2>5. D!TypeOK'
    BY <1>1, <2>2, <2>3 DEF DexInv, D!TypeOK
  <2>6. QED
    BY <1>1, <2>1, <2>2, <2>4, <2>5 DEF DexInv, D!SignedForItsChain, D!DoneMeansMined, D!BaseNeedsALimit
<1>4. QED
  BY <1>2, <1>3 DEF D!call

LEMMA DexStep == DexInv /\ [D!Next]_dexVars => DexInv'
<1> SUFFICES ASSUME DexInv, [D!Next]_dexVars
             PROVE  DexInv'
  OBVIOUS
<1>0. /\ SwapGas \in Nat /\ 0 \in Nat /\ \A limit \in {0, SwapGas} : limit \in Nat
      /\ \A limit \in {0, SwapGas} : D!estimated(limit) \in Nat /\ D!base_gas(limit) \in Nat
  BY ChainNumbers DEF D!estimated, D!base_gas, D!base
<1>1. CASE UNCHANGED dexVars
  BY <1>1 DEF dexVars, DexInv, D!TypeOK, D!SignedForItsChain, D!DoneMeansMined, D!BaseNeedsALimit
<1>2. ASSUME NEW id \in WalletIds, D!set_wallet(id)
      PROVE  DexInv'
  <2>1. da_wallet' \in Nat /\ (da_self = "Base" => da_wallet' = D!chain_id("Base"))
    BY <1>2, ChainNumbers, ChainIds DEF D!set_wallet, D!base_wallet, D!base
  <2>2. QED
    BY <1>2, <2>1 DEF D!set_wallet, DexInv, D!TypeOK, D!SignedForItsChain, D!DoneMeansMined, D!BaseNeedsALimit
<1>3. ASSUME NEW readable \in BOOLEAN, D!approve_token(readable)
      PROVE  DexInv'
  <2>1. da_self \in D!Adapters /\ "approve" \in D!Ops /\ "approve" \notin D!Swaps
    BY DEF DexInv, D!TypeOK, D!Ops, D!Swaps
  <2>2. da_wallet = 0 \/ (IF da_self = "Base" THEN da_wallet ELSE D!chain_id(da_self)) = D!chain_id(da_self)
    BY DEF DexInv
  <2>3. QED
    BY <1>0, <1>3, <2>1, <2>2, DexCall DEF D!approve_token
<1>4. ASSUME NEW readable \in BOOLEAN, NEW limit \in {0, SwapGas}, NEW op \in D!Swaps,
             \/ D!ethereum_swaps(op, limit, readable) \/ D!bsc_swaps(op, limit, readable)
             \/ D!avalanche_swaps(op, limit, readable) \/ D!monad_swaps(op, limit, readable)
      PROVE  DexInv'
  <2>1. PICK a \in {"Ethereum", "BSC", "Avalanche", "Monad"} :
          D!call(a, op, D!chain_id(a), limit, D!estimated(limit), readable)
    BY <1>4, ChainIds DEF D!ethereum_swaps, D!bsc_swaps, D!avalanche_swaps, D!monad_swaps
  <2>2. a \in D!Adapters /\ op \in D!Ops /\ a # "Base"
    BY DEF D!Adapters, D!Ops, D!Swaps
  <2>3. QED
    BY <1>0, <2>1, <2>2, DexCall
<1>5. ASSUME NEW readable \in BOOLEAN, NEW limit \in {0, SwapGas}, NEW op \in D!Swaps, D!base_swaps(op, limit, readable)
      PROVE  DexInv'
  <2>1. CASE D!base_path_panics(readable)
    <3>1. /\ da_answer' = "panic" /\ da_tx' = D!NoTx /\ da_chain' = "nothing" /\ UNCHANGED <<da_self, da_wallet>>
      BY <1>5, <2>1 DEF D!base_swaps
    <3>2. D!NoTx \in [op : D!Ops \cup {"none"}, signed_for : Nat, gas : Nat, limit : Nat] /\ D!NoTx.op = "none"
      BY DEF D!NoTx
    <3>3. QED
      BY <3>1, <3>2 DEF DexInv, D!TypeOK, D!SignedForItsChain, D!DoneMeansMined, D!BaseNeedsALimit, D!Swaps
  <2>2. CASE ~D!base_path_panics(readable)
    <3>1. D!call("Base", op, da_wallet, limit, D!base_gas(limit), readable)
      BY <1>5, <2>2 DEF D!base_swaps
    <3>2. "Base" \in D!Adapters /\ op \in D!Ops
      BY DEF D!Adapters, D!Ops, D!Swaps
    <3>3. da_self = "Base" => da_wallet = 0 \/ da_wallet = D!chain_id("Base")
      BY DEF DexInv
    <3>4. QED
      BY <1>0, <3>1, <3>2, <3>3, DexCall
  <2>3. QED
    BY <2>1, <2>2
<1>6. ASSUME NEW readable \in BOOLEAN, NEW limit \in {0, SwapGas},
             D!swap_exact_eth_for_tokens(limit, readable) \/ D!swap_exact_tokens_for_eth(limit, readable)
      PROVE  DexInv'
  <2>1. PICK op \in D!Swaps : D!call("EVM", op, D!chain_id("EVM"), limit, D!estimated(limit), readable)
    BY <1>6, ChainIds DEF D!swap_exact_eth_for_tokens, D!swap_exact_tokens_for_eth, D!Swaps
  <2>2. "EVM" \in D!Adapters /\ op \in D!Ops
    BY DEF D!Adapters, D!Ops, D!Swaps
  <2>3. QED
    BY <1>0, <2>1, <2>2, DexCall
<1>7. ASSUME NEW readable \in BOOLEAN, NEW op \in {"send", "approve_retried"},
             \/ D!ethereum_sends(op, readable) \/ D!bsc_sends(op, readable) \/ D!avalanche_sends(op, readable)
             \/ D!monad_sends(op, readable) \/ D!base_sends(op, readable)
      PROVE  DexInv'
  <2>1. PICK a \in {"Ethereum", "BSC", "Avalanche", "Monad", "Base"} :
          D!call(a, op, D!chain_id(a), 0, SwapGas, readable)
    BY <1>7, ChainIds DEF D!ethereum_sends, D!bsc_sends, D!avalanche_sends, D!monad_sends, D!base_sends
  <2>2. a \in D!Adapters /\ op \in D!Ops /\ op \notin D!Swaps
    BY DEF D!Adapters, D!Ops, D!Swaps
  <2>3. QED
    BY <1>0, <2>1, <2>2, DexCall
<1>8. ASSUME NEW o \in {"executed", "reverted", "dropped"}, D!mine(o)
      PROVE  DexInv'
  <2>1. da_chain = "pending" /\ da_chain' = o /\ UNCHANGED <<da_self, da_wallet, da_tx, da_answer>>
        /\ (o = "executed" => da_tx.gas >= SwapGas)
    BY <1>8 DEF D!mine
  <2>2. da_answer # "ok"
    BY <2>1 DEF DexInv, D!DoneMeansMined
  <2>3. ASSUME o = "executed", da_self = "Base", da_tx.op \in D!Swaps
        PROVE  da_tx.limit >= SwapGas
    <3>1. da_tx.gas = (IF da_tx.limit = 0 THEN 21000 ELSE da_tx.limit)
      BY <2>3 DEF DexInv, D!base_gas, D!base
    <3>2. da_tx.limit \in Nat
      BY DEF DexInv, D!TypeOK
    <3>3. QED
      BY <2>1, <2>3, <3>1, <3>2, ChainNumbers
  <2>4. QED
    BY <2>1, <2>2, <2>3 DEF DexInv, D!TypeOK, D!SignedForItsChain, D!DoneMeansMined, D!BaseNeedsALimit
<1>9. CASE D!await_receipt
  <2>1. UNCHANGED <<da_self, da_wallet, da_tx, da_chain>>
    BY <1>9 DEF D!await_receipt
  <2>2. \/ da_answer' = "ok" /\ da_chain \in {"executed", "reverted"}
        \/ da_answer' \in {"timeout", "error"}
    BY <1>9 DEF D!await_receipt, D!answered, D!unanswered
  <2>3. QED
    BY <2>1, <2>2 DEF DexInv, D!TypeOK, D!SignedForItsChain, D!DoneMeansMined, D!BaseNeedsALimit
<1>10. QED
  BY <1>1, <1>2, <1>3, <1>4, <1>5, <1>6, <1>7, <1>8, <1>9 DEF D!Next

(***************************************************************************)
(* Bundles and sequences.  Nothing is cached before the answer, and no     *)
(* failure has been seen while a sequence runs.                            *)
(***************************************************************************)
BundleInv ==
  /\ R!bundleTypeOK /\ R!StopsAtFailure /\ R!BundleAnswer
  /\ bs_cached => bs_answer = "ok"
  /\ bs_answer = "none" => bs_sent = <<>>

LEMMA BundleInit == R!bundleInit => BundleInv
<1> SUFFICES ASSUME R!bundleInit PROVE BundleInv
  OBVIOUS
<1>1. bs_cached = FALSE /\ bs_block = 0 /\ bs_sent = <<>>
  BY DEF R!bundleInit
<1>2. bs_cached \in BOOLEAN /\ ~bs_cached
  BY <1>1
<1>3. bs_sent \in Seq(R!Outcomes) /\ DOMAIN bs_sent = {}
  BY <1>1
<1>4. QED
  BY <1>1, <1>2, <1>3 DEF R!bundleInit, BundleInv, R!bundleTypeOK, R!StopsAtFailure, R!BundleAnswer

LEMMA BundleStep == BundleInv /\ [R!bundleNext]_bundleVars => BundleInv'
<1> SUFFICES ASSUME BundleInv, [R!bundleNext]_bundleVars
             PROVE  BundleInv'
  OBVIOUS
<1> USE DEF BundleInv
<1>1. CASE UNCHANGED bundleVars
  BY <1>1 DEF bundleVars, R!bundleTypeOK, R!StopsAtFailure, R!BundleAnswer
<1>2. CASE R!create_flashbots_bundle
  BY <1>2 DEF R!create_flashbots_bundle, R!bundleTypeOK, R!StopsAtFailure, R!BundleAnswer
<1>3. CASE R!new_block
  BY <1>3 DEF R!new_block, R!bundleTypeOK, R!StopsAtFailure, R!BundleAnswer
<1>4. CASE R!bundle_lands
  BY <1>4 DEF R!bundle_lands, R!bundleTypeOK, R!StopsAtFailure, R!BundleAnswer
<1>5. ASSUME NEW ok \in BOOLEAN, R!relay_takes(ok)
      PROVE  BundleInv'
  BY <1>5 DEF R!relay_takes, R!bundleTypeOK, R!StopsAtFailure, R!BundleAnswer
<1>6. ASSUME NEW stats \in BOOLEAN, NEW lock \in BOOLEAN, R!cache_bundle_info(stats, lock)
      PROVE  BundleInv'
  BY <1>6 DEF R!cache_bundle_info, R!bundleTypeOK, R!StopsAtFailure, R!BundleAnswer
<1>7. ASSUME NEW ok \in BOOLEAN, R!send_next(ok)
      PROVE  BundleInv'
  <2>1. \A i \in DOMAIN bs_sent : bs_sent[i] # "failed"
    BY <1>7 DEF R!send_next, R!StopsAtFailure
  <2>2. bs_sent \in Seq(R!Outcomes) /\ "pending" \in R!Outcomes
    BY DEF R!bundleTypeOK, R!Outcomes
  <2>3. bs_sent' = bs_sent \/ bs_sent' = Append(bs_sent, "pending")
    BY <1>7 DEF R!send_next
  <2>4. bs_sent' \in Seq(R!Outcomes) /\ \A i \in DOMAIN bs_sent' : bs_sent'[i] # "failed"
    BY <2>1, <2>2, <2>3
  <2>5. QED
    BY <1>7, <2>4 DEF R!send_next, R!bundleTypeOK, R!StopsAtFailure, R!BundleAnswer
<1>8. ASSUME NEW outcome \in {"succeeded", "failed", "missing"}, R!sequence_receipt(outcome)
      PROVE  BundleInv'
  <2>1. \A i \in DOMAIN bs_sent : bs_sent[i] # "failed"
    BY <1>8 DEF R!sequence_receipt, R!StopsAtFailure
  <2>2. outcome \in R!Outcomes /\ bs_sent \in Seq(R!Outcomes) /\ bs_sent # <<>>
    BY <1>8 DEF R!sequence_receipt, R!waits, R!bundleTypeOK, R!Outcomes
  <2>3. bs_sent' = [bs_sent EXCEPT ![Len(bs_sent)] = outcome]
    BY <1>8 DEF R!sequence_receipt
  <2>4. bs_answer' \in {"error", "ok", "running"} /\ (outcome = "failed" => bs_answer' = "error")
    BY <1>8 DEF R!sequence_receipt
  <2>5. /\ bs_sent' = [bs_sent EXCEPT ![Len(bs_sent)] = outcome] /\ bs_sent' \in Seq(R!Outcomes)
        /\ DOMAIN bs_sent' = DOMAIN bs_sent /\ Len(bs_sent') = Len(bs_sent)
        /\ bs_answer' \in {"error", "ok", "running"} /\ (outcome = "failed" => bs_answer' = "error")
    BY <2>2, <2>3, <2>4
  <2>6. \A i \in DOMAIN bs_sent' : bs_sent'[i] = "failed" => i = Len(bs_sent') /\ bs_answer' = "error"
    BY <2>1, <2>5
  <2>7. QED
    BY <1>8, <2>5, <2>6 DEF R!sequence_receipt, R!bundleTypeOK, R!StopsAtFailure, R!BundleAnswer
<1>9. ASSUME NEW ok \in BOOLEAN, NEW i \in DOMAIN bs_sent, R!mined_late(i, ok)
      PROVE  BundleInv'
  <2> DEFINE late == IF ok THEN "succeeded late" ELSE "failed late"
  <2>1. late \in R!Outcomes /\ late # "failed"
    BY DEF R!Outcomes
  <2>2. bs_sent' = [bs_sent EXCEPT ![i] = late]
    BY <1>9 DEF R!mined_late
  <2> HIDE DEF late
  <2>3. bs_sent' \in Seq(R!Outcomes) /\ DOMAIN bs_sent' = DOMAIN bs_sent /\ Len(bs_sent') = Len(bs_sent)
    BY <2>1, <2>2 DEF R!bundleTypeOK
  <2>4. \A k \in DOMAIN bs_sent' : bs_sent'[k] = "failed" => bs_sent[k] = "failed"
    BY <2>1, <2>2
  <2>5. bs_sent # <<>>
    OBVIOUS
  <2>6. QED
    BY <1>9, <2>3, <2>4, <2>5 DEF R!mined_late, R!bundleTypeOK, R!StopsAtFailure, R!BundleAnswer
<1>10. QED
  BY <1>1, <1>2, <1>3, <1>4, <1>5, <1>6, <1>7, <1>8, <1>9 DEF R!bundleNext

(***************************************************************************)
(* Requests over the pool.  A request that waits or asks has something     *)
(* left to do, and only the joined ones go on asking after a failure.      *)
(***************************************************************************)
RequestsInv ==
  /\ Q!TypeOK /\ Q!AnsweredWhole
  /\ \A t \in Tasks : /\ er_pc[t] = "idle" => er_guards[t] = 0
                      /\ er_pc[t] \in {"lock", "permit", "asks"} => er_left[t] >= 1
                      /\ er_pc[t] \in {"lock", "permit"} => ~er_bad[t]
                      /\ er_pc[t] = "asks" /\ er_bad[t] => er_op[t] = "details"

LEMMA RequestsInit == Q!Init => RequestsInv
BY DEF Q!Init, RequestsInv, Q!TypeOK, Q!AnsweredWhole, Q!Ops

LEMMA RequestsStep == RequestsInv /\ [Q!Next]_requestsVars => RequestsInv'
<1> SUFFICES ASSUME RequestsInv, [Q!Next]_requestsVars
             PROVE  RequestsInv'
  OBVIOUS
<1> USE DEF RequestsInv, Q!TypeOK, Q!AnsweredWhole
<1>1. CASE UNCHANGED requestsVars
  BY <1>1 DEF requestsVars
<1>2. ASSUME NEW t \in Tasks, NEW op \in Q!Ops, Q!begins(t, op)
      PROVE  RequestsInv'
  <2>1. Q!exchanges(op) + Q!inner(op) \in Nat /\ Q!exchanges(op) + Q!inner(op) >= 1
    BY DEF Q!Ops, Q!exchanges, Q!inner
  <2>2. QED
    BY <1>2, <2>1 DEF Q!begins
<1>3. ASSUME NEW t \in Tasks, Q!pool_write(t)
      PROVE  RequestsInv'
  BY <1>3 DEF Q!pool_write
<1>4. ASSUME NEW t \in Tasks, Q!get_provider(t)
      PROVE  RequestsInv'
  <2> DEFINE next == IF er_op[t] = "swap" /\ er_guards[t] = 0 THEN "lock" ELSE "asks"
  <2>1. next \in {"lock", "asks"} /\ er_pc[t] = "permit" /\ er_pc' = [er_pc EXCEPT ![t] = next]
    BY <1>4 DEF Q!get_provider
  <2>2. /\ er_guards' = [er_guards EXCEPT ![t] = @ + 1] /\ er_lock' = {}
        /\ UNCHANGED <<er_op, er_left, er_bad>>
    BY <1>4 DEF Q!get_provider
  <2> HIDE DEF next
  <2>3. QED
    BY <2>1, <2>2
<1>5. ASSUME NEW t \in Tasks, Q!permit_timeout(t)
      PROVE  RequestsInv'
  BY <1>5 DEF Q!permit_timeout, Q!answers
<1>6. ASSUME NEW t \in Tasks, Q!swap_refused(t)
      PROVE  RequestsInv'
  BY <1>6 DEF Q!swap_refused, Q!answers
<1>7. ASSUME NEW t \in Tasks, NEW ok \in BOOLEAN, Q!exchange(t, ok)
      PROVE  RequestsInv'
  <2>1. /\ er_pc[t] = "asks" /\ er_left[t] \in Nat /\ er_left[t] >= 1 /\ er_bad[t] \in BOOLEAN
        /\ er_left' = [er_left EXCEPT ![t] = @ - 1] /\ UNCHANGED <<er_op, er_lock>>
    BY <1>7 DEF Q!exchange
  <2> DEFINE bad == er_bad[t] \/ ~ok
  <2>2. er_bad' = [er_bad EXCEPT ![t] = bad] /\ bad \in BOOLEAN
    BY <1>7, <2>1 DEF Q!exchange
  <2>3. er_left' \in [Tasks -> Nat] /\ er_left'[t] = er_left[t] - 1 /\ er_bad' \in [Tasks -> BOOLEAN] /\ er_bad'[t] = bad
    BY <2>1, <2>2
  <2>4. CASE Q!ends(t, ok)
    <3>1. Q!answers(t, IF bad THEN "error" ELSE "ok")
      BY <1>7, <2>3, <2>4 DEF Q!exchange
    <3>2. /\ er_op[t] = "details" => er_left'[t] = 0
          /\ ~bad => er_left'[t] = 0
      BY <2>1, <2>3, <2>4 DEF Q!ends
    <3>3. er_guards' = [er_guards EXCEPT ![t] = 0] /\ er_pc' = [er_pc EXCEPT ![t] = IF bad THEN "error" ELSE "ok"]
      BY <3>1 DEF Q!answers
    <3> HIDE DEF bad
    <3>4. QED
      BY <2>1, <2>2, <2>3, <3>2, <3>3
  <2>5. CASE ~Q!ends(t, ok)
    <3>1. er_left[t] # 1 /\ (bad => er_op[t] = "details")
      BY <2>1, <2>5 DEF Q!ends
    <3>2. er_op[t] = "details" => Q!inner(er_op[t]) = 0
      BY DEF Q!inner
    <3> HIDE DEF bad
    <3>3. CASE UNCHANGED <<er_pc, er_guards>>
      BY <2>1, <2>2, <2>3, <3>1, <3>3
    <3>4. CASE /\ er_op[t] # "details"
               /\ er_pc' = [er_pc EXCEPT ![t] = "lock"] /\ er_guards' = [er_guards EXCEPT ![t] = 1]
      BY <2>1, <2>2, <2>3, <3>1, <3>4
    <3>5. QED
      BY <1>7, <2>5, <3>2, <3>3, <3>4 DEF Q!exchange
  <2>6. QED
    BY <2>4, <2>5
<1>8. QED
  BY <1>1, <1>2, <1>3, <1>4, <1>5, <1>6, <1>7
     DEF Q!Next, Q!time_passes, Q!vars, requestsVars, Q!Ops, Q!begin_read, Q!begin_send, Q!begin_query, Q!begin_call,
         Q!begin_contract, Q!begin_details, Q!begin_node_info, Q!begin_receipt, Q!begin_gas_info, Q!begin_swap

(***************************************************************************)
(* The watcher.  The loop over blocks goes up to a block it has not come   *)
(* to yet, and only it has one to go up to.                                *)
(***************************************************************************)
WatcherInv ==
  /\ M!watcherTypeOK /\ M!LookedAtOnce
  /\ mw_upto > 0 => mw_mode = "polling" /\ mw_last < mw_upto

LEMMA WatcherInit == M!watcherInit => WatcherInv
BY ChainNumbers DEF M!watcherInit, WatcherInv, M!watcherTypeOK, M!LookedAtOnce, M!Items, M!Kinds

(* The next transaction is asked for. *)
LEMMA LooksAtNext ==
  ASSUME WatcherInv, mw_last + 1 \in M!Items, M!looks(mw_last + 1), mw_last' = mw_last + 1
  PROVE  mw_looked' \in [M!Items -> Nat] /\ mw_reported' \in [M!Items -> Nat] /\ M!LookedAtOnce'
<1> DEFINE next == mw_last + 1
<1>1. mw_looked \in [M!Items -> Nat] /\ mw_reported \in [M!Items -> Nat] /\ mw_last \in Nat /\ M!Items \subseteq Nat
  BY DEF WatcherInv, M!watcherTypeOK, M!Items
<1>2. mw_looked' = [mw_looked EXCEPT ![next] = @ + 1]
      /\ (mw_reported' = mw_reported \/ mw_reported' = [mw_reported EXCEPT ![next] = @ + 1])
  BY DEF M!looks
<1>3. \A i \in M!Items : mw_looked[i] = (IF i <= mw_last THEN 1 ELSE 0) /\ mw_reported[i] <= mw_looked[i]
  BY DEF WatcherInv, M!LookedAtOnce
<1>4. mw_looked' \in [M!Items -> Nat] /\ mw_reported' \in [M!Items -> Nat]
  BY <1>1, <1>2
<1>5. ASSUME NEW i \in M!Items
      PROVE  mw_looked'[i] = (IF i <= mw_last' THEN 1 ELSE 0) /\ mw_reported'[i] <= mw_looked'[i]
  <2>1. CASE i = next
    <3>1. mw_looked[i] = 0 /\ mw_reported[i] <= 0 /\ mw_looked'[i] = mw_looked[i] + 1
      BY <1>1, <1>2, <1>3, <2>1
    <3>2. mw_reported'[i] <= mw_reported[i] + 1
      BY <1>1, <1>2, <2>1
    <3>3. QED
      BY <1>1, <1>4, <2>1, <3>1, <3>2
  <2>2. CASE i # next
    <3>1. mw_looked'[i] = mw_looked[i] /\ mw_reported'[i] = mw_reported[i]
      BY <1>1, <1>2, <2>2
    <3>2. QED
      BY <1>1, <1>3, <2>2, <3>1
  <2>3. QED
    BY <2>1, <2>2
<1>6. QED
  BY <1>4, <1>5 DEF M!LookedAtOnce

LEMMA WatcherStep == WatcherInv /\ [M!watcherNext]_mempoolVars => WatcherInv'
<1> SUFFICES ASSUME WatcherInv, [M!watcherNext]_mempoolVars
             PROVE  WatcherInv'
  OBVIOUS
<1>0. MaxItems \in Nat /\ mw_last \in 0 .. MaxItems /\ mw_upto \in 0 .. MaxItems /\ mw_head \in 0 .. MaxItems
  BY ChainNumbers DEF WatcherInv, M!watcherTypeOK
<1>1. CASE UNCHANGED mempoolVars
  BY <1>1 DEF mempoolVars, WatcherInv, M!watcherTypeOK, M!LookedAtOnce
<1>2. CASE M!watch_token_transactions \/ M!watch_for_sandwich_opportunities \/ M!stream_ends
  <2>1. /\ UNCHANGED <<mw_head, mw_kind, mw_last, mw_upto, mw_looked, mw_reported>>
        /\ mw_mode # "polling"
        /\ mw_mode' \in {"off", "stream", "polling", "sandwich", "ended"}
    BY <1>2 DEF M!watch_token_transactions, M!watch_for_sandwich_opportunities, M!stream_ends, M!starts, M!watcherVars
  <2>2. QED
    BY <1>0, <2>1 DEF WatcherInv, M!watcherTypeOK, M!LookedAtOnce
<1>3. CASE M!stream_next
  <2>1. mw_last + 1 \in M!Items /\ M!looks(mw_last + 1) /\ mw_last' = mw_last + 1
        /\ UNCHANGED <<mw_mode, mw_head, mw_kind, mw_upto>> /\ mw_mode # "polling"
    BY <1>0, <1>3 DEF M!stream_next, M!Items
  <2>2. QED
    BY <1>0, <2>1, LooksAtNext DEF WatcherInv, M!watcherTypeOK, M!Items
<1>4. CASE M!poll_wakes
  BY <1>0, <1>4 DEF M!poll_wakes, WatcherInv, M!watcherTypeOK, M!LookedAtOnce
<1>5. CASE M!poll_block
  <2>1. mw_last + 1 \in M!Items /\ M!looks(mw_last + 1) /\ mw_last' = mw_last + 1
        /\ UNCHANGED <<mw_mode, mw_head, mw_kind>> /\ mw_mode = "polling"
        /\ mw_upto' = IF mw_last + 1 = mw_upto THEN 0 ELSE mw_upto
    BY <1>0, <1>5 DEF M!poll_block, M!first_block, M!Items, WatcherInv
  <2>2. mw_upto' \in 0 .. MaxItems /\ mw_last' \in 0 .. MaxItems /\ (mw_upto' > 0 => mw_last' < mw_upto')
    BY <1>0, <2>1 DEF M!Items, WatcherInv
  <2>3. QED
    BY <1>0, <2>1, <2>2, LooksAtNext DEF WatcherInv, M!watcherTypeOK
<1>6. CASE M!arrives
  <2>1. PICK k \in M!Kinds : mw_kind' = [mw_kind EXCEPT ![mw_head + 1] = k]
    BY <1>6 DEF M!arrives
  <2>2. mw_head' = mw_head + 1 /\ mw_head + 1 \in 0 .. MaxItems
    BY <1>0, <1>6 DEF M!arrives
  <2>3. mw_kind' \in [M!Items -> M!Kinds]
    BY <2>1 DEF WatcherInv, M!watcherTypeOK
  <2>4. UNCHANGED <<mw_mode, mw_last, mw_upto, mw_looked, mw_reported>>
    BY <1>6 DEF M!arrives
  <2>5. QED
    BY <1>0, <2>2, <2>3, <2>4 DEF WatcherInv, M!watcherTypeOK, M!LookedAtOnce
<1>7. CASE M!reorganised
  BY <1>0, <1>7 DEF M!reorganised, WatcherInv, M!watcherTypeOK, M!LookedAtOnce
<1>8. QED
  BY <1>1, <1>2, <1>3, <1>4, <1>5, <1>6, <1>7
     DEF M!watcherNext, M!task_ended, M!poll_nothing, M!watcherVars, mempoolVars

(***************************************************************************)
(* The pool of URLs.  The list is empty before the first probe and whole   *)
(* from then on; who is about to choose has seen it filled.                *)
(***************************************************************************)
RpcInv ==
  /\ P!FreshIsFilled /\ P!RotationIsForConnections
  /\ rp_list \in P!Lists \cup {<<>>} /\ rp_fresh \in BOOLEAN
  /\ rp_stage \in [Askers -> {"idle", "probing", "writing", "stamping", "choosing"}]
  /\ rp_probe \in [Askers -> P!Lists \cup {<<>>}]
  /\ \A t \in Askers : /\ rp_stage[t] = "writing" => rp_probe[t] \in P!Lists
                       /\ rp_stage[t] = "stamping" => rp_list \in P!Lists
  /\ ro_step \in {"idle", "calls", "ok", "err"} /\ ro_at \in 0 .. UrlCount
  /\ ro_failed \in {"nothing", "connection", "other"}
  /\ ro_step = "calls" => ro_at >= 1

LEMMA RpcInit == P!Init => RpcInv
<1> SUFFICES ASSUME P!Init PROVE RpcInv
  OBVIOUS
<1>1. rp_fresh = FALSE
  BY DEF P!Init
<1>2. rp_fresh \in BOOLEAN /\ ~rp_fresh
  BY <1>1
<1>3. QED
  BY <1>2, ChainNumbers DEF P!Init, RpcInv, P!FreshIsFilled, P!RotationIsForConnections

LEMMA RpcTyped == RpcInv => P!TypeOK
<1> SUFFICES ASSUME RpcInv PROVE P!TypeOK
  OBVIOUS
<1>1. rp_list \in UNION {[1 .. n -> [url : P!Urls, up : BOOLEAN]] : n \in 0 .. UrlCount}
  <2>1. CASE rp_list \in P!Lists
    <3>1. UrlCount \in 0 .. UrlCount
      BY ChainNumbers
    <3>2. rp_list \in [1 .. UrlCount -> [url : P!Urls, up : BOOLEAN]]
      BY <2>1 DEF P!Lists, P!Urls
    <3>3. QED
      BY <3>1, <3>2
  <2>2. CASE rp_list = <<>>
    <3>1. <<>> \in [1 .. 0 -> [url : P!Urls, up : BOOLEAN]] /\ 0 \in 0 .. UrlCount
      BY ChainNumbers
    <3>2. QED
      BY <2>2, <3>1
  <2>3. QED
    BY <2>1, <2>2 DEF RpcInv
<1>2. QED
  BY <1>1 DEF RpcInv, P!TypeOK

(* What the pool may do, in words of the invariant. *)
LEMMA RpcStep == RpcInv /\ [P!Next]_rpc_poolVars => RpcInv'
<1> SUFFICES ASSUME RpcInv, [P!Next]_rpc_poolVars
             PROVE  RpcInv'
  OBVIOUS
<1> USE DEF RpcInv
<1>1. CASE UNCHANGED rpc_poolVars
  BY <1>1 DEF rpc_poolVars, P!FreshIsFilled, P!RotationIsForConnections
<1>2. ASSUME NEW t \in Askers, P!get_best_url(t)
      PROVE  RpcInv'
  <2> DEFINE to == IF rp_fresh THEN "choosing" ELSE "probing"
  <2>1. rp_stage[t] = "idle" /\ rp_stage' = [rp_stage EXCEPT ![t] = to] /\ to \in {"choosing", "probing"}
        /\ (to = "choosing" => rp_list \in P!Lists)
    BY <1>2 DEF P!get_best_url, P!goes, P!FreshIsFilled
  <2> HIDE DEF to
  <2>2. QED
    BY <1>2, <2>1 DEF P!get_best_url, P!FreshIsFilled, P!RotationIsForConnections, P!rotation
<1>3. ASSUME NEW t \in Askers, P!check_availability(t)
      PROVE  RpcInv'
  BY <1>3 DEF P!check_availability, P!goes, P!FreshIsFilled, P!RotationIsForConnections, P!rotation
<1>4. ASSUME NEW t \in Askers, P!write_availability(t)
      PROVE  RpcInv'
  BY <1>4 DEF P!write_availability, P!probed, P!goes, P!FreshIsFilled, P!RotationIsForConnections, P!rotation
<1>5. ASSUME NEW t \in Askers, P!write_last_checked(t)
      PROVE  RpcInv'
  <2>1. rp_stage[t] = "stamping" /\ rp_stage' = [rp_stage EXCEPT ![t] = "choosing"] /\ rp_fresh' = TRUE
        /\ UNCHANGED <<rp_list, rp_probe>> /\ UNCHANGED P!rotation
    BY <1>5 DEF P!write_last_checked, P!goes
  <2>2. rp_list \in P!Lists /\ rp_fresh' \in BOOLEAN
    BY <2>1
  <2>3. QED
    BY <2>1, <2>2 DEF P!FreshIsFilled, P!RotationIsForConnections, P!rotation
<1>6. ASSUME NEW t \in Askers, P!choose_url(t)
      PROVE  RpcInv'
  BY <1>6 DEF P!choose_url, P!goes, P!FreshIsFilled, P!RotationIsForConnections, P!rotation
<1>7. ASSUME NEW u \in P!Urls, P!mark_unavailable(u)
      PROVE  RpcInv'
  <2>1. PICK i \in DOMAIN rp_list : rp_list[i].url = u /\ rp_list' = [rp_list EXCEPT ![i].up = FALSE]
    BY <1>7 DEF P!mark_unavailable
  <2>2. rp_list \in P!Lists
    BY <2>1
  <2>3. rp_list' \in [P!Urls -> [url : P!Urls, up : BOOLEAN]] /\ \A k \in P!Urls : rp_list'[k].url = rp_list[k].url
    <3> DEFINE marked == [rp_list[i] EXCEPT !.up = FALSE]
    <3>1. rp_list \in [P!Urls -> [url : P!Urls, up : BOOLEAN]] /\ i \in P!Urls
      BY <2>1, <2>2 DEF P!Lists
    <3>2. rp_list' = [rp_list EXCEPT ![i] = marked]
      BY <2>1
    <3>3. rp_list[i] \in [url : P!Urls, up : BOOLEAN]
      BY <3>1
    <3>4. marked \in [url : P!Urls, up : BOOLEAN] /\ marked.url = rp_list[i].url
      BY <3>3
    <3> HIDE DEF marked
    <3>5. QED
      BY <3>1, <3>2, <3>4
  <2>4. {rp_list'[k].url : k \in P!Urls} = {rp_list[k].url : k \in P!Urls}
    BY <2>3
  <2>5. rp_list' \in P!Lists
    BY <2>2, <2>3, <2>4 DEF P!Lists
  <2>6. QED
    BY <1>7, <2>5 DEF P!mark_unavailable, P!FreshIsFilled, P!RotationIsForConnections, P!rotation
<1>8. CASE P!ten_minutes
  <2>1. rp_fresh' = FALSE /\ UNCHANGED <<rp_list, rp_stage, rp_probe>> /\ UNCHANGED P!rotation
    BY <1>8 DEF P!ten_minutes
  <2>2. rp_fresh' \in BOOLEAN /\ ~rp_fresh'
    BY <2>1
  <2>3. QED
    BY <2>1, <2>2 DEF P!FreshIsFilled, P!RotationIsForConnections, P!rotation
<1>9. CASE P!with_rpc_rotation \/ P!call_ok \/ P!backup_fails \/ \E e \in {"connection", "other"} : P!primary_fails(e)
  <2>1. UNCHANGED <<rp_list, rp_fresh, rp_stage, rp_probe>>
    BY <1>9 DEF P!with_rpc_rotation, P!call_ok, P!backup_fails, P!primary_fails, P!rotates, P!pool
  <2>2. /\ ro_step' \in {"idle", "calls", "ok", "err"} /\ ro_at' \in 0 .. UrlCount
        /\ ro_failed' \in {"nothing", "connection", "other"} /\ (ro_step' = "calls" => ro_at' >= 1)
    BY <1>9, ChainNumbers DEF P!with_rpc_rotation, P!call_ok, P!backup_fails, P!primary_fails, P!rotates
  <2>3. P!RotationIsForConnections'
    BY <1>9, ChainNumbers DEF P!with_rpc_rotation, P!call_ok, P!backup_fails, P!primary_fails, P!rotates,
          P!rotatable, P!RotationIsForConnections
  <2>4. QED
    BY <2>1, <2>2, <2>3 DEF P!FreshIsFilled
<1>10. QED
  BY <1>1, <1>2, <1>3, <1>4, <1>5, <1>6, <1>7, <1>8, <1>9 DEF P!Next

(***************************************************************************)
(* The process.  How far main has come says what is loaded, and the tasks  *)
(* it waits for run only once it serves.                                   *)
(***************************************************************************)
AllLoaded == {"users", "adapters", "bot"}

MainInv ==
  /\ N!mainTypeOK /\ N!ServesOnlyReady /\ N!NoneCutOff
  /\ bm_stage \in {"config", "storage", "users"} => bm_loaded = {}
  /\ bm_stage \in {"endpoints", "adapters"} => bm_loaded = {"users"}
  /\ bm_stage = "bot" => bm_loaded = {"users", "adapters"}
  /\ bm_stage \in {"spawn", "serving", "joining", "ended"} => bm_loaded = AllLoaded
  /\ bm_stage \notin {"serving", "joining", "ended"} => \A t \in N!Joined : bm_tasks[t] = "waiting"

LEMMA MainInit == N!mainInit => MainInv
BY DEF N!mainInit, MainInv, N!mainTypeOK, N!ServesOnlyReady, N!NoneCutOff, N!Stages, N!MainTasks, N!Joined, N!Background

(* A step of the start that fails, or the end: what runs is dropped. *)
LEMMA DroppedTasks ==
  ASSUME MainInv, bm_tasks' = N!dropped
  PROVE  /\ bm_tasks' \in [N!MainTasks -> {"waiting", "running", "done", "dropped"}]
         /\ \A t \in N!MainTasks : /\ bm_tasks'[t] # "running"
                                   /\ bm_tasks[t] # "running" => bm_tasks'[t] = bm_tasks[t]
BY DEF MainInv, N!mainTypeOK, N!dropped

LEMMA MainStep == MainInv /\ [N!mainNext]_mainVars => MainInv'
<1> SUFFICES ASSUME MainInv, [N!mainNext]_mainVars
             PROVE  MainInv'
  OBVIOUS
<1>0. N!Joined \subseteq N!MainTasks /\ N!Background \cap N!Joined = {}
  BY DEF N!MainTasks, N!Joined, N!Background
<1> USE DEF MainInv, N!mainTypeOK, N!ServesOnlyReady, N!NoneCutOff, AllLoaded
<1>1. CASE UNCHANGED mainVars
  BY <1>1 DEF mainVars
<1>2. CASE N!load_config \/ N!load_storage
  BY <1>2 DEF N!load_config, N!load_storage, N!stage, N!Stages
<1>3. CASE N!load_users \/ N!init_adapters \/ N!init_bot
  <2>1. CASE UNCHANGED bm_tasks
    <3>1. bm_stage' \in N!Stages /\ bm_loaded' \subseteq AllLoaded
      BY <1>3, <2>1 DEF N!load_users, N!init_adapters, N!init_bot, N!stage, N!fails, N!Stages
    <3>2. CASE bm_stage' # "failed"
      BY <1>3, <2>1, <3>1, <3>2 DEF N!load_users, N!init_adapters, N!init_bot, N!stage, N!fails
    <3>3. CASE bm_stage' = "failed"
      <4>1. bm_tasks' = N!dropped /\ bm_stage \in {"users", "adapters", "bot"} /\ UNCHANGED bm_loaded
        BY <1>3, <3>3 DEF N!load_users, N!init_adapters, N!init_bot, N!stage, N!fails
      <4>2. QED
        BY <1>0, <2>1, <3>1, <3>3, <4>1, DroppedTasks
    <3>4. QED
      BY <3>2, <3>3
  <2>2. CASE ~UNCHANGED bm_tasks
    <3>1. bm_tasks' = N!dropped /\ bm_stage \in {"users", "adapters", "bot"} /\ bm_stage' = "failed" /\ UNCHANGED bm_loaded
      BY <1>3, <2>2 DEF N!load_users, N!init_adapters, N!init_bot, N!stage, N!fails
    <3>2. bm_stage' \in N!Stages
      BY <3>1 DEF N!Stages
    <3>3. QED
      BY <1>0, <3>1, <3>2, DroppedTasks
  <2>3. QED
    BY <2>1, <2>2
<1>4. CASE N!add_endpoints
  <2>1. /\ bm_stage = "endpoints" /\ bm_stage' = "adapters" /\ UNCHANGED bm_loaded
        /\ bm_tasks' \in [N!MainTasks -> {"waiting", "running", "done", "dropped"}]
        /\ \A t \in N!Joined : bm_tasks'[t] = bm_tasks[t]
    BY <1>0, <1>4 DEF N!add_endpoints, N!stage, N!running, N!Background
  <2>2. bm_stage' \in N!Stages
    BY <2>1 DEF N!Stages
  <2>3. QED
    BY <2>1, <2>2
<1>5. CASE N!spawn_services
  <2>1. /\ bm_stage = "spawn" /\ bm_stage' = "serving" /\ UNCHANGED bm_loaded
        /\ bm_tasks' \in [N!MainTasks -> {"waiting", "running", "done", "dropped"}]
    BY <1>5 DEF N!spawn_services, N!stage, N!running
  <2>2. bm_stage' \in N!Stages
    BY <2>1 DEF N!Stages
  <2>3. QED
    BY <2>1, <2>2
<1>6. CASE N!ctrl_c
  BY <1>6 DEF N!ctrl_c, N!stage, N!Stages
<1>7. CASE N!join
  <2>1. /\ bm_stage = "joining" /\ bm_stage' = "ended" /\ UNCHANGED bm_loaded /\ bm_tasks' = N!dropped
        /\ \A t \in N!Joined : bm_tasks[t] = "done"
    BY <1>7 DEF N!join, N!stage
  <2>2. bm_stage' \in N!Stages
    BY <2>1 DEF N!Stages
  <2>3. QED
    BY <1>0, <2>1, <2>2, DroppedTasks
<1>8. ASSUME NEW t \in N!MainTasks, N!task_ends(t)
      PROVE  MainInv'
  <2>1. /\ t \in N!Joined /\ bm_tasks[t] = "running" /\ bm_tasks' = [bm_tasks EXCEPT ![t] = "done"]
        /\ UNCHANGED <<bm_stage, bm_loaded>>
    BY <1>8 DEF N!task_ends
  <2>2. bm_stage \in {"serving", "joining"}
    BY <1>0, <2>1
  <2>3. QED
    BY <1>0, <2>1, <2>2
<1>9. QED
  BY <1>1, <1>2, <1>3, <1>4, <1>5, <1>6, <1>7, <1>8
     DEF N!mainNext, N!over, N!service_turn, N!mainVars, mainVars

(***************************************************************************)
(* The users of the API.  Memory and file differ only for a user that a    *)
(* request is changing, or changed without a word of success; a request    *)
(* that registered a name keeps it taken, in memory and in the file.       *)
(***************************************************************************)
Registered(r) == ba_kind[r] = "register" /\ ba_step[r] = "ok"
Changing(n) == \E r \in ApiRequests : ba_step[r] = "changed" /\ ba_name[r] = n

ApiInv ==
  /\ A!TypeOK /\ A!ToldIsSaved /\ A!OneRegistration
  /\ \A r \in ApiRequests :
       /\ ba_level[r] # "absent"
       /\ ba_step[r] = "changed" => ba_lock = r /\ ba_memory[ba_name[r]] # "absent"
       /\ Registered(r) => ba_memory[ba_name[r]] # "absent" /\ ba_file[ba_name[r]] # "absent"
  /\ \A r, q \in ApiRequests :
       Registered(r) /\ ba_step[q] = "changed" /\ ba_kind[q] = "register" => ba_name[r] # ba_name[q]
  /\ \A n \in Names : n \notin ba_unsure => ba_memory[n] = ba_file[n] \/ Changing(n)

LEMMA ApiInit == A!Init => ApiInv
BY ChainNumbers DEF A!Init, ApiInv, A!TypeOK, A!ToldIsSaved, A!OneRegistration, A!registered, Registered, Changing,
   A!Levels, A!Steps

LEMMA ApiStep == ApiInv /\ [A!Next]_bot_apiVars => ApiInv'
<1> SUFFICES ASSUME ApiInv, [A!Next]_bot_apiVars
             PROVE  ApiInv'
  OBVIOUS
<1> USE ChainNumbers DEF ApiInv, A!TypeOK, A!ToldIsSaved, A!OneRegistration, A!registered, Registered, Changing
<1>0. A!Steps = {"new", "waiting", "changed", "ok", "bad", "failed", "dropped"} /\ A!Levels = {"absent", "free", "premium"}
  BY DEF A!Steps, A!Levels
<1>1. CASE UNCHANGED bot_apiVars
  BY <1>1 DEF bot_apiVars
<1>2. ASSUME NEW r \in ApiRequests, NEW n \in Names, NEW kind \in {"register", "subscribe"},
             NEW level \in A!Levels \ {"absent"}, A!arrives(r, kind, n, level)
      PROVE  ApiInv'
  BY <1>0, <1>2 DEF A!arrives
<1>3. ASSUME NEW r \in ApiRequests, A!answers(r)
      PROVE  ApiInv'
  <2>1. /\ ba_step[r] = "waiting" /\ ba_step' = [ba_step EXCEPT ![r] = "bad"]
        /\ UNCHANGED <<ba_kind, ba_name, ba_level, ba_lock, ba_memory, ba_file, ba_told, ba_unsure, ba_stops>>
    BY <1>3 DEF A!answers, A!register_bad, A!register_taken, A!subscribe_unknown, A!has, A!becomes, A!asked
  <2>2. QED
    BY <1>0, <2>1
<1>4. ASSUME NEW r \in ApiRequests, A!changes(r)
      PROVE  ApiInv'
  <2>1. PICK level \in A!Levels \ {"absent"} : ba_memory' = [ba_memory EXCEPT ![ba_name[r]] = level]
    BY <1>0, <1>4 DEF A!changes, A!register, A!update_subscription_handler
  <2>2. /\ ba_step[r] = "waiting" /\ ba_step' = [ba_step EXCEPT ![r] = "changed"] /\ ba_lock = Nobody /\ ba_lock' = r
        /\ ba_kind[r] = "register" => ba_memory[ba_name[r]] = "absent"
        /\ UNCHANGED <<ba_kind, ba_name, ba_level, ba_file, ba_told, ba_unsure, ba_stops>>
    BY <1>4 DEF A!changes, A!register, A!update_subscription_handler, A!has, A!becomes, A!asked
  <2>3. \A q \in ApiRequests : ba_step[q] # "changed"
    BY <2>2
  <2>4. A!TypeOK'
    BY <1>0, <2>1, <2>2
  <2>5. \A n \in Names : n # ba_name[r] => ba_memory'[n] = ba_memory[n]
    BY <2>1
  <2>6. QED
    BY <1>0, <2>1, <2>2, <2>3, <2>4, <2>5
<1>5. ASSUME NEW r \in ApiRequests, A!save_ok(r)
      PROVE  ApiInv'
  <2>1. /\ ba_step[r] = "changed" /\ ba_step' = [ba_step EXCEPT ![r] = "ok"] /\ ba_file' = ba_memory /\ ba_lock' = Nobody
        /\ ba_told' = [ba_told EXCEPT ![ba_name[r]] = ba_memory[ba_name[r]]] /\ ba_unsure' = ba_unsure \ {ba_name[r]}
        /\ UNCHANGED <<ba_kind, ba_name, ba_level, ba_memory, ba_stops>>
    BY <1>5 DEF A!save_ok, A!becomes, A!told, A!asked
  <2>2. \A q \in ApiRequests : q # r => ba_step[q] # "changed"
    BY <2>1
  <2>3. \A n \in Names : n \notin ba_unsure' /\ n # ba_name[r] => ba_memory[n] = ba_file[n] /\ ba_file[n] = ba_told[n]
    BY <2>1, <2>2
  <2>4. A!TypeOK'
    BY <1>0, <2>1
  <2>5. A!ToldIsSaved'
    BY <2>1, <2>3
  <2>6. A!OneRegistration'
    BY <2>1
  <2>7. QED
    BY <2>1, <2>2, <2>4, <2>5, <2>6
<1>6. ASSUME NEW r \in ApiRequests, A!save_fails(r) \/ A!client_gone(r)
      PROVE  ApiInv'
  <2>1. CASE ba_step[r] = "changed"
    <3>1. PICK step \in {"failed", "dropped"} : ba_step' = [ba_step EXCEPT ![r] = step]
      BY <1>6, <2>1 DEF A!save_fails, A!client_gone, A!becomes
    <3>2. /\ ba_lock' = Nobody /\ (ba_file' = ba_file \/ ba_file' = ba_memory) /\ ba_unsure' = ba_unsure \cup {ba_name[r]}
          /\ UNCHANGED <<ba_kind, ba_name, ba_level, ba_memory, ba_told, ba_stops>>
      BY <1>6, <2>1 DEF A!save_fails, A!client_gone, A!untold, A!asked
    <3>3. \A q \in ApiRequests : q # r => ba_step[q] # "changed"
      BY <2>1
    <3>4. \A n \in Names : n \notin ba_unsure' => n # ba_name[r] /\ ba_memory[n] = ba_file[n] /\ ba_file[n] = ba_told[n]
      BY <3>2, <3>3
    <3>5. A!TypeOK'
      BY <1>0, <3>1, <3>2
    <3>6. QED
      BY <3>1, <3>2, <3>3, <3>4, <3>5
  <2>2. CASE ba_step[r] # "changed"
    <3>1. /\ ba_step[r] = "waiting" /\ ba_step' = [ba_step EXCEPT ![r] = "dropped"]
          /\ UNCHANGED <<ba_kind, ba_name, ba_level, ba_lock, ba_memory, ba_file, ba_told, ba_unsure, ba_stops>>
      BY <1>6, <2>2 DEF A!save_fails, A!client_gone, A!becomes, A!asked
    <3>2. QED
      BY <1>0, <3>1
  <2>3. QED
    BY <2>1, <2>2
<1>7. CASE A!stops
  <2>1. /\ ba_memory' = ba_file /\ ba_lock' = Nobody /\ ba_stops' \in 0 .. MaxStops
        /\ UNCHANGED <<ba_kind, ba_name, ba_level, ba_file, ba_told>>
    BY <1>7 DEF A!stops, A!asked
  <2>2. /\ ba_step' \in [ApiRequests -> A!Steps]
        /\ \A r \in ApiRequests : ba_step'[r] # "changed" /\ (ba_step'[r] = "ok" => ba_step[r] = "ok")
    BY <1>0, <1>7 DEF A!stops
  <2>3. ba_unsure' \subseteq Names /\ ba_unsure \subseteq ba_unsure'
    BY <1>7 DEF A!stops
  <2>4. QED
    BY <2>1, <2>2, <2>3
<1>8. QED
  BY <1>1, <1>2, <1>3, <1>4, <1>5, <1>6, <1>7
     DEF A!Next, A!saves, A!get_admin_stats, A!health_check, A!vars, A!asked, bot_apiVars

(***************************************************************************)
(* The websocket server.  What a reading task has done with the maps       *)
(* follows from where it stands, and a broadcast that lasts has split the  *)
(* clients of the map in those it reached and those it has yet to serve.   *)
(***************************************************************************)
ServerInv ==
  /\ W!serverTypeOK /\ W!LeftByAbortOnly
  /\ \A c \in Clients :
       /\ ws_phase[c] \in {"new", "checked"} => ws_recv[c] = "none" /\ ws_send[c] = "none"
       /\ ws_phase[c] = "over" => ws_recv[c] \in {"none", "ended", "aborted"}
       /\ ws_recv[c] \in {"none", "ended"} => c \notin ws_clients \cup ws_limits
       /\ ws_recv[c] = "cleaned" => c \notin ws_clients
  /\ ~W!unlocked => ws_cast \subseteq Clients /\ ws_served \cup ws_cast = ws_clients

LEMMA ServerInit == W!serverInit => ServerInv
<1> SUFFICES ASSUME W!serverInit PROVE ServerInv
  OBVIOUS
<1>1. W!serverTypeOK
  BY ChainNumbers DEF W!serverInit, W!serverTypeOK, W!idle, W!SocketTasks
<1>2. QED
  BY <1>1 DEF W!serverInit, ServerInv, W!LeftByAbortOnly, W!unlocked

(* The maps and the tasks stay; at most the channels, and the broadcast. *)
LEMMA ServerStep == ServerInv /\ [W!serverNext]_websocket_serverVars => ServerInv'
<1> SUFFICES ASSUME ServerInv, [W!serverNext]_websocket_serverVars
             PROVE  ServerInv'
  OBVIOUS
<1> USE ChainNumbers DEF ServerInv, W!serverTypeOK, W!LeftByAbortOnly, W!unlocked, W!idle, W!maps, W!casts
<1>0. W!SocketTasks = {"none", "run", "cleaning", "cleaned", "ended", "aborted"}
  BY DEF W!SocketTasks
<1>1. CASE UNCHANGED websocket_serverVars
  BY <1>1 DEF websocket_serverVars
<1>2. ASSUME NEW c \in Clients, W!token_ok(c) \/ W!token_wrong(c)
      PROVE  ServerInv'
  <2>1. PICK phase \in {"checked", "over"} : ws_phase' = [ws_phase EXCEPT ![c] = phase]
    BY <1>2 DEF W!token_ok, W!token_wrong
  <2>2. /\ ws_phase[c] = "new" /\ (ws_auth' = ws_auth \cup {c} \/ ws_auth' = ws_auth)
        /\ UNCHANGED <<ws_clients, ws_limits, ws_channel, ws_send, ws_recv, ws_cast, ws_served, ws_broadcasts>>
    BY <1>2 DEF W!token_ok, W!token_wrong
  <2>3. QED
    BY <2>1, <2>2
<1>3. ASSUME NEW c \in Clients, W!handle_socket(c)
      PROVE  ServerInv'
  BY <1>0, <1>3 DEF W!handle_socket
<1>4. ASSUME NEW c \in Clients, W!drains(c)
      PROVE  ServerInv'
  <2>1. UNCHANGED <<ws_phase, ws_clients, ws_auth, ws_limits, ws_recv, ws_cast, ws_served, ws_broadcasts>>
    BY <1>4 DEF W!drains, W!writes, W!write_fails, W!no_sender
  <2>2. ws_channel' \in [Clients -> 0 .. ChannelRoom]
    BY <1>4 DEF W!drains, W!writes, W!write_fails, W!no_sender
  <2>3. /\ ws_send[c] = "run"
        /\ ws_send' = ws_send \/ ws_send' = [ws_send EXCEPT ![c] = "ended"]
    BY <1>4 DEF W!drains, W!writes, W!write_fails, W!no_sender
  <2>4. QED
    BY <1>0, <2>1, <2>2, <2>3
<1>5. ASSUME NEW c \in Clients, W!check_rate_limit(c)
      PROVE  ServerInv'
  BY <1>5 DEF W!check_rate_limit
<1>6. ASSUME NEW c \in Clients, W!closes(c)
      PROVE  ServerInv'
  BY <1>0, <1>6 DEF W!closes
<1>7. ASSUME NEW c \in Clients, W!remove_client(c)
      PROVE  ServerInv'
  BY <1>0, <1>7 DEF W!remove_client
<1>8. ASSUME NEW c \in Clients, W!remove_rest(c)
      PROVE  ServerInv'
  BY <1>0, <1>8 DEF W!remove_rest
<1>9. ASSUME NEW c \in Clients, W!aborts(c)
      PROVE  ServerInv'
  <2>1. /\ ws_phase[c] = "open" /\ ws_phase' = [ws_phase EXCEPT ![c] = "over"]
        /\ UNCHANGED <<ws_clients, ws_auth, ws_limits, ws_channel, ws_cast, ws_served, ws_broadcasts>>
    BY <1>9 DEF W!aborts
  <2>2. ws_send' \in [Clients -> W!SocketTasks] /\ \A d \in Clients : d # c => ws_send'[d] = ws_send[d]
    BY <1>0, <1>9 DEF W!aborts
  <2>3. /\ ws_recv' \in [Clients -> W!SocketTasks] /\ \A d \in Clients : d # c => ws_recv'[d] = ws_recv[d]
        /\ ws_recv'[c] = "aborted" \/ (ws_recv'[c] = "ended" /\ ws_recv[c] = "ended")
    BY <1>0, <1>9 DEF W!aborts
  <2>4. W!serverTypeOK'
    <3>1. ws_phase' \in [Clients -> {"new", "checked", "open", "over"}]
      BY <2>1
    <3>2. ws_cast' \subseteq W!idle /\ ws_clients' \cup ws_auth' \cup ws_limits' \subseteq Clients
      BY <2>1
    <3>3. ws_channel' \in [Clients -> 0 .. ChannelRoom] /\ ws_served' \subseteq Clients /\ ws_broadcasts' \in 0 .. MaxBroadcasts
      BY <2>1
    <3>4. QED
      BY <2>2, <2>3, <3>1, <3>2, <3>3
  <2>5. ASSUME NEW d \in Clients
        PROVE  /\ ws_phase'[d] \in {"new", "checked"} => ws_recv'[d] = "none" /\ ws_send'[d] = "none"
               /\ ws_phase'[d] = "over" => ws_recv'[d] \in {"none", "ended", "aborted"}
               /\ ws_recv'[d] \in {"none", "ended"} => d \notin ws_clients \cup ws_limits
               /\ ws_recv'[d] = "cleaned" => d \notin ws_clients
               /\ d \in ws_clients \cup ws_limits /\ ws_phase'[d] = "over" => ws_recv'[d] = "aborted"
    <3>1. CASE d = c
      BY <2>1, <2>3, <3>1
    <3>2. CASE d # c
      BY <2>1, <2>2, <2>3, <3>2
    <3>3. QED
      BY <3>1, <3>2
  <2>6. QED
    BY <2>1, <2>4, <2>5
<1>10. ASSUME NEW c \in Clients, W!serves(c)
      PROVE  ServerInv'
  <2>1. /\ c \in ws_cast /\ ws_cast' = ws_cast \ {c} /\ ws_served' = ws_served \cup {c}
        /\ UNCHANGED <<ws_phase, ws_clients, ws_auth, ws_limits, ws_send, ws_recv, ws_broadcasts>>
    BY <1>10 DEF W!serves, W!sends_to, W!cannot_send, W!served
  <2>2. ws_channel' \in [Clients -> 0 .. ChannelRoom]
    BY <1>10 DEF W!serves, W!sends_to, W!cannot_send
  <2>3. QED
    BY <2>1, <2>2
<1>11. CASE W!broadcast \/ W!broadcast_ends \/ \E c \in Clients : W!send_to_client(c)
  <2>1. UNCHANGED <<ws_phase, ws_clients, ws_auth, ws_limits, ws_channel, ws_send, ws_recv>>
    BY <1>11 DEF W!broadcast, W!broadcast_ends, W!send_to_client
  <2>2. /\ ws_cast' \subseteq Clients \/ ws_cast' = {"none"}
        /\ ws_cast' # {"none"} => ws_cast' \subseteq Clients /\ ws_served' \cup ws_cast' = ws_clients
        /\ ws_served' \subseteq Clients /\ ws_broadcasts' \in 0 .. MaxBroadcasts
    BY <1>11 DEF W!broadcast, W!broadcast_ends, W!send_to_client
  <2>3. QED
    BY <2>1, <2>2
<1>12. QED
  BY <1>1, <1>2, <1>3, <1>4, <1>5, <1>6, <1>7, <1>8, <1>9, <1>10, <1>11
     DEF W!serverNext, W!opens, W!cleans, W!get_connected_count, W!serverVars, websocket_serverVars

(* Only the end of a broadcast, with nobody left to serve, gives the map of *)
(* the clients back.                                                       *)
LEMMA CastStep ==
  ASSUME ServerInv, W!serverNext, ws_cast # {"none"}, ws_cast' = {"none"}
  PROVE  ws_clients = ws_served
<1>1. CASE W!broadcast_ends
  BY <1>1 DEF ServerInv, W!broadcast_ends, W!unlocked
<1>2. CASE \E c \in Clients : W!serves(c)
  BY <1>2, ChainNumbers DEF ServerInv, W!serves, W!sends_to, W!cannot_send, W!served, W!unlocked
<1>3. CASE UNCHANGED ws_cast
  BY <1>3
<1>4. CASE W!unlocked
  BY <1>4 DEF W!unlocked
<1>5. QED
  BY <1>1, <1>2, <1>3, <1>4
     DEF W!serverNext, W!opens, W!drains, W!cleans, W!broadcast, W!get_connected_count, W!send_to_client, W!token_ok,
         W!token_wrong, W!handle_socket, W!writes, W!write_fails, W!no_sender, W!check_rate_limit, W!closes,
         W!remove_client, W!remove_rest, W!aborts, W!casts

(***************************************************************************)
(* The websocket client.  Messages are numbered as they are pushed: the    *)
(* queue rises and lies behind what was written.  A loop has a message in  *)
(* hand only while it is up, and every attempt counted since the last      *)
(* connection is that of another loop that has not come up again.          *)
(***************************************************************************)
Rising(s) == \A i, j \in DOMAIN s : i < j => s[i] < s[j]
Between == {l \in Loops : wc_loop[l] \in {"connecting", "delay", "over"}}

QueueInv ==
  /\ wc_queue \in Seq(1 .. MaxMessages) /\ Len(wc_queue) <= QueueSize
  /\ wc_written \in Seq(1 .. MaxMessages) /\ wc_pushed \in 0 .. MaxMessages
  /\ Rising(wc_written) /\ Rising(wc_queue)
  /\ \A i \in DOMAIN wc_written, j \in DOMAIN wc_queue : wc_written[i] < wc_queue[j]
  /\ \A i \in DOMAIN wc_written : wc_written[i] <= wc_pushed
  /\ \A j \in DOMAIN wc_queue : wc_queue[j] <= wc_pushed

LoopInv ==
  /\ wc_loop \in [Loops -> {"off", "connecting", "up", "broken", "delay", "over"}] /\ wc_connected \in BOOLEAN
  /\ wc_attempts \in Nat /\ wc_writer \in Loops \cup {Nobody} /\ wc_lost \in Seq(1 .. MaxMessages)
  /\ wc_breaks \in 0 .. MaxBreaks /\ Len(wc_lost) <= wc_breaks
  /\ wc_writer # Nobody => wc_queue # <<>> /\ wc_loop[wc_writer] = "up"
  /\ wc_attempts <= Cardinality(Between)

ClientInv == QueueInv /\ LoopInv

LEMMA ClientMeans == ClientInv => W!clientTypeOK /\ W!WrittenInOrder /\ W!LostOnePerBreak /\ W!AttemptsNeverAddUp
<1> SUFFICES ASSUME ClientInv
             PROVE  W!clientTypeOK /\ W!WrittenInOrder /\ W!LostOnePerBreak /\ W!AttemptsNeverAddUp
  OBVIOUS
<1>1. W!clientTypeOK
  BY DEF ClientInv, QueueInv, LoopInv, W!clientTypeOK
<1>2. W!WrittenInOrder /\ W!LostOnePerBreak
  BY DEF ClientInv, QueueInv, LoopInv, Rising, W!WrittenInOrder, W!LostOnePerBreak
<1>3. /\ Cardinality(Between) \in Nat /\ Cardinality(Loops) \in Nat
      /\ Cardinality(Between) <= Cardinality(Loops)
  <2>1. Between \subseteq Loops /\ IsFiniteSet(Loops)
    BY ChainNumbers DEF Between
  <2>2. QED
    BY <2>1, FS_Subset, FS_CardinalityType
<1>4. W!AttemptsNeverAddUp
  <2>1. wc_attempts \in Nat /\ wc_attempts <= Cardinality(Between)
    BY DEF ClientInv, LoopInv
  <2>2. QED
    BY <1>3, <2>1, SameCount DEF W!AttemptsNeverAddUp
<1>5. QED
  BY <1>1, <1>2, <1>4

LEMMA ClientInit == W!clientInit => ClientInv
<1> SUFFICES ASSUME W!clientInit PROVE ClientInv
  OBVIOUS
<1>1. wc_connected = FALSE
  BY DEF W!clientInit
<1>2. wc_connected \in BOOLEAN
  BY <1>1
<1>3. QueueInv
  BY ChainNumbers DEF W!clientInit, QueueInv, Rising
<1>4. IsFiniteSet(Between)
  <2>1. Between \subseteq Loops /\ IsFiniteSet(Loops)
    BY ChainNumbers DEF Between
  <2>2. QED
    BY <2>1, FS_Subset
<1>5. Cardinality(Between) \in Nat
  BY <1>4, FS_CardinalityType
<1>6. LoopInv
  BY <1>2, <1>5, ChainNumbers DEF W!clientInit, LoopInv
<1>7. QED
  BY <1>3, <1>6 DEF ClientInv

(* The first message leaves the queue: what stays lies behind it. *)
LEMMA HeadLeaves ==
  ASSUME QueueInv, wc_queue # <<>>
  PROVE  /\ Head(wc_queue) \in 1 .. MaxMessages /\ Head(wc_queue) <= wc_pushed
         /\ Tail(wc_queue) \in Seq(1 .. MaxMessages) /\ Len(Tail(wc_queue)) <= QueueSize /\ Rising(Tail(wc_queue))
         /\ \A j \in DOMAIN Tail(wc_queue) : Head(wc_queue) < Tail(wc_queue)[j] /\ Tail(wc_queue)[j] <= wc_pushed
         /\ \A i \in DOMAIN wc_written : wc_written[i] < Head(wc_queue)
         /\ \A i \in DOMAIN wc_written, j \in DOMAIN Tail(wc_queue) : wc_written[i] < Tail(wc_queue)[j]
<1> DEFINE n == Len(wc_queue)
<1>1. n \in Nat /\ n >= 1 /\ Head(wc_queue) = wc_queue[1] /\ 1 \in DOMAIN wc_queue /\ DOMAIN wc_queue = 1 .. n
  BY DEF QueueInv
<1>2. /\ Tail(wc_queue) \in Seq(1 .. MaxMessages) /\ Len(Tail(wc_queue)) = n - 1 /\ DOMAIN Tail(wc_queue) = 1 .. (n - 1)
      /\ \A j \in 1 .. (n - 1) : Tail(wc_queue)[j] = wc_queue[j + 1]
  BY DEF QueueInv
<1>3. \A j \in 1 .. (n - 1) : j + 1 \in DOMAIN wc_queue /\ 1 < j + 1
  BY <1>1
<1>4. Rising(Tail(wc_queue))
  <2> SUFFICES ASSUME NEW i \in 1 .. (n - 1), NEW j \in 1 .. (n - 1), i < j
               PROVE  wc_queue[i + 1] < wc_queue[j + 1]
    BY <1>2 DEF Rising
  <2>1. i + 1 \in DOMAIN wc_queue /\ j + 1 \in DOMAIN wc_queue /\ i + 1 < j + 1
    BY <1>3
  <2>2. QED
    BY <2>1 DEF QueueInv, Rising
<1>5. n <= QueueSize /\ QueueSize \in Nat
  BY ChainNumbers DEF QueueInv
<1>6. Len(Tail(wc_queue)) <= QueueSize
  BY <1>1, <1>2, <1>5
<1>7. wc_queue[1] \in 1 .. MaxMessages /\ wc_queue[1] <= wc_pushed
  <2>1. wc_queue[1] \in 1 .. MaxMessages
    <3> DEFINE numbers == 1 .. MaxMessages
    <3>1. wc_queue \in Seq(numbers)
      BY DEF QueueInv
    <3>2. 1 \in 1 .. Len(wc_queue)
      BY <1>1
    <3> HIDE DEF n, numbers
    <3>3. wc_queue[1] \in numbers
      BY <3>1, <3>2
    <3>4. QED
      BY <3>3 DEF numbers
  <2>2. wc_queue[1] <= wc_pushed
    BY <1>1 DEF QueueInv
  <2>3. QED
    BY <2>1, <2>2
<1>8. \A j \in 1 .. (n - 1) : wc_queue[1] < wc_queue[j + 1] /\ wc_queue[j + 1] <= wc_pushed
  BY <1>1, <1>3 DEF QueueInv, Rising
<1>9. \A i \in DOMAIN wc_written : wc_written[i] < wc_queue[1]
  BY <1>1 DEF QueueInv
<1>10. \A i \in DOMAIN wc_written, j \in 1 .. (n - 1) : wc_written[i] < wc_queue[j + 1]
  BY <1>3 DEF QueueInv
<1> HIDE DEF n
<1>11. QED
  BY <1>1, <1>2, <1>4, <1>6, <1>7, <1>8, <1>9, <1>10

LEMMA QueuePushed == ASSUME QueueInv, W!subscribe_to_pending_txs PROVE QueueInv'
<1> DEFINE m == wc_pushed + 1
<1>1. /\ m \in 1 .. MaxMessages /\ wc_pushed' = m /\ wc_written' = wc_written
      /\ wc_queue' = wc_queue \/ (wc_queue' = Append(wc_queue, m) /\ Len(wc_queue) < QueueSize)
  BY ChainNumbers DEF QueueInv, W!subscribe_to_pending_txs
<1>2. Len(wc_queue) \in Nat /\ QueueSize \in Nat
  BY ChainNumbers DEF QueueInv
<1>3. \A i \in DOMAIN wc_written : wc_written[i] \in Nat /\ wc_written[i] < m
  BY ChainNumbers DEF QueueInv
<1>4. \A j \in DOMAIN wc_queue : wc_queue[j] \in Nat /\ wc_queue[j] < m
  BY ChainNumbers DEF QueueInv
<1>5. m \in Nat /\ wc_pushed' \in 0 .. MaxMessages
  BY <1>1, ChainNumbers DEF QueueInv
<1> HIDE DEF m
<1>6. CASE wc_queue' = wc_queue
  BY <1>1, <1>3, <1>4, <1>5, <1>6 DEF QueueInv
<1>7. CASE wc_queue' = Append(wc_queue, m) /\ Len(wc_queue) < QueueSize
  <2>1. /\ wc_queue' \in Seq(1 .. MaxMessages) /\ Len(wc_queue') = Len(wc_queue) + 1
        /\ DOMAIN wc_queue' = 1 .. (Len(wc_queue) + 1) /\ DOMAIN wc_queue = 1 .. Len(wc_queue)
        /\ \A j \in DOMAIN wc_queue : wc_queue'[j] = wc_queue[j]
        /\ wc_queue'[Len(wc_queue) + 1] = m
    BY <1>1, <1>7 DEF QueueInv
  <2>2. Len(wc_queue') <= QueueSize
    BY <1>2, <1>7, <2>1
  <2>3. ASSUME NEW j \in DOMAIN wc_queue'
        PROVE  \/ j \in DOMAIN wc_queue /\ wc_queue'[j] = wc_queue[j]
               \/ j = Len(wc_queue) + 1 /\ wc_queue'[j] = m
    BY <1>2, <2>1
  <2>4. Rising(wc_queue')
    <3> SUFFICES ASSUME NEW i \in DOMAIN wc_queue', NEW j \in DOMAIN wc_queue', i < j
                 PROVE  wc_queue'[i] < wc_queue'[j]
      BY DEF Rising
    <3>1. i \in DOMAIN wc_queue /\ wc_queue'[i] = wc_queue[i]
      BY <1>2, <2>1, <2>3
    <3>2. CASE j \in DOMAIN wc_queue /\ wc_queue'[j] = wc_queue[j]
      BY <3>1, <3>2 DEF QueueInv, Rising
    <3>3. CASE wc_queue'[j] = m
      BY <1>4, <3>1, <3>3
    <3>4. QED
      BY <2>3, <3>2, <3>3
  <2>5. \A j \in DOMAIN wc_queue' : wc_queue'[j] <= m
    BY <1>4, <1>5, <2>3
  <2>6. \A i \in DOMAIN wc_written, j \in DOMAIN wc_queue' : wc_written[i] < wc_queue'[j]
    BY <1>3, <2>3 DEF QueueInv
  <2>7. \A i \in DOMAIN wc_written : wc_written[i] <= m
    BY <1>3, <1>5
  <2>8. QED
    BY <1>1, <1>5, <2>1, <2>2, <2>4, <2>5, <2>6, <2>7 DEF QueueInv, Rising
<1>8. QED
  BY <1>1, <1>6, <1>7

LEMMA QueueWritten ==
  ASSUME QueueInv, wc_queue # <<>>, wc_written' = Append(wc_written, Head(wc_queue)), wc_queue' = Tail(wc_queue),
         wc_pushed' = wc_pushed
  PROVE  QueueInv'
<1> DEFINE h == Head(wc_queue)
           n == Len(wc_written)
<1>1. /\ h \in 1 .. MaxMessages /\ h <= wc_pushed /\ h \in Nat /\ n \in Nat
      /\ \A i \in DOMAIN wc_written : wc_written[i] < h
      /\ \A j \in DOMAIN wc_queue' : h < wc_queue'[j]
  <2>1. /\ h \in 1 .. MaxMessages /\ h <= wc_pushed
        /\ \A i \in DOMAIN wc_written : wc_written[i] < h
        /\ \A j \in DOMAIN wc_queue' : h < wc_queue'[j]
    BY HeadLeaves
  <2>2. n \in Nat
    BY DEF QueueInv
  <2>3. QED
    BY <2>1, <2>2
<1>2. /\ wc_written' \in Seq(1 .. MaxMessages) /\ DOMAIN wc_written' = 1 .. (n + 1) /\ DOMAIN wc_written = 1 .. n
      /\ \A i \in DOMAIN wc_written : wc_written'[i] = wc_written[i]
      /\ wc_written'[n + 1] = h
  BY <1>1 DEF QueueInv
<1> HIDE DEF h, n
<1>3. ASSUME NEW i \in DOMAIN wc_written'
      PROVE  \/ i \in DOMAIN wc_written /\ wc_written'[i] = wc_written[i]
             \/ i = n + 1 /\ wc_written'[i] = h
  BY <1>1, <1>2
<1>4. Rising(wc_written')
  <2> SUFFICES ASSUME NEW i \in DOMAIN wc_written', NEW j \in DOMAIN wc_written', i < j
               PROVE  wc_written'[i] < wc_written'[j]
    BY DEF Rising
  <2>1. i \in DOMAIN wc_written /\ wc_written'[i] = wc_written[i]
    BY <1>1, <1>2, <1>3
  <2>2. QED
    BY <1>1, <1>3, <2>1 DEF QueueInv, Rising
<1>5. \A i \in DOMAIN wc_written' : wc_written'[i] <= wc_pushed
  BY <1>1, <1>3 DEF QueueInv
<1>6. \A i \in DOMAIN wc_written', j \in DOMAIN wc_queue' : wc_written'[i] < wc_queue'[j]
  BY <1>1, <1>3, HeadLeaves
<1>7. /\ wc_queue' \in Seq(1 .. MaxMessages) /\ Len(wc_queue') <= QueueSize /\ Rising(wc_queue')
      /\ \A j \in DOMAIN wc_queue' : wc_queue'[j] <= wc_pushed
  BY HeadLeaves
<1>8. QED
  BY <1>2, <1>4, <1>5, <1>6, <1>7 DEF QueueInv, Rising

(* A message in hand is lost: what was written and what stays is as before. *)
LEMMA QueueDropped ==
  ASSUME QueueInv, wc_queue # <<>>, wc_queue' = Tail(wc_queue), UNCHANGED <<wc_written, wc_pushed>>
  PROVE  QueueInv'
BY HeadLeaves DEF QueueInv, Rising

(* A loop leaves the connection, or comes to it: who may have counted an   *)
(* attempt stays, or is one less with the count back at zero.              *)
LEMMA AttemptsCounted ==
  ASSUME LoopInv, wc_attempts' = 0 \/ (wc_attempts' = wc_attempts /\ Between \subseteq Between'), Between' \subseteq Loops
  PROVE  wc_attempts' \in Nat /\ wc_attempts' <= Cardinality(Between')
<1>1. IsFiniteSet(Between') /\ Cardinality(Between') \in Nat
  <2>1. IsFiniteSet(Loops)
    BY ChainNumbers
  <2>2. IsFiniteSet(Between')
    BY <2>1, FS_Subset
  <2>3. QED
    BY <2>2, FS_CardinalityType
<1>2. CASE wc_attempts' = 0
  BY <1>1, <1>2
<1>3. CASE wc_attempts' = wc_attempts /\ Between \subseteq Between'
  <2>1. Cardinality(Between) <= Cardinality(Between') /\ Cardinality(Between) \in Nat
    BY <1>1, <1>3, FS_Subset, FS_CardinalityType
  <2>2. wc_attempts \in Nat /\ wc_attempts <= Cardinality(Between)
    BY DEF LoopInv
  <2>3. QED
    BY <1>1, <1>3, <2>1, <2>2
<1>4. QED
  BY <1>2, <1>3

LEMMA ClientStep == ClientInv /\ [W!clientNext]_websocket_clientVars => ClientInv'
<1> SUFFICES ASSUME ClientInv, [W!clientNext]_websocket_clientVars
             PROVE  ClientInv'
  OBVIOUS
<1>0. Nobody \notin Loops /\ QueueInv /\ LoopInv /\ wc_connected \in BOOLEAN /\ Between \subseteq Loops /\ Between' \subseteq Loops
  BY ChainNumbers DEF ClientInv, LoopInv, Between
<1>1. CASE UNCHANGED websocket_clientVars
  BY <1>1 DEF websocket_clientVars, ClientInv, QueueInv, LoopInv, Rising, Between
<1>2. CASE W!subscribe_to_pending_txs
  <2>1. QueueInv'
    BY <1>0, <1>2, QueuePushed
  <2>2. UNCHANGED <<wc_loop, wc_connected, wc_attempts, wc_writer, wc_lost, wc_breaks>>
    BY <1>2 DEF W!subscribe_to_pending_txs
  <2>3. Cardinality(Between)' = Cardinality(Between)
    BY <2>2 DEF Between
  <2>4. wc_writer # Nobody => wc_queue' # <<>>
    BY <1>0, <1>2 DEF W!subscribe_to_pending_txs, W!queue_unlocked
  <2>5. QED
    BY <1>0, <2>1, <2>2, <2>3, <2>4 DEF ClientInv, LoopInv
<1>3. ASSUME NEW l \in Loops, W!connect(l) \/ W!connected(l) \/ W!refused(l) \/ W!delay_ends(l)
      PROVE  ClientInv'
  <2>1. UNCHANGED <<wc_queue, wc_writer, wc_written, wc_lost, wc_pushed, wc_breaks>>
    BY <1>3 DEF W!connect, W!connected, W!refused, W!delay_ends, W!msgs
  <2>2. wc_connected' = TRUE \/ wc_connected' = wc_connected
    BY <1>3 DEF W!connect, W!connected, W!refused, W!delay_ends
  <2>3. wc_connected' \in BOOLEAN
    BY <1>0, <2>2
  <2>4. PICK to \in {"connecting", "up", "over"} : wc_loop' = [wc_loop EXCEPT ![l] = to]
    BY <1>3 DEF W!connect, W!connected, W!refused, W!delay_ends, W!goes
  <2>5. /\ wc_loop[l] \in {"off", "connecting", "delay"}
        /\ wc_attempts' = 0 \/ (wc_attempts' = wc_attempts /\ wc_loop'[l] \in {"connecting", "over"})
    BY <1>0, <1>3 DEF W!connect, W!connected, W!refused, W!delay_ends, W!goes, LoopInv
  <2>6. wc_loop' \in [Loops -> {"off", "connecting", "up", "broken", "delay", "over"}]
    BY <1>0, <2>4 DEF LoopInv
  <2>7. wc_attempts' = 0 \/ (wc_attempts' = wc_attempts /\ Between \subseteq Between')
    BY <1>0, <2>4, <2>5, <2>6 DEF Between, LoopInv
  <2>8. wc_attempts' \in Nat /\ wc_attempts' <= Cardinality(Between')
    BY <1>0, <2>7, AttemptsCounted
  <2>9. wc_writer' # Nobody => wc_queue' # <<>> /\ wc_loop'[wc_writer'] = "up"
    BY <1>0, <2>1, <2>4, <2>5 DEF LoopInv
  <2>10. QueueInv'
    BY <1>0, <2>1 DEF QueueInv, Rising
  <2>11. LoopInv'
    BY <1>0, <2>1, <2>3, <2>6, <2>8, <2>9 DEF LoopInv
  <2>12. QED
    BY <2>10, <2>11 DEF ClientInv
<1>4. ASSUME NEW l \in Loops, W!takes(l)
      PROVE  ClientInv'
  <2>1. /\ UNCHANGED <<wc_loop, wc_connected, wc_attempts, wc_queue, wc_written, wc_lost, wc_pushed, wc_breaks>>
        /\ wc_loop[l] = "up" /\ wc_queue # <<>> /\ wc_writer' = l
    BY <1>4 DEF W!takes
  <2>2. Cardinality(Between)' = Cardinality(Between)
    BY <2>1 DEF Between
  <2>3. QueueInv'
    BY <1>0, <2>1 DEF QueueInv, Rising
  <2>4. QED
    BY <1>0, <2>1, <2>2, <2>3 DEF ClientInv, LoopInv
<1>5. ASSUME NEW l \in Loops, W!writes_message(l)
      PROVE  ClientInv'
  <2>1. /\ UNCHANGED <<wc_loop, wc_connected, wc_attempts, wc_lost, wc_pushed, wc_breaks>>
        /\ wc_writer = l /\ wc_writer' = Nobody /\ wc_written' = Append(wc_written, Head(wc_queue)) /\ wc_queue' = Tail(wc_queue)
    BY <1>5 DEF W!writes_message
  <2>2. Cardinality(Between)' = Cardinality(Between)
    BY <2>1 DEF Between
  <2>3. wc_queue # <<>>
    BY <1>0, <2>1 DEF LoopInv
  <2>4. QueueInv'
    BY <1>0, <2>1, <2>3, QueueWritten
  <2>5. QED
    BY <1>0, <2>1, <2>2, <2>4 DEF ClientInv, LoopInv
<1>6. ASSUME NEW l \in Loops, W!breaks(l)
      PROVE  ClientInv'
  <2>1. /\ wc_breaks < MaxBreaks /\ wc_breaks' = wc_breaks + 1 /\ UNCHANGED <<wc_attempts, wc_written, wc_pushed>>
        /\ wc_loop[l] = "up" /\ wc_loop' = [wc_loop EXCEPT ![l] = "broken"]
    BY <1>6 DEF W!breaks, W!goes
  <2>2. wc_connected' = wc_connected \/ wc_connected' = FALSE
    BY <1>6 DEF W!breaks
  <2>3. wc_connected' \in BOOLEAN
    BY <1>0, <2>2
  <2>4. Between' = Between
    BY <1>0, <2>1 DEF Between, LoopInv
  <2>5. wc_attempts' \in Nat /\ wc_attempts' <= Cardinality(Between')
    BY <1>0, <2>1, <2>4, AttemptsCounted
  <2>6. wc_breaks' \in 0 .. MaxBreaks /\ wc_loop' \in [Loops -> {"off", "connecting", "up", "broken", "delay", "over"}]
    BY <1>0, <2>1, ChainNumbers DEF LoopInv
  <2>7. CASE wc_writer = l
    <3>1. /\ wc_lost' = Append(wc_lost, Head(wc_queue)) /\ wc_queue' = Tail(wc_queue) /\ wc_writer' = Nobody
          /\ wc_queue # <<>>
      BY <1>0, <1>6, <2>7 DEF W!breaks, W!dropped, LoopInv
    <3>2. QueueInv'
      BY <1>0, <2>1, <3>1, QueueDropped
    <3>3. Head(wc_queue) \in 1 .. MaxMessages
      BY <1>0, <3>1, HeadLeaves
    <3>4. wc_lost' \in Seq(1 .. MaxMessages) /\ Len(wc_lost') = Len(wc_lost) + 1 /\ Len(wc_lost) \in Nat
      BY <1>0, <3>1, <3>3 DEF LoopInv
    <3>5. Len(wc_lost') <= wc_breaks'
      BY <1>0, <2>1, <3>4, ChainNumbers DEF LoopInv
    <3>6. QED
      BY <2>3, <2>5, <2>6, <3>1, <3>2, <3>4, <3>5 DEF ClientInv, LoopInv
  <2>8. CASE wc_writer # l
    <3>1. UNCHANGED <<wc_lost, wc_queue, wc_writer>>
      BY <1>6, <2>8 DEF W!breaks, W!dropped
    <3>2. QueueInv'
      BY <1>0, <2>1, <3>1 DEF QueueInv, Rising
    <3>3. Len(wc_lost) \in Nat /\ Len(wc_lost) <= wc_breaks /\ wc_breaks \in Nat
      BY <1>0, ChainNumbers DEF LoopInv
    <3>4. Len(wc_lost') <= wc_breaks'
      BY <2>1, <3>1, <3>3
    <3>5. wc_writer' # Nobody => wc_queue' # <<>> /\ wc_loop'[wc_writer'] = "up"
      BY <1>0, <2>1, <2>8, <3>1 DEF LoopInv
    <3>6. QED
      BY <1>0, <2>3, <2>5, <2>6, <3>1, <3>2, <3>4, <3>5 DEF ClientInv, LoopInv
  <2>9. QED
    BY <2>7, <2>8
<1>7. ASSUME NEW l \in Loops, W!stops(l)
      PROVE  ClientInv'
  <2>1. /\ wc_loop[l] = "up" /\ wc_loop' = [wc_loop EXCEPT ![l] = "broken"] /\ wc_writer # l
        /\ UNCHANGED <<wc_connected, wc_attempts, wc_queue, wc_writer, wc_written, wc_lost, wc_pushed, wc_breaks>>
    BY <1>7 DEF W!stops, W!goes, W!msgs
  <2>2. Between' = Between
    BY <1>0, <2>1 DEF Between, LoopInv
  <2>3. wc_attempts' \in Nat /\ wc_attempts' <= Cardinality(Between')
    BY <1>0, <2>1, <2>2, AttemptsCounted
  <2>4. QueueInv'
    BY <1>0, <2>1 DEF QueueInv, Rising
  <2>5. QED
    BY <1>0, <2>1, <2>3, <2>4 DEF ClientInv, LoopInv
<1>8. ASSUME NEW l \in Loops, W!reconnect(l)
      PROVE  ClientInv'
  <2>1. PICK to \in {"delay", "over"} : wc_loop' = [wc_loop EXCEPT ![l] = to]
    BY <1>8 DEF W!reconnect
  <2>2. /\ wc_loop[l] = "broken" /\ wc_attempts' = wc_attempts + 1
        /\ UNCHANGED <<wc_queue, wc_writer, wc_written, wc_lost, wc_pushed, wc_breaks>>
    BY <1>8 DEF W!reconnect, W!msgs
  <2>3. wc_connected' = FALSE
    BY <1>8 DEF W!reconnect
  <2>4. wc_connected' \in BOOLEAN
    BY <2>3
  <2>5. wc_loop' \in [Loops -> {"off", "connecting", "up", "broken", "delay", "over"}] /\ wc_loop'[l] = to
    BY <1>0, <2>1 DEF LoopInv
  <2>6. Between' = Between \cup {l} /\ l \notin Between
    BY <1>0, <2>1, <2>2, <2>5 DEF Between, LoopInv
  <2>7. IsFiniteSet(Between) /\ Cardinality(Between) \in Nat
    BY <1>0, ChainNumbers, FS_Subset, FS_CardinalityType
  <2>8. Cardinality(Between') = Cardinality(Between) + 1
    BY <2>6, <2>7, FS_AddElement
  <2>9. wc_attempts \in Nat /\ wc_attempts <= Cardinality(Between)
    BY <1>0 DEF LoopInv
  <2>10. wc_attempts' \in Nat /\ wc_attempts' <= Cardinality(Between')
    BY <2>2, <2>7, <2>8, <2>9
  <2>11. wc_writer' # Nobody => wc_queue' # <<>> /\ wc_loop'[wc_writer'] = "up"
    BY <1>0, <2>1, <2>2 DEF LoopInv
  <2>12. QueueInv'
    BY <1>0, <2>2 DEF QueueInv, Rising
  <2>13. LoopInv'
    BY <1>0, <2>2, <2>4, <2>5, <2>10, <2>11 DEF LoopInv
  <2>14. QED
    BY <2>12, <2>13 DEF ClientInv
<1>9. QED
  BY <1>1, <1>2, <1>3, <1>4, <1>5, <1>6, <1>7, <1>8
     DEF W!clientNext, W!get_sender, W!clientVars, websocket_clientVars

(***************************************************************************)
(* The service manager.  The channel holds requests in the order they were *)
(* sent, and every request already given to snipe was sent before each of  *)
(* them: so none is given twice, and none overtakes another.               *)
(***************************************************************************)
LEMMA Appended ==
  ASSUME NEW T, NEW s \in Seq(T), NEW x \in T
  PROVE  /\ Append(s, x) \in Seq(T) /\ Len(Append(s, x)) = Len(s) + 1 /\ Len(s) + 1 \in DOMAIN Append(s, x)
         /\ Append(s, x)[Len(s) + 1] = x
         /\ \A i \in DOMAIN s : i \in DOMAIN Append(s, x) /\ Append(s, x)[i] = s[i] /\ i < Len(s) + 1 /\ i \in Nat
         /\ \A i \in DOMAIN Append(s, x) : i \in DOMAIN s \/ i = Len(s) + 1
         /\ N!ToSet(Append(s, x)) = N!ToSet(s) \cup {x}
<1>1. /\ Append(s, x) \in Seq(T) /\ Len(Append(s, x)) = Len(s) + 1 /\ Len(s) \in Nat
      /\ DOMAIN Append(s, x) = 1 .. (Len(s) + 1) /\ DOMAIN s = 1 .. Len(s)
      /\ Append(s, x)[Len(s) + 1] = x
      /\ \A i \in DOMAIN s : Append(s, x)[i] = s[i]
  OBVIOUS
<1>2. /\ Len(s) + 1 \in DOMAIN Append(s, x)
      /\ \A i \in DOMAIN s : i \in DOMAIN Append(s, x) /\ i < Len(s) + 1 /\ i \in Nat
      /\ \A i \in DOMAIN Append(s, x) : i \in DOMAIN s \/ i = Len(s) + 1
  BY <1>1
<1> DEFINE t == Append(s, x)
<1> HIDE DEF t
<1>3. N!ToSet(t) = N!ToSet(s) \cup {x}
  BY <1>1, <1>2 DEF N!ToSet, t
<1>4. QED
  BY <1>1, <1>2, <1>3 DEF t

LEMMA HeadAndTail ==
  ASSUME NEW T, NEW s \in Seq(T), s # <<>>
  PROVE  /\ Tail(s) \in Seq(T) /\ Len(Tail(s)) <= Len(s) /\ Head(s) = s[1] /\ Head(s) \in T /\ 1 \in DOMAIN s
         /\ \A i \in DOMAIN Tail(s) : i + 1 \in DOMAIN s /\ Tail(s)[i] = s[i + 1] /\ 1 < i + 1 /\ i \in Nat
         /\ N!ToSet(s) = {Head(s)} \cup N!ToSet(Tail(s))
<1>1. /\ Tail(s) \in Seq(T) /\ Len(Tail(s)) = Len(s) - 1 /\ Head(s) = s[1] /\ Len(s) \in Nat /\ Len(s) >= 1
      /\ DOMAIN Tail(s) = 1 .. (Len(s) - 1) /\ DOMAIN s = 1 .. Len(s)
      /\ \A i \in DOMAIN Tail(s) : Tail(s)[i] = s[i + 1]
  OBVIOUS
<1>2. /\ 1 \in DOMAIN s /\ Len(s) - 1 <= Len(s)
      /\ \A i \in DOMAIN Tail(s) : i + 1 \in DOMAIN s /\ 1 < i + 1 /\ i \in Nat
      /\ \A i \in DOMAIN s : i = 1 \/ (i - 1 \in DOMAIN Tail(s) /\ (i - 1) + 1 = i)
  BY <1>1
<1>3. s[1] \in T
  BY <1>1, <1>2
<1> DEFINE t == Tail(s)
<1> HIDE DEF t
<1>4. N!ToSet(s) = {s[1]} \cup N!ToSet(t)
  BY <1>1, <1>2 DEF N!ToSet, t
<1>5. QED
  BY <1>1, <1>2, <1>3, <1>4 DEF t

Queued == N!ToSet(sv_queue)
Sent == N!ToSet(sv_sent)
Sniped == N!ToSet(sv_sniped)

ServicesTyped ==
  /\ sv_running \in BOOLEAN /\ sv_queue \in Seq(N!Messages) /\ Len(sv_queue) <= Room
  /\ sv_doing \in Requests \cup {N!nothing} /\ sv_step \in {"idle", "sniping", "recording"}
  /\ sv_sent \in Seq(Requests) /\ sv_sniped \in Seq(Requests)
  /\ sv_ended \in [Requests -> N!Ends] /\ sv_stored \subseteq Requests /\ sv_others \in 0 .. MaxOthers

ServicesOrder ==
  /\ \A i, j \in DOMAIN sv_sent : sv_sent[i] = sv_sent[j] => i = j
  /\ \A i, j \in DOMAIN sv_queue :
       i < j /\ sv_queue[i] \in Requests /\ sv_queue[j] \in Requests => N!Before(sv_queue[i], sv_queue[j])
  /\ \A i \in DOMAIN sv_sniped : \A r \in Queued \cap Requests : N!Before(sv_sniped[i], r)
  /\ \A i, j \in DOMAIN sv_sniped : i < j => N!Before(sv_sniped[i], sv_sniped[j])

ServicesEnds ==
  /\ \A r \in Queued \cap Requests : r \in Sent /\ sv_ended[r] = "none"
  /\ Sniped = {r \in Sent : sv_ended[r] # "refused" /\ r \notin Queued}
  /\ sv_step # "idle" => sv_doing \in Sniped /\ sv_ended[sv_doing] = "none"
  /\ \A r \in Requests \ Sent : sv_ended[r] = "none"
  /\ N!FailuresStored

ServicesInv == ServicesTyped /\ ServicesOrder /\ ServicesEnds

LEMMA ServicesMean == ServicesInv => N!servicesTypeOK /\ N!SnipedOnceInOrder /\ N!FailuresStored
<1> SUFFICES ASSUME ServicesInv
             PROVE  N!servicesTypeOK /\ N!SnipedOnceInOrder /\ N!FailuresStored
  OBVIOUS
<1>1. Sent \subseteq Requests /\ Sniped \subseteq Requests
  BY DEF ServicesInv, ServicesTyped, Sent, Sniped, N!ToSet
<1>2. N!servicesTypeOK
  BY <1>1 DEF ServicesInv, ServicesTyped, Sent, Sniped, N!servicesTypeOK
<1>3. N!SnipedOnceInOrder
  BY DEF ServicesInv, ServicesOrder, ServicesEnds, Sent, Sniped, Queued, N!SnipedOnceInOrder
<1>4. QED
  BY <1>2, <1>3 DEF ServicesInv, ServicesEnds

LEMMA ServicesInit == N!servicesInit => ServicesInv
<1> SUFFICES ASSUME N!servicesInit PROVE ServicesInv
  OBVIOUS
<1>1. sv_running = TRUE
  BY DEF N!servicesInit
<1>2. sv_running \in BOOLEAN
  BY <1>1
<1>3. ServicesTyped
  BY <1>2, ChainNumbers DEF N!servicesInit, ServicesTyped, N!Ends
<1>4. Sent = {} /\ Sniped = {} /\ Queued = {}
  BY DEF N!servicesInit, Sent, Sniped, Queued, N!ToSet
<1>5. ServicesOrder
  BY <1>4 DEF N!servicesInit, ServicesOrder
<1>6. ServicesEnds
  BY <1>4 DEF N!servicesInit, ServicesEnds, N!FailuresStored
<1>7. QED
  BY <1>3, <1>5, <1>6 DEF ServicesInv

LEMMA BeforeMeans ==
  ASSUME ServicesInv, NEW r, NEW q, N!Before(r, q)
  PROVE  r \in Sent /\ q \in Sent /\ r # q
<1>1. PICK i \in DOMAIN sv_sent, j \in DOMAIN sv_sent : i < j /\ sv_sent[i] = r /\ sv_sent[j] = q
  BY DEF N!Before
<1>2. i # j
  BY <1>1 DEF ServicesInv, ServicesTyped
<1>3. QED
  BY <1>1, <1>2 DEF ServicesInv, ServicesOrder, Sent, N!ToSet

(* The loop takes a message: what stays in the channel was sent after it. *)
LEMMA Taken ==
  ASSUME ServicesInv, sv_queue # <<>>, sv_queue' = Tail(sv_queue), UNCHANGED sv_sent
  PROVE  /\ sv_queue' \in Seq(N!Messages) /\ Len(sv_queue') <= Room
         /\ Head(sv_queue) \in N!Messages /\ Queued = {Head(sv_queue)} \cup Queued'
         /\ \A i, j \in DOMAIN sv_queue' :
              i < j /\ sv_queue'[i] \in Requests /\ sv_queue'[j] \in Requests => N!Before(sv_queue'[i], sv_queue'[j])
         /\ Head(sv_queue) \in Requests =>
              \A r \in Queued' \cap Requests : N!Before(Head(sv_queue), r) /\ Head(sv_queue) # r
<1> DEFINE h == Head(sv_queue)
<1>1. sv_queue \in Seq(N!Messages)
  BY DEF ServicesInv, ServicesTyped
<1>2. /\ sv_queue' \in Seq(N!Messages) /\ Len(sv_queue') <= Len(sv_queue) /\ h = sv_queue[1] /\ h \in N!Messages
      /\ 1 \in DOMAIN sv_queue
      /\ \A i \in DOMAIN sv_queue' : i + 1 \in DOMAIN sv_queue /\ sv_queue'[i] = sv_queue[i + 1] /\ 1 < i + 1 /\ i \in Nat
      /\ N!ToSet(sv_queue) = {h} \cup N!ToSet(sv_queue')
  BY <1>1, HeadAndTail
<1>3. /\ Len(sv_queue) \in Nat /\ Len(sv_queue') \in Nat /\ Len(sv_queue) <= Room /\ Room \in Nat
  BY <1>1, <1>2, ChainNumbers DEF ServicesInv, ServicesTyped
<1>4. Len(sv_queue') <= Room
  BY <1>2, <1>3
<1> HIDE DEF h
<1>5. ASSUME NEW i \in DOMAIN sv_queue', NEW j \in DOMAIN sv_queue', i < j, sv_queue'[i] \in Requests, sv_queue'[j] \in Requests
      PROVE  N!Before(sv_queue'[i], sv_queue'[j])
  <2>1. i + 1 < j + 1
    BY <1>2, <1>5
  <2>2. QED
    BY <1>2, <1>5, <2>1 DEF ServicesInv, ServicesOrder
<1>6. ASSUME h \in Requests, NEW r \in Queued' \cap Requests
      PROVE  N!Before(h, r) /\ h # r
  <2>1. PICK j \in DOMAIN sv_queue' : sv_queue'[j] = r
    BY DEF Queued, N!ToSet
  <2>2. N!Before(h, r)
    BY <1>2, <1>6, <2>1 DEF ServicesInv, ServicesOrder
  <2>3. QED
    BY <2>2, BeforeMeans
<1>7. Queued = {h} \cup Queued'
  BY <1>2 DEF Queued
<1>8. QED
  BY <1>2, <1>4, <1>5, <1>6, <1>7 DEF h

(* A message that is no request leaves the channel, and nothing else changes. *)
LEMMA OtherTaken ==
  ASSUME ServicesInv, NEW m \in {"monitor", "stop", "other"}, N!takes(m), sv_running' \in BOOLEAN,
         UNCHANGED <<sv_doing, sv_step, sv_sent, sv_sniped, sv_ended, sv_stored, sv_others>>
  PROVE  ServicesInv'
<1>1. sv_queue # <<>> /\ sv_queue' = Tail(sv_queue) /\ Head(sv_queue) = m /\ m \notin Requests
  BY ChainNumbers DEF N!takes
<1>2. Queued' \cap Requests = Queued \cap Requests
  BY <1>1, Taken
<1>3. ServicesTyped'
  BY <1>1, Taken DEF ServicesInv, ServicesTyped
<1>4. \A r, q : N!Before(r, q)' = N!Before(r, q)
  BY DEF N!Before
<1>5. ServicesOrder'
  BY <1>1, <1>2, <1>4, Taken DEF ServicesInv, ServicesOrder
<1>6. Sent' = Sent /\ Sniped' = Sniped /\ Sent \subseteq Requests
  BY DEF Sent, Sniped, ServicesInv, ServicesTyped, N!ToSet
<1>7. ServicesEnds'
  BY <1>2, <1>6 DEF ServicesInv, ServicesEnds, N!FailuresStored
<1>8. QED
  BY <1>3, <1>5, <1>7 DEF ServicesInv

LEMMA RequestTaken ==
  ASSUME ServicesInv, NEW r \in Requests, N!parse_fails(r) \/ N!process_transaction(r)
  PROVE  ServicesInv'
<1>0. sv_queue # <<>> /\ sv_queue' = Tail(sv_queue) /\ Head(sv_queue) = r /\ sv_step = "idle" /\ sv_running \in BOOLEAN
      /\ UNCHANGED <<sv_running, sv_sent, sv_stored, sv_others>>
  BY DEF N!parse_fails, N!process_transaction, N!takes, ServicesInv, ServicesTyped
<1>1. /\ sv_queue' \in Seq(N!Messages) /\ Len(sv_queue') <= Room /\ Queued = {r} \cup Queued'
      /\ \A q \in Queued' \cap Requests : N!Before(r, q) /\ q # r
      /\ \A i, j \in DOMAIN sv_queue' :
           i < j /\ sv_queue'[i] \in Requests /\ sv_queue'[j] \in Requests => N!Before(sv_queue'[i], sv_queue'[j])
  BY <1>0, Taken
<1>2. r \in Sent /\ sv_ended[r] = "none" /\ r \notin Sniped /\ r \notin Queued'
  BY <1>1 DEF ServicesInv, ServicesEnds
<1>3. \A p, q : N!Before(p, q)' = N!Before(p, q)
  BY <1>0 DEF N!Before
<1>4. Sent' = Sent /\ Sent \subseteq Requests
  BY <1>0 DEF Sent, ServicesInv, ServicesTyped, N!ToSet
<1>5. CASE N!parse_fails(r)
  <2>1. sv_ended' = [sv_ended EXCEPT ![r] = "refused"] /\ UNCHANGED <<sv_doing, sv_step, sv_sniped>>
    BY <1>5 DEF N!parse_fails
  <2>2. sv_ended' \in [Requests -> N!Ends] /\ sv_ended'[r] = "refused" /\ \A q \in Requests : q # r => sv_ended'[q] = sv_ended[q]
    BY <2>1 DEF ServicesInv, ServicesTyped, N!Ends
  <2>3. ServicesTyped'
    BY <1>0, <1>1, <2>1, <2>2 DEF ServicesInv, ServicesTyped
  <2>4. ServicesOrder'
    BY <1>0, <1>1, <1>3, <2>1 DEF ServicesInv, ServicesOrder
  <2>5. Sniped' = Sniped
    BY <2>1 DEF Sniped
  <2>6. Sniped' = {q \in Sent' : sv_ended'[q] # "refused" /\ q \notin Queued'}
    BY <1>1, <1>2, <1>4, <2>2, <2>5 DEF ServicesInv, ServicesEnds
  <2>7. N!FailuresStored'
    BY <1>0, <1>2, <2>2 DEF ServicesInv, ServicesEnds, N!FailuresStored
  <2>8. ServicesEnds'
    BY <1>0, <1>1, <1>2, <1>4, <2>1, <2>2, <2>6, <2>7 DEF ServicesInv, ServicesEnds
  <2>9. QED
    BY <2>3, <2>4, <2>8 DEF ServicesInv
<1>6. CASE N!process_transaction(r)
  <2>1. sv_doing' = r /\ sv_step' = "sniping" /\ sv_sniped' = Append(sv_sniped, r) /\ sv_ended' = sv_ended
    BY <1>6 DEF N!process_transaction
  <2>2. /\ sv_sniped' \in Seq(Requests) /\ N!ToSet(sv_sniped') = N!ToSet(sv_sniped) \cup {r}
        /\ sv_sniped'[Len(sv_sniped) + 1] = r
        /\ \A i \in DOMAIN sv_sniped : sv_sniped'[i] = sv_sniped[i] /\ i < Len(sv_sniped) + 1 /\ i \in Nat
        /\ \A i \in DOMAIN sv_sniped' : i \in DOMAIN sv_sniped \/ i = Len(sv_sniped) + 1
    BY <2>1, Appended DEF ServicesInv, ServicesTyped
  <2>3. ServicesTyped'
    BY <1>0, <1>1, <2>1, <2>2 DEF ServicesInv, ServicesTyped
  <2>4. ASSUME NEW i \in DOMAIN sv_sniped', NEW q \in Queued' \cap Requests
        PROVE  N!Before(sv_sniped'[i], q)
    BY <1>1, <2>2 DEF ServicesInv, ServicesOrder
  <2>5. ASSUME NEW i \in DOMAIN sv_sniped', NEW j \in DOMAIN sv_sniped', i < j
        PROVE  N!Before(sv_sniped'[i], sv_sniped'[j])
    <3>1. Len(sv_sniped) \in Nat
      BY DEF ServicesInv, ServicesTyped
    <3>2. i \in DOMAIN sv_sniped /\ sv_sniped'[i] = sv_sniped[i]
      BY <2>2, <2>5, <3>1
    <3>3. r \in Queued \cap Requests
      BY <1>1
    <3>4. CASE j \in DOMAIN sv_sniped
      BY <2>2, <2>5, <3>2, <3>4 DEF ServicesInv, ServicesOrder
    <3>5. CASE j = Len(sv_sniped) + 1
      BY <2>2, <3>2, <3>3, <3>5 DEF ServicesInv, ServicesOrder
    <3>6. QED
      BY <2>2, <3>4, <3>5
  <2>6. ServicesOrder'
    BY <1>0, <1>1, <1>3, <2>4, <2>5 DEF ServicesInv, ServicesOrder
  <2>7. Sniped' = Sniped \cup {r}
    BY <2>2 DEF Sniped
  <2>8. Sniped' = {q \in Sent' : sv_ended'[q] # "refused" /\ q \notin Queued'}
    BY <1>1, <1>2, <1>4, <2>1, <2>7 DEF ServicesInv, ServicesEnds
  <2>9. ServicesEnds'
    BY <1>0, <1>1, <1>2, <1>4, <2>1, <2>7, <2>8 DEF ServicesInv, ServicesEnds, N!FailuresStored
  <2>10. QED
    BY <2>3, <2>6, <2>9 DEF ServicesInv
<1>7. QED
  BY <1>5, <1>6

(* A message comes to the end of the channel. *)
LEMMA Queueing ==
  ASSUME ServicesInv, NEW m \in N!Messages, Len(sv_queue) < Room, sv_queue' = Append(sv_queue, m)
  PROVE  /\ sv_queue' \in Seq(N!Messages) /\ Len(sv_queue') <= Room /\ Queued' = Queued \cup {m}
         /\ \A i, j \in DOMAIN sv_queue' : i < j => i \in DOMAIN sv_queue /\ sv_queue'[i] = sv_queue[i] /\ sv_queue[i] \in Queued
         /\ \A j \in DOMAIN sv_queue' : (j \in DOMAIN sv_queue /\ sv_queue'[j] = sv_queue[j]) \/ sv_queue'[j] = m
<1>1. sv_queue \in Seq(N!Messages) /\ Len(sv_queue) \in Nat /\ Room \in Nat
  BY ChainNumbers DEF ServicesInv, ServicesTyped
<1>2. /\ sv_queue' \in Seq(N!Messages) /\ Len(sv_queue') = Len(sv_queue) + 1
      /\ sv_queue'[Len(sv_queue) + 1] = m
      /\ \A i \in DOMAIN sv_queue : i \in DOMAIN sv_queue' /\ sv_queue'[i] = sv_queue[i] /\ i < Len(sv_queue) + 1 /\ i \in Nat
      /\ \A i \in DOMAIN sv_queue' : i \in DOMAIN sv_queue \/ i = Len(sv_queue) + 1
      /\ N!ToSet(sv_queue') = N!ToSet(sv_queue) \cup {m}
  BY <1>1, Appended
<1>3. Len(sv_queue') <= Room
  BY <1>1, <1>2
<1>4. ASSUME NEW i \in DOMAIN sv_queue', NEW j \in DOMAIN sv_queue', i < j
      PROVE  i \in DOMAIN sv_queue /\ sv_queue'[i] = sv_queue[i] /\ sv_queue[i] \in Queued
  <2>1. i \in DOMAIN sv_queue
    BY <1>1, <1>2, <1>4
  <2>2. QED
    BY <1>2, <2>1 DEF Queued, N!ToSet
<1>5. QED
  BY <1>2, <1>3, <1>4 DEF Queued

(* The order in which a sequence names two requests. *)
SentBefore(s, p, q) == \E i, j \in DOMAIN s : i < j /\ s[i] = p /\ s[j] = q

LEMMA RequestSent ==
  ASSUME ServicesInv, NEW r \in Requests, N!send(r)
  PROVE  ServicesInv'
<1>0. /\ r \notin Sent /\ Len(sv_queue) < Room /\ sv_queue' = Append(sv_queue, r) /\ sv_sent' = Append(sv_sent, r)
      /\ UNCHANGED <<sv_running, sv_doing, sv_step, sv_sniped, sv_ended, sv_stored, sv_others>> /\ sv_running \in BOOLEAN
  BY DEF N!send, Sent, ServicesInv, ServicesTyped
<1>1. /\ sv_queue' \in Seq(N!Messages) /\ Len(sv_queue') <= Room /\ Queued' = Queued \cup {r}
      /\ \A i, j \in DOMAIN sv_queue' : i < j => i \in DOMAIN sv_queue /\ sv_queue'[i] = sv_queue[i] /\ sv_queue[i] \in Queued
      /\ \A j \in DOMAIN sv_queue' : (j \in DOMAIN sv_queue /\ sv_queue'[j] = sv_queue[j]) \/ sv_queue'[j] = r
  BY <1>0, Queueing DEF N!Messages
<1>2. sv_sent \in Seq(Requests) /\ sv_sniped \in Seq(Requests) /\ Len(sv_sent) \in Nat
  BY DEF ServicesInv, ServicesTyped
<1>3. /\ sv_sent' \in Seq(Requests) /\ sv_sent'[Len(sv_sent) + 1] = r /\ Len(sv_sent) + 1 \in DOMAIN sv_sent'
      /\ \A i \in DOMAIN sv_sent : i \in DOMAIN sv_sent' /\ sv_sent'[i] = sv_sent[i] /\ i < Len(sv_sent) + 1 /\ i \in Nat
      /\ \A i \in DOMAIN sv_sent' : i \in DOMAIN sv_sent \/ i = Len(sv_sent) + 1
      /\ Sent' = Sent \cup {r}
  BY <1>0, <1>2, Appended DEF Sent
<1>4. \A i \in DOMAIN sv_sent : sv_sent[i] \in Sent
  BY DEF Sent, N!ToSet
<1>5. ASSUME NEW p, NEW q, N!Before(p, q)
      PROVE  SentBefore(sv_sent', p, q)
  <2>1. PICK i \in DOMAIN sv_sent, j \in DOMAIN sv_sent : i < j /\ sv_sent[i] = p /\ sv_sent[j] = q
    BY <1>5 DEF N!Before
  <2>2. QED
    BY <1>3, <2>1 DEF SentBefore
<1>6. ASSUME NEW p \in Sent
      PROVE  SentBefore(sv_sent', p, r)
  <2>1. PICK i \in DOMAIN sv_sent : sv_sent[i] = p
    BY DEF Sent, N!ToSet
  <2>2. QED
    BY <1>3, <2>1 DEF SentBefore
<1>7. Queued \cap Requests \subseteq Sent /\ Sniped \subseteq Sent /\ r \notin Queued /\ sv_ended[r] = "none"
  BY <1>0 DEF ServicesInv, ServicesEnds
<1>8. \A i \in DOMAIN sv_sniped : sv_sniped[i] \in Sniped
  BY DEF Sniped, N!ToSet
<1>9. ServicesTyped'
  BY <1>0, <1>1, <1>3 DEF ServicesInv, ServicesTyped
<1>10. ASSUME NEW i \in DOMAIN sv_sent', NEW j \in DOMAIN sv_sent', sv_sent'[i] = sv_sent'[j]
       PROVE  i = j
  BY <1>0, <1>3, <1>4, <1>10 DEF ServicesInv, ServicesOrder
<1>11. ASSUME NEW i \in DOMAIN sv_queue', NEW j \in DOMAIN sv_queue', i < j, sv_queue'[i] \in Requests, sv_queue'[j] \in Requests
       PROVE  SentBefore(sv_sent', sv_queue'[i], sv_queue'[j])
  <2>1. i \in DOMAIN sv_queue /\ sv_queue'[i] = sv_queue[i] /\ sv_queue[i] \in Sent
    BY <1>1, <1>7, <1>11
  <2>2. CASE j \in DOMAIN sv_queue /\ sv_queue'[j] = sv_queue[j]
    <3>1. N!Before(sv_queue[i], sv_queue[j])
      BY <1>11, <2>1, <2>2 DEF ServicesInv, ServicesOrder
    <3>2. QED
      BY <1>5, <2>1, <2>2, <3>1
  <2>3. CASE sv_queue'[j] = r
    BY <1>6, <2>1, <2>3
  <2>4. QED
    BY <1>1, <2>2, <2>3
<1>12. ASSUME NEW i \in DOMAIN sv_sniped, NEW q \in Queued' \cap Requests
       PROVE  SentBefore(sv_sent', sv_sniped[i], q)
  <2>1. CASE q \in Queued
    <3>1. N!Before(sv_sniped[i], q)
      BY <2>1 DEF ServicesInv, ServicesOrder
    <3>2. QED
      BY <1>5, <3>1
  <2>2. CASE q = r
    BY <1>6, <1>7, <1>8, <2>2
  <2>3. QED
    BY <1>1, <2>1, <2>2
<1>13. ASSUME NEW i \in DOMAIN sv_sniped, NEW j \in DOMAIN sv_sniped, i < j
       PROVE  SentBefore(sv_sent', sv_sniped[i], sv_sniped[j])
  BY <1>5, <1>13 DEF ServicesInv, ServicesOrder
<1>14. ServicesOrder'
  <2>1. \A p, q : N!Before(p, q)' = SentBefore(sv_sent', p, q)
    BY DEF N!Before, SentBefore
  <2>2. QED
    BY <1>0, <1>10, <1>11, <1>12, <1>13, <2>1 DEF ServicesOrder
<1>15. Sniped' = Sniped
  BY <1>0 DEF Sniped
<1>16. Sniped' = {q \in Sent' : sv_ended'[q] # "refused" /\ q \notin Queued'}
  BY <1>0, <1>1, <1>3, <1>15 DEF ServicesInv, ServicesEnds
<1>17. ServicesEnds'
  BY <1>0, <1>1, <1>3, <1>7, <1>15, <1>16 DEF ServicesInv, ServicesEnds, N!FailuresStored
<1>18. QED
  BY <1>9, <1>14, <1>17 DEF ServicesInv

LEMMA OtherSent ==
  ASSUME ServicesInv, NEW m \in {"monitor", "stop", "other"}, N!send_other(m)
  PROVE  ServicesInv'
<1>0. /\ Len(sv_queue) < Room /\ sv_queue' = Append(sv_queue, m) /\ m \notin Requests /\ m \in N!Messages
      /\ UNCHANGED <<sv_running, sv_doing, sv_step, sv_sent, sv_sniped, sv_ended, sv_stored>>
      /\ sv_running \in BOOLEAN /\ sv_others' \in 0 .. MaxOthers
  BY ChainNumbers DEF N!send_other, N!Messages, ServicesInv, ServicesTyped
<1>1. /\ sv_queue' \in Seq(N!Messages) /\ Len(sv_queue') <= Room /\ Queued' = Queued \cup {m}
      /\ \A i, j \in DOMAIN sv_queue' : i < j => i \in DOMAIN sv_queue /\ sv_queue'[i] = sv_queue[i] /\ sv_queue[i] \in Queued
      /\ \A j \in DOMAIN sv_queue' : (j \in DOMAIN sv_queue /\ sv_queue'[j] = sv_queue[j]) \/ sv_queue'[j] = m
  BY <1>0, Queueing
<1>2. Queued' \cap Requests = Queued \cap Requests
  BY <1>0, <1>1
<1>3. \A p, q : N!Before(p, q)' = N!Before(p, q)
  BY <1>0 DEF N!Before
<1>4. ServicesTyped'
  BY <1>0, <1>1 DEF ServicesInv, ServicesTyped
<1>5. ServicesOrder'
  BY <1>0, <1>1, <1>2, <1>3 DEF ServicesInv, ServicesOrder
<1>6. Sent' = Sent /\ Sniped' = Sniped /\ Sent \subseteq Requests
  BY <1>0 DEF Sent, Sniped, ServicesInv, ServicesTyped, N!ToSet
<1>7. ServicesEnds'
  BY <1>0, <1>2, <1>6 DEF ServicesInv, ServicesEnds, N!FailuresStored
<1>8. QED
  BY <1>4, <1>5, <1>7 DEF ServicesInv

(* The request under way ends; the failed ones are stored. *)
LEMMA RequestEnds ==
  ASSUME ServicesInv, sv_step # "idle", NEW end \in {"done", "failed", "unstored"}, N!finishes(end),
         sv_stored' = IF end = "failed" THEN sv_stored \cup {sv_doing} ELSE sv_stored
  PROVE  ServicesInv'
<1>0. /\ sv_ended' = [sv_ended EXCEPT ![sv_doing] = end] /\ sv_doing' = N!nothing /\ sv_step' = "idle"
      /\ UNCHANGED <<sv_running, sv_queue, sv_sent, sv_sniped, sv_others>> /\ sv_running \in BOOLEAN
  BY DEF N!finishes, ServicesInv, ServicesTyped
<1>1. Sent \subseteq Requests /\ Sent' = Sent /\ Sniped' = Sniped /\ Queued' = Queued
  BY <1>0 DEF Sent, Sniped, Queued, ServicesInv, ServicesTyped, N!ToSet
<1>2. sv_doing \in Sniped /\ sv_doing \in Requests /\ sv_doing \in Sent /\ sv_doing \notin Queued /\ sv_ended[sv_doing] = "none"
  BY <1>1 DEF ServicesInv, ServicesEnds
<1>3. /\ sv_ended' \in [Requests -> N!Ends] /\ sv_ended'[sv_doing] = end
      /\ \A q \in Requests : q # sv_doing => sv_ended'[q] = sv_ended[q]
  BY <1>0, <1>2 DEF ServicesInv, ServicesTyped, N!Ends
<1>4. ServicesTyped'
  BY <1>0, <1>2, <1>3 DEF ServicesInv, ServicesTyped
<1>5. \A p, q : N!Before(p, q)' = N!Before(p, q)
  BY <1>0 DEF N!Before
<1>6. ServicesOrder'
  BY <1>0, <1>1, <1>5 DEF ServicesInv, ServicesOrder
<1>7. Sniped' = {q \in Sent' : sv_ended'[q] # "refused" /\ q \notin Queued'}
  BY <1>1, <1>2, <1>3 DEF ServicesInv, ServicesEnds
<1>8. N!FailuresStored'
  BY <1>2, <1>3 DEF ServicesInv, ServicesEnds, N!FailuresStored
<1>9. ServicesEnds'
  BY <1>0, <1>1, <1>2, <1>3, <1>7, <1>8 DEF ServicesInv, ServicesEnds
<1>10. QED
  BY <1>4, <1>6, <1>9 DEF ServicesInv

LEMMA ServicesStep == ServicesInv /\ [N!servicesNext]_servicesVars => ServicesInv'
<1> SUFFICES ASSUME ServicesInv, [N!servicesNext]_servicesVars
             PROVE  ServicesInv'
  OBVIOUS
<1>1. CASE UNCHANGED servicesVars
  <2>1. \A p, q : N!Before(p, q)' = N!Before(p, q)
    BY <1>1 DEF N!Before, servicesVars
  <2>2. Sent' = Sent /\ Sniped' = Sniped /\ Queued' = Queued
    BY <1>1 DEF servicesVars, Sent, Sniped, Queued
  <2>3. ServicesTyped'
    BY <1>1 DEF servicesVars, ServicesInv, ServicesTyped
  <2>4. ServicesOrder'
    BY <1>1, <2>1, <2>2 DEF servicesVars, ServicesInv, ServicesOrder
  <2>5. ServicesEnds'
    BY <1>1, <2>2 DEF servicesVars, ServicesInv, ServicesEnds, N!FailuresStored
  <2>6. QED
    BY <2>3, <2>4, <2>5 DEF ServicesInv
<1>2. CASE N!stop_service \/ N!start_monitoring \/ N!take_other
  <2>1. sv_running' = FALSE \/ sv_running' = sv_running
    BY <1>2 DEF N!stop_service, N!start_monitoring, N!take_other
  <2>2. sv_running \in BOOLEAN
    BY DEF ServicesInv, ServicesTyped
  <2>3. sv_running' \in BOOLEAN
    BY <2>1, <2>2
  <2>4. PICK m \in {"monitor", "stop", "other"} : N!takes(m)
    BY <1>2 DEF N!stop_service, N!start_monitoring, N!take_other
  <2>5. UNCHANGED <<sv_doing, sv_step, sv_sent, sv_sniped, sv_ended, sv_stored, sv_others>>
    BY <1>2 DEF N!stop_service, N!start_monitoring, N!take_other
  <2>6. QED
    BY <2>3, <2>4, <2>5, OtherTaken
<1>3. CASE N!worker
  BY <1>3, RequestTaken DEF N!worker
<1>4. CASE N!snipe_ok
  BY <1>4, RequestEnds DEF N!snipe_ok
<1>5. CASE N!snipe_fails
  <2>1. /\ sv_step = "sniping" /\ sv_step' = "recording"
        /\ UNCHANGED <<sv_running, sv_queue, sv_doing, sv_sent, sv_sniped, sv_ended, sv_stored, sv_others>>
    BY <1>5 DEF N!snipe_fails
  <2>2. \A p, q : N!Before(p, q)' = N!Before(p, q)
    BY <2>1 DEF N!Before
  <2>3. Sent' = Sent /\ Sniped' = Sniped /\ Queued' = Queued
    BY <2>1 DEF Sent, Sniped, Queued
  <2>4. ServicesTyped'
    BY <2>1 DEF ServicesInv, ServicesTyped
  <2>5. ServicesOrder'
    BY <2>1, <2>2, <2>3 DEF ServicesInv, ServicesOrder
  <2>6. ServicesEnds'
    BY <2>1, <2>3 DEF ServicesInv, ServicesEnds, N!FailuresStored
  <2>7. QED
    BY <2>4, <2>5, <2>6 DEF ServicesInv
<1>6. CASE N!add_failed_transaction
  BY <1>6, RequestEnds DEF N!add_failed_transaction
<1>7. CASE N!storage_fails
  BY <1>7, RequestEnds DEF N!storage_fails
<1>8. CASE \E r \in Requests : N!send(r)
  BY <1>8, RequestSent
<1>9. CASE \E m \in {"monitor", "stop", "other"} : N!send_other(m)
  BY <1>9, OtherSent
<1>10. CASE N!waits
  BY <1>1, <1>10 DEF N!waits, N!servicesVars, servicesVars
<1>11. QED
  BY <1>1, <1>2, <1>3, <1>4, <1>5, <1>6, <1>7, <1>8, <1>9, <1>10 DEF N!servicesNext, N!snipes, N!records

(***************************************************************************)
(* The check of the mempool.  What the node answered is told apart by who  *)
(* asked: no caller asks twice in an interval, because it goes on only     *)
(* when the last check, which came after its own, is an interval old.      *)
(***************************************************************************)
LEMMA SumOfDisjoint ==
  ASSUME NEW X, IsFiniteSet(X), NEW B, IsFiniteSet(B), NEW at, \A s \in X : at[s] \subseteq B,
         \A s, u \in X : s # u => at[s] \cap at[u] = {}, NEW f, \A s \in X : f[s] = Cardinality(at[s])
  PROVE  SumFunctionOnSet(f, X) <= Cardinality(B)
<1> DEFINE all(Y) == UNION {at[s] : s \in Y}
           Bad == {Y \in SUBSET X : SumFunctionOnSet(f, Y) # Cardinality(all(Y))}
<1>1. \A s \in X : IsFiniteSet(at[s]) /\ f[s] \in Int
  BY FS_Subset, FS_CardinalityType
<1>2. Bad = {}
  <2> SUFFICES ASSUME Bad # {} PROVE FALSE
    OBVIOUS
  <2>1. PICK Y \in Bad : \A V \in Bad : ~(V \subseteq Y /\ V # Y)
    <3>1. Bad \in SUBSET (SUBSET X)
      OBVIOUS
    <3> HIDE DEF Bad
    <3>2. QED
      BY <3>1, SmallestSubset
  <2>2. Y \in SUBSET X /\ IsFiniteSet(Y)
    BY FS_Subset
  <2>3. Y # {}
    <3>1. all({}) = {}
      OBVIOUS
    <3>2. QED
      BY <3>1, SumOfNothing, FS_EmptySet
  <2>4. PICK s \in Y : TRUE
    BY <2>3
  <2>5. SumFunctionOnSet(f, Y) = f[s] + SumFunctionOnSet(f, Y \ {s})
    BY <1>1, <2>2, SumSplit
  <2>6. SumFunctionOnSet(f, Y \ {s}) = Cardinality(all(Y \ {s}))
    BY <2>1, <2>2
  <2>7. all(Y) = at[s] \cup all(Y \ {s}) /\ at[s] \cap all(Y \ {s}) = {} /\ all(Y \ {s}) \subseteq B
    BY <2>2
  <2> HIDE DEF all
  <2>8. IsFiniteSet(at[s]) /\ IsFiniteSet(all(Y \ {s}))
    BY <1>1, <2>2, <2>7, FS_Subset
  <2>9. Cardinality(all(Y)) = Cardinality(at[s]) + Cardinality(all(Y \ {s}))
    <3> DEFINE one == at[s]
               rest == all(Y \ {s})
    <3>1. all(Y) = one \cup rest /\ one \cap rest = {} /\ IsFiniteSet(one) /\ IsFiniteSet(rest)
      BY <2>7, <2>8
    <3> HIDE DEF one, rest
    <3>2. Cardinality(one \cup rest) = Cardinality(one) + Cardinality(rest) - Cardinality(one \cap rest)
      BY <3>1, FS_Union
    <3>3. Cardinality(one) \in Nat /\ Cardinality(rest) \in Nat /\ Cardinality({}) = 0
      BY <3>1, FS_CardinalityType, FS_EmptySet
    <3>4. Cardinality(all(Y)) = Cardinality(one \cup rest) /\ Cardinality(one \cap rest) = 0
      BY <3>1, <3>3
    <3>5. Cardinality(all(Y)) = Cardinality(one) + Cardinality(rest)
      BY <3>2, <3>3, <3>4
    <3>6. QED
      BY <3>5 DEF one, rest
  <2>10. QED
    BY <2>2, <2>5, <2>6, <2>9
<1>3. SumFunctionOnSet(f, X) = Cardinality(all(X))
  BY <1>2
<1>4. all(X) \subseteq B
  OBVIOUS
<1> HIDE DEF all
<1>5. QED
  BY <1>3, <1>4, FS_Subset

(* The times at which the node answered each caller.                       *)
Answered(log) ==
  /\ log \in [Checkers -> SUBSET M!Ticks]
  /\ \A t \in M!Ticks : mk_fetched[t] = Cardinality({c \in Checkers : t \in log[c]})
  /\ \A c \in Checkers :
       /\ \A s, u \in log[c] : s < u => u - s >= Interval
       /\ \A s \in log[c] : /\ s <= mk_now
                            /\ mk_pc[c] # "writing" => s <= mk_last
                            /\ mk_pc[c] = "asking" => mk_now - s >= Interval

CheckInv ==
  /\ M!checkTypeOK /\ mk_last <= mk_now
  /\ \E log : Answered(log)

LEMMA FetchedIsSum ==
  \A t : M!fetched_from(t) = SumFunctionOnSet(mk_fetched, {s \in M!Ticks : t <= s /\ s < t + Interval})
<1> TAKE t
<1>1. M!fetched_from(t) = FoldOver(mk_fetched, {s \in M!Ticks : t <= s /\ s < t + Interval})
                                  [{s \in M!Ticks : t <= s /\ s < t + Interval}]
  BY DEF M!fetched_from, M!FoldFunctionOnSet, M!MapThenFoldSet, FoldOver, Level, Chosen
<1>2. QED
  BY <1>1, SumIsFold

LEMMA CheckMeans == CheckInv => M!FetchesBounded
<1> SUFFICES ASSUME CheckInv, NEW t \in M!Ticks
             PROVE  M!fetched_from(t) <= Cardinality(Checkers)
  BY SameCount DEF M!FetchesBounded
<1>1. PICK log : Answered(log)
  BY DEF CheckInv
<1> DEFINE window == {s \in M!Ticks : t <= s /\ s < t + Interval}
           at == [s \in M!Ticks |-> {c \in Checkers : s \in log[c]}]
<1>2. IsFiniteSet(window)
  <2>1. IsFiniteSet(0 .. LastTick)
    BY FS_Interval, ChainNumbers
  <2>2. window \subseteq 0 .. LastTick
    BY DEF M!Ticks
  <2>3. QED
    BY <2>1, <2>2, FS_Subset
<1>3. \A s \in window : at[s] \subseteq Checkers /\ mk_fetched[s] = Cardinality(at[s])
  BY <1>1 DEF Answered
<1>4. ASSUME NEW s \in window, NEW u \in window, s # u
      PROVE  at[s] \cap at[u] = {}
  <2>1. s \in Nat /\ u \in Nat /\ t \in Nat /\ Interval \in Nat
    BY ChainNumbers DEF M!Ticks
  <2>2. ~(u - s >= Interval) /\ ~(s - u >= Interval) /\ (s < u \/ u < s)
    BY <1>4, <2>1
  <2>3. QED
    BY <1>1, <2>2 DEF Answered
<1>5. IsFiniteSet(Checkers)
  BY ChainNumbers
<1>6. M!fetched_from(t) = SumFunctionOnSet(mk_fetched, window)
  BY FetchedIsSum
<1> HIDE DEF window, at
<1>7. SumFunctionOnSet(mk_fetched, window) <= Cardinality(Checkers)
  BY <1>2, <1>3, <1>4, <1>5, SumOfDisjoint
<1>8. QED
  BY <1>6, <1>7

LEMMA CheckInit == M!checkInit => CheckInv
<1> SUFFICES ASSUME M!checkInit PROVE CheckInv
  OBVIOUS
<1> DEFINE log == [c \in Checkers |-> {}]
<1>1. \A t \in M!Ticks : {c \in Checkers : t \in log[c]} = {}
  OBVIOUS
<1>2. Answered(log)
  BY <1>1, FS_EmptySet DEF M!checkInit, Answered
<1> HIDE DEF log
<1>3. M!checkTypeOK /\ mk_last <= mk_now
  BY ChainNumbers DEF M!checkInit, M!checkTypeOK, M!Ticks, M!Never
<1>4. QED
  BY <1>2, <1>3 DEF CheckInv

LEMMA CheckStep == CheckInv /\ [M!checkNext]_mempool_checkVars => CheckInv'
<1> SUFFICES ASSUME CheckInv, [M!checkNext]_mempool_checkVars
             PROVE  CheckInv'
  OBVIOUS
<1>0. PICK log : Answered(log)
  BY DEF CheckInv
<1>1. /\ Interval \in Nat /\ Interval >= 1 /\ LastTick \in Nat /\ M!Ticks \subseteq Nat /\ mk_now \in M!Ticks
      /\ mk_last \in M!Ticks \cup {-1} /\ mk_last <= mk_now /\ M!Never = -1
      /\ \A c \in Checkers : \A s \in log[c] : s \in Nat
  BY <1>0, ChainNumbers DEF CheckInv, M!checkTypeOK, M!Ticks, M!Never, Answered
<1>2. mk_now \in Int /\ mk_last \in Int /\ mk_last <= mk_now /\ Interval \in Int
  BY ChainNumbers DEF CheckInv, M!checkTypeOK, M!Ticks, M!Never
<1>3. CASE UNCHANGED mempool_checkVars
  <2>1. Answered(log)'
    BY <1>0, <1>3 DEF mempool_checkVars, Answered
  <2>2. QED
    BY <1>3, <2>1 DEF mempool_checkVars, CheckInv, M!checkTypeOK
<1>4. CASE M!tick
  <2>1. mk_now' = mk_now + 1 /\ mk_now' \in M!Ticks /\ UNCHANGED <<mk_last, mk_pc, mk_fetched>>
    BY <1>4, <1>1 DEF M!tick, M!Ticks
  <2>2. \A c \in Checkers : \A s \in log[c] : s <= mk_now' /\ (mk_now - s >= Interval => mk_now' - s >= Interval)
    BY <1>0, <1>1, <2>1 DEF Answered
  <2>3. Answered(log)'
    BY <1>0, <2>1, <2>2 DEF Answered
  <2>4. mk_last' <= mk_now'
    BY <1>2, <2>1
  <2>5. QED
    BY <2>1, <2>3, <2>4 DEF CheckInv, M!checkTypeOK
<1>5. ASSUME NEW c \in Checkers, M!check_mempool(c)
      PROVE  CheckInv'
  <2>1. mk_pc[c] = "idle" /\ mk_pc' = [mk_pc EXCEPT ![c] = "asking"] /\ UNCHANGED <<mk_now, mk_last, mk_fetched>>
    BY <1>5 DEF M!check_mempool, M!goes
  <2>2. mk_last = -1 \/ mk_now - mk_last >= Interval
    <3>1. ~(mk_last # -1 /\ mk_now - mk_last < Interval)
      BY <1>5 DEF M!check_mempool, M!recent, M!Never
    <3>2. QED
      BY <1>2, <3>1
  <2>3. \A s \in log[c] : mk_now - s >= Interval
    BY <1>0, <1>1, <2>1, <2>2 DEF Answered
  <2>4. mk_pc' \in [Checkers -> {"idle", "asking", "writing"}]
    BY <2>1 DEF CheckInv, M!checkTypeOK
  <2>5. Answered(log)'
    BY <1>0, <2>1, <2>3 DEF Answered, CheckInv, M!checkTypeOK
  <2>6. QED
    BY <2>1, <2>4, <2>5 DEF CheckInv, M!checkTypeOK
<1>6. ASSUME NEW c \in Checkers, M!check_fails(c)
      PROVE  CheckInv'
  <2>1. mk_pc[c] = "asking" /\ mk_pc' = [mk_pc EXCEPT ![c] = "idle"] /\ UNCHANGED <<mk_now, mk_last, mk_fetched>>
    BY <1>6 DEF M!check_fails, M!goes
  <2>2. mk_pc' \in [Checkers -> {"idle", "asking", "writing"}]
    BY <2>1 DEF CheckInv, M!checkTypeOK
  <2>3. Answered(log)'
    BY <1>0, <2>1 DEF Answered, CheckInv, M!checkTypeOK
  <2>4. QED
    BY <2>1, <2>2, <2>3 DEF CheckInv, M!checkTypeOK
<1>7. ASSUME NEW c \in Checkers, M!check_written(c)
      PROVE  CheckInv'
  <2>1. /\ mk_pc[c] = "writing" /\ mk_pc' = [mk_pc EXCEPT ![c] = "idle"] /\ mk_last' = mk_now
        /\ UNCHANGED <<mk_now, mk_fetched>>
    BY <1>7 DEF M!check_written, M!goes
  <2>2. mk_pc' \in [Checkers -> {"idle", "asking", "writing"}]
    BY <2>1 DEF CheckInv, M!checkTypeOK
  <2>3. Answered(log)'
    BY <1>0, <2>1 DEF Answered, CheckInv, M!checkTypeOK
  <2>4. mk_last' <= mk_now'
    BY <1>2, <2>1
  <2>5. QED
    BY <1>1, <2>1, <2>2, <2>3, <2>4 DEF CheckInv, M!checkTypeOK
<1>8. ASSUME NEW c \in Checkers, M!check_answered(c)
      PROVE  CheckInv'
  <2>1. /\ mk_pc[c] = "asking" /\ mk_pc' = [mk_pc EXCEPT ![c] = "writing"]
        /\ mk_fetched' = [mk_fetched EXCEPT ![mk_now] = @ + 1] /\ UNCHANGED <<mk_now, mk_last>>
    BY <1>8 DEF M!check_answered, M!goes
  <2>2. mk_pc' \in [Checkers -> {"idle", "asking", "writing"}] /\ mk_fetched' \in [M!Ticks -> Nat]
    BY <1>1, <2>1 DEF CheckInv, M!checkTypeOK
  <2>3. PICK next : next = [log EXCEPT ![c] = @ \cup {mk_now}]
    OBVIOUS
  <2>4. /\ next \in [Checkers -> SUBSET M!Ticks] /\ next[c] = log[c] \cup {mk_now}
        /\ \A d \in Checkers : d # c => next[d] = log[d]
    BY <1>0, <1>1, <2>3 DEF Answered
  <2>5. \A s \in log[c] : mk_now - s >= Interval /\ s < mk_now
    BY <1>0, <1>1, <2>1 DEF Answered
  <2>6. mk_now \notin log[c]
    BY <1>1, <2>5
  <2>7. ASSUME NEW t \in M!Ticks
        PROVE  mk_fetched'[t] = Cardinality({d \in Checkers : t \in next[d]})
    <3> DEFINE before == {d \in Checkers : t \in log[d]}
               after == {d \in Checkers : t \in next[d]}
    <3>1. mk_fetched[t] = Cardinality(before)
      BY <1>0 DEF Answered
    <3>2. CASE t = mk_now
      <4>1. after = before \cup {c} /\ c \notin before
        BY <2>4, <2>6, <3>2
      <4>2. IsFiniteSet(before)
        BY ChainNumbers, FS_Subset
      <4>3. mk_fetched'[t] = mk_fetched[t] + 1
        BY <2>1, <3>2 DEF CheckInv, M!checkTypeOK
      <4> HIDE DEF before, after
      <4>4. Cardinality(before \cup {c}) = Cardinality(before) + 1
        BY <4>1, <4>2, FS_AddElement
      <4>5. mk_fetched'[t] = Cardinality(after)
        BY <3>1, <4>1, <4>3, <4>4
      <4>6. QED
        BY <4>5 DEF after
    <3>3. CASE t # mk_now
      <4>1. after = before
        BY <2>4, <3>3
      <4>2. mk_fetched'[t] = mk_fetched[t]
        BY <2>1, <3>3 DEF CheckInv, M!checkTypeOK
      <4>3. QED
        BY <3>1, <4>1, <4>2
    <3>4. QED
      BY <3>2, <3>3
  <2>8. ASSUME NEW d \in Checkers
        PROVE  /\ \A s, u \in next[d] : s < u => u - s >= Interval
               /\ \A s \in next[d] : /\ s <= mk_now
                                     /\ mk_pc'[d] # "writing" => s <= mk_last
                                     /\ mk_pc'[d] = "asking" => mk_now - s >= Interval
    <3>1. CASE d = c
      <4>1. ASSUME NEW s \in next[c], NEW u \in next[c], s < u
            PROVE  u - s >= Interval
        <5>1. s \in log[c]
          <6>1. CASE s = mk_now
            <7>1. u < mk_now \/ u = mk_now
              BY <2>4, <2>5
            <7>2. u \in Int
              BY <1>2, <1>1, <2>4
            <7>3. QED
              BY <1>2, <4>1, <6>1, <7>1, <7>2
          <6>2. QED
            BY <2>4, <6>1
        <5>2. CASE u \in log[c]
          BY <1>0, <4>1, <5>1, <5>2 DEF Answered
        <5>3. CASE u = mk_now
          BY <2>5, <5>1, <5>3
        <5>4. QED
          BY <2>4, <5>2, <5>3
      <4>2. \A s \in next[c] : s <= mk_now
        BY <1>0, <1>1, <2>4 DEF Answered
      <4>3. mk_pc'[c] = "writing"
        BY <2>1 DEF CheckInv, M!checkTypeOK
      <4>4. QED
        BY <3>1, <4>1, <4>2, <4>3
    <3>2. CASE d # c
      <4>1. next[d] = log[d] /\ mk_pc'[d] = mk_pc[d]
        BY <2>1, <2>4, <3>2 DEF CheckInv, M!checkTypeOK
      <4>2. QED
        BY <1>0, <4>1 DEF Answered
    <3>3. QED
      BY <3>1, <3>2
  <2>9. Answered(next)'
    BY <2>1, <2>4, <2>7, <2>8 DEF Answered
  <2>10. QED
    BY <2>1, <2>2, <2>9 DEF CheckInv, M!checkTypeOK
<1>9. QED
  BY <1>3, <1>4, <1>5, <1>6, <1>7, <1>8
     DEF M!checkNext, M!too_soon, M!checkVars, mempool_checkVars

(***************************************************************************)
(* The parts together.                                                     *)
(***************************************************************************)
ChainInv ==
  /\ SenderInv /\ RetriedInv /\ DexInv /\ BundleInv /\ RequestsInv
  /\ WatcherInv /\ CheckInv /\ RpcInv
  /\ MainInv /\ ServicesInv
  /\ ServerInv /\ ClientInv /\ ApiInv

(* A step of the whole is a step of a part, or leaves it alone. *)
LEMMA PartSteps ==
  ASSUME [Next]_vars
  PROVE  /\ [S!Next]_senderVars /\ [R!retriedNext]_retriedVars /\ [D!Next]_dexVars /\ [R!bundleNext]_bundleVars
         /\ [Q!Next]_requestsVars /\ [M!watcherNext]_mempoolVars /\ [M!checkNext]_mempool_checkVars
         /\ [P!Next]_rpc_poolVars /\ [N!mainNext]_mainVars /\ [N!servicesNext]_servicesVars
         /\ [W!serverNext]_websocket_serverVars /\ [W!clientNext]_websocket_clientVars /\ [A!Next]_bot_apiVars
<1>1. [S!Next]_senderVars /\ [R!retriedNext]_retriedVars
  BY DEF Next, vars
<1>2. [D!Next]_dexVars /\ [R!bundleNext]_bundleVars
  BY DEF Next, vars
<1>3. [Q!Next]_requestsVars /\ [M!watcherNext]_mempoolVars
  BY DEF Next, vars
<1>4. [M!checkNext]_mempool_checkVars /\ [P!Next]_rpc_poolVars
  BY DEF Next, vars
<1>5. [N!mainNext]_mainVars /\ [N!servicesNext]_servicesVars
  BY DEF Next, vars
<1>6. [W!serverNext]_websocket_serverVars /\ [W!clientNext]_websocket_clientVars /\ [A!Next]_bot_apiVars
  BY DEF Next, vars
<1>7. QED
  BY <1>1, <1>2, <1>3, <1>4, <1>5, <1>6

LEMMA ChainInvariant == Spec => []ChainInv
<1>1. Init => ChainInv
  BY SenderInit, RetriedInit, DexInit, BundleInit, RequestsInit, WatcherInit, CheckInit, RpcInit, MainInit,
     ServicesInit, ServerInit, ClientInit, ApiInit DEF Init, ChainInv
<1>2. ChainInv /\ [Next]_vars => ChainInv'
  <2> SUFFICES ASSUME ChainInv, [Next]_vars
               PROVE  ChainInv'
    OBVIOUS
  <2>1. SenderInv' /\ RetriedInv' /\ DexInv' /\ BundleInv' /\ RequestsInv'
    BY PartSteps, SenderStep, RetriedStep, DexStep, BundleStep, RequestsStep DEF ChainInv
  <2>2. WatcherInv' /\ CheckInv' /\ RpcInv' /\ MainInv' /\ ServicesInv'
    BY PartSteps, WatcherStep, CheckStep, RpcStep, MainStep, ServicesStep DEF ChainInv
  <2>3. ServerInv' /\ ClientInv' /\ ApiInv'
    BY PartSteps, ServerStep, ClientStep, ApiStep DEF ChainInv
  <2>4. QED
    BY <2>1, <2>2, <2>3 DEF ChainInv
<1>3. QED
  BY <1>1, <1>2, PTL DEF Spec

(* The state of every part stays within its types, whatever fails, times   *)
(* out, is lost or comes at once.                                          *)
THEOREM ChainTypeCorrect == Spec => []TypeOK
<1>1. ChainInv => TypeOK
  BY RpcTyped, ClientMeans, ServicesMean
     DEF ChainInv, SenderInv, RetriedInv, DexInv, BundleInv, RequestsInv, WatcherInv, CheckInv, MainInv, ServerInv,
         ApiInv, TypeOK
<1>2. QED
  BY <1>1, ChainInvariant, PTL

(* What a caller is told is what happened: of a send that was tried again, *)
(* of a call of an adapter, of a bundle, of joined requests, of a request  *)
(* to the service manager and of a change of the users of the API.         *)
THEOREM ChainAnswersTrue == Spec => []AnswersAreTrue
<1>1. ChainInv => AnswersAreTrue
  BY ServicesMean DEF ChainInv, RetriedInv, DexInv, BundleInv, RequestsInv, ApiInv, AnswersAreTrue
<1>2. QED
  BY <1>1, ChainInvariant, PTL

(* Each lost answer of the node explains at most one transaction too many, *)
(* and there are never more than there were attempts.                      *)
LEMMA CopiesExplained == RetriedInv => R!CopiesBounded
<1> SUFFICES ASSUME RetriedInv PROVE R!CopiesBounded
  OBVIOUS
<1>1. R!Cardinality(rs_pool) + rs_mined = Copies
  BY SameCount DEF Copies
<1>2. Copies \in Nat /\ rs_lost \in Nat /\ rs_tries \in Nat /\ MaxRetries \in Nat /\ Good \in {0, 1}
  <2>1. Cardinality(rs_pool) \in Nat
    BY FS_CardinalityType DEF RetriedInv
  <2>2. rs_mined \in Nat /\ rs_lost \in Nat /\ rs_tries \in Nat /\ MaxRetries \in Nat
    BY ChainNumbers DEF RetriedInv, R!retriedTypeOK, R!Nonces
  <2>3. QED
    BY <2>1, <2>2 DEF Copies, Good
<1>3. Copies <= rs_lost + Good /\ Copies <= rs_tries + Good /\ rs_tries + Good <= MaxRetries
  BY DEF RetriedInv
<1>4. Copies <= rs_lost + 1 /\ Copies <= MaxRetries
  BY <1>2, <1>3
<1>5. QED
  BY <1>1, <1>4 DEF R!CopiesBounded

(* Transactions, messages, requests and registrations take effect once and *)
(* in order, and no caller has the node asked twice in an interval, but    *)
(* for what an answer that was lost explains.                              *)
THEOREM ChainOnceAndInOrder == Spec => []OnceAndInOrder
<1>1. ChainInv => OnceAndInOrder
  BY CopiesExplained, CheckMeans, ServicesMean, ClientMeans
     DEF ChainInv, SenderInv, WatcherInv, ApiInv, OnceAndInOrder
<1>2. QED
  BY <1>1, ChainInvariant, PTL

(* An adapter signs for its own chain, the pool of URLs is whole when one  *)
(* is chosen, nobody is served by a half-started process, and clients and  *)
(* tasks that are done with are not left behind or cut off.                *)
THEOREM ChainReadyBeforeUse == Spec => []ReadyBeforeUse
<1>1. ChainInv => ReadyBeforeUse
  BY ClientMeans DEF ChainInv, DexInv, RpcInv, MainInv, ServerInv, ReadyBeforeUse
<1>2. QED
  BY <1>1, ChainInvariant, PTL

(* A broadcast of the websocket server that is over reached every client   *)
(* that is in the map, or found its channel closed: the mutex it holds     *)
(* while it waits keeps others from coming and going.                      *)
THEOREM BroadcastReachesAll == Spec => W!CastReachesAll
<1>1. ChainInv /\ [Next]_vars => [ws_cast # {"none"} /\ ws_cast' = {"none"} => ws_clients = ws_served]_(W!serverVars)
  <2> SUFFICES ASSUME ChainInv, [Next]_vars, ~UNCHANGED websocket_serverVars, ws_cast # {"none"}, ws_cast' = {"none"}
               PROVE  ws_clients = ws_served
    BY DEF W!serverVars, websocket_serverVars
  <2>1. W!serverNext
    BY PartSteps
  <2>2. QED
    BY <2>1, CastStep DEF ChainInv
<1>2. QED
  BY <1>1, ChainInvariant, PTL DEF Spec, W!CastReachesAll

=============================================================================
