-------------------------- MODULE SharedStateProofs --------------------------
(***************************************************************************)
(* Proofs about three objects that several parties share: the breaker that *)
(* the tasks of RetryPolicy consult and the numbers that the callers of    *)
(* NonceManager are given, which every chain adapter leans on, and the     *)
(* transactions that the signers of MPCController complete.  They hold for *)
(* every number of tasks, addresses and signers and every configuration.   *)
(***************************************************************************)
EXTENDS RetryPolicy, NonceManager, MPCController, DataTheorems,
        SequenceTheorems, TLAPS

(***************************************************************************)
(* RetryPolicy.                                                            *)
(***************************************************************************)
(* The tasks that hold a read guard of the state. *)
Guarded == {"admitting", "readmitting", "comparing"}

(* The places from which a task can still begin an operation unasked. *)
LetThrough == {"loop", "deciding"}

LocalType ==
  /\ pc \in [Requests -> PC]
  /\ seen \in [Requests -> CircuitBreakerState]
  /\ after_open \in [Requests -> Nat]
  /\ readers \in SUBSET Requests

(* The guards behave as a lock: a task at a guarded place is a reader,     *)
(* readers have an up-to-date copy, and a writer is alone.                 *)
LockInv ==
  /\ \A r \in Requests : pc[r] \in Guarded <=> r \in readers
  /\ \A r \in readers : seen[r] = state
  /\ writer # Nobody => readers = {}

(* A task that has begun its one operation on an open breaker is not let   *)
(* through again.                                                          *)
OpenInv ==
  state = "Open" =>
    \A r \in Requests : \/ after_open[r] = 0
                        \/ after_open[r] = 1 /\ pc[r] \notin LetThrough

BreakerInv ==
  /\ LocalType
  /\ LockInv
  /\ state \in {"Closed", "Open"}
  /\ OpenInv

-----------------------------------------------------------------------------
(* A new breaker satisfies the invariant. *)
LEMMA BreakerInvInit == new => BreakerInv
BY DEF new, BreakerInv, LocalType, LockInv, OpenInv, Guarded, PC, CircuitBreakerState

(* can_execute never finds the lock free: the task is a reader itself. *)
LEMMA NoProbe ==
  ASSUME BreakerInv, NEW r \in Requests, pc[r] \in Guarded
  PROVE  ~CanWrite
BY DEF BreakerInv, LockInv, CanWrite

(* Reading the state, in can_execute or in record_failure. *)
LEMMA ReadKeepsInv ==
  ASSUME BreakerInv, NEW r \in Requests, NEW here \in {"admit", "readmit", "reading"},
         NEW there \in Guarded, Goto(r, here, there), try_read(r),
         UNCHANGED <<state, after_open>>
  PROVE  BreakerInv'
<1>1. LocalType'
  BY DEF BreakerInv, LocalType, Goto, try_read, PC, CircuitBreakerState, Guarded
<1>2. LockInv'
  BY DEF BreakerInv, LocalType, LockInv, Goto, try_read, Guarded, PC
<1>3. OpenInv'
  BY DEF BreakerInv, LocalType, OpenInv, Goto, Guarded, LetThrough, PC
<1> QED
  BY <1>1, <1>2, <1>3 DEF BreakerInv

(* A task moves without touching the breaker, and not to a place where it  *)
(* is let through.                                                         *)
LEMMA MoveKeepsInv ==
  ASSUME BreakerInv, NEW r \in Requests, NEW here \in PC \ Guarded,
         NEW there \in PC \ Guarded, Goto(r, here, there),
         there \in LetThrough => here \in LetThrough,
         UNCHANGED <<state, after_open, readers, writer, seen>>
  PROVE  BreakerInv'
<1>1. LocalType'
  BY DEF BreakerInv, LocalType, Goto
<1>2. LockInv'
  BY DEF BreakerInv, LocalType, LockInv, Goto, Guarded
<1>3. OpenInv'
  BY DEF BreakerInv, LocalType, OpenInv, Goto, LetThrough
<1> QED
  BY <1>1, <1>2, <1>3 DEF BreakerInv

(* The first half of can_execute. *)
LEMMA CanExecuteReadKeepsInv ==
  ASSUME BreakerInv, NEW r \in Requests,
         NEW here \in {"admit", "readmit"}, NEW there \in {"admitting", "readmitting"},
         can_execute_read(r, here, there)
  PROVE  BreakerInv'
<1>1. CASE Goto(r, here, there) /\ try_read(r) /\ UNCHANGED <<state, after_open>>
  BY <1>1, ReadKeepsInv DEF Guarded
<1>2. CASE Goto(r, here, "idle") /\ UNCHANGED <<state, after_open, readers, writer, seen>>
  BY <1>2, MoveKeepsInv DEF Guarded, LetThrough, PC
<1> QED
  BY <1>1, <1>2 DEF can_execute_read, breakerVars, lockVars, localVars

(* The second half: a task gets through only on a closed breaker. *)
LEMMA CanExecuteKeepsInv ==
  ASSUME BreakerInv, NEW r \in Requests,
         NEW here \in {"admitting", "readmitting"}, NEW there \in LetThrough,
         can_execute(r, here, there)
  PROVE  BreakerInv' /\ state' = state
<1>1. pc[r] = here /\ r \in readers /\ seen[r] = state
  BY DEF can_execute, Goto, BreakerInv, LocalType, LockInv, Guarded
<1>2. ~CanWrite
  BY <1>1, NoProbe DEF Guarded
<1>3. state' = state
  BY <1>2 DEF can_execute
<1>4. /\ readers' = readers \ {r}
      /\ UNCHANGED <<writer, seen, after_open>>
  BY DEF can_execute, localVars
<1>5. \/ state = "Closed" /\ Goto(r, here, there)
      \/ Goto(r, here, "idle")
  BY <1>1, <1>2 DEF can_execute, BreakerInv
<1>6. \E dest \in LetThrough \cup {"idle"} :
        Goto(r, here, dest) /\ (dest \in LetThrough => state = "Closed")
  BY <1>5 DEF LetThrough
<1>7. PICK dest \in LetThrough \cup {"idle"} :
        Goto(r, here, dest) /\ (dest \in LetThrough => state = "Closed")
  BY <1>6
<1>8. LocalType'
  BY <1>4, <1>7 DEF BreakerInv, LocalType, Goto, LetThrough, PC
<1>9. LockInv'
  BY <1>3, <1>4, <1>7 DEF BreakerInv, LocalType, LockInv, Goto, LetThrough, Guarded
<1>10. OpenInv'
  BY <1>3, <1>4, <1>7 DEF BreakerInv, LocalType, OpenInv, Goto, LetThrough
<1> QED
  BY <1>3, <1>8, <1>9, <1>10 DEF BreakerInv

(* Opening the breaker: nobody has begun an operation since. *)
LEMMA OpenCircuitKeepsInv ==
  ASSUME BreakerInv, NEW r \in Requests, open_circuit(r)
  PROVE  BreakerInv'
<1>1. CASE /\ CanWrite
           /\ Goto(r, "opening", "opened")
           /\ writer' = r
           /\ state' = "Open"
           /\ after_open' = IF state = "Open" THEN after_open ELSE [q \in Requests |-> 0]
           /\ UNCHANGED <<readers, seen>>
  <2>1. LocalType'
    BY <1>1 DEF BreakerInv, LocalType, Goto, PC
  <2>2. LockInv'
    BY <1>1 DEF BreakerInv, LocalType, LockInv, Goto, Guarded, CanWrite
  <2>3. OpenInv'
    BY <1>1 DEF BreakerInv, LocalType, OpenInv, Goto, LetThrough
  <2> QED
    BY <1>1, <2>1, <2>2, <2>3 DEF BreakerInv
<1>2. CASE Goto(r, "opening", "readmit") /\ UNCHANGED <<state, after_open, readers, writer, seen>>
  BY <1>2, MoveKeepsInv DEF Guarded, LetThrough, PC
<1> QED
  BY <1>1, <1>2 DEF open_circuit, breakerVars, lockVars, localVars

(* Every step of a task inside retry_async. *)
LEMMA ProceedKeepsInv ==
  ASSUME BreakerInv, NEW r \in Requests, Proceed(r)
  PROVE  BreakerInv'
<1> USE DEF breakerVars, lockVars, localVars
<1>1. CASE can_execute_read(r, "admit", "admitting")
  BY <1>1, CanExecuteReadKeepsInv
<1>2. CASE can_execute(r, "admitting", "loop")
  BY <1>2, CanExecuteKeepsInv DEF LetThrough
<1>3. CASE begin_operation(r)
  <2>1. LocalType'
    BY <1>3 DEF begin_operation, BreakerInv, LocalType, Goto, PC
  <2>2. LockInv'
    BY <1>3 DEF begin_operation, BreakerInv, LocalType, LockInv, Goto, Guarded
  <2>3. OpenInv'
    BY <1>3 DEF begin_operation, BreakerInv, LocalType, OpenInv, Goto, LetThrough
  <2> QED
    BY <1>3, <2>1, <2>2, <2>3 DEF BreakerInv, begin_operation
<1>4. CASE give_up(r)
  BY <1>4, MoveKeepsInv DEF give_up, Guarded, LetThrough, PC
<1>5. CASE operation_ok(r)
  BY <1>5, MoveKeepsInv DEF operation_ok, Guarded, LetThrough, PC
<1>6. CASE operation_failed(r)
  BY <1>6, MoveKeepsInv DEF operation_failed, Guarded, LetThrough, PC
<1>7. CASE record_success(r)
  <2>1. state # "HalfOpen"
    BY DEF BreakerInv
  <2> QED
    BY <1>7, <2>1, MoveKeepsInv DEF record_success, Guarded, LetThrough, PC
<1>8. CASE count_error(r)
  BY <1>8, MoveKeepsInv DEF count_error, Guarded, LetThrough, PC
<1>9. CASE read_state(r)
  <2>1. CASE Goto(r, "reading", "comparing") /\ try_read(r) /\ UNCHANGED <<state, after_open>>
    BY <2>1, ReadKeepsInv DEF Guarded
  <2>2. CASE Goto(r, "reading", "readmit") /\ UNCHANGED <<state, after_open, readers, writer, seen>>
    BY <2>2, MoveKeepsInv DEF Guarded, LetThrough, PC
  <2> QED
    BY <1>9, <2>1, <2>2 DEF read_state
<1>10. CASE compare_state(r)
  <2>1. PICK dest \in {"opening", "readmit"} : Goto(r, "comparing", dest)
    BY <1>10 DEF compare_state
  <2>2. readers' = readers \ {r} /\ UNCHANGED <<state, writer, seen, after_open>>
    BY <1>10 DEF compare_state
  <2>3. LocalType'
    BY <2>1, <2>2 DEF BreakerInv, LocalType, Goto, PC
  <2>4. LockInv'
    BY <2>1, <2>2 DEF BreakerInv, LocalType, LockInv, Goto, Guarded
  <2>5. OpenInv'
    BY <2>1, <2>2 DEF BreakerInv, LocalType, OpenInv, Goto, LetThrough
  <2> QED
    BY <2>2, <2>3, <2>4, <2>5 DEF BreakerInv
<1>11. CASE open_circuit(r)
  BY <1>11, OpenCircuitKeepsInv
<1>12. CASE drop_guard(r)
  <2>1. LocalType'
    BY <1>12 DEF drop_guard, BreakerInv, LocalType, Goto, PC
  <2>2. LockInv'
    BY <1>12 DEF drop_guard, BreakerInv, LocalType, LockInv, Goto, Guarded
  <2>3. OpenInv'
    BY <1>12 DEF drop_guard, BreakerInv, LocalType, OpenInv, Goto, LetThrough
  <2> QED
    BY <1>12, <2>1, <2>2, <2>3 DEF BreakerInv, drop_guard
<1>13. CASE can_execute_read(r, "readmit", "readmitting")
  BY <1>13, CanExecuteReadKeepsInv
<1>14. CASE can_execute(r, "readmitting", "deciding")
  BY <1>14, CanExecuteKeepsInv DEF LetThrough
<1>15. CASE not_retryable(r)
  BY <1>15, MoveKeepsInv DEF not_retryable, Guarded, LetThrough, PC
<1>16. CASE wake_up(r)
  BY <1>16, MoveKeepsInv DEF wake_up, Guarded, LetThrough, PC
<1> QED
  BY <1>1, <1>2, <1>3, <1>4, <1>5, <1>6, <1>7, <1>8, <1>9, <1>10, <1>11, <1>12,
     <1>13, <1>14, <1>15, <1>16 DEF Proceed, record_failure

(* Every step keeps the invariant. *)
LEMMA BreakerInvStep ==
  ASSUME BreakerInv, [Next]_vars
  PROVE  BreakerInv'
<1> USE DEF breakerVars, lockVars, localVars
<1>1. CASE UNCHANGED vars
  BY <1>1 DEF vars, BreakerInv, LocalType, LockInv, OpenInv
<1>2. ASSUME NEW r \in Requests, retry_async(r)
      PROVE  BreakerInv'
  BY <1>2, MoveKeepsInv DEF retry_async, Guarded, LetThrough, PC
<1>3. ASSUME NEW r \in Requests, Proceed(r)
      PROVE  BreakerInv'
  BY <1>3, ProceedKeepsInv
<1>4. CASE reset
  BY <1>4, RetryAssumption DEF reset, CanWrite, BreakerInv, LocalType, LockInv, OpenInv
<1>5. CASE reset_counter
  BY <1>5 DEF reset_counter, BreakerInv, LocalType, LockInv, OpenInv
<1>6. CASE Tick
  BY <1>6 DEF Tick, BreakerInv, LocalType, LockInv, OpenInv
<1> QED
  BY <1>1, <1>2, <1>3, <1>4, <1>5, <1>6 DEF Next

(* The invariant holds in every reachable state. *)
LEMMA BreakerInvAlways == Spec => []BreakerInv
BY BreakerInvInit, BreakerInvStep, PTL DEF Spec

-----------------------------------------------------------------------------
(* After the breaker has opened no task begins more than one operation,    *)
(* however its steps interleave with the others' try_locks.                *)
THEOREM OneOperationAfterOpening == Spec => []OneMoreOperation
<1>1. BreakerInv => OneMoreOperation
  BY DEF BreakerInv, OpenInv, OneMoreOperation
<1> QED
  BY <1>1, BreakerInvAlways, PTL

(* A step out of the open state is a reset. *)
LEMMA LeavingOpen ==
  ASSUME BreakerInv, [Next]_vars, state = "Open", state' # "Open"
  PROVE  writer' = Resetter
<1> USE DEF breakerVars
<1>1. ASSUME NEW r \in Requests, Proceed(r)
      PROVE  FALSE
  <2>1. ~can_execute(r, "admitting", "loop") /\ ~can_execute(r, "readmitting", "deciding")
    BY CanExecuteKeepsInv DEF LetThrough
  <2>2. ~record_success(r)
    BY DEF record_success
  <2>3. ~open_circuit(r)
    BY DEF open_circuit
  <2> QED
    BY <1>1, <2>1, <2>2, <2>3 DEF Proceed, record_failure, can_execute_read,
       begin_operation, give_up, operation_ok, operation_failed, count_error, read_state,
       compare_state, drop_guard, not_retryable, wake_up
<1> QED
  BY <1>1 DEF Next, vars, retry_async, reset, reset_counter, Tick

(* An open breaker is only ever left by reset, never through HalfOpen.     *)
THEOREM OpenLeftByResetOnly == Spec => OnlyResetCloses
<1>1. BreakerInv /\ [Next]_vars => [state = "Open" /\ state' # "Open" => writer' = Resetter]_vars
  BY LeavingOpen
<1> QED
  BY <1>1, BreakerInvAlways, PTL DEF Spec, OnlyResetCloses

(***************************************************************************)
(* NonceManager: the type invariant and the two safety invariants together *)
(* are inductive.                                                          *)
(***************************************************************************)
MapType ==
  /\ DOMAIN nonces \in SUBSET Addresses
  /\ nonces \in [DOMAIN nonces -> Nat]
  /\ DOMAIN last_updates = DOMAIN nonces
  /\ last_updates \in [DOMAIN last_updates -> {"fresh", "expired"}]

NonceInv == TypeOK /\ AheadUntilSetBack /\ DuplicateOnlySetBack

(* Storing a number for an address keeps the maps well-formed. *)
LEMMA InsertType ==
  ASSUME TypeOK, NEW a \in Addresses, NEW n \in Nat,
         nonces' = insert(nonces, a, n), last_updates' = insert(last_updates, a, "fresh")
  PROVE  MapType'
BY DEF TypeOK, MapType, insert

(* The invariant holds in a new manager. *)
LEMMA NonceInvInit == nonceInit => NonceInv
BY NonceAssumption DEF nonceInit, NonceInv, TypeOK, AheadUntilSetBack, DuplicateOnlySetBack

(* Handing out a number, the cached or the fetched one. *)
LEMMA HandOut ==
  ASSUME NonceInv, NEW a \in Addresses, NEW n \in Nat, hand_out(a, n), MapType',
         global_lock' \in Operation \cup {Unlocked},
         rewound' \in SUBSET Addresses, rewound \subseteq rewound',
         a \notin rewound' => mined[a] <= n /\ \A w \in waiting[a] : w < n
  PROVE  NonceInv'
<1>1. TypeOK'
  BY DEF NonceInv, TypeOK, MapType, hand_out
<1>2. AheadUntilSetBack'
  BY DEF NonceInv, TypeOK, AheadUntilSetBack, hand_out, insert
<1>3. DuplicateOnlySetBack'
  BY DEF NonceInv, TypeOK, DuplicateOnlySetBack, hand_out
<1> QED
  BY <1>1, <1>2, <1>3 DEF NonceInv

(* Storing a number without handing it out. *)
LEMMA StoreNumber ==
  ASSUME NonceInv, NEW a \in Addresses, NEW n \in Nat,
         nonces' = insert(nonces, a, n), MapType',
         global_lock' \in Operation \cup {Unlocked}, UNCHANGED <<chainVars, duplicate>>,
         rewound' \in SUBSET Addresses, rewound \subseteq rewound',
         a \notin rewound' => mined[a] <= n /\ \A w \in waiting[a] : w < n
  PROVE  NonceInv'
<1> USE DEF chainVars
<1>1. TypeOK'
  BY DEF NonceInv, TypeOK, MapType
<1>2. AheadUntilSetBack'
  BY DEF NonceInv, TypeOK, AheadUntilSetBack, insert
<1>3. DuplicateOnlySetBack'
  BY DEF NonceInv, DuplicateOnlySetBack
<1> QED
  BY <1>1, <1>2, <1>3 DEF NonceInv

(* What a number taken over without comparison does to the history. *)
LEMMA SetBack ==
  ASSUME TypeOK, NEW a \in Addresses, NEW n \in Nat, set_back(a, n)
  PROVE  /\ rewound' \in SUBSET Addresses /\ rewound \subseteq rewound'
         /\ a \notin rewound' => mined[a] <= n /\ \A w \in waiting[a] : w < n
BY DEF TypeOK, set_back

(* Every operation and every step of the chain keeps the invariant. *)
LEMMA NonceInvStep ==
  ASSUME NonceInv, [nonceNext]_nonceVars
  PROVE  NonceInv'
<1> USE DEF cacheVars, chainVars, historyVars
<1>0. TypeOK /\ MapType
  BY DEF NonceInv, TypeOK, MapType
<1>1. CASE UNCHANGED nonceVars
  BY <1>1 DEF nonceVars, NonceInv, TypeOK, AheadUntilSetBack, DuplicateOnlySetBack
<1>2. ASSUME NEW a \in Addresses, NEW op \in {"get", "reset"}, get_nonce_from_chain(op, a)
      PROVE  NonceInv'
  <2>1. global_lock' \in Operation
    BY <1>0, <1>2 DEF get_nonce_from_chain, Operation, TypeOK
  <2> QED
    BY <1>2, <2>1 DEF get_nonce_from_chain, NonceInv, TypeOK, AheadUntilSetBack,
                      DuplicateOnlySetBack
<1>3. ASSUME NEW a \in Addresses, get_next_nonce_cached(a)
      PROVE  NonceInv'
  <2>1. a \in DOMAIN nonces /\ nonces[a] \in Nat
    BY <1>0, <1>3 DEF get_next_nonce_cached, should_refresh, MapType
  <2>2. MapType'
    BY <1>0, <1>3, <2>1 DEF get_next_nonce_cached, hand_out, insert, MapType
  <2>3. a \notin rewound => mined[a] <= nonces[a] /\ \A w \in waiting[a] : w < nonces[a]
    BY <2>1 DEF NonceInv, AheadUntilSetBack
  <2> QED
    BY <1>0, <1>3, <2>1, <2>2, <2>3, HandOut DEF get_next_nonce_cached, TypeOK
<1>4. ASSUME NEW a \in Addresses, NEW n \in 0 .. MaxNonce, get_next_nonce_fetched(a, n)
      PROVE  NonceInv'
  <2>1. n \in Nat /\ n + 1 \in Nat
    BY NonceAssumption
  <2>2. MapType'
    BY <1>0, <1>4, <2>1, InsertType DEF get_next_nonce_fetched, hand_out
  <2> QED
    BY <1>0, <1>4, <2>1, <2>2, HandOut, SetBack DEF get_next_nonce_fetched
<1>5. ASSUME NEW a \in Addresses, NEW n \in 0 .. MaxNonce, reset_nonce(a, n)
      PROVE  NonceInv'
  <2>1. n \in Nat
    BY NonceAssumption
  <2>2. MapType'
    BY <1>0, <1>5, <2>1, InsertType DEF reset_nonce
  <2> QED
    BY <1>0, <1>5, <2>1, <2>2, StoreNumber, SetBack DEF reset_nonce
<1>6. ASSUME NEW a \in Addresses, NEW n \in 0 .. mined[a], update_nonce(a, n)
      PROVE  NonceInv'
  <2> DEFINE m == IF nonces[a] > n THEN nonces[a] ELSE n
  <2>1. n \in Nat /\ nonces[a] \in Nat /\ a \in DOMAIN nonces
    BY <1>0, <1>6 DEF TypeOK, MapType, update_nonce
  <2>2. m \in Nat /\ m >= nonces[a]
    BY <2>1
  <2>3. nonces' = insert(nonces, a, m)
    BY <1>6 DEF update_nonce
  <2>4. a \notin rewound' => mined[a] <= m /\ \A w \in waiting[a] : w < m
    BY <1>0, <1>6, <2>1, <2>2 DEF NonceInv, AheadUntilSetBack, update_nonce, TypeOK
  <2> HIDE DEF m
  <2>5. MapType'
    BY <1>0, <1>6, <2>2, <2>3, InsertType DEF update_nonce
  <2> QED
    BY <1>0, <1>6, <2>2, <2>3, <2>4, <2>5, StoreNumber DEF update_nonce, TypeOK
<1>7. ASSUME NEW a \in Addresses, NEW n \in 0 .. mined[a], update_nonce_unknown(a, n)
      PROVE  NonceInv'
  <2>1. n \in Nat
    BY <1>0 DEF TypeOK
  <2>2. MapType'
    BY <1>0, <1>7, <2>1, InsertType DEF update_nonce_unknown
  <2>3. global_lock' \in Operation \cup {Unlocked}
    BY <1>0, <1>7 DEF update_nonce_unknown, TypeOK
  <2> QED
    BY <1>0, <1>7, <2>1, <2>2, <2>3, StoreNumber, SetBack DEF update_nonce_unknown
<1>8. CASE cleanup_cache
  <2>1. Kept \subseteq DOMAIN nonces
    BY DEF Kept
  <2> QED
    BY <1>0, <1>8, <2>1 DEF cleanup_cache, NonceInv, TypeOK, AheadUntilSetBack,
                            DuplicateOnlySetBack
<1>9. ASSUME NEW a \in Addresses, Expire(a)
      PROVE  NonceInv'
  BY <1>9 DEF Expire, NonceInv, TypeOK, AheadUntilSetBack, DuplicateOnlySetBack
<1>10. ASSUME NEW a \in Addresses, Mine(a)
       PROVE  NonceInv'
  BY <1>10 DEF Mine, NonceInv, TypeOK, AheadUntilSetBack, DuplicateOnlySetBack
<1>11. ASSUME NEW a \in Addresses, NEW n \in waiting[a], Lose(a, n)
       PROVE  NonceInv'
  BY <1>11 DEF Lose, NonceInv, TypeOK, AheadUntilSetBack, DuplicateOnlySetBack
<1> QED
  BY <1>1, <1>2, <1>3, <1>4, <1>5, <1>6, <1>7, <1>8, <1>9, <1>10, <1>11 DEF nonceNext

(* The invariant holds in every reachable state. *)
LEMMA NonceInvAlways == NonceSpec => []NonceInv
BY NonceInvInit, NonceInvStep, PTL DEF NonceSpec

-----------------------------------------------------------------------------
(* The cached number is ahead of all that is mined or waiting until the    *)
(* address is set back by a refresh, a reset or a blind confirmation.      *)
THEOREM NumbersAhead == NonceSpec => []AheadUntilSetBack
<1>1. NonceInv => AheadUntilSetBack
  BY DEF NonceInv
<1> QED
  BY <1>1, NonceInvAlways, PTL

(* Only an address that was set back is handed a number twice.             *)
THEOREM DuplicatesExplained == NonceSpec => []DuplicateOnlySetBack
<1>1. NonceInv => DuplicateOnlySetBack
  BY DEF NonceInv
<1> QED
  BY <1>1, NonceInvAlways, PTL

(***************************************************************************)
(* MPCController: nobody signs twice, a transaction completes only with a  *)
(* threshold of distinct signers, completion is final, and the threshold   *)
(* stays between 1 and the length of the signer list.                      *)
(***************************************************************************)
(* The signature list of a transaction: accounts, none of them twice. *)
TransactionsOK ==
  /\ DOMAIN pending_transactions \in SUBSET TxIds
  /\ pending_transactions \in [DOMAIN pending_transactions -> MPCTransaction]
  /\ threshold \in Int

SigInv == TransactionsOK /\ OneSignatureEach

(* Appending an account that is not in a list without repetitions gives a  *)
(* list without repetitions, one longer, with that account in its range.   *)
LEMMA AppendNew ==
  ASSUME NEW s \in Seq(Accounts), NEW a \in Accounts, IsInjective(s), a \notin Range(s)
  PROVE  /\ Append(s, a) \in Seq(Accounts)
         /\ IsInjective(Append(s, a))
         /\ Range(Append(s, a)) = Range(s) \cup {a}
<1>1. /\ Append(s, a) \in Seq(Accounts)
      /\ Len(Append(s, a)) = Len(s) + 1
      /\ DOMAIN Append(s, a) = 1 .. Len(s) + 1
      /\ \A i \in 1 .. Len(s) : Append(s, a)[i] = s[i]
      /\ Append(s, a)[Len(s) + 1] = a
  BY AppendProperties
<1>2. DOMAIN s = 1 .. Len(s) /\ Len(s) \in Nat
  OBVIOUS
<1>3. IsInjective(Append(s, a))
  BY <1>1, <1>2 DEF IsInjective, Range
<1>4. Range(Append(s, a)) = Range(s) \cup {a}
  BY <1>1, <1>2 DEF Range
<1> QED
  BY <1>1, <1>3, <1>4

(* A list without repetitions has as many elements as entries. *)
LEMMA InjectiveCardinality ==
  ASSUME NEW s \in Seq(Accounts), IsInjective(s)
  PROVE  Cardinality(Range(s)) = Len(s)
<1>1. s \in [1 .. Len(s) -> Range(s)] /\ Len(s) \in Nat /\ DOMAIN s = 1 .. Len(s)
  BY DEF Range
<1>2. s \in Injection(1 .. Len(s), Range(s))
  BY <1>1 DEF Injection, IsInjective
<1>3. s \in Surjection(1 .. Len(s), Range(s))
  BY <1>1 DEF Surjection, Range
<1>4. ExistsBijection(1 .. Len(s), Range(s))
  BY <1>2, <1>3 DEF ExistsBijection, Bijection
<1> QED
  BY <1>1, <1>4, FS_CountingElements

(* What sign_transaction does to the table. *)
LEMMA SignStep ==
  ASSUME SigInv, NEW caller \in Accounts, NEW id \in TxIds, sign_transaction(caller, id)
  PROVE  /\ SigInv'
         /\ DOMAIN pending_transactions' = DOMAIN pending_transactions
         /\ id \in DOMAIN pending_transactions
         /\ ~pending_transactions[id].completed
         /\ \A other \in DOMAIN pending_transactions \ {id} :
              pending_transactions'[other] = pending_transactions[other]
         /\ pending_transactions'[id].completed =>
              /\ Cardinality(Range(pending_transactions'[id].signatures)) >= threshold
              /\ caller \in Range(pending_transactions'[id].signatures)
         /\ caller \notin Range(pending_transactions[id].signatures)
         /\ caller \in Range(authorized_signers)
<1> DEFINE old == pending_transactions[id].signatures
           sigs == Append(old, caller)
           tx == [signatures |-> sigs, completed |-> Len(sigs) >= threshold]
<1>1. /\ id \in DOMAIN pending_transactions
      /\ ~pending_transactions[id].completed
      /\ caller \notin Range(old)
      /\ caller \in Range(authorized_signers)
      /\ pending_transactions' = [pending_transactions EXCEPT ![id] = tx]
      /\ threshold' = threshold
  BY DEF sign_transaction
<1>2. old \in Seq(Accounts) /\ IsInjective(old)
  BY <1>1 DEF SigInv, TransactionsOK, OneSignatureEach, MPCTransaction
<1>3. sigs \in Seq(Accounts) /\ IsInjective(sigs) /\ caller \in Range(sigs)
  BY <1>1, <1>2, AppendNew
<1>4. tx \in MPCTransaction
  BY <1>3 DEF MPCTransaction
<1>5. /\ DOMAIN pending_transactions' = DOMAIN pending_transactions
      /\ pending_transactions'[id] = tx
      /\ \A other \in DOMAIN pending_transactions \ {id} :
           pending_transactions'[other] = pending_transactions[other]
  BY <1>1 DEF SigInv, TransactionsOK
<1>6. TransactionsOK'
  <2> HIDE DEF tx
  <2> QED
    BY <1>1, <1>4, <1>5 DEF SigInv, TransactionsOK
<1>7. OneSignatureEach'
  <2>1. tx.signatures = sigs
    OBVIOUS
  <2> HIDE DEF tx, sigs
  <2> QED
    BY <1>3, <1>5, <2>1 DEF SigInv, OneSignatureEach
<1>8. Len(sigs) >= threshold => Cardinality(Range(sigs)) >= threshold
  BY <1>3, InjectiveCardinality
<1> QED
  BY <1>1, <1>3, <1>5, <1>6, <1>7, <1>8 DEF SigInv

(* What create_transaction does to the table. *)
LEMMA CreateStep ==
  ASSUME SigInv, NEW id \in TxIds, NEW from, NEW to, create_transaction(id, from, to)
  PROVE  /\ SigInv'
         /\ \A other \in DOMAIN pending_transactions :
              /\ other \in DOMAIN pending_transactions'
              /\ pending_transactions'[other] = pending_transactions[other]
         /\ DOMAIN pending_transactions' = DOMAIN pending_transactions \cup {id}
         /\ ~pending_transactions'[id].completed
<1> DEFINE tx == [signatures |-> << >>, completed |-> FALSE]
<1>1. tx \in MPCTransaction /\ IsInjective(tx.signatures)
  BY DEF MPCTransaction, IsInjective
<1>2. /\ id \notin DOMAIN pending_transactions
      /\ pending_transactions' = [x \in DOMAIN pending_transactions \cup {id} |->
                                    IF x = id THEN tx ELSE pending_transactions[x]]
      /\ threshold' = threshold
  BY DEF create_transaction
<1>3. /\ DOMAIN pending_transactions' = DOMAIN pending_transactions \cup {id}
      /\ pending_transactions'[id] = tx
      /\ \A other \in DOMAIN pending_transactions :
           pending_transactions'[other] = pending_transactions[other]
  BY <1>2
<1>4. TransactionsOK'
  BY <1>1, <1>2, <1>3 DEF SigInv, TransactionsOK
<1>5. OneSignatureEach'
  BY <1>1, <1>3 DEF SigInv, OneSignatureEach
<1> QED
  BY <1>1, <1>3, <1>4, <1>5 DEF SigInv

(* Every other call leaves the table alone. *)
LEMMA NextCases ==
  ASSUME mpcNext
  PROVE  \/ \E caller \in Accounts, id \in TxIds : sign_transaction(caller, id)
         \/ \E id \in TxIds, from, to \in Chains : create_transaction(id, from, to)
         \/ UNCHANGED pending_transactions /\ (SigInv => threshold' \in Int)
<1>1. ASSUME NEW caller \in Accounts, NEW t \in Thresholds, set_threshold(caller, t)
      PROVE  UNCHANGED pending_transactions /\ threshold' \in Int
  BY <1>1, MPCBounds DEF set_threshold, Thresholds
<1>2. ASSUME UNCHANGED <<threshold, pending_transactions>>
      PROVE  UNCHANGED pending_transactions /\ (SigInv => threshold' \in Int)
  BY <1>2 DEF SigInv, TransactionsOK
<1> QED
  BY <1>1, <1>2 DEF mpcNext, add_supported_chain, update_supported_chain,
     add_authorized_signer, remove_authorized_signer, transfer_ownership

(* A new controller satisfies the invariant. *)
LEMMA SigInvInit == mpcInit => SigInv
BY MPCBounds DEF mpcInit, new_controller, Thresholds, SigInv, TransactionsOK, OneSignatureEach

(* Every call keeps the invariant. *)
LEMMA SigInvStep == SigInv /\ [mpcNext]_mpcVars => SigInv'
<1> SUFFICES ASSUME SigInv, [mpcNext]_mpcVars PROVE SigInv'
  OBVIOUS
<1>1. ASSUME UNCHANGED pending_transactions, threshold' \in Int PROVE SigInv'
  BY <1>1 DEF SigInv, TransactionsOK, OneSignatureEach
<1>2. CASE UNCHANGED mpcVars
  BY <1>1, <1>2 DEF mpcVars, SigInv, TransactionsOK
<1>3. CASE mpcNext
  BY <1>1, <1>3, NextCases, SignStep, CreateStep
<1> QED
  BY <1>2, <1>3

(* The invariant holds in every reachable state. *)
LEMMA SigInvAlways == MPCSpec => []SigInv
BY SigInvInit, SigInvStep, PTL DEF MPCSpec

(* No account has two signatures on one transaction. *)
THEOREM NoDoubleSignature == MPCSpec => []OneSignatureEach
BY SigInvAlways, PTL DEF SigInv

(* A completed transaction never changes and its id is never reused. *)
THEOREM CompletionIsFinal == MPCSpec => CompletedIsFinal
<1> DEFINE Final == \A id \in TxIds : Completed(id) =>
                      /\ id \in DOMAIN pending_transactions'
                      /\ pending_transactions'[id] = pending_transactions[id]
<1>1. SigInv /\ [mpcNext]_mpcVars => [Final]_mpcVars
  <2> SUFFICES ASSUME SigInv, mpcNext PROVE Final
    OBVIOUS
  <2>1. ASSUME UNCHANGED pending_transactions PROVE Final
    BY <2>1 DEF Completed
  <2>2. ASSUME NEW caller \in Accounts, NEW id \in TxIds, sign_transaction(caller, id)
        PROVE  Final
    BY <2>2, SignStep DEF Completed
  <2>3. ASSUME NEW id \in TxIds, NEW from \in Chains, NEW to \in Chains,
               create_transaction(id, from, to)
        PROVE  Final
    BY <2>3, CreateStep DEF Completed
  <2> QED
    BY <2>1, <2>2, <2>3, NextCases
<1> QED
  BY <1>1, SigInvAlways, PTL DEF MPCSpec, CompletedIsFinal

(* A transaction completes only in a step that leaves it with a threshold  *)
(* of distinct signers, one of them new and authorized.                    *)
THEOREM CompletionHasThreshold == MPCSpec => CompletionNeedsThreshold
<1> DEFINE Enough == \A id \in TxIds : Completed(id)' /\ ~Completed(id) =>
                       /\ Cardinality(Signers(id)') >= threshold
                       /\ \E s \in Signers(id)' \ Signers(id) : s \in Range(authorized_signers)
<1>1. SigInv /\ [mpcNext]_mpcVars => [Enough]_mpcVars
  <2> SUFFICES ASSUME SigInv, mpcNext PROVE Enough
    OBVIOUS
  <2>1. ASSUME UNCHANGED pending_transactions PROVE Enough
    BY <2>1 DEF Completed
  <2>2. ASSUME NEW caller \in Accounts, NEW id \in TxIds, sign_transaction(caller, id)
        PROVE  Enough
    <3> SUFFICES ASSUME NEW x \in TxIds, Completed(x)', ~Completed(x)
                 PROVE  /\ Cardinality(Signers(x)') >= threshold
                        /\ \E s \in Signers(x)' \ Signers(x) : s \in Range(authorized_signers)
      OBVIOUS
    <3>1. x = id
      BY <2>2, SignStep DEF Completed
    <3> QED
      BY <2>2, <3>1, SignStep DEF Completed, Signers
  <2>3. ASSUME NEW id \in TxIds, NEW from \in Chains, NEW to \in Chains,
               create_transaction(id, from, to)
        PROVE  Enough
    BY <2>3, CreateStep DEF Completed
  <2> QED
    BY <2>1, <2>2, <2>3, NextCases
<1> QED
  BY <1>1, SigInvAlways, PTL DEF MPCSpec, CompletionNeedsThreshold

-----------------------------------------------------------------------------
(***************************************************************************)
(* The threshold against the signers.                                      *)
(***************************************************************************)

SignersOK ==
  /\ authorized_signers \in Seq(Accounts)
  /\ threshold \in Nat

ThresholdInv == SignersOK /\ ThresholdInRange

(* What retain leaves is a list of accounts, none of them the one removed. *)
LEMMA RetainType ==
  ASSUME NEW s \in Seq(Accounts), NEW a
  PROVE  /\ retain_others(s, a) \in Seq(Accounts)
         /\ a \notin Range(retain_others(s, a))
<1>1. PICK r : r = retained(s, Accounts \ {a})
  OBVIOUS
<1>2. r \in Seq(Accounts) /\ \A n \in DOMAIN r : r[n] \in Accounts \ {a}
  BY <1>1, Retained
<1>3. QED
  BY <1>1, <1>2 DEF Range, retain_others

(* A new controller has a threshold its list allows. *)
LEMMA ThresholdInvInit == mpcInit => ThresholdInv
<1> SUFFICES ASSUME NEW signers \in SignerLists, NEW t \in Thresholds, NEW owner \in Accounts,
                    new_controller(signers, t, owner)
             PROVE  ThresholdInv
  BY DEF mpcInit
<1>1. PICK n \in 1 .. MaxSigners : signers \in [1 .. n -> Accounts]
  BY DEF SignerLists
<1>2. signers \in Seq(Accounts)
  BY <1>1, MPCBounds
<1>3. t \in Nat
  BY MPCBounds DEF Thresholds
<1> QED
  BY <1>2, <1>3 DEF new_controller, ThresholdInv, SignersOK, ThresholdInRange, valid_threshold

(* Every call keeps the threshold within the list. *)
LEMMA ThresholdInvStep == ThresholdInv /\ [mpcNext]_mpcVars => ThresholdInv'
<1> SUFFICES ASSUME ThresholdInv, [mpcNext]_mpcVars PROVE ThresholdInv'
  OBVIOUS
<1> USE DEF ThresholdInv, SignersOK, ThresholdInRange, valid_threshold
<1>1. ASSUME UNCHANGED <<authorized_signers, threshold>> PROVE ThresholdInv'
  BY <1>1
<1>2. CASE UNCHANGED mpcVars
  BY <1>1, <1>2 DEF mpcVars
<1>3. ASSUME NEW caller \in Accounts, NEW s \in Accounts, add_authorized_signer(caller, s)
      PROVE  ThresholdInv'
  <2>1. authorized_signers' = Append(authorized_signers, s) /\ threshold' = threshold
    BY <1>3 DEF add_authorized_signer
  <2>2. authorized_signers' \in Seq(Accounts)
        /\ Len(authorized_signers') = Len(authorized_signers) + 1
    BY <2>1, AppendProperties
  <2> QED
    BY <2>1, <2>2
<1>4. ASSUME NEW caller \in Accounts, NEW s \in Accounts, remove_authorized_signer(caller, s)
      PROVE  ThresholdInv'
  <2>1. /\ authorized_signers' = retain_others(authorized_signers, s)
        /\ Len(authorized_signers') >= threshold
        /\ threshold' = threshold
    BY <1>4 DEF remove_authorized_signer
  <2>2. authorized_signers' \in Seq(Accounts)
    BY <2>1, RetainType
  <2> QED
    BY <2>1, <2>2
<1>5. ASSUME NEW caller \in Accounts, NEW t \in Thresholds, set_threshold(caller, t)
      PROVE  ThresholdInv'
  BY <1>5, MPCBounds DEF set_threshold, Thresholds
<1>6. CASE mpcNext
  BY <1>1, <1>3, <1>4, <1>5, <1>6 DEF mpcNext, add_supported_chain, update_supported_chain,
     create_transaction, sign_transaction, transfer_ownership
<1> QED
  BY <1>2, <1>6

(* Through additions, removals and changes of the threshold it stays       *)
(* between 1 and the length of the signer list, which may name an account  *)
(* more than once.                                                         *)
THEOREM ThresholdWithinList == MPCSpec => []ThresholdInRange
<1>1. MPCSpec => []ThresholdInv
  BY ThresholdInvInit, ThresholdInvStep, PTL DEF MPCSpec
<1> QED
  BY <1>1, PTL DEF ThresholdInv
=============================================================================
