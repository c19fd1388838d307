----------------------------- MODULE NonceManager -----------------------------
(***************************************************************************)
(* The NonceManager of the chain adapters                                  *)
(* (snipebot/src/chain_adapters/nonce_manager.rs): next transaction        *)
(* numbers per wallet address, cached for a while and taken from the chain *)
(* when missing or expired.                                                *)
(*                                                                         *)
(* Every operation holds global_lock from its first line to its last, so   *)
(* operations do not overlap; the chain moves on while one waits for the   *)
(* provider, so a fetch and its use are two steps.  A failed fetch returns *)
(* an error and changes nothing.                                           *)
(*                                                                         *)
(* The chain counts the transactions it has mined for an address, not the  *)
(* ones that wait (get_transaction_count without a block).  All            *)
(* transactions of the addresses use numbers handed out here; one may get  *)
(* lost before it is mined.                                                *)
(***************************************************************************)
EXTENDS Integers

CONSTANTS
  Addresses,
  Unlocked,    \* global_lock is free
  MaxNonce     \* bound on the numbers handed out

VARIABLES
  nonces,        \* address -> next number, partial
  last_updates,  \* address -> "fresh" or "expired", partial
  global_lock,   \* Unlocked, or the operation that waits with a fetched number
  mined,         \* address -> get_transaction_count
  waiting,       \* address -> numbers handed out, neither mined nor lost
  duplicate,     \* history: addresses with a number handed out while waiting or mined
  rewound        \* history: addresses whose number was set back by a fetch

cacheVars == <<nonces, last_updates>>
chainVars == <<mined, waiting>>
historyVars == <<duplicate, rewound>>
nonceVars == <<cacheVars, global_lock, chainVars, historyVars>>

ASSUME NonceAssumption ==
  /\ MaxNonce \in Nat
  /\ Unlocked \notin [op : {"get", "reset"}, address : Addresses, nonce : Nat]

Operation == [op : {"get", "reset"}, address : Addresses, nonce : Nat]

TypeOK ==
  /\ DOMAIN nonces \in SUBSET Addresses
  /\ nonces \in [DOMAIN nonces -> Nat]
  /\ DOMAIN last_updates = DOMAIN nonces
  /\ last_updates \in [DOMAIN last_updates -> {"fresh", "expired"}]
  /\ global_lock \in Operation \cup {Unlocked}
  /\ mined \in [Addresses -> Nat]
  /\ waiting \in [Addresses -> SUBSET Nat]
  /\ duplicate \in SUBSET Addresses
  /\ rewound \in SUBSET Addresses

-----------------------------------------------------------------------------
insert(map, k, v) == [x \in DOMAIN map \cup {k} |-> IF x = k THEN v ELSE map[x]]

nonceInit ==
  /\ nonces = [x \in {} |-> 0] /\ last_updates = [x \in {} |-> "fresh"]
  /\ global_lock = Unlocked
  /\ mined = [a \in Addresses |-> 0] /\ waiting = [a \in Addresses |-> {}]
  /\ duplicate = {} /\ rewound = {}

should_refresh(a) == a \in DOMAIN nonces => last_updates[a] = "expired"

(* The provider answers while the operation holds the lock. *)
get_nonce_from_chain(op, a) ==
  /\ global_lock = Unlocked
  /\ op = "get" => should_refresh(a) /\ mined[a] < MaxNonce
  /\ global_lock' = [op |-> op, address |-> a, nonce |-> mined[a]]
  /\ UNCHANGED <<cacheVars, chainVars, historyVars>>

\* A plausible slip: the number before the stored one is returned.
hand_out_previous(a, nonce) ==
  LET given == IF nonce > 0 THEN nonce - 1 ELSE 0
  IN  /\ nonce < MaxNonce
      /\ nonces' = insert(nonces, a, nonce + 1)
      /\ waiting' = [waiting EXCEPT ![a] = @ \cup {given}]
      /\ duplicate' = IF given \in waiting[a] \/ given < mined[a]
                      THEN duplicate \cup {a} ELSE duplicate
      /\ UNCHANGED mined

hand_out(a, nonce) ==
  /\ nonce < MaxNonce
  /\ nonces' = insert(nonces, a, nonce + 1)
  /\ waiting' = [waiting EXCEPT ![a] = @ \cup {nonce}]
  /\ duplicate' = IF nonce \in waiting[a] \/ nonce < mined[a]
                  THEN duplicate \cup {a} ELSE duplicate
  /\ UNCHANGED mined

(* A number is stored without regard to the one before: it may be below    *)
(* what is waiting or mined.                                               *)
set_back(a, nonce) ==
  rewound' = IF nonce < mined[a] \/ \E n \in waiting[a] : nonce <= n
             THEN rewound \cup {a} ELSE rewound

get_next_nonce_cached(a) ==
  /\ global_lock = Unlocked
  /\ ~should_refresh(a)
  /\ hand_out(a, nonces[a])
  /\ UNCHANGED <<last_updates, global_lock, rewound>>

get_next_nonce_fetched(a, nonce) ==
  /\ global_lock = [op |-> "get", address |-> a, nonce |-> nonce]
  /\ global_lock' = Unlocked
  /\ hand_out(a, nonce)
  /\ last_updates' = insert(last_updates, a, "fresh")
  /\ set_back(a, nonce)

reset_nonce(a, nonce) ==
  /\ global_lock = [op |-> "reset", address |-> a, nonce |-> nonce]
  /\ global_lock' = Unlocked
  /\ nonces' = insert(nonces, a, nonce)
  /\ last_updates' = insert(last_updates, a, "fresh")
  /\ set_back(a, nonce)
  /\ UNCHANGED <<chainVars, duplicate>>

\* A plausible slip: a late confirmation overwrites a higher number.
update_nonce_overwriting(a, new_nonce) ==
  /\ global_lock = Unlocked
  /\ a \in DOMAIN nonces
  /\ nonces' = insert(nonces, a, new_nonce)
  /\ last_updates' = insert(last_updates, a, "fresh")
  /\ UNCHANGED <<global_lock, chainVars, historyVars>>

(* A confirmed transaction is reported, maybe late: the number after it is *)
(* a lower bound for a cached one ...                                      *)
update_nonce(a, new_nonce) ==
  /\ global_lock = Unlocked
  /\ a \in DOMAIN nonces
  /\ nonces' = insert(nonces, a, IF nonces[a] > new_nonce THEN nonces[a] ELSE new_nonce)
  /\ last_updates' = insert(last_updates, a, "fresh")
  /\ UNCHANGED <<global_lock, chainVars, historyVars>>

(* ... and is taken as it is when none is cached. *)
update_nonce_unknown(a, new_nonce) ==
  /\ global_lock = Unlocked
  /\ a \notin DOMAIN nonces
  /\ nonces' = insert(nonces, a, new_nonce)
  /\ last_updates' = insert(last_updates, a, "fresh")
  /\ set_back(a, new_nonce)
  /\ UNCHANGED <<global_lock, chainVars, duplicate>>

Kept == {a \in DOMAIN nonces : last_updates[a] # "expired"}

cleanup_cache ==
  /\ global_lock = Unlocked
  /\ Kept # DOMAIN nonces
  /\ nonces' = [a \in Kept |-> nonces[a]]
  /\ last_updates' = [a \in Kept |-> last_updates[a]]
  /\ UNCHANGED <<global_lock, chainVars, historyVars>>

-----------------------------------------------------------------------------
(* cache_duration has passed since the last update. *)
Expire(a) ==
  /\ a \in DOMAIN last_updates
  /\ last_updates[a] = "fresh"
  /\ last_updates' = [last_updates EXCEPT ![a] = "expired"]
  /\ UNCHANGED <<nonces, global_lock, chainVars, historyVars>>

(* The chain mines the waiting transaction whose turn it is. *)
Mine(a) ==
  /\ mined[a] \in waiting[a]
  /\ mined' = [mined EXCEPT ![a] = @ + 1]
  /\ waiting' = [waiting EXCEPT ![a] = @ \ {mined[a]}]
  /\ UNCHANGED <<cacheVars, global_lock, historyVars>>

(* A transaction is lost on its way to the chain. *)
Lose(a, n) ==
  /\ waiting' = [waiting EXCEPT ![a] = @ \ {n}]
  /\ UNCHANGED <<cacheVars, global_lock, mined, historyVars>>

nonceNext ==
  \/ \E a \in Addresses, op \in {"get", "reset"} : get_nonce_from_chain(op, a)
  \/ \E a \in Addresses : get_next_nonce_cached(a)
  \/ \E a \in Addresses, n \in 0 .. MaxNonce : get_next_nonce_fetched(a, n)
  \/ \E a \in Addresses, n \in 0 .. MaxNonce : reset_nonce(a, n)
  \/ \E a \in Addresses : \E n \in 0 .. mined[a] : update_nonce(a, n)
  \/ \E a \in Addresses : \E n \in 0 .. mined[a] : update_nonce_unknown(a, n)
  \/ cleanup_cache
  \/ \E a \in Addresses : Expire(a)
  \/ \E a \in Addresses : Mine(a)
  \/ \E a \in Addresses : \E n \in waiting[a] : Lose(a, n)

NonceSpec == nonceInit /\ [][nonceNext]_nonceVars

-----------------------------------------------------------------------------
(* The cached number is ahead of everything mined or waiting, through late *)
(* confirmations, lost transactions and clean-ups, until a number is taken *)
(* over without comparison: by a refresh, a reset or a confirmation for an *)
(* address that is not cached.                                             *)
AheadUntilSetBack ==
  \A a \in DOMAIN nonces \ rewound :
    mined[a] <= nonces[a] /\ \A n \in waiting[a] : n < nonces[a]

(* A number is handed out twice only for an address that was set back.     *)
DuplicateOnlySetBack == duplicate \subseteq rewound
=============================================================================
