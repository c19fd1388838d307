--------------------------- MODULE WalletManager ---------------------------
(***************************************************************************)
(* WalletManager (wallet/src/wallet.rs): wallets are kept in a store that  *)
(* is saved to a file, and decrypted ones in a cache, each behind a lock   *)
(* of its own.  A call that changes both takes the locks one after the     *)
(* other, so other calls come between.  remove_wallet reports success      *)
(* though the file was not written; a restart reads the file again.        *)
(***************************************************************************)
EXTENDS FiniteSets

CONSTANTS Addresses, Threads

VARIABLES wm_stored,   \* storage.wallets
          wm_file,     \* the wallet file
          wm_cached,   \* wallets: ready to sign
          wm_pc,       \* wm_pc[t]: what thread t is doing, and to which address
          wm_reported, \* history: created and not removed since, as told to callers
          wm_raced     \* history: removed while being created

vars == <<wm_stored, wm_file, wm_cached, wm_pc, wm_reported, wm_raced>>

Idle == <<"idle">>
Steps == {Idle} \cup ({"insert", "evict", "load"} \X Addresses)

TypeOK ==
  /\ wm_stored \subseteq Addresses /\ wm_file \subseteq Addresses /\ wm_cached \subseteq Addresses
  /\ wm_pc \in [Threads -> Steps]
  /\ wm_reported \subseteq Addresses /\ wm_raced \subseteq Addresses

new(file) == wm_stored = file /\ wm_file = file /\ wm_cached = {} /\ wm_pc = [t \in Threads |-> Idle]

Init == new({}) /\ wm_reported = {} /\ wm_raced = {}

at(t, step, a) == wm_pc' = [wm_pc EXCEPT ![t] = IF step = "idle" THEN Idle ELSE <<step, a>>]

\* The key goes into the store and the store into the file, under the storage
\* lock.  When the save fails the call returns an error and the wallet stays in
\* the store.
create_with_private_key(t, a) ==
  /\ wm_pc[t] = Idle /\ wm_stored' = wm_stored \cup {a}
  /\ \/ wm_file' = wm_stored' /\ at(t, "insert", a)
     \/ UNCHANGED <<wm_file, wm_pc>>
  /\ UNCHANGED <<wm_cached, wm_reported, wm_raced>>

create_wallet(t, a) == create_with_private_key(t, a)
import_private_key(t, a) == create_with_private_key(t, a)
import_from_mnemonic(t, a) == create_with_private_key(t, a)
create_hd_wallets(t, a) == create_with_private_key(t, a)   \* each of its rounds

\* ... and then under the lock of the cache.
insert(t, a) ==
  /\ wm_pc[t] = <<"insert", a>> /\ at(t, "idle", a)
  /\ wm_cached' = wm_cached \cup {a} /\ wm_reported' = wm_reported \cup {a}
  /\ UNCHANGED <<wm_stored, wm_file, wm_raced>>

\* get_wallet, sign_transaction, send_transaction: a look into the cache, ...
get_wallet(t, a) ==
  /\ wm_pc[t] = Idle /\ a \notin wm_cached /\ at(t, "load", a)
  /\ UNCHANGED <<wm_stored, wm_file, wm_cached, wm_reported, wm_raced>>

\* ... then the store, whose lock is held until the cache is filled.
load(t, a) ==
  /\ wm_pc[t] = <<"load", a>> /\ at(t, "idle", a)
  /\ wm_cached' = IF a \in wm_stored THEN wm_cached \cup {a} ELSE wm_cached
  /\ UNCHANGED <<wm_stored, wm_file, wm_reported, wm_raced>>

\* The store and the file under the storage lock; an error of the save is
\* dropped.  The cache is next, under its own lock.
remove_wallet(t, a) ==
  /\ wm_pc[t] = Idle /\ a \in wm_stored
  /\ wm_stored' = wm_stored \ {a}
  /\ wm_file' \in {wm_stored', wm_file}
  /\ at(t, "evict", a)
  /\ wm_reported' = wm_reported \ {a}
  /\ wm_raced' = IF \E u \in Threads : wm_pc[u] = <<"insert", a>> THEN wm_raced \cup {a} ELSE wm_raced
  /\ UNCHANGED wm_cached

evict(t, a) ==
  /\ wm_pc[t] = <<"evict", a>> /\ at(t, "idle", a) /\ wm_cached' = wm_cached \ {a}
  /\ UNCHANGED <<wm_stored, wm_file, wm_reported, wm_raced>>

save_wallets == wm_file' = wm_stored /\ UNCHANGED <<wm_stored, wm_cached, wm_pc, wm_reported, wm_raced>>

\* SecureWalletStorage::new reads the file; nothing else survives.
restart ==
  /\ wm_stored' = wm_file /\ wm_cached' = {} /\ wm_pc' = [t \in Threads |-> Idle]
  /\ UNCHANGED <<wm_file, wm_reported, wm_raced>>

Next ==
  \/ \E t \in Threads, a \in Addresses :
       \/ create_wallet(t, a) \/ import_private_key(t, a) \/ import_from_mnemonic(t, a) \/ create_hd_wallets(t, a)
       \/ insert(t, a) \/ get_wallet(t, a) \/ load(t, a)
       \/ remove_wallet(t, a) \/ evict(t, a)
  \/ save_wallets \/ restart

Spec == Init /\ [][Next]_vars

(***************************************************************************)
(* Properties.                                                             *)
(***************************************************************************)
\* A wallet that can sign but is no longer stored is just being removed, or
\* was removed in the middle of its creation: get_wallet never revives one.
SignersAreStored ==
  \A a \in wm_cached \ wm_stored : a \in wm_raced \/ \E t \in Threads : wm_pc[t] = <<"evict", a>>

\* A wallet that its creator was told of is in the file, so that a restart
\* finds it, unless it was removed in the middle of its creation.
ReportedAreSaved == wm_reported \subseteq wm_file \cup wm_raced
=============================================================================
