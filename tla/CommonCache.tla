--------------------------- MODULE CommonCache ----------------------------
(***************************************************************************)
(* The caches of the common crate: in memory, in two maps, and in Redis.   *)
(* They share nothing; each has its own variables, initial states and      *)
(* next-state relation here.                                               *)
(***************************************************************************)
EXTENDS Naturals, Sequences, FiniteSets, SequencesExt, FiniteSetsExt, Lists

(***************************************************************************)
(* BasicCache and LRUCache of common/cache.rs, and the JSON and blockchain *)
(* caches that wrap them.  Every operation holds the lock of the entries;  *)
(* update_config of an LRU cache holds first one lock, then another, and   *)
(* none in between.  Values are left out: an entry is its deadline.        *)
(***************************************************************************)
CONSTANTS CacheKeys, Updaters, Capacities, CacheTtl, MaxTime

VARIABLES mc_lru,       \* it is an LRU cache
          mc_deadline,  \* deadlines of the entries, by key
          mc_order,     \* the entries of an LRU cache, least recently used first
          mc_cap,       \* their capacity
          mc_cfg,       \* the one in the configuration: 0 is None, or Some(0) after None
          mc_update,    \* what each updater is about: its step and its capacity
          mc_overlap,   \* two updates have overlapped
          mc_now

memoryVars == <<mc_lru, mc_deadline, mc_order, mc_cap, mc_cfg, mc_update, mc_overlap, mc_now>>
entries == <<mc_deadline, mc_order>>
config == <<mc_cap, mc_cfg, mc_update, mc_overlap>>

None == 0
idle == [step |-> "idle", capacity |-> None]
present == DOMAIN mc_deadline

memoryTypeOK ==
  /\ mc_lru \in BOOLEAN /\ present \subseteq CacheKeys /\ \A k \in present : mc_deadline[k] \in Nat
  /\ mc_order \in Seq(CacheKeys) /\ (mc_lru => ToSet(mc_order) = present)
  /\ mc_cap \in Nat \ {0} /\ mc_cfg \in Nat /\ mc_overlap \in BOOLEAN /\ mc_now \in Nat
  /\ \A u \in Updaters : mc_update[u].step \in {"idle", "rebuild", "write"} /\ mc_update[u].capacity \in Nat

\* LRUCache::new refuses a capacity of zero.
new(capacity) == capacity > 0 /\ mc_cap = capacity /\ mc_cfg = capacity

memoryInit ==
  /\ mc_lru \in BOOLEAN /\ mc_deadline = [k \in {} |-> 0] /\ mc_order = <<>>
  /\ \E c \in Capacities : new(c)
  /\ mc_update = [u \in Updaters |-> idle] /\ mc_overlap = FALSE /\ mc_now = 0

expired(k) == mc_deadline[k] <= mc_now

without(ks) ==
  /\ mc_deadline' = [k \in present \ ks |-> mc_deadline[k]]
  /\ mc_order' = retained(mc_order, CacheKeys \ ks)

\* The k entries used last of an order.
newest(order, k) == IF Len(order) <= k THEN order ELSE SubSeq(order, Len(order) - k + 1, Len(order))

used(k) == Append(retained(mc_order, CacheKeys \ {k}), k)

(***************************************************************************)
(* BasicCache.                                                             *)
(***************************************************************************)
kind(lru) == mc_lru = lru /\ UNCHANGED <<mc_lru, mc_now, config>>

\* An entry is given unless it has expired; it stays where it is.
basic_get == kind(FALSE) /\ UNCHANGED entries

basic_store(k, ttl) ==
  /\ kind(FALSE) /\ UNCHANGED mc_order
  /\ mc_deadline' = [j \in present \cup {k} |-> IF j = k THEN mc_now + ttl ELSE mc_deadline[j]]

basic_remove(k) == kind(FALSE) /\ k \in present /\ without({k})
basic_clear == kind(FALSE) /\ without(CacheKeys)
basic_cleanup == kind(FALSE) /\ without({k \in present : expired(k)})

\* The configuration alone; nothing of a basic cache depends on its capacity.
basic_update_config(c) ==
  ~mc_lru /\ mc_cfg' = c /\ UNCHANGED <<mc_lru, mc_cap, mc_update, mc_overlap, mc_now, entries>>

(***************************************************************************)
(* LRUCache.                                                               *)
(***************************************************************************)
\* An expired entry is taken out, another becomes the one used last.
get_from_cache(k) ==
  /\ kind(TRUE)
  /\ IF k \notin present THEN UNCHANGED entries
     ELSE IF expired(k) THEN without({k})
     ELSE mc_order' = used(k) /\ UNCHANGED mc_deadline

store_in_cache(k, ttl) ==
  /\ kind(TRUE) /\ mc_order' = newest(used(k), mc_cap)
  /\ mc_deadline' = [j \in ToSet(mc_order') |-> IF j = k THEN mc_now + ttl ELSE mc_deadline[j]]

remove(k) == kind(TRUE) /\ k \in present /\ without({k})
clear == kind(TRUE) /\ without(CacheKeys)
cleanup_cache == kind(TRUE) /\ without({k \in present : expired(k)})

(***************************************************************************)
(* LRUCache::update_config.                                                *)
(***************************************************************************)
\* The first step compares with the configuration, under the lock of the
\* configuration; an equal capacity, and None, leave the entries alone.
update_config(u, c) ==
  /\ mc_lru /\ mc_update[u] = idle
  /\ mc_update' = [mc_update EXCEPT ![u] = [step |-> IF c \in {None, mc_cfg} THEN "write" ELSE "rebuild", capacity |-> c]]
  /\ mc_overlap' = (mc_overlap \/ \E w \in Updaters : mc_update[w] # idle)
  /\ UNCHANGED <<mc_lru, mc_now, mc_cap, mc_cfg, entries>>

\* The entries are copied from the most recently used to the least: their
\* order is turned around, and a smaller cache keeps those used first.
rebuild(u) ==
  /\ mc_update[u].step = "rebuild"
  /\ mc_cap' = mc_update[u].capacity
  /\ mc_order' = newest(Reverse(mc_order), mc_cap')
  /\ mc_deadline' = [k \in ToSet(mc_order') |-> mc_deadline[k]]
  /\ mc_update' = [mc_update EXCEPT ![u].step = "write"] /\ UNCHANGED <<mc_lru, mc_now, mc_cfg, mc_overlap>>

write_config(u) ==
  /\ mc_update[u].step = "write" /\ mc_cfg' = mc_update[u].capacity
  /\ mc_update' = [mc_update EXCEPT ![u] = idle] /\ UNCHANGED <<mc_lru, mc_now, mc_cap, mc_overlap, entries>>

tick == mc_now < MaxTime /\ mc_now' = mc_now + 1 /\ UNCHANGED <<mc_lru, config, entries>>

basic ==
  \/ \E k \in CacheKeys : basic_remove(k) \/ \E ttl \in {0, CacheTtl} : basic_store(k, ttl)
  \/ basic_get \/ basic_clear \/ basic_cleanup \/ \E c \in Capacities \cup {None} : basic_update_config(c)

lru ==
  \/ \E k \in CacheKeys : get_from_cache(k) \/ remove(k) \/ \E ttl \in {0, CacheTtl} : store_in_cache(k, ttl)
  \/ clear \/ cleanup_cache
  \/ \E u \in Updaters : (\E c \in Capacities \cup {None} : update_config(u, c)) \/ rebuild(u) \/ write_config(u)

memoryNext == basic \/ lru \/ tick

\* The capacity of the entries is the one of the configuration, unless two
\* updates have overlapped or the configuration names none.
CapacityFollowsConfig ==
  mc_lru /\ ~mc_overlap /\ (\A u \in Updaters : mc_update[u] = idle) => mc_cfg \in {None, mc_cap}

\* An update to a capacity that the entries fit in loses none of them.
ResizeKeepsAll ==
  [][\A u \in Updaters :
       mc_update[u].step = "rebuild" /\ mc_update'[u].step = "write" /\ mc_update[u].capacity >= Len(mc_order)
         => present' = present]_memoryVars

(***************************************************************************)
(* BasicCache and AsyncCache of common/src/cache.rs.  An entry and its     *)
(* deadline are in two maps, each behind a lock of its own that is held    *)
(* for one access.  An entry is the set that wrote it: its thread.         *)
(***************************************************************************)
CONSTANTS Workers, CacheNames, CacheSize   \* config.max_size

VARIABLES tm_entries,  \* keys that have an entry
          tm_live,     \* keys that have a deadline, and it has not passed
          tm_dead,     \* keys that have a deadline, and it has passed
          tm_job,      \* what each thread does next, the keys it is about and
                       \* those that its cleanup has found expired
          tm_met       \* two writers have been at a key, the one between its
                       \* two maps

mapsVars == <<tm_entries, tm_live, tm_dead, tm_job, tm_met>>
maps == <<tm_entries, tm_live, tm_dead>>

no_job == [pc |-> "idle", keys |-> {}, todo |-> {}, swept |-> {}]

mapsTypeOK ==
  /\ tm_entries \subseteq CacheNames /\ tm_live \subseteq CacheNames /\ tm_dead \subseteq CacheNames
  /\ tm_met \in BOOLEAN
  /\ \A w \in Workers :
       /\ tm_job[w].pc \in {"idle", "clean", "sweep", "swept", "set", "deadline", "remove", "forget"}
       /\ tm_job[w].keys \subseteq CacheNames /\ tm_job[w].todo \subseteq CacheNames /\ tm_job[w].swept \subseteq CacheNames

mapsInit ==
  /\ tm_entries = {} /\ tm_live = {} /\ tm_dead = {} /\ tm_met = FALSE
  /\ tm_job = [w \in Workers |-> no_job]

carries(w, pc, todo, swept) ==
  tm_job' = [tm_job EXCEPT ![w] = [pc |-> pc, keys |-> tm_job[w].keys, todo |-> todo, swept |-> swept]]
goes(w, pc) == carries(w, pc, tm_job[w].todo, tm_job[w].swept)
ends(w) == tm_job' = [tm_job EXCEPT ![w] = no_job]

\* The keys of which a thread has changed the one map and not yet the other.
halfway(w) ==
  CASE tm_job[w].pc \in {"deadline", "forget"} -> tm_job[w].keys
    [] tm_job[w].pc = "swept" -> tm_job[w].swept
    [] OTHER -> {}
meets(w, ks) == tm_met' = (tm_met \/ \E x \in Workers \ {w} : ks \cap halfway(x) # {})

(***************************************************************************)
(* The calls.                                                              *)
(***************************************************************************)
starts(w, ks, pc) ==
  /\ tm_job[w] = no_job /\ tm_job' = [tm_job EXCEPT ![w] = [pc |-> pc, keys |-> ks, todo |-> {}, swept |-> {}]]
  /\ UNCHANGED <<maps, tm_met>>

\* The deadline decides: no deadline, or a past one, and the key is removed.
\* With a live one the entry is read, and nothing changes.
get(w, k) == k \notin tm_live /\ starts(w, {k}, "remove")

remove_key(w, k) == starts(w, {k}, "remove")
clear_keys(w) == starts(w, CacheNames, "remove")

is_full == Cardinality(tm_entries) >= CacheSize
set(w, k) == starts(w, {k}, IF is_full THEN "clean" ELSE "set")

\* A cleanup lists the expired keys, then removes them one by one.
cleanup(w) ==
  /\ tm_job[w].pc = "clean" /\ carries(w, "sweep", tm_dead, tm_job[w].swept)
  /\ UNCHANGED <<maps, tm_met>>

cleanup_entry(w, k) ==
  /\ tm_job[w].pc = "sweep" /\ k \in tm_job[w].todo
  /\ tm_entries' = tm_entries \ {k} /\ meets(w, {k}) /\ UNCHANGED <<tm_live, tm_dead>>
  /\ carries(w, "swept", tm_job[w].todo, {k})

cleanup_deadline(w) ==
  LET ks == tm_job[w].swept IN
  /\ tm_job[w].pc = "swept"
  /\ tm_live' = tm_live \ ks /\ tm_dead' = tm_dead \ ks /\ meets(w, ks) /\ UNCHANGED tm_entries
  /\ carries(w, "sweep", tm_job[w].todo \ ks, {})

\* Full after the cleanup too: the caller is told, and nothing is stored.
checked_again(w) ==
  /\ tm_job[w].pc = "sweep" /\ tm_job[w].todo = {}
  /\ IF is_full THEN ends(w) ELSE goes(w, "set")
  /\ UNCHANGED <<maps, tm_met>>

(***************************************************************************)
(* The writes.                                                             *)
(***************************************************************************)
set_entry(w) ==
  /\ tm_job[w].pc = "set" /\ tm_entries' = tm_entries \cup tm_job[w].keys
  /\ goes(w, "deadline") /\ meets(w, tm_job[w].keys) /\ UNCHANGED <<tm_live, tm_dead>>

set_deadline(w) ==
  LET ks == tm_job[w].keys IN
  /\ tm_job[w].pc = "deadline" /\ ends(w) /\ meets(w, ks)
  /\ tm_live' = tm_live \cup ks /\ tm_dead' = tm_dead \ ks /\ UNCHANGED tm_entries

remove_entry(w) ==
  /\ tm_job[w].pc = "remove" /\ tm_entries' = tm_entries \ tm_job[w].keys
  /\ goes(w, "forget") /\ meets(w, tm_job[w].keys) /\ UNCHANGED <<tm_live, tm_dead>>

\* A plausible slip: only a past deadline is removed.
remove_deadline_past(w) ==
  LET ks == tm_job[w].keys IN
  /\ tm_job[w].pc = "forget" /\ ends(w) /\ meets(w, ks)
  /\ tm_dead' = tm_dead \ ks /\ UNCHANGED <<tm_live, tm_entries>>

remove_deadline(w) ==
  LET ks == tm_job[w].keys IN
  /\ tm_job[w].pc = "forget" /\ ends(w) /\ meets(w, ks)
  /\ tm_live' = tm_live \ ks /\ tm_dead' = tm_dead \ ks /\ UNCHANGED tm_entries

expires(k) ==
  /\ k \in tm_live /\ tm_live' = tm_live \ {k} /\ tm_dead' = tm_dead \cup {k}
  /\ UNCHANGED <<tm_entries, tm_job, tm_met>>

mapsNext ==
  \/ \E k \in CacheNames : expires(k)
  \/ \E w \in Workers :
       \/ \E k \in CacheNames : get(w, k) \/ set(w, k) \/ remove_key(w, k) \/ cleanup_entry(w, k)
       \/ clear_keys(w) \/ cleanup(w) \/ cleanup_deadline(w) \/ checked_again(w)
       \/ set_entry(w) \/ set_deadline(w) \/ remove_entry(w) \/ remove_deadline(w)

\* Threads that found room at the same time take no more than a place each
\* above max_size.
SizeBounded == Cardinality(tm_entries) <= CacheSize + Cardinality(Workers) - 1

\* A key has an entry exactly when it has a deadline, but while a thread is
\* between the two maps, and after two have been there at once: then an entry
\* may stay that no cleanup finds.
MapsAgree ==
  ~tm_met => \A k \in CacheNames :
    (\A w \in Workers : k \notin halfway(w)) => (k \in tm_entries <=> k \in tm_live \cup tm_dead)

(***************************************************************************)
(* RedisCache, RedisPubSubCache and RedisPool of common/cache.rs.  A store *)
(* is two commands to the server, a read of an expired entry is two as     *)
(* well, and each of them may fail.  Only one key is looked at; its entry  *)
(* is fresh until the deadline that is written in it.                      *)
(***************************************************************************)
CONSTANTS Clients, PoolSize, MaxListeners, MaxOut

VARIABLES rd_pool,       \* idle connections, when it is the pool that is used
          rd_out,        \* connections that have been taken
          rd_entry,      \* "none", "fresh" or "old"
          rd_ttl,        \* the server will drop the entry
          rd_pc,         \* what each client does next
          rd_unset,      \* the entry lost its expiry to a failed EXPIRE
          rd_listeners   \* tasks that listen for invalidations

redisVars == <<rd_pool, rd_out, rd_entry, rd_ttl, rd_pc, rd_unset, rd_listeners>>
pool == <<rd_pool, rd_out>>
key == <<rd_entry, rd_ttl, rd_unset>>

redisTypeOK ==
  /\ rd_pool \in Nat /\ rd_out \in Nat /\ rd_entry \in {"none", "fresh", "old"}
  /\ rd_ttl \in BOOLEAN /\ rd_unset \in BOOLEAN /\ rd_listeners \in Nat
  /\ rd_pc \in [Clients -> {"idle", "set", "expire", "del"}]

redisInit ==
  /\ rd_pool = 0 /\ rd_out = 0 /\ rd_entry = "none" /\ rd_ttl = FALSE
  /\ rd_pc = [c \in Clients |-> "idle"] /\ rd_unset = FALSE /\ rd_listeners = 0

client_goes(c, pc) == rd_pc' = [rd_pc EXCEPT ![c] = pc]

\* An entry without a time to live, or none at all.
becomes(e) == rd_entry' = e /\ rd_ttl' = FALSE /\ rd_unset' = FALSE

(***************************************************************************)
(* store_in_cache: SET, which takes the old expiry away, then EXPIRE.      *)
(***************************************************************************)
redis_store(c) ==
  rd_pc[c] = "idle" /\ client_goes(c, "set") /\ UNCHANGED <<key, pool, rd_listeners>>

\* A time to live of 0 is the default one to the server, and none to the entry.
store_set(c, e) ==
  /\ rd_pc[c] = "set" /\ becomes(e) /\ client_goes(c, "expire") /\ UNCHANGED <<pool, rd_listeners>>

\* EXPIRE has no effect on a key that is gone.
store_expire(c, ok) ==
  /\ rd_pc[c] = "expire" /\ client_goes(c, "idle")
  /\ rd_ttl' = (rd_ttl \/ (ok /\ rd_entry # "none")) /\ rd_unset' = (rd_unset \/ (~ok /\ rd_entry # "none" /\ ~rd_ttl))
  /\ UNCHANGED <<rd_entry, pool, rd_listeners>>

(***************************************************************************)
(* get_from_cache: GET, and DEL when the entry says that it is expired.    *)
(***************************************************************************)
\* What is fresh when it is read may have expired when that is looked at.
redis_get(c) ==
  /\ rd_pc[c] = "idle" /\ rd_entry # "none" /\ client_goes(c, "del") /\ UNCHANGED <<key, pool, rd_listeners>>

\* The entry that is deleted is the one that is there now.
get_del(c) ==
  /\ rd_pc[c] = "del" /\ client_goes(c, "idle") /\ becomes("none") /\ UNCHANGED <<pool, rd_listeners>>

\* The connection fails: the caller is told, the key stays as it is.
fails(c) == rd_pc[c] \in {"set", "del"} /\ client_goes(c, "idle") /\ UNCHANGED <<key, pool, rd_listeners>>

(***************************************************************************)
(* remove and clear; those of RedisPubSubCache call invalidate, which      *)
(* publishes nothing and starts a task that listens.                       *)
(***************************************************************************)
removed(c) == rd_pc[c] = "idle" /\ becomes("none") /\ UNCHANGED <<rd_pc, pool>>
redis_remove(c) == removed(c) /\ UNCHANGED rd_listeners
invalidate(c) == removed(c) /\ rd_listeners < MaxListeners /\ rd_listeners' = rd_listeners + 1

\* Nobody stops a listener: it ends when its connection fails.
listener_fails == rd_listeners > 0 /\ rd_listeners' = rd_listeners - 1 /\ UNCHANGED <<key, rd_pc, pool>>

(***************************************************************************)
(* RedisPool.                                                              *)
(***************************************************************************)
\* An idle connection is taken before one is opened, which may fail.
get_conn ==
  /\ rd_out < MaxOut /\ rd_out' = rd_out + 1 /\ rd_pool' = IF rd_pool > 0 THEN rd_pool - 1 ELSE 0
  /\ UNCHANGED <<key, rd_pc, rd_listeners>>

\* A connection that is one too many, or that its user drops, is closed.
return_conn ==
  /\ rd_out > 0 /\ rd_out' = rd_out - 1 /\ rd_pool' = IF rd_pool < PoolSize THEN rd_pool + 1 ELSE rd_pool
  /\ UNCHANGED <<key, rd_pc, rd_listeners>>
drop_conn == rd_out > 0 /\ rd_out' = rd_out - 1 /\ UNCHANGED <<rd_pool, key, rd_pc, rd_listeners>>

(***************************************************************************)
(* The server and the clock.                                               *)
(***************************************************************************)
entry_ages == rd_entry = "fresh" /\ rd_entry' = "old" /\ UNCHANGED <<rd_ttl, rd_unset, rd_pc, pool, rd_listeners>>
server_drops == rd_ttl /\ becomes("none") /\ UNCHANGED <<rd_pc, pool, rd_listeners>>

redisNext ==
  \/ \E c \in Clients :
       \/ redis_store(c) \/ (\E e \in {"fresh", "old"} : store_set(c, e)) \/ \E ok \in BOOLEAN : store_expire(c, ok)
       \/ redis_get(c) \/ get_del(c) \/ fails(c) \/ redis_remove(c) \/ invalidate(c)
  \/ listener_fails \/ get_conn \/ return_conn \/ drop_conn \/ entry_ages \/ server_drops

\* An entry that the server would keep for ever is one whose store is still
\* about to give it an expiry, or was told that it could not: stores of the
\* same key that overlap do not leave one behind.
KeysExpire ==
  rd_entry # "none" /\ ~rd_ttl => rd_unset \/ \E c \in Clients : rd_pc[c] = "expire"

\* The idle connections never exceed pool_size, however many are returned.
PoolBounded == rd_pool <= PoolSize
=============================================================================
