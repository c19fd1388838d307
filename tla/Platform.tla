----------------------------- MODULE Platform -----------------------------
(***************************************************************************)
(* What the bot stands on: wallets, connections, registries, caches,       *)
(* users, services. These parts share no state, so their steps commute and *)
(* no step of one can change what another may do: a behaviour is given to  *)
(* one of them, named by part, and the run is the union of their state     *)
(* spaces rather than the product.                                         *)
(***************************************************************************)
EXTENDS Integers, Sequences, FiniteSets

CONSTANTS GasPrices, GasTtl, GasWindow, Intervals, GasCaps, BoostLimit,
          Retries, LastSecond, Addresses, Threads, Urls, MaxConnections,
          MaxRequests, MaxFailures, ChainNames, Callers, MaxAdapters,
          Chains, BootChains, EvmChains, MaxChecked, Accounts, Names,
          Permissions, MaxGranted, ErrorNames, Statuses, LastMoment,
          MaxAge, CacheKeys, Updaters, Capacities, CacheTtl, MaxTime,
          Workers, CacheNames, CacheSize, Clients, PoolSize, MaxListeners,
          MaxOut, Limit, Window, Expiry, CleanupInterval, LastTime, Jtis,
          LastHalfHour, Lifetimes, Leeway, Users, Admin, MaxWrites,
          Durations, FirstDays, LastDay, MaxGrants, EndpointUrls,
          Priorities, Latencies, MaxCalls, Owners, Nobody, MaxOpened,
          LockTtl, LockTime, Messages, Calls, Consumers, QueueTime, Ttl,
          CallTtl, MaxFaults, RetryCallers, MaxAgain, InitialDelay,
          MaxDelay, Factor, MaxRounds, BreakerCalls, MaxTimers

\* What the settings and the parameters of the model may be, part by part.  The
\* times of the gas cache stay below the width their ages are taken in.
ASSUME GasNumbers ==
  /\ GasPrices \subseteq Nat /\ GasPrices # {} /\ GasTtl \in Nat \ {0} /\ GasWindow \in Nat
  /\ Intervals \subseteq Nat \ {0} /\ GasCaps \subseteq Nat /\ BoostLimit \in Nat /\ Retries \subseteq Nat
  /\ LastSecond \in Nat \ {0} /\ LastSecond + GasTtl <= 2^20
ASSUME RegistryNumbers == MaxAdapters \in Nat /\ EvmChains \subseteq BootChains /\ MaxChecked \in Nat
ASSUME PoolNumbers == IsFiniteSet(Urls) /\ MaxConnections \in Nat /\ MaxRequests \in Nat /\ MaxFailures \in Nat
ASSUME ErrorNumbers ==
  /\ MaxGranted \in Nat /\ LastMoment \in Nat /\ MaxAge \in Nat
  /\ "Pending" \in Statuses /\ "absent" \notin Statuses
ASSUME RetryNumbers ==
  /\ MaxAgain \in Nat /\ InitialDelay \in Nat /\ MaxDelay \in Nat /\ Factor \in Nat
  /\ MaxRounds \in Nat /\ MaxTimers \in Nat
ASSUME EndpointNumbers ==
  /\ IsFiniteSet(EndpointUrls) /\ Priorities \subseteq Int /\ Latencies \subseteq Nat /\ MaxCalls \in Nat
ASSUME CacheNumbers ==
  /\ Capacities \subseteq Nat /\ CacheTtl \in Nat /\ IsFiniteSet(CacheNames) /\ CacheSize \in Nat
  /\ IsFiniteSet(Workers) /\ Workers # {} /\ PoolSize \in Nat

\* A limit lets one request through, and a window is not dropped before it is
\* over.
ASSUME LimiterNumbers ==
  /\ Limit \in Nat \ {0} /\ Window \in Nat /\ Expiry \in Nat /\ Window <= Expiry /\ LastTime \in Nat
  /\ LastHalfHour \in Nat /\ Lifetimes \subseteq Nat /\ Leeway \in Nat
ASSUME UserNumbers == FirstDays \in Nat /\ Durations \subseteq Nat /\ LastDay \in Nat
ASSUME ServiceNumbers ==
  /\ IsFiniteSet(Owners) /\ Nobody \notin Owners /\ MaxOpened \in Nat /\ LockTtl \in Nat /\ LockTime \in Nat

\* Bodies and calls last for less than a day (3600 seconds, and what the caller
\* waits for): in units of 1000 seconds, less than priorities are apart.
ASSUME QueueNumbers ==
  /\ Nobody \notin Messages /\ QueueTime \in Nat /\ MaxFaults \in Nat
  /\ Ttl \in 0 .. 90 /\ CallTtl \in 0 .. 90

VARIABLES part,
          go_now, go_history, go_last, go_congestion, go_interval,
          go_sampling, go_cache, go_call, wm_stored, wm_file, wm_cached,
          wm_pc, wm_reported, wm_raced, cp_open, cp_primary, cp_backup,
          cp_next, cp_info, cp_held, ar_made, ar_public, ar_typed,
          ar_private, ar_wrapped, ar_adding, ar_found, cr_adapters,
          cr_info, cr_configs, cr_watchers, cr_pools, cr_build,
          cr_published, modules, module_keys, authorized_callers,
          owner_id, admins, ec_msg, ec_class, ec_retries, ec_state,
          mc_lru, mc_deadline, mc_order, mc_cap, mc_cfg, mc_update,
          mc_overlap, mc_now, tm_entries, tm_live, tm_dead, tm_job,
          tm_met, rd_pool, rd_out, rd_entry, rd_ttl, rd_pc, rd_unset,
          rd_listeners, rl_now, rl_data, rl_busy, rl_cleaned, rl_allowed,
          us_up, us_mem, us_file, us_step, us_writes, us_over, us_failed,
          su_now, su_sub, su_bought, su_served, su_lost, sm_sub,
          sm_granted, sm_served, sm_stretches, em_list, em_checking,
          es_total, es_count, es_avg, es_successes, es_seen, mq_now,
          mq_sent, mq_level, mq_score, mq_processing, mq_body, mq_step,
          mq_hand, mq_acked, mq_rejected, mq_lost, mq_failures, rd_idle,
          rd_opened, rd_inside, rd_step, rd_conn, rd_call, rd_key,
          rd_until, rd_lease, rd_now, rd_counter, rd_read, rd_added,
          rd_overlap, rd_calls, bl_now, bl_expires, bl_listed, bl_cleaned,
          bl_out, eh_now, eh_errors, eh_update, eh_cleaning, eh_old,
          eh_met, eh_taken, eh_revived, cb_state, cb_timers, cb_calls,
          cb_started, cr_enabled, cr_step, cr_again, cr_delay, cr_total,
          cr_ok, cr_failed, cr_tried, cr_tries, cr_ended, cr_rounds

O == INSTANCE GasOptimizer
W == INSTANCE WalletManager
P == INSTANCE ConnectionPool
A == INSTANCE Registries
M == INSTANCE ModuleManager
E == INSTANCE CommonErrors
C == INSTANCE CommonCache
L == INSTANCE Middleware
U == INSTANCE Users
N == INSTANCE Endpoints
Q == INSTANCE NetworkServices
K == INSTANCE CommonRetry

gasVars == <<go_now, go_history, go_last, go_congestion, go_interval,
             go_sampling, go_cache, go_call>>
walletsVars == <<wm_stored, wm_file, wm_cached, wm_pc, wm_reported,
                 wm_raced>>
poolVars == <<cp_open, cp_primary, cp_backup, cp_next, cp_info, cp_held>>
registryVars == <<ar_made, ar_public, ar_typed, ar_private, ar_wrapped,
                  ar_adding, ar_found>>
chainsVars == <<cr_adapters, cr_info, cr_configs, cr_watchers, cr_pools,
                cr_build, cr_published>>
modulesVars == <<modules, module_keys, authorized_callers, owner_id, admins>>
errorsVars == <<ec_msg, ec_class, ec_retries, ec_state>>
memory_cacheVars == <<mc_lru, mc_deadline, mc_order, mc_cap, mc_cfg,
                      mc_update, mc_overlap, mc_now>>
two_map_cacheVars == <<tm_entries, tm_live, tm_dead, tm_job, tm_met>>
redis_cacheVars == <<rd_pool, rd_out, rd_entry, rd_ttl, rd_pc, rd_unset,
                     rd_listeners>>
rate_limiterVars == <<rl_now, rl_data, rl_busy, rl_cleaned, rl_allowed>>
user_accountsVars == <<us_up, us_mem, us_file, us_step, us_writes,
                       us_over, us_failed>>
subscriptionsVars == <<su_now, su_sub, su_bought, su_served, su_lost,
                       sm_sub, sm_granted, sm_served, sm_stretches>>
endpoint_managerVars == <<em_list, em_checking>>
endpoint_statsVars == <<es_total, es_count, es_avg, es_successes, es_seen>>
message_queueVars == <<mq_now, mq_sent, mq_level, mq_score, mq_processing,
                       mq_body, mq_step, mq_hand, mq_acked, mq_rejected,
                       mq_lost, mq_failures>>
redis_serviceVars == <<rd_idle, rd_opened, rd_inside, rd_step, rd_conn,
                       rd_call, rd_key, rd_until, rd_lease, rd_now,
                       rd_counter, rd_read, rd_added, rd_overlap, rd_calls>>
token_blacklistVars == <<bl_now, bl_expires, bl_listed, bl_cleaned, bl_out>>
error_storeVars == <<eh_now, eh_errors, eh_update, eh_cleaning, eh_old,
                     eh_met, eh_taken, eh_revived>>
circuit_breakerVars == <<cb_state, cb_timers, cb_calls, cb_started>>
common_retryVars == <<cr_enabled, cr_step, cr_again, cr_delay, cr_total,
                      cr_ok, cr_failed, cr_tried, cr_tries, cr_ended,
                      cr_rounds>>

vars == <<part, gasVars, walletsVars, poolVars, registryVars, chainsVars,
          modulesVars, errorsVars, memory_cacheVars, two_map_cacheVars,
          redis_cacheVars, rate_limiterVars, user_accountsVars,
          subscriptionsVars, endpoint_managerVars, endpoint_statsVars,
          message_queueVars, redis_serviceVars, token_blacklistVars,
          error_storeVars, circuit_breakerVars, common_retryVars>>

Init ==
  /\ part \in {"gas", "wallets", "pool", "registry", "chains", "modules",
               "errors", "memory_cache", "two_map_cache", "redis_cache",
               "rate_limiter", "user_accounts", "subscriptions",
               "endpoint_manager", "endpoint_stats", "message_queue",
               "redis_service", "token_blacklist", "error_store",
               "circuit_breaker", "common_retry"}
  /\ O!Init /\ (part # "gas" => \A i \in Intervals : go_interval <= i)
  /\ W!Init
  /\ P!Init
  /\ A!adaptersInit
  /\ A!chainsInit
  /\ M!Init /\ (part # "modules" => owner_id = (CHOOSE a \in Accounts : TRUE) /\ admins = {owner_id})
  /\ E!classesInit
  /\ C!memoryInit /\ (part # "memory_cache" => ~mc_lru /\ \A c \in Capacities : mc_cap <= c)
  /\ C!mapsInit
  /\ C!redisInit
  /\ L!limiterInit
  /\ U!accountsInit
  /\ U!daysInit
  /\ N!managerInit
  /\ N!statsInit
  /\ Q!queueInit /\ (part # "message_queue" => \A m \in Messages : mq_level[m] = 200)
  /\ Q!serviceInit
  /\ L!blacklistInit
  /\ E!storeInit
  /\ K!breakerInit
  /\ K!policyInit /\ (part # "common_retry" => cr_enabled)

Next ==
  /\ UNCHANGED part
  /\ \/ part = "gas" /\ O!Next
          /\ UNCHANGED <<walletsVars, poolVars, registryVars, chainsVars,
                        modulesVars, errorsVars, memory_cacheVars,
                        two_map_cacheVars, redis_cacheVars,
                        rate_limiterVars, user_accountsVars,
                        subscriptionsVars, endpoint_managerVars,
                        endpoint_statsVars, message_queueVars,
                        redis_serviceVars, token_blacklistVars,
                        error_storeVars, circuit_breakerVars,
                        common_retryVars>>
     \/ part = "wallets" /\ W!Next
          /\ UNCHANGED <<gasVars, poolVars, registryVars, chainsVars,
                        modulesVars, errorsVars, memory_cacheVars,
                        two_map_cacheVars, redis_cacheVars,
                        rate_limiterVars, user_accountsVars,
                        subscriptionsVars, endpoint_managerVars,
                        endpoint_statsVars, message_queueVars,
                        redis_serviceVars, token_blacklistVars,
                        error_storeVars, circuit_breakerVars,
                        common_retryVars>>
     \/ part = "pool" /\ P!Next
          /\ UNCHANGED <<gasVars, walletsVars, registryVars, chainsVars,
                        modulesVars, errorsVars, memory_cacheVars,
                        two_map_cacheVars, redis_cacheVars,
                        rate_limiterVars, user_accountsVars,
                        subscriptionsVars, endpoint_managerVars,
                        endpoint_statsVars, message_queueVars,
                        redis_serviceVars, token_blacklistVars,
                        error_storeVars, circuit_breakerVars,
                        common_retryVars>>
     \/ part = "registry" /\ A!adaptersNext
          /\ UNCHANGED <<gasVars, walletsVars, poolVars, chainsVars,
                        modulesVars, errorsVars, memory_cacheVars,
                        two_map_cacheVars, redis_cacheVars,
                        rate_limiterVars, user_accountsVars,
                        subscriptionsVars, endpoint_managerVars,
                        endpoint_statsVars, message_queueVars,
                        redis_serviceVars, token_blacklistVars,
                        error_storeVars, circuit_breakerVars,
                        common_retryVars>>
     \/ part = "chains" /\ A!chainsNext
          /\ UNCHANGED <<gasVars, walletsVars, poolVars, registryVars,
                        modulesVars, errorsVars, memory_cacheVars,
                        two_map_cacheVars, redis_cacheVars,
                        rate_limiterVars, user_accountsVars,
                        subscriptionsVars, endpoint_managerVars,
                        endpoint_statsVars, message_queueVars,
                        redis_serviceVars, token_blacklistVars,
                        error_storeVars, circuit_breakerVars,
                        common_retryVars>>
     \/ part = "modules" /\ M!Next
          /\ UNCHANGED <<gasVars, walletsVars, poolVars, registryVars,
                        chainsVars, errorsVars, memory_cacheVars,
                        two_map_cacheVars, redis_cacheVars,
                        rate_limiterVars, user_accountsVars,
                        subscriptionsVars, endpoint_managerVars,
                        endpoint_statsVars, message_queueVars,
                        redis_serviceVars, token_blacklistVars,
                        error_storeVars, circuit_breakerVars,
                        common_retryVars>>
     \/ part = "errors" /\ E!classesNext
          /\ UNCHANGED <<gasVars, walletsVars, poolVars, registryVars,
                        chainsVars, modulesVars, memory_cacheVars,
                        two_map_cacheVars, redis_cacheVars,
                        rate_limiterVars, user_accountsVars,
                        subscriptionsVars, endpoint_managerVars,
                        endpoint_statsVars, message_queueVars,
                        redis_serviceVars, token_blacklistVars,
                        error_storeVars, circuit_breakerVars,
                        common_retryVars>>
     \/ part = "memory_cache" /\ C!memoryNext
          /\ UNCHANGED <<gasVars, walletsVars, poolVars, registryVars,
                        chainsVars, modulesVars, errorsVars,
                        two_map_cacheVars, redis_cacheVars,
                        rate_limiterVars, user_accountsVars,
                        subscriptionsVars, endpoint_managerVars,
                        endpoint_statsVars, message_queueVars,
                        redis_serviceVars, token_blacklistVars,
                        error_storeVars, circuit_breakerVars,
                        common_retryVars>>
     \/ part = "two_map_cache" /\ C!mapsNext
          /\ UNCHANGED <<gasVars, walletsVars, poolVars, registryVars,
                        chainsVars, modulesVars, errorsVars,
                        memory_cacheVars, redis_cacheVars,
                        rate_limiterVars, user_accountsVars,
                        subscriptionsVars, endpoint_managerVars,
                        endpoint_statsVars, message_queueVars,
                        redis_serviceVars, token_blacklistVars,
                        error_storeVars, circuit_breakerVars,
                        common_retryVars>>
     \/ part = "redis_cache" /\ C!redisNext
          /\ UNCHANGED <<gasVars, walletsVars, poolVars, registryVars,
                        chainsVars, modulesVars, errorsVars,
                        memory_cacheVars, two_map_cacheVars,
                        rate_limiterVars, user_accountsVars,
                        subscriptionsVars, endpoint_managerVars,
                        endpoint_statsVars, message_queueVars,
                        redis_serviceVars, token_blacklistVars,
                        error_storeVars, circuit_breakerVars,
                        common_retryVars>>
     \/ part = "rate_limiter" /\ L!limiterNext
          /\ UNCHANGED <<gasVars, walletsVars, poolVars, registryVars,
                        chainsVars, modulesVars, errorsVars,
                        memory_cacheVars, two_map_cacheVars,
                        redis_cacheVars, user_accountsVars,
                        subscriptionsVars, endpoint_managerVars,
                        endpoint_statsVars, message_queueVars,
                        redis_serviceVars, token_blacklistVars,
                        error_storeVars, circuit_breakerVars,
                        common_retryVars>>
     \/ part = "user_accounts" /\ U!accountsNext
          /\ UNCHANGED <<gasVars, walletsVars, poolVars, registryVars,
                        chainsVars, modulesVars, errorsVars,
                        memory_cacheVars, two_map_cacheVars,
                        redis_cacheVars, rate_limiterVars,
                        subscriptionsVars, endpoint_managerVars,
                        endpoint_statsVars, message_queueVars,
                        redis_serviceVars, token_blacklistVars,
                        error_storeVars, circuit_breakerVars,
                        common_retryVars>>
     \/ part = "subscriptions" /\ U!daysNext
          /\ UNCHANGED <<gasVars, walletsVars, poolVars, registryVars,
                        chainsVars, modulesVars, errorsVars,
                        memory_cacheVars, two_map_cacheVars,
                        redis_cacheVars, rate_limiterVars,
                        user_accountsVars, endpoint_managerVars,
                        endpoint_statsVars, message_queueVars,
                        redis_serviceVars, token_blacklistVars,
                        error_storeVars, circuit_breakerVars,
                        common_retryVars>>
     \/ part = "endpoint_manager" /\ N!managerNext
          /\ UNCHANGED <<gasVars, walletsVars, poolVars, registryVars,
                        chainsVars, modulesVars, errorsVars,
                        memory_cacheVars, two_map_cacheVars,
                        redis_cacheVars, rate_limiterVars,
                        user_accountsVars, subscriptionsVars,
                        endpoint_statsVars, message_queueVars,
                        redis_serviceVars, token_blacklistVars,
                        error_storeVars, circuit_breakerVars,
                        common_retryVars>>
     \/ part = "endpoint_stats" /\ N!statsNext
          /\ UNCHANGED <<gasVars, walletsVars, poolVars, registryVars,
                        chainsVars, modulesVars, errorsVars,
                        memory_cacheVars, two_map_cacheVars,
                        redis_cacheVars, rate_limiterVars,
                        user_accountsVars, subscriptionsVars,
                        endpoint_managerVars, message_queueVars,
                        redis_serviceVars, token_blacklistVars,
                        error_storeVars, circuit_breakerVars,
                        common_retryVars>>
     \/ part = "message_queue" /\ Q!queueNext
          /\ UNCHANGED <<gasVars, walletsVars, poolVars, registryVars,
                        chainsVars, modulesVars, errorsVars,
                        memory_cacheVars, two_map_cacheVars,
                        redis_cacheVars, rate_limiterVars,
                        user_accountsVars, subscriptionsVars,
                        endpoint_managerVars, endpoint_statsVars,
                        redis_serviceVars, token_blacklistVars,
                        error_storeVars, circuit_breakerVars,
                        common_retryVars>>
     \/ part = "redis_service" /\ Q!serviceNext
          /\ UNCHANGED <<gasVars, walletsVars, poolVars, registryVars,
                        chainsVars, modulesVars, errorsVars,
                        memory_cacheVars, two_map_cacheVars,
                        redis_cacheVars, rate_limiterVars,
                        user_accountsVars, subscriptionsVars,
                        endpoint_managerVars, endpoint_statsVars,
                        message_queueVars, token_blacklistVars,
                        error_storeVars, circuit_breakerVars,
                        common_retryVars>>
     \/ part = "token_blacklist" /\ L!blacklistNext
          /\ UNCHANGED <<gasVars, walletsVars, poolVars, registryVars,
                        chainsVars, modulesVars, errorsVars,
                        memory_cacheVars, two_map_cacheVars,
                        redis_cacheVars, rate_limiterVars,
                        user_accountsVars, subscriptionsVars,
                        endpoint_managerVars, endpoint_statsVars,
                        message_queueVars, redis_serviceVars,
                        error_storeVars, circuit_breakerVars,
                        common_retryVars>>
     \/ part = "error_store" /\ E!storeNext
          /\ UNCHANGED <<gasVars, walletsVars, poolVars, registryVars,
                        chainsVars, modulesVars, errorsVars,
                        memory_cacheVars, two_map_cacheVars,
                        redis_cacheVars, rate_limiterVars,
                        user_accountsVars, subscriptionsVars,
                        endpoint_managerVars, endpoint_statsVars,
                        message_queueVars, redis_serviceVars,
                        token_blacklistVars, circuit_breakerVars,
                        common_retryVars>>
     \/ part = "circuit_breaker" /\ K!breakerNext
          /\ UNCHANGED <<gasVars, walletsVars, poolVars, registryVars,
                        chainsVars, modulesVars, errorsVars,
                        memory_cacheVars, two_map_cacheVars,
                        redis_cacheVars, rate_limiterVars,
                        user_accountsVars, subscriptionsVars,
                        endpoint_managerVars, endpoint_statsVars,
                        message_queueVars, redis_serviceVars,
                        token_blacklistVars, error_storeVars,
                        common_retryVars>>
     \/ part = "common_retry" /\ K!policyNext
          /\ UNCHANGED <<gasVars, walletsVars, poolVars, registryVars,
                        chainsVars, modulesVars, errorsVars,
                        memory_cacheVars, two_map_cacheVars,
                        redis_cacheVars, rate_limiterVars,
                        user_accountsVars, subscriptionsVars,
                        endpoint_managerVars, endpoint_statsVars,
                        message_queueVars, redis_serviceVars,
                        token_blacklistVars, error_storeVars,
                        circuit_breakerVars>>

Spec == Init /\ [][Next]_vars

\* Every part keeps its state within its types.
TypeOK ==
  /\ part = "gas" => O!TypeOK
  /\ part = "wallets" => W!TypeOK
  /\ part = "pool" => P!TypeOK
  /\ part = "registry" => A!adaptersTypeOK
  /\ part = "chains" => A!chainsTypeOK
  /\ part = "modules" => M!TypeOK
  /\ part = "errors" => E!classesTypeOK
  /\ part = "memory_cache" => C!memoryTypeOK
  /\ part = "two_map_cache" => C!mapsTypeOK
  /\ part = "redis_cache" => C!redisTypeOK
  /\ part = "rate_limiter" => L!limiterTypeOK
  /\ part = "user_accounts" => U!accountsTypeOK
  /\ part = "subscriptions" => U!daysTypeOK
  /\ part = "endpoint_manager" => N!managerTypeOK
  /\ part = "endpoint_stats" => N!statsTypeOK
  /\ part = "message_queue" => Q!queueTypeOK
  /\ part = "redis_service" => Q!serviceTypeOK
  /\ part = "token_blacklist" => L!blacklistTypeOK
  /\ part = "error_store" => E!storeTypeOK
  /\ part = "circuit_breaker" => K!breakerTypeOK
  /\ part = "common_retry" => K!policyTypeOK

\* The caches stay consistent while threads and clients overlap in them.
CachesConsistent ==
  \* The capacity is the configured one, unless two updates overlapped.
  /\ part = "memory_cache" => C!CapacityFollowsConfig
  \* Threads that found room together take at most a place each above the
  \* limit.
  /\ part = "two_map_cache" => C!SizeBounded
  \* A key has an entry exactly when it has a deadline, but while threads
  \* meet in it.
  /\ part = "two_map_cache" => C!MapsAgree
  \* Only a store under way, or one told that it failed, leaves an entry in
  \* Redis without an expiry.
  /\ part = "redis_cache" => C!KeysExpire
  \* The idle connections never exceed the size of the pool.
  /\ part = "redis_cache" => C!PoolBounded

\* Prices, retries and the breaker keep what they promise over requests that
\* fail, clocks that move and answers that age.
GasAndRetries ==
  \* The history of prices holds the samples of its window.
  /\ part = "gas" => O!HistoryInWindow
  \* An answer's price is no older than the cache allows.
  /\ part = "gas" => O!AnswersFresh
  \* A retry never offers less than before, nor more than the limit.
  /\ part = "gas" => O!RetriesClimbToLimit
  \* The fee offered stays within the limit, and only the limit cuts into
  \* the priority fee.
  /\ part = "gas" => O!FeesConsistent
  \* An account that cannot pay is not asked again.
  /\ part = "errors" => E!NoRetryWithoutFunds
  \* Retries are granted within the limit, and for errors a retry may mend.
  /\ part = "errors" => E!GrantsJustified
  \* A breaker is open exactly while one timer runs.
  /\ part = "circuit_breaker" => K!OpenHasItsTimer
  \* The statistics leave out the first try of every call that failed, and
  \* no other.
  /\ part = "common_retry" => K!StatsMissFirstTries
  \* The delay never passes its maximum, unless it starts there.
  /\ part = "common_retry" => K!DelayBounded

\* Tables that describe the same things stay in step: adapters and their
\* wrappers, chains and their accounts, endpoints and their statistics,
\* modules and their keys.
RegistriesInStep ==
  \* A wrapper is around an adapter that is registered, of the kind of its
  \* name.
  /\ part = "registry" => A!WrapperFollowsAdapter
  \* There is an account of an adapter exactly while it is registered.
  /\ part = "chains" => A!InfoFollowsAdapter
  \* Readers see no registry or a complete one, never one half filled.
  /\ part = "chains" => A!PublishedWhole
  \* The list of keys and the map of modules name the same modules.
  /\ part = "modules" => M!KeysMatchModules
  \* The owner of the modules is among the admins.
  /\ part = "modules" => M!OwnerIsAdmin
  \* The status of an endpoint says what its error rate is.
  /\ part = "pool" => P!StatusMatchesRate
  \* No more guards are out for an endpoint than its semaphore allows.
  /\ part = "pool" => P!GuardsWithinLimit
  \* The endpoint that is given is an enabled one of the highest priority.
  /\ part = "endpoint_manager" => N!BestIsBest
  \* No success is counted that was none, and averages stay between the
  \* extremes.
  /\ part = "endpoint_stats" => N!StatsDriftDown

\* What is kept for users is exact over restarts, crashes, clocks and
\* overlapping calls.
AccountsExact ==
  \* A wallet that can sign is stored, but while it is created or removed.
  /\ part = "wallets" => W!SignersAreStored
  \* A wallet that its creator was told of is in the file.
  /\ part = "wallets" => W!ReportedAreSaved
  \* Once a call and its write are done, the file of the users is the
  \* memory.
  /\ part = "user_accounts" => U!SettledFileIsMemory
  \* Every day bought was served, is to come, or was lost to a deactivation.
  /\ part = "subscriptions" => U!DaysAddUp
  \* Nobody trades on more days than were granted.
  /\ part = "subscriptions" => U!TradesWithinGrants
  \* At most twice the limit is allowed in any stretch as long as a window.
  /\ part = "rate_limiter" => L!BurstBounded
  \* A token whose user logged out is listed until it runs out.
  /\ part = "token_blacklist" => L!OutIsListed
  \* And no longer than to the next cleanup.
  /\ part = "token_blacklist" => L!ListIsShort
  \* No cleanup of the error store takes a young error.
  /\ part = "error_store" => E!YoungErrorsKept

\* What processes share in Redis is never held by two of them, and not lost
\* but where a consumer fails between two commands.
MessagesSafe ==
  \* No two consumers have the same message, and none has one that waits.
  /\ part = "message_queue" => Q!OneHolder
  \* An acknowledged message is in no set again.
  /\ part = "message_queue" => Q!AckedStaysOut
  \* A message that is not settled can be found, unless its body expired or
  \* its consumer failed in between.
  /\ part = "message_queue" => Q!StillFound
  \* Whoever has a reply knows that its message is settled.
  /\ part = "message_queue" => Q!AnsweredIsSettled
  \* No two callers write to the same connection.
  /\ part = "redis_service" => Q!ConnectionsApart
  \* Two callers never have the lock at once while their times run.
  /\ part = "redis_service" => Q!LockExclusive
  \* The counter counts every call, as long as no two overlapped.
  /\ part = "redis_service" => Q!CountsAlone

\* What single steps of pools, caches, queues and stores may never do.
StepsKeepOrder ==
  \* An endpoint that is down comes back only when a request to it fails.
  /\ P!DownEndsWithAnError
  \* An update to a capacity that the entries fit in loses none.
  /\ C!ResizeKeepsAll
  \* A consumer is not given a message while one of a higher priority that
  \* can be read waits.
  /\ Q!PriorityFirst
  \* What a cleanup found to be old is gone when it ends, unless a change of
  \* status added it again.
  /\ E!OldErrorsGone

=============================================================================
