------------------------------ MODULE Chain -------------------------------
(***************************************************************************)
(* Requests and transactions of the bot on a chain. These parts share no   *)
(* state, so their steps commute and no step of one can change what        *)
(* another may do: a behaviour is given to one of them, named by part, and *)
(* the run is the union of their state spaces rather than the product.     *)
(***************************************************************************)
EXTENDS Integers, Sequences, FiniteSets

CONSTANTS Senders, MaxMined, MaxRetries, GasPrice, TxCount, BlockWindow,
          WalletIds, SwapGas, Tasks, Permits, MaxItems, Checkers,
          Interval, LastTick, UrlCount, Askers, Requests, Room, MaxOthers,
          Clients, ChannelRoom, MaxBroadcasts, Loops, Nobody, QueueSize,
          MaxMessages, MaxBreaks, MaxAttempts, ApiRequests, Names, MaxStops

\* What the settings and the parameters of the model may be.  A send is tried
\* once at least (`retry.rs' takes 0 for 3), there is a primary URL, and a swap
\* needs more gas than a plain transfer.
ASSUME ChainNumbers ==
  /\ MaxMined \in Nat /\ MaxRetries \in Nat \ {0} /\ GasPrice \in Nat
  /\ WalletIds \subseteq Nat /\ SwapGas \in Nat /\ SwapGas > 21000
  /\ MaxItems \in Nat /\ UrlCount \in Nat \ {0}
  /\ IsFiniteSet(Checkers) /\ Interval \in Nat \ {0} /\ LastTick \in Nat
  /\ MaxOthers \in Nat /\ Requests \cap {"monitor", "stop", "other"} = {}
  /\ "none" \notin Clients /\ ChannelRoom \in Nat /\ MaxBroadcasts \in Nat
  /\ IsFiniteSet(Loops) /\ Nobody \notin Loops \cup ApiRequests
  /\ {QueueSize, MaxMessages, MaxBreaks, MaxStops, Room} \subseteq Nat

VARIABLES part,
          ts_pc, ts_guards, ts_nonce, ts_writer, ts_adapters, ts_mined,
          ts_pool, rs_pc, rs_mode, rs_tries, rs_gas, rs_nonce, rs_next,
          rs_pool, rs_mined, rs_lost, rs_result, da_self, da_wallet,
          da_tx, da_chain, da_answer, bs_kind, bs_block, bs_relay,
          bs_sent, bs_cached, bs_answer, er_op, er_pc, er_left, er_bad,
          er_guards, er_lock, mw_mode, mw_head, mw_kind, mw_last, mw_upto,
          mw_looked, mw_reported, mk_now, mk_last, mk_pc, mk_fetched,
          rp_list, rp_fresh, rp_stage, rp_probe, ro_step, ro_at,
          ro_failed, bm_stage, bm_tasks, bm_loaded, sv_running, sv_queue,
          sv_doing, sv_step, sv_sent, sv_sniped, sv_ended, sv_stored,
          sv_others, ws_phase, ws_clients, ws_auth, ws_limits, ws_channel,
          ws_send, ws_recv, ws_cast, ws_served, ws_broadcasts, wc_loop,
          wc_connected, wc_attempts, wc_queue, wc_writer, wc_written,
          wc_lost, wc_pushed, wc_breaks, ba_step, ba_kind, ba_name,
          ba_level, ba_lock, ba_memory, ba_file, ba_told, ba_unsure,
          ba_stops

S == INSTANCE TransactionSender
R == INSTANCE EvmSender
D == INSTANCE DexAdapters
Q == INSTANCE EvmRequests
M == INSTANCE MempoolTracker
P == INSTANCE RpcPool
N == INSTANCE BotProcess
W == INSTANCE NetworkSockets
A == INSTANCE BotApi

senderVars == <<ts_pc, ts_guards, ts_nonce, ts_writer, ts_adapters,
                ts_mined, ts_pool>>
retriedVars == <<rs_pc, rs_mode, rs_tries, rs_gas, rs_nonce, rs_next,
                 rs_pool, rs_mined, rs_lost, rs_result>>
dexVars == <<da_self, da_wallet, da_tx, da_chain, da_answer>>
bundleVars == <<bs_kind, bs_block, bs_relay, bs_sent, bs_cached, bs_answer>>
requestsVars == <<er_op, er_pc, er_left, er_bad, er_guards, er_lock>>
mempoolVars == <<mw_mode, mw_head, mw_kind, mw_last, mw_upto, mw_looked,
                 mw_reported>>
mempool_checkVars == <<mk_now, mk_last, mk_pc, mk_fetched>>
rpc_poolVars == <<rp_list, rp_fresh, rp_stage, rp_probe, ro_step, ro_at,
                  ro_failed>>
mainVars == <<bm_stage, bm_tasks, bm_loaded>>
servicesVars == <<sv_running, sv_queue, sv_doing, sv_step, sv_sent,
                  sv_sniped, sv_ended, sv_stored, sv_others>>
websocket_serverVars == <<ws_phase, ws_clients, ws_auth, ws_limits,
                          ws_channel, ws_send, ws_recv, ws_cast,
                          ws_served, ws_broadcasts>>
websocket_clientVars == <<wc_loop, wc_connected, wc_attempts, wc_queue,
                          wc_writer, wc_written, wc_lost, wc_pushed,
                          wc_breaks>>
bot_apiVars == <<ba_step, ba_kind, ba_name, ba_level, ba_lock, ba_memory,
                 ba_file, ba_told, ba_unsure, ba_stops>>

vars == <<part, senderVars, retriedVars, dexVars, bundleVars, requestsVars,
          mempoolVars, mempool_checkVars, rpc_poolVars, mainVars,
          servicesVars, websocket_serverVars, websocket_clientVars,
          bot_apiVars>>

Init ==
  /\ part \in {"sender", "retried", "dex", "bundle", "requests",
               "mempool", "mempool_check", "rpc_pool", "main", "services",
               "websocket_server", "websocket_client", "bot_api"}
  /\ S!Init
  /\ R!retriedInit /\ (part # "retried" => rs_mode = "send")
  /\ D!Init /\ (part # "dex" => da_self = "EVM")
  /\ R!bundleInit /\ (part # "bundle" => bs_kind = "bundle")
  /\ Q!Init
  /\ M!watcherInit /\ (part # "mempool" => mw_mode = "off")
  /\ M!checkInit
  /\ P!Init
  /\ N!mainInit
  /\ N!servicesInit
  /\ W!serverInit
  /\ W!clientInit
  /\ A!Init

Next ==
  /\ UNCHANGED part
  /\ \/ part = "sender" /\ S!Next
          /\ UNCHANGED <<retriedVars, dexVars, bundleVars, requestsVars,
                        mempoolVars, mempool_checkVars, rpc_poolVars,
                        mainVars, servicesVars, websocket_serverVars,
                        websocket_clientVars, bot_apiVars>>
     \/ part = "retried" /\ R!retriedNext
          /\ UNCHANGED <<senderVars, dexVars, bundleVars, requestsVars,
                        mempoolVars, mempool_checkVars, rpc_poolVars,
                        mainVars, servicesVars, websocket_serverVars,
                        websocket_clientVars, bot_apiVars>>
     \/ part = "dex" /\ D!Next
          /\ UNCHANGED <<senderVars, retriedVars, bundleVars, requestsVars,
                        mempoolVars, mempool_checkVars, rpc_poolVars,
                        mainVars, servicesVars, websocket_serverVars,
                        websocket_clientVars, bot_apiVars>>
     \/ part = "bundle" /\ R!bundleNext
          /\ UNCHANGED <<senderVars, retriedVars, dexVars, requestsVars,
                        mempoolVars, mempool_checkVars, rpc_poolVars,
                        mainVars, servicesVars, websocket_serverVars,
                        websocket_clientVars, bot_apiVars>>
     \/ part = "requests" /\ Q!Next
          /\ UNCHANGED <<senderVars, retriedVars, dexVars, bundleVars,
                        mempoolVars, mempool_checkVars, rpc_poolVars,
                        mainVars, servicesVars, websocket_serverVars,
                        websocket_clientVars, bot_apiVars>>
     \/ part = "mempool" /\ M!watcherNext
          /\ UNCHANGED <<senderVars, retriedVars, dexVars, bundleVars,
                        requestsVars, mempool_checkVars, rpc_poolVars,
                        mainVars, servicesVars, websocket_serverVars,
                        websocket_clientVars, bot_apiVars>>
     \/ part = "mempool_check" /\ M!checkNext
          /\ UNCHANGED <<senderVars, retriedVars, dexVars, bundleVars,
                        requestsVars, mempoolVars, rpc_poolVars, mainVars,
                        servicesVars, websocket_serverVars,
                        websocket_clientVars, bot_apiVars>>
     \/ part = "rpc_pool" /\ P!Next
          /\ UNCHANGED <<senderVars, retriedVars, dexVars, bundleVars,
                        requestsVars, mempoolVars, mempool_checkVars,
                        mainVars, servicesVars, websocket_serverVars,
                        websocket_clientVars, bot_apiVars>>
     \/ part = "main" /\ N!mainNext
          /\ UNCHANGED <<senderVars, retriedVars, dexVars, bundleVars,
                        requestsVars, mempoolVars, mempool_checkVars,
                        rpc_poolVars, servicesVars, websocket_serverVars,
                        websocket_clientVars, bot_apiVars>>
     \/ part = "services" /\ N!servicesNext
          /\ UNCHANGED <<senderVars, retriedVars, dexVars, bundleVars,
                        requestsVars, mempoolVars, mempool_checkVars,
                        rpc_poolVars, mainVars, websocket_serverVars,
                        websocket_clientVars, bot_apiVars>>
     \/ part = "websocket_server" /\ W!serverNext
          /\ UNCHANGED <<senderVars, retriedVars, dexVars, bundleVars,
                        requestsVars, mempoolVars, mempool_checkVars,
                        rpc_poolVars, mainVars, servicesVars,
                        websocket_clientVars, bot_apiVars>>
     \/ part = "websocket_client" /\ W!clientNext
          /\ UNCHANGED <<senderVars, retriedVars, dexVars, bundleVars,
                        requestsVars, mempoolVars, mempool_checkVars,
                        rpc_poolVars, mainVars, servicesVars,
                        websocket_serverVars, bot_apiVars>>
     \/ part = "bot_api" /\ A!Next
          /\ UNCHANGED <<senderVars, retriedVars, dexVars, bundleVars,
                        requestsVars, mempoolVars, mempool_checkVars,
                        rpc_poolVars, mainVars, servicesVars,
                        websocket_serverVars, websocket_clientVars>>

\* Nothing that is fair is enabled in the initial state of a part that does not run.
Fairness ==
  /\ S!Fairness
  /\ R!retriedFairness
  /\ Q!Fairness
  /\ N!mainFairness
  /\ N!servicesFairness
  /\ W!serverFairness
  /\ A!Fairness

Spec == Init /\ [][Next]_vars /\ Fairness

\* Every part keeps its state within its types.
TypeOK ==
  /\ part = "sender" => S!TypeOK
  /\ part = "retried" => R!retriedTypeOK
  /\ part = "dex" => D!TypeOK
  /\ part = "bundle" => R!bundleTypeOK
  /\ part = "requests" => Q!TypeOK
  /\ part = "mempool" => M!watcherTypeOK
  /\ part = "mempool_check" => M!checkTypeOK
  /\ part = "rpc_pool" => P!TypeOK
  /\ part = "main" => N!mainTypeOK
  /\ part = "services" => N!servicesTypeOK
  /\ part = "websocket_server" => W!serverTypeOK
  /\ part = "websocket_client" => W!clientTypeOK
  /\ part = "bot_api" => A!TypeOK

\* What a caller is told is what happened on the chain or in the storage, also
\* when answers of a node are lost, saves fail, or the process restarts.
AnswersAreTrue ==
  \* A send that succeeded has its transaction in a block, or a swap in the
  \* pool; one that failed and lost no answer left nothing.
  /\ part = "retried" => R!AnswerIsTrue
  \* A call of an adapter that is reported done has been mined.
  /\ part = "dex" => D!DoneMeansMined
  \* Nothing of a sequence is sent after a transaction that was seen to
  \* fail.
  /\ part = "bundle" => R!StopsAtFailure
  \* A bundle that is reported sent is with the relay and in the cache.
  /\ part = "bundle" => R!BundleAnswer
  \* A request that was answered has no exchange under way, and succeeded
  \* only if none failed.
  /\ part = "requests" => Q!AnsweredWhole
  \* The storage has exactly the requests of the service manager that
  \* failed.
  /\ part = "services" => N!FailuresStored
  \* What a client of the API was told of is in the file.
  /\ part = "bot_api" => A!ToldIsSaved

\* Nothing is done twice, lost or overtaken, but for what an answer that was
\* lost explains.
OnceAndInOrder ==
  \* A wallet has at most one transaction in the pool, the next to be mined.
  /\ part = "sender" => S!OnePending
  \* There is at most one transaction more for each answer that was lost.
  /\ part = "retried" => R!CopiesBounded
  \* The watcher passes over no transaction and looks at none twice.
  /\ part = "mempool" => M!LookedAtOnce
  \* No caller has the node asked twice in an interval.
  /\ part = "mempool_check" => M!FetchesBounded
  \* Requests are given to snipe once, in the order they were sent.
  /\ part = "services" => N!SnipedOnceInOrder
  \* What reaches a socket does so once, in the order it was pushed.
  /\ part = "websocket_client" => W!WrittenInOrder
  \* A connection that ends takes at most one message with it.
  /\ part = "websocket_client" => W!LostOnePerBreak
  \* At most one registration of a name is a success.
  /\ part = "bot_api" => A!OneRegistration

\* What is used is ready for it, and what is left is done with.
ReadyBeforeUse ==
  \* What an adapter submits is signed for the adapter's chain.
  /\ part = "dex" => D!SignedForItsChain
  \* A swap of Base is executed only with a limit named by the caller.
  /\ part = "dex" => D!BaseNeedsALimit
  \* A choice never falls back on the first URL while the pool knows another
  \* to be up.
  /\ part = "rpc_pool" => P!FreshIsFilled
  \* A backup is called only after the connection to the primary failed.
  /\ part = "rpc_pool" => P!RotationIsForConnections
  \* Nobody is served before the users, the adapters and the bot are there.
  /\ part = "main" => N!ServesOnlyReady
  \* An end that was asked for cuts none of the tasks off that main waits
  \* for.
  /\ part = "main" => N!NoneCutOff
  \* A client is left behind in a map only when its reading task was
  \* aborted.
  /\ part = "websocket_server" => W!LeftByAbortOnly
  \* Breaks do not add up to the number of attempts after which a socket is
  \* given up.
  /\ part = "websocket_client" => W!AttemptsNeverAddUp

\* Whoever waits is served: no call, request or writer waits for ever on a
\* guard, a permit or a channel.
WaitersServed ==
  \* A change of the registry gets the lock, unless a caller that holds a
  \* guard asks for a second one.
  /\ S!WriterServed
  \* A send ends.
  /\ R!SendEnds
  \* Requests that hold one permit and wait for another get an answer.
  /\ Q!RequestsEnd
  \* After Ctrl-C the process ends once the tasks it waits for have.
  /\ N!EndsOnceAllEnded
  \* A request to the service manager ends, unless the loop is stopped
  \* first.
  /\ N!SentRequestsEnd
  \* A broadcast ends, however slow the clients are.
  /\ W!CastEnds
  \* And has reached every client in the map whose channel was open.
  /\ W!CastReachesAll
  \* A client that closes its socket leaves the map, or its handler ends by
  \* the other task.
  /\ W!ClosedLeaves
  \* Whoever waits for the users of the API gets an answer, or goes away.
  /\ A!WaitersAnswered

=============================================================================
