---------------------------- MODULE Registries ----------------------------
(***************************************************************************)
(* The two registries of the bot: of adapters by the name of a chain, and  *)
(* of chains by their id.                                                  *)
(***************************************************************************)
EXTENDS Naturals, FiniteSets

(***************************************************************************)
(* The registry of adapters by chain name                                  *)
(* (snipebot/src/chain_adapters/adapter_registry.rs) and the typed wrappers*)
(* it keeps beside them (chain_traits.rs).  There are two registries: the  *)
(* public ADAPTER_REGISTRY, and a private one behind a mutex that          *)
(* register_adapter fills.  Adapters are numbered in the order they are    *)
(* made; 0 is none.                                                        *)
(***************************************************************************)
CONSTANTS ChainNames, Callers, MaxAdapters   \* bound on the adapters made

VARIABLES ar_made,                 \* adapters made so far
          ar_public, ar_typed,     \* ADAPTER_REGISTRY: adapters and wrappers
          ar_private, ar_wrapped,  \* the registry behind the mutex
          ar_adding,               \* add_wallet_to_adapter between its locks
          ar_found                 \* what get_chain_adapter answered last

adaptersVars == <<ar_made, ar_public, ar_typed, ar_private, ar_wrapped, ar_adding, ar_found>>

Adapters == 0 .. MaxAdapters
Kinds == {"ethereum", "bsc", "avalanche", "base", "arbitrum", "optimism", "polygon", "monad", "custom"}
Wrappers == [kind : Kinds, inner : Adapters, set_wallet : {"panics"}, special : {"Err"}]
NoWrapper == [kind |-> "custom", inner |-> 0, set_wallet |-> "panics", special |-> "Err"]

adaptersTypeOK ==
  /\ ar_made \in Adapters
  /\ ar_public \in [ChainNames -> Adapters] /\ ar_private \in [ChainNames -> Adapters]
  /\ ar_typed \in [ChainNames -> Wrappers] /\ ar_wrapped \in [ChainNames -> Wrappers]
  /\ ar_adding \in [Callers -> {<<>>} \cup ChainNames \X Adapters]
  /\ ar_found \in Adapters

adaptersInit ==
  /\ ar_made = 0 /\ ar_public = [n \in ChainNames |-> 0] /\ ar_private = [n \in ChainNames |-> 0]
  /\ ar_typed = [n \in ChainNames |-> NoWrapper] /\ ar_wrapped = [n \in ChainNames |-> NoWrapper]
  /\ ar_adding = [c \in Callers |-> <<>>] /\ ar_found = 0

(***************************************************************************)
(* The wrappers: all of them hand the common calls to the adapter inside,  *)
(* set_wallet is unimplemented, and the calls special to the chain answer  *)
(* an error, because no adapter passes the downcast.                       *)
(***************************************************************************)
wrap(kind, a) == [kind |-> kind, inner |-> a, set_wallet |-> "panics", special |-> "Err"]

PolygonAdapterEnum(a)     == wrap("polygon", a)
BaseAdapterEnum(a)        == wrap("base", a)
MonadAdapterEnum(a)       == wrap("monad", a)
EthereumAdapterEnum(a)    == wrap("ethereum", a)
BSCAdapterEnum(a)         == wrap("bsc", a)
AvalancheAdapterEnum(a)   == wrap("avalanche", a)
OptimismAdapterEnum(a)    == wrap("optimism", a)
ArbitrumAdapterEnum(a)    == wrap("arbitrum", a)
CustomChainAdapterEnum(a) == wrap("custom", a)

wrapper_of(n, a) ==
  CASE n = "ethereum"  -> EthereumAdapterEnum(a)
    [] n = "bsc"       -> BSCAdapterEnum(a)
    [] n = "avalanche" -> AvalancheAdapterEnum(a)
    [] n = "base"      -> BaseAdapterEnum(a)
    [] n = "arbitrum"  -> ArbitrumAdapterEnum(a)
    [] n = "optimism"  -> OptimismAdapterEnum(a)
    [] n = "polygon"   -> PolygonAdapterEnum(a)
    [] n = "monad"     -> MonadAdapterEnum(a)
    [] OTHER           -> CustomChainAdapterEnum(a)

(***************************************************************************)
(* Operations.                                                             *)
(***************************************************************************)
\* AdapterRegistry::register under the write lock of ADAPTER_REGISTRY.
register(n) ==
  /\ ar_made < MaxAdapters /\ ar_made' = ar_made + 1
  /\ ar_public' = [ar_public EXCEPT ![n] = ar_made + 1]
  /\ UNCHANGED <<ar_typed, ar_private, ar_wrapped, ar_adding, ar_found>>

\* The adapter and its wrapper, under one lock of the private registry.
register_adapter(n) ==
  /\ ar_made < MaxAdapters /\ ar_made' = ar_made + 1
  /\ ar_private' = [ar_private EXCEPT ![n] = ar_made + 1]
  /\ ar_wrapped' = [ar_wrapped EXCEPT ![n] = wrapper_of(n, ar_made + 1)]
  /\ UNCHANGED <<ar_public, ar_typed, ar_adding, ar_found>>

get(registry, n) == registry[n]

get_chain_adapter(n) ==
  /\ ar_found' = get(ar_public, n)
  /\ UNCHANGED <<ar_made, ar_public, ar_typed, ar_private, ar_wrapped, ar_adding>>

\* add_wallet_to_adapter reads under one lock and writes under another.  The
\* wallet itself goes nowhere.
add_wallet_read(c, n) ==
  /\ ar_adding[c] = <<>> /\ get(ar_public, n) # 0
  /\ ar_adding' = [ar_adding EXCEPT ![c] = <<n, get(ar_public, n)>>]
  /\ UNCHANGED <<ar_made, ar_public, ar_typed, ar_private, ar_wrapped, ar_found>>

add_wallet_write(c) ==
  /\ ar_adding[c] # <<>> /\ ar_adding' = [ar_adding EXCEPT ![c] = <<>>]
  /\ ar_typed' = [ar_typed EXCEPT ![ar_adding[c][1]] = wrapper_of(ar_adding[c][1], ar_adding[c][2])]
  /\ UNCHANGED <<ar_made, ar_public, ar_private, ar_wrapped, ar_found>>

adaptersNext ==
  \/ \E n \in ChainNames : register(n) \/ register_adapter(n) \/ get_chain_adapter(n)
  \/ \E c \in Callers : add_wallet_write(c) \/ \E n \in ChainNames : add_wallet_read(c, n)

\* The wrapper of a name that register_adapter fills is always around the
\* adapter last registered; the public one may be around an older adapter,
\* never around one that is not registered, and is of the kind of its name.
WrapperFollowsAdapter ==
  \A n \in ChainNames :
    /\ ar_wrapped[n].inner = ar_private[n]
    /\ ar_typed[n].inner <= ar_public[n]
    /\ ar_typed[n].inner # 0 => ar_typed[n] = wrapper_of(n, ar_typed[n].inner)

(***************************************************************************)
(* The registry of chains (snipebot/src/chain_adapters/chain_registry.rs)  *)
(* and its set-up in init_adapters (chain_adapters/mod.rs): adapters, what *)
(* is known of them, configurations and watchers by chain id.  Operations  *)
(* hold the write guard throughout; init_adapters fills a registry of its  *)
(* own, chain by chain, and puts it in place of REGISTRY at the end.       *)
(***************************************************************************)
CONSTANTS Chains,
          BootChains, EvmChains,   \* the configurations init_adapters finds; EVM ones
          MaxChecked               \* bound on the requests counted

VARIABLES cr_adapters,  \* chain -> "none", "real" or "placeholder"
          cr_info,      \* adapter_info by chain
          cr_configs, cr_watchers,
          cr_pools,     \* chains CONNECTION_POOL_MANAGER has a pool for
          cr_build,     \* init_adapters: what is left and what is made
          cr_published  \* chains with an adapter in REGISTRY

chainsVars == <<cr_adapters, cr_info, cr_configs, cr_watchers, cr_pools, cr_build, cr_published>>

Infos == [status : {"none", "Active", "Degraded"}, ok : 0 .. MaxChecked, failed : 0 .. MaxChecked]
NoInfo == [status |-> "none", ok |-> 0, failed |-> 0]

chainsTypeOK ==
  /\ cr_adapters \in [Chains -> {"none", "real", "placeholder"}] /\ cr_info \in [Chains -> Infos]
  /\ cr_configs \subseteq Chains /\ cr_watchers \subseteq Chains /\ cr_pools \subseteq Chains
  /\ cr_build \in [busy : BOOLEAN, left : SUBSET BootChains, made : SUBSET BootChains]
  /\ cr_published \subseteq BootChains

chainsInit ==
  /\ cr_adapters = [c \in Chains |-> "none"] /\ cr_info = [c \in Chains |-> NoInfo]
  /\ cr_configs = {} /\ cr_watchers = {} /\ cr_pools = {}
  /\ cr_build = [busy |-> FALSE, left |-> {}, made |-> {}] /\ cr_published = {}

initVars == <<cr_build, cr_published>>

(***************************************************************************)
(* ChainRegistry.                                                          *)
(***************************************************************************)
\* The effect of a registration; a chain that has an adapter is refused.
inserts(c, kind) ==
  /\ cr_adapters[c] = "none"
  /\ cr_adapters' = [cr_adapters EXCEPT ![c] = kind]
  /\ cr_info' = [cr_info EXCEPT ![c] = [NoInfo EXCEPT !.status = "Active"]]

register_chain_adapter(c) == inserts(c, "real") /\ UNCHANGED <<cr_configs, cr_watchers, cr_pools, initVars>>

unregister_adapter(c) ==
  /\ cr_adapters[c] # "none" /\ cr_adapters' = [cr_adapters EXCEPT ![c] = "none"]
  /\ cr_info' = [cr_info EXCEPT ![c] = NoInfo]
  /\ UNCHANGED <<cr_configs, cr_watchers, cr_pools, initVars>>

register_watcher(c) ==
  /\ c \notin cr_watchers /\ cr_watchers' = cr_watchers \cup {c}
  /\ UNCHANGED <<cr_adapters, cr_info, cr_configs, cr_pools, initVars>>

unregister_watcher(c) ==
  /\ c \in cr_watchers /\ cr_watchers' = cr_watchers \ {c}
  /\ UNCHANGED <<cr_adapters, cr_info, cr_configs, cr_pools, initVars>>

add_chain_config(c) ==
  /\ cr_configs' = cr_configs \cup {c}
  /\ UNCHANGED <<cr_adapters, cr_info, cr_watchers, cr_pools, initVars>>

\* A caller's own account of an adapter, for a chain that has one.
update_adapter_info(c, s) ==
  /\ cr_info[c].status # "none" /\ cr_info' = [cr_info EXCEPT ![c].status = s]
  /\ UNCHANGED <<cr_adapters, cr_configs, cr_watchers, cr_pools, initVars>>

\* The placeholder answers every request with NotImplemented.
answers(c, ok) == cr_adapters[c] # "none" /\ (ok => cr_adapters[c] = "real")

check_adapter_connection(c, ok) ==
  /\ answers(c, ok) /\ cr_info[c].ok + cr_info[c].failed < MaxChecked
  /\ cr_info' = [cr_info EXCEPT ![c] = IF ok THEN [status |-> "Active", ok |-> @.ok + 1, failed |-> @.failed]
                                       ELSE [status |-> "Degraded", ok |-> @.ok, failed |-> @.failed + 1]]
  /\ UNCHANGED <<cr_adapters, cr_configs, cr_watchers, cr_pools, initVars>>

\* The pool is made before the registration is tried, and stays when the
\* chain has an adapter already.
init_adapter_from_config(c) ==
  /\ c \in cr_configs /\ cr_pools' = cr_pools \cup {c}
  /\ \/ inserts(c, "placeholder")
     \/ cr_adapters[c] # "none" /\ UNCHANGED <<cr_adapters, cr_info>>
  /\ UNCHANGED <<cr_configs, cr_watchers, initVars>>

(***************************************************************************)
(* init_adapters; sends and balance look-ups take REGISTRY as it is.        *)
(***************************************************************************)
init_adapters ==
  /\ ~cr_build.busy /\ cr_build' = [busy |-> TRUE, left |-> BootChains, made |-> {}]
  /\ UNCHANGED <<cr_adapters, cr_info, cr_configs, cr_watchers, cr_pools, cr_published>>

\* One configuration: a chain that is not EVM is left out with a warning, an
\* adapter that cannot be made ends the call.
init_step(c, ok) ==
  /\ cr_build.busy /\ c \in cr_build.left
  /\ cr_build' = IF c \in EvmChains /\ ~ok THEN [busy |-> FALSE, left |-> {}, made |-> {}]
                 ELSE [busy |-> TRUE, left |-> cr_build.left \ {c}, made |-> cr_build.made \cup ({c} \cap EvmChains)]
  /\ UNCHANGED <<cr_adapters, cr_info, cr_configs, cr_watchers, cr_pools, cr_published>>

\* A plausible slip: what has been made is put in place at once.
publish_early ==
  /\ cr_build.busy /\ cr_published' = cr_build.made
  /\ cr_build' = [cr_build EXCEPT !.busy = cr_build.left # {}]
  /\ UNCHANGED <<cr_adapters, cr_info, cr_configs, cr_watchers, cr_pools>>

publish ==
  /\ cr_build.busy /\ cr_build.left = {} /\ cr_published' = cr_build.made
  /\ cr_build' = [busy |-> FALSE, left |-> {}, made |-> {}]
  /\ UNCHANGED <<cr_adapters, cr_info, cr_configs, cr_watchers, cr_pools>>

chainsNext ==
  \/ \E c \in Chains :
       \/ register_chain_adapter(c) \/ unregister_adapter(c) \/ register_watcher(c) \/ unregister_watcher(c)
       \/ add_chain_config(c) \/ init_adapter_from_config(c)
       \/ \E s \in {"Active", "Degraded"} : update_adapter_info(c, s)
       \/ \E ok \in BOOLEAN : check_adapter_connection(c, ok)
  \/ \E b \in BootChains, ok \in BOOLEAN : init_step(b, ok)
  \/ init_adapters \/ publish

\* There is an account of an adapter exactly while the adapter is registered,
\* and no request to a placeholder has ever been counted as answered.
InfoFollowsAdapter ==
  \A c \in Chains :
    /\ cr_info[c].status # "none" <=> cr_adapters[c] # "none"
    /\ cr_adapters[c] = "placeholder" => cr_info[c].ok = 0

\* Readers see no registry, or one with an adapter for every EVM chain: never
\* one that init_adapters has half filled, or that it gave up on.
PublishedWhole == cr_published \in {{}, EvmChains}
=============================================================================
