-------------------------------- MODULE Indexer --------------------------------
(***************************************************************************)
(* Which indexer the program uses: detection of the network and discovery  *)
(* at start-up (main.rs, discovery.rs), a change of network from the       *)
(* dashboard (api/mod.rs), the reconnection of the pool's client           *)
(* (pool/manager.rs) and, on Umbrel, the background retry.                 *)
(*                                                                         *)
(* Sessions use the URL in the configuration, the pool uses its client, a  *)
(* restart uses the file: three copies that writers update in steps.  A    *)
(* discovery runs under the configuration's mutex and is a step; a host    *)
(* runs one indexer, on one port and for one chain.                        *)
(***************************************************************************)
EXTENDS Naturals

CONSTANTS
    Nodes,         \* hosts with an indexer
    Electrs,       \* the ones that are the node's own on Umbrel
    Scanned,       \* the ones on a port discovery looks at by itself
    Known,         \* APP_ELECTRS_NODE_IP, the machine itself, its LAN address
    WalletLan,     \* hosts of the wallets' network, out of a container's reach
    ChainOf,       \* [Nodes -> Chains]
    Tls,           \* the ones that speak TLS
    Chains,
    Installs,      \* subset of {"umbrel", "lan"}
    Pins,          \* what BROADCAST_POOL_INDEXER_URL may hold
    Nets,          \* what BROADCAST_POOL_NETWORK may hold
    Files,         \* what the configuration file may hold at first
    Cores,         \* chains Bitcoin Core may run, or None
    Requests,      \* save_config requests that may be in progress at once
    Faults,        \* subset of {"disk", "crash"}
    None,
    MaxAttempts    \* retries in the background (40 in the program)

Scheme == {"tcp", "ssl", "bare"}
Url    == [host : Nodes, scheme : Scheme]
Entry  == [url : Url, manual : BOOLEAN]

ASSUME IndexerAssumption ==
    /\ Electrs \subseteq Nodes /\ Scanned \subseteq Nodes /\ Tls \subseteq Nodes
    /\ Known \subseteq Nodes /\ WalletLan \subseteq Nodes \ Electrs
    /\ ChainOf \in [Nodes -> Chains]
    /\ Installs \subseteq {"umbrel", "lan"}
    /\ Pins \subseteq Url \union {None}
    /\ Nets \subseteq Chains \union {None}
    /\ Files \subseteq [network : Chains, indexer : Entry \union {None}]
    /\ Cores \subseteq Chains \union {None}
    /\ "retry" \notin Requests
    /\ None \notin Chains \union Url \union Entry
    /\ MaxAttempts \in Nat

VARIABLES
    \* The environment.
    install, pin, core,   \* fixed: the platform, the pinned URL, Core's chain
    net_env,              \* fixed: the network the environment asks for
    core_up,              \* Core answers
    up,                   \* hosts that answer
    \* The program.
    running,
    network, indexer,     \* the configuration in memory
    file,                 \* and on disk
    client,               \* the URL of the pool's client
    pc, held,             \* per thread: its step in a reconnection, a URL
    attempt,              \* of the retry; MaxAttempts when it does not run
    \* Bookkeeping.
    unverified,           \* nothing was found: the URL is one not probed
    drift                 \* a save failed or two reconnections overlapped

environment == <<install, pin, core, net_env, core_up, up>>
config  == <<network, indexer>>
threads == <<pc, held>>
ghosts  == <<unverified, drift>>
vars == <<environment, running, config, file, client, threads, attempt, ghosts>>

Threads == Requests \union {"retry"}
PC      == {"idle", "read", "probe", "write", "connect"}

Init ==
    /\ install \in Installs
    /\ pin \in IF install = "umbrel" THEN {None} ELSE Pins
    /\ core \in Cores /\ core_up \in BOOLEAN
    /\ net_env \in Nets
    /\ up \in SUBSET Nodes
    /\ running = FALSE
    /\ file \in Files
    /\ network = file.network /\ indexer = None
    /\ client = None
    /\ pc = [th \in Threads |-> "idle"]
    /\ held = [th \in Threads |-> None]
    /\ attempt = MaxAttempts
    /\ unverified = FALSE /\ drift = FALSE

-----------------------------------------------------------------------------
(* Probing.                                                                *)

\* Core's genesis when Core is configured and answers, else the built-in one.
expected_genesis_hash(net) == IF core # None /\ core_up THEN core ELSE net

\* The port is open and the server answers over this transport.
probe_working_url(url) ==
    url.host \in up /\ (url.scheme = "ssl") = (url.host \in Tls)

genesis_matches_network_at_url(url, net) ==
    ChainOf[url.host] = expected_genesis_hash(net)

\* Faulty variant: any server that answers will do.
ProbeAnyChain(url, net) == probe_working_url(url)

\* IndexerProbeOutcome::Ok
probe_indexer_url(url, net) ==
    probe_working_url(url) /\ genesis_matches_network_at_url(url, net)

\* Umbrel's electrs serves plain TCP only.
candidate_urls_for_host(host) ==
    [host : {host}, scheme : IF install = "umbrel" THEN {"tcp"}
                                                   ELSE {"tcp", "ssl"}]

\* The URLs that work on a host; with one indexer there at most one.
try_host(host, net) ==
    {url \in candidate_urls_for_host(host) : probe_indexer_url(url, net)}

try_hosts_ports(hosts, net) == UNION {try_host(h, net) : h \in hosts}

\* The URL itself, or its host over the other transport; {} for none.
resolve_working_indexer_url(url, net) ==
    IF url.scheme # "bare" /\ probe_indexer_url(url, net) THEN {url}
    ELSE try_host(url.host, net)

\* The saved host and the ones known by name, in the order of choice, which is
\* left open.
indexer_host_candidates(saved) ==
    {n \in Scanned : n \in Known \/ (saved # None /\ n = saved.url.host)}

\* The choice among several hosts of a subnet is left open.
scan_subnet_for_indexer(net) == try_hosts_ports(Scanned, net)

discover_indexer_url(net, saved) ==
    LET known == try_hosts_ports(indexer_host_candidates(saved), net) IN
    IF known # {} THEN known ELSE scan_subnet_for_indexer(net)

discover_umbrel_node_indexer(net) == try_hosts_ports(Electrs, net)

-----------------------------------------------------------------------------
(* Discovery.  Both return the set of [indexer, found] it may end with,    *)
(* found telling whether the URL answered on the right chain.              *)

Outcome(i, f)    == [indexer |-> i, found |-> f]
Outcomes(urls, m) == {Outcome([url |-> u, manual |-> m], TRUE) : u \in urls}

\* Faulty variant: a manual indexer is only looked at when nothing is found.
DiscoveryFirst(net, saved) ==
    LET found == discover_indexer_url(net, saved) IN
    IF pin # None THEN {Outcome(saved, FALSE)}
    ELSE IF found # {} THEN Outcomes(found, FALSE)
    ELSE {Outcome(saved, FALSE)}

\* A pinned URL is taken as it is; a manual one that works stays; then the
\* first indexer found; then the saved URL, if it is on a port of its own.
apply_indexer_discovery(net, saved) ==
    LET working == IF saved = None THEN {}
                   ELSE resolve_working_indexer_url(saved.url, net)
        found   == discover_indexer_url(net, saved)
        manual  == saved # None /\ saved.manual
    IN
    IF pin # None THEN {Outcome(saved, FALSE)}
    ELSE IF manual /\ working # {} THEN Outcomes(working, TRUE)
    ELSE IF found # {} THEN Outcomes(found, FALSE)
    ELSE IF ~manual /\ working # {} THEN Outcomes(working, FALSE)
    ELSE {Outcome(saved, FALSE)}

\* An override, and a host on the wallets' network, are removed.
sanitize_umbrel_indexer_config(saved) ==
    IF saved # None /\ (saved.manual \/ saved.url.host \in WalletLan)
    THEN None ELSE saved

\* discover_umbrel_if_needed with force: a saved URL is not probed again.
discover_umbrel_if_needed(net, saved) ==
    LET found == discover_umbrel_node_indexer(net) IN
    IF sanitize_umbrel_indexer_config(saved) # None THEN {Outcome(saved, FALSE)}
    ELSE IF found # {} THEN Outcomes(found, FALSE)
    ELSE {Outcome(None, FALSE)}

-----------------------------------------------------------------------------
(* Start-up and death.                                                     *)

\* save_config_to_disk, which may fail.
Saved(net, i) ==
    {[network |-> net, indexer |-> i]} \union
    (IF "disk" \in Faults THEN {file} ELSE {})

\* Config::load: the environment overrides the file.
loaded_network == IF net_env = None THEN file.network ELSE net_env

\* Config::load, the network from the genesis, discovery, the client.
Start ==
    /\ ~running /\ running' = TRUE
    /\ LET loaded == IF pin = None THEN file.indexer
                     ELSE [url |-> pin, manual |-> FALSE]
           net    == expected_genesis_hash(loaded_network)
       IN
       /\ network' = net
       /\ \E o \in IF install = "umbrel" THEN discover_umbrel_if_needed(net, loaded)
                                         ELSE apply_indexer_discovery(net, loaded) :
            /\ indexer' = o.indexer
            /\ unverified' = ~o.found
            /\ IF \/ install = "umbrel" /\ o.indexer # loaded
                  \/ install = "umbrel" /\ o.indexer # None
                  \/ install = "lan" /\ (o.found \/ pin # None)
               THEN file' \in Saved(net, o.indexer) ELSE UNCHANGED file
            /\ client' = IF o.indexer = None THEN None ELSE o.indexer.url
            /\ attempt' = IF install = "umbrel" /\ o.indexer = None
                          THEN 0 ELSE MaxAttempts
    /\ drift' = FALSE
    /\ UNCHANGED <<environment, threads>>

Crash ==
    /\ "crash" \in Faults
    /\ running /\ running' = FALSE
    /\ client' = None /\ indexer' = None
    /\ pc' = [th \in Threads |-> "idle"]
    /\ held' = [th \in Threads |-> None]
    /\ attempt' = MaxAttempts
    /\ UNCHANGED <<environment, network, file, ghosts>>

-----------------------------------------------------------------------------
(* Reconnection: reconnect_indexer_from_config, by thread th.              *)

Goto(th, p, url) ==
    /\ pc' = [pc EXCEPT ![th] = p]
    /\ held' = [held EXCEPT ![th] = url]

Reconnecting == {th \in Threads : pc[th] # "idle"}

Read(th) ==
    /\ pc[th] = "read" /\ indexer # None
    /\ Goto(th, "probe", indexer.url)
    /\ UNCHANGED <<environment, running, config, file, client, attempt, ghosts>>

\* The network is read and the URL probed without the mutex; a URL that does
\* not work is kept as it is.
Probe(th) ==
    /\ pc[th] = "probe"
    /\ LET working == resolve_working_indexer_url(held[th], network) IN
       IF working \in {{}, {held[th]}} THEN Goto(th, "connect", held[th])
       ELSE \E url \in working : Goto(th, "write", url)
    /\ UNCHANGED <<environment, running, config, file, client, attempt, ghosts>>

Write(th) ==
    /\ pc[th] = "write"
    /\ indexer' = [url |-> held[th], manual |-> indexer.manual]
    /\ Goto(th, "connect", held[th])
    /\ UNCHANGED <<environment, running, network, file, client, attempt, ghosts>>

\* Faulty variant: the client keeps the URL it had.
ConnectToOld(th) ==
    /\ pc[th] = "connect"
    /\ client' = IF client = None THEN held[th] ELSE client
    /\ Goto(th, "idle", None)
    /\ attempt' = IF th = "retry" THEN MaxAttempts ELSE attempt
    /\ UNCHANGED <<environment, running, config, file, ghosts>>

Connect(th) ==
    /\ pc[th] = "connect"
    /\ client' = held[th]
    /\ Goto(th, "idle", None)
    /\ attempt' = IF th = "retry" THEN MaxAttempts ELSE attempt
    /\ UNCHANGED <<environment, running, config, file, ghosts>>

Reconnect(th) == Read(th) \/ Probe(th) \/ Write(th) \/ Connect(th)

\* save_config with another network: discovery for it, the file, and, if an
\* indexer is there, a reconnection after the mutex is released.  The network
\* is not editable on Umbrel.
SaveNetwork(r, net) ==
    /\ running /\ install = "lan"
    /\ pc[r] = "idle" /\ net # network
    /\ network' = net
    /\ \E o \in apply_indexer_discovery(net, indexer) :
         LET reconnect == o.indexer # None /\ (o.found \/ pin # None) IN
         /\ indexer' = o.indexer
         /\ unverified' = ~o.found
         /\ \/ /\ file' = [network |-> net, indexer |-> o.indexer]
               /\ Goto(r, IF reconnect THEN "read" ELSE "idle", None)
               /\ drift' = IF ~reconnect THEN drift ELSE Reconnecting # {}
            \/ \* The file cannot be written: an error, and nothing else.
               /\ "disk" \in Faults
               /\ drift' = (drift \/ o.indexer # indexer)
               /\ UNCHANGED <<file, threads>>
    /\ UNCHANGED <<environment, running, client, attempt>>

\* Faulty variant: nobody counts the attempts.
RetryForever == running /\ pc["retry"] = "idle"

MayRetry == running /\ attempt < MaxAttempts /\ pc["retry"] = "idle"

\* Faulty variant: the attempt ends before the client is replaced.
RetryWithoutReconnect ==
    /\ MayRetry
    /\ attempt' = attempt + 1
    /\ IF client = None /\ indexer = None
       THEN \E o \in discover_umbrel_if_needed(network, indexer) :
              /\ indexer' = o.indexer
              /\ unverified' = ~o.found
              /\ IF o.indexer = None THEN UNCHANGED file
                 ELSE file' \in Saved(network, o.indexer)
       ELSE UNCHANGED <<indexer, unverified, file>>
    /\ UNCHANGED <<environment, running, network, client, threads, drift>>

\* An attempt of the background retry, which gives up after MaxAttempts.
RetryTick ==
    /\ MayRetry
    /\ attempt' = attempt + 1
    /\ IF client = None /\ indexer = None
       THEN \E o \in discover_umbrel_if_needed(network, indexer) :
              /\ indexer' = o.indexer
              /\ unverified' = ~o.found
              /\ IF o.indexer = None THEN UNCHANGED <<file, threads>>
                 ELSE /\ file' \in Saved(network, o.indexer)
                      /\ Goto("retry", "read", None)
       ELSE UNCHANGED <<indexer, unverified, file, threads>>
    /\ UNCHANGED <<environment, running, network, client, drift>>

-----------------------------------------------------------------------------
(* Hosts and Core come and go.                                             *)

NodeChange ==
    /\ \E n \in Nodes : up' = IF n \in up THEN up \ {n} ELSE up \union {n}
    /\ UNCHANGED <<install, pin, core, net_env, core_up>>
    /\ UNCHANGED <<running, config, file, client, threads, attempt, ghosts>>

CoreChange ==
    /\ core # None
    /\ core_up' = ~core_up
    /\ UNCHANGED <<install, pin, core, net_env, up>>
    /\ UNCHANGED <<running, config, file, client, threads, attempt, ghosts>>

Next ==
    \/ Start \/ Crash
    \/ \E r \in Requests, net \in Chains : SaveNetwork(r, net)
    \/ \E th \in Threads : Reconnect(th)
    \/ RetryTick
    \/ NodeChange \/ CoreChange

Spec == Init /\ [][Next]_vars

\* The retry and a reconnection that has begun go on.
Fairness ==
    /\ WF_vars(Start) /\ WF_vars(RetryTick)
    /\ \A th \in Threads : WF_vars(Reconnect(th))

FairSpec == Spec /\ Fairness

-----------------------------------------------------------------------------
(* Properties.                                                             *)

\* Every variable holds a value of its kind; a thread that reconnects has an
\* indexer to reconnect to, and a URL in hand after it has read it.
TypeOK ==
    /\ up \subseteq Nodes /\ core_up \in BOOLEAN /\ running \in BOOLEAN
    /\ network \in Chains
    /\ indexer \in Entry \union {None}
    /\ file \in [network : Chains, indexer : Entry \union {None}]
    /\ client \in Url \union {None}
    /\ pc \in [Threads -> PC]
    /\ held \in [Threads -> Url \union {None}]
    /\ attempt \in 0 .. MaxAttempts
    /\ unverified \in BOOLEAN /\ drift \in BOOLEAN
    /\ \A th \in Threads :
         /\ pc[th] # "idle" => indexer # None
         /\ pc[th] \in {"probe", "write", "connect"} => held[th] \in Url

\* Wallets are never sent to an indexer of another chain that the program
\* chose itself: the URL sessions use is on the configured network or on
\* Core's, through restarts, changes of network and reconnections, unless it
\* was pinned or nothing better was found.
OnNetwork ==
    indexer # None /\ ~unverified => ChainOf[indexer.url.host] \in {network, core}

\* The pool sends through the indexer the wallets are shown: once nothing is
\* reconnecting the client has the URL of the configuration.  The excuse is a
\* save that failed half way or two that reconnected at the same time.
ClientFollows ==
    (running /\ Reconnecting = {} /\ ~drift /\ indexer # None)
    => client = indexer.url

\* An indexer the user typed in survives a start at which it works ("when
\* true, startup skips auto-discovery").
ManualSurvives ==
    [][ (/\ ~running /\ running' /\ install = "lan" /\ pin = None
         /\ file.indexer # None /\ file.indexer.manual
         /\ resolve_working_indexer_url(file.indexer.url,
                expected_genesis_hash(loaded_network)) # {})
        => /\ indexer'.url.host = file.indexer.url.host
           /\ indexer'.manual ]_vars

ElectrsReady == discover_umbrel_node_indexer(network) # {}

\* Started before its electrs, an Umbrel install gets a client once electrs is
\* up for good, as long as the retry has not given up.
UmbrelConnects ==
    (running /\ install = "umbrel" /\ attempt < MaxAttempts /\ ElectrsReady)
    ~> (client # None \/ ~ElectrsReady)
=============================================================================
