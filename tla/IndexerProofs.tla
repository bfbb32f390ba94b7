----------------------------- MODULE IndexerProofs -----------------------------
(***************************************************************************)
(* Theorems of Indexer: its type invariant, that wallets stay on the       *)
(* network, that the client follows the configuration, and that a manual   *)
(* indexer survives a start.                                               *)
(***************************************************************************)
EXTENDS Indexer, TLAPS

-----------------------------------------------------------------------------
(* Discovery.                                                              *)

\* What has been probed: the transport the host speaks, on the chain expected.
RightScheme(url) == url.scheme # "bare" /\ (url.scheme = "ssl") = (url.host \in Tls)

Good(url, net) ==
    url \in Url /\ RightScheme(url) /\ ChainOf[url.host] = expected_genesis_hash(net)

LEMMA HostTried ==
    ASSUME NEW host \in Nodes, NEW net, NEW url \in try_host(host, net)
    PROVE  Good(url, net) /\ url.host = host
<1>1. url \in candidate_urls_for_host(host) /\ probe_indexer_url(url, net)
  BY DEF try_host
<1>2. url \in Url /\ url.host = host /\ url.scheme # "bare"
  BY <1>1 DEF candidate_urls_for_host, Url, Scheme
<1> QED
  BY <1>1, <1>2 DEF Good, RightScheme, probe_indexer_url, probe_working_url,
                    genesis_matches_network_at_url

LEMMA HostsTried ==
    ASSUME NEW hosts \in SUBSET Nodes, NEW net, NEW url \in try_hosts_ports(hosts, net)
    PROVE  Good(url, net)
  BY HostTried DEF try_hosts_ports

LEMMA Resolved ==
    ASSUME NEW url \in Url, NEW net, NEW w \in resolve_working_indexer_url(url, net)
    PROVE  Good(w, net) /\ w.host = url.host
<1>1. url.host \in Nodes
  BY DEF Url
<1>2. CASE url.scheme # "bare" /\ probe_indexer_url(url, net)
  BY <1>2 DEF resolve_working_indexer_url, Good, RightScheme, probe_indexer_url,
              probe_working_url, genesis_matches_network_at_url
<1>3. CASE ~(url.scheme # "bare" /\ probe_indexer_url(url, net))
  BY <1>1, <1>3, HostTried DEF resolve_working_indexer_url
<1> QED
  BY <1>2, <1>3

\* A URL over the right transport resolves to itself or to nothing: a host has
\* one indexer.
LEMMA ResolvesToItself ==
    ASSUME NEW url \in Url, RightScheme(url), NEW net
    PROVE  resolve_working_indexer_url(url, net) \in {{}, {url}}
<1>1. ASSUME NEW w \in resolve_working_indexer_url(url, net) PROVE w = url
  <2>1. w \in Url /\ RightScheme(w) /\ w.host = url.host
    BY <1>1, Resolved DEF Good
  <2>2. w.scheme = url.scheme
    BY <2>1 DEF RightScheme, Url, Scheme
  <2> QED
    BY <2>1, <2>2 DEF Url
<1> QED
  BY <1>1

\* Discovery returns a probed URL, only when none is pinned, or what was saved.
LEMMA DiscoveryReturns ==
    ASSUME NEW saved \in Entry \union {None}, NEW net,
           NEW o \in apply_indexer_discovery(net, saved)
    PROVE  /\ o.indexer \in Entry \union {None} /\ o.found \in BOOLEAN
           /\ o.found => /\ pin = None
                         /\ o.indexer \in Entry /\ Good(o.indexer.url, net)
           /\ ~o.found => o.indexer = saved
<1> DEFINE working == IF saved = None THEN {}
                      ELSE resolve_working_indexer_url(saved.url, net)
           found   == discover_indexer_url(net, saved)
<1>1. ASSUME NEW u \in working PROVE Good(u, net)
  BY <1>1, Resolved DEF Entry
<1>2. ASSUME NEW u \in found PROVE Good(u, net)
  BY <1>2, HostsTried, IndexerAssumption
  DEF discover_indexer_url, scan_subnet_for_indexer, indexer_host_candidates
<1>3. \/ o = Outcome(saved, FALSE)
      \/ /\ pin = None
         /\ \E u \in working \union found, m \in BOOLEAN :
              o = Outcome([url |-> u, manual |-> m], TRUE)
  BY DEF apply_indexer_discovery, Outcomes
<1>4. CASE o = Outcome(saved, FALSE)
  BY <1>4 DEF Outcome
<1>5. ASSUME pin = None, NEW u \in working \union found, NEW m \in BOOLEAN,
             o = Outcome([url |-> u, manual |-> m], TRUE)
      PROVE  /\ o.found = TRUE /\ pin = None
             /\ o.indexer \in Entry /\ Good(o.indexer.url, net)
  <2>1. Good(u, net)
    BY <1>1, <1>2
  <2> QED
    BY <1>5, <2>1 DEF Outcome, Entry, Good
<1> QED
  BY <1>3, <1>4, <1>5

LEMMA UmbrelReturns ==
    ASSUME NEW saved \in Entry \union {None}, NEW net,
           NEW o \in discover_umbrel_if_needed(net, saved)
    PROVE  /\ o.indexer \in Entry \union {None} /\ o.found \in BOOLEAN
           /\ o.found => o.indexer \in Entry /\ Good(o.indexer.url, net)
           /\ ~o.found => o.indexer \in {saved, None}
<1>1. ASSUME NEW u \in discover_umbrel_node_indexer(net) PROVE Good(u, net)
  BY <1>1, HostsTried, IndexerAssumption DEF discover_umbrel_node_indexer
<1>2. \/ o \in {Outcome(saved, FALSE), Outcome(None, FALSE)}
      \/ \E u \in discover_umbrel_node_indexer(net) :
           o = Outcome([url |-> u, manual |-> FALSE], TRUE)
  BY DEF discover_umbrel_if_needed, Outcomes
<1>3. CASE o \in {Outcome(saved, FALSE), Outcome(None, FALSE)}
  <2>1. o.found = FALSE /\ o.indexer \in {saved, None}
    BY <1>3 DEF Outcome
  <2> QED
    BY <2>1
<1>4. ASSUME NEW u \in discover_umbrel_node_indexer(net),
             o = Outcome([url |-> u, manual |-> FALSE], TRUE)
      PROVE  o.found = TRUE /\ o.indexer \in Entry /\ Good(o.indexer.url, net)
  BY <1>1, <1>4 DEF Outcome, Entry, Good
<1> QED
  BY <1>2, <1>3, <1>4

-----------------------------------------------------------------------------
(* Types.  The environment keeps what Init gave it; on Umbrel nothing is    *)
(* pinned, elsewhere the retry does not run.                                *)

EnvOK ==
    /\ install \in Installs /\ pin \in Pins \union {None} /\ core \in Cores
    /\ net_env \in Nets
    /\ pin # None => install = "lan"
    /\ attempt < MaxAttempts => install = "umbrel"
    /\ ~running => Reconnecting = {}

Typed == TypeOK /\ EnvOK

LEMMA Expected ==
    ASSUME Typed, NEW net \in Chains
    PROVE  expected_genesis_hash(net) \in Chains \intersect {net, core}
  BY IndexerAssumption DEF Typed, EnvOK, expected_genesis_hash

LEMMA TypeInit == Init => Typed
<1> SUFFICES ASSUME Init PROVE Typed
  OBVIOUS
<1>1. file \in [network : Chains, indexer : Entry \union {None}]
  BY IndexerAssumption DEF Init
<1>2. core_up \in BOOLEAN /\ running \in BOOLEAN /\ unverified \in BOOLEAN /\ drift \in BOOLEAN
  BY DEF Init
<1>3. TypeOK
  BY <1>1, <1>2, IndexerAssumption DEF Init, TypeOK, PC
<1>4. attempt = MaxAttempts /\ MaxAttempts \in Nat
  BY IndexerAssumption DEF Init
<1>5. pin \in Pins \union {None} /\ (pin # None => install = "lan")
  <2>1. CASE install = "umbrel"
    BY <2>1 DEF Init
  <2>2. CASE install # "umbrel"
    BY <2>2, IndexerAssumption DEF Init
  <2> QED
    BY <2>1, <2>2
<1>6. EnvOK
  BY <1>4, <1>5 DEF Init, EnvOK, Reconnecting
<1> QED
  BY <1>3, <1>6 DEF Typed

\* What a start does with the indexer it loads and the one it ends up with.
LEMMA Starts ==
    ASSUME Typed, Start
    PROVE  \E loaded \in Entry \union {None} :
             LET net == expected_genesis_hash(loaded_network) IN
             \E o \in IF install = "umbrel" THEN discover_umbrel_if_needed(net, loaded)
                                            ELSE apply_indexer_discovery(net, loaded) :
               /\ net \in Chains
               /\ pin = None => loaded = file.indexer
               /\ network' = net /\ indexer' = o.indexer /\ unverified' = ~o.found
               /\ o.indexer \in Entry \union {None} /\ o.found \in BOOLEAN
               /\ o.found => Good(o.indexer.url, net) /\ o.indexer # None
               /\ o.found => pin = None
               /\ file' \in Saved(net, o.indexer) \union {file}
               /\ client' = IF o.indexer = None THEN None ELSE o.indexer.url
               /\ attempt' = IF install = "umbrel" /\ o.indexer = None
                             THEN 0 ELSE MaxAttempts
<1> DEFINE loaded == IF pin = None THEN file.indexer
                     ELSE [url |-> pin, manual |-> FALSE]
           net    == expected_genesis_hash(loaded_network)
           ends   == IF install = "umbrel" THEN discover_umbrel_if_needed(net, loaded)
                                           ELSE apply_indexer_discovery(net, loaded)
<1>1. loaded \in Entry \union {None}
  BY IndexerAssumption DEF Typed, TypeOK, EnvOK, Entry
<1>2. net \in Chains
  <2>1. loaded_network \in Chains
    BY IndexerAssumption DEF loaded_network, Typed, TypeOK, EnvOK
  <2> QED
    BY <2>1, Expected
<1>3. PICK o \in ends :
        /\ network' = net /\ indexer' = o.indexer /\ unverified' = ~o.found
        /\ file' \in Saved(net, o.indexer) \union {file}
        /\ client' = IF o.indexer = None THEN None ELSE o.indexer.url
        /\ attempt' = IF install = "umbrel" /\ o.indexer = None
                      THEN 0 ELSE MaxAttempts
  BY DEF Start
<1>4. /\ o.indexer \in Entry \union {None} /\ o.found \in BOOLEAN
      /\ o.found => Good(o.indexer.url, net) /\ o.indexer # None
      /\ o.found => pin = None
  <2>1. CASE install = "umbrel"
    BY <1>1, <2>1, UmbrelReturns, IndexerAssumption DEF Typed, EnvOK
  <2>2. CASE install # "umbrel"
    BY <1>1, <2>2, DiscoveryReturns, IndexerAssumption
  <2> QED
    BY <2>1, <2>2
<1> QED
  BY <1>1, <1>2, <1>3, <1>4

\* What a change of network leaves behind, and when it begins to reconnect.
LEMMA Saves ==
    ASSUME Typed, NEW r \in Requests, NEW net \in Chains, SaveNetwork(r, net)
    PROVE  \E o \in apply_indexer_discovery(net, indexer) :
             /\ network' = net /\ indexer' = o.indexer /\ unverified' = ~o.found
             /\ o.indexer \in Entry \union {None} /\ o.found \in BOOLEAN
             /\ o.found => /\ Good(o.indexer.url, net) /\ o.indexer # None
                           /\ pin = None
             /\ ~o.found => o.indexer = indexer
             /\ \/ /\ file' = [network |-> net, indexer |-> o.indexer]
                   /\ o.indexer # None /\ (o.found \/ pin # None)
                   /\ Goto(r, "read", None)
                   /\ drift' = (Reconnecting # {})
                \/ /\ file' = [network |-> net, indexer |-> o.indexer]
                   /\ o.indexer = None \/ ~o.found
                   /\ Goto(r, "idle", None)
                   /\ drift' = drift
                \/ /\ drift' = (drift \/ o.indexer # indexer)
                   /\ UNCHANGED <<file, threads>>
<1>1. indexer \in Entry \union {None}
  BY DEF Typed, TypeOK
<1>2. PICK o \in apply_indexer_discovery(net, indexer) :
        LET reconnect == o.indexer # None /\ (o.found \/ pin # None) IN
        /\ indexer' = o.indexer
        /\ unverified' = ~o.found
        /\ \/ /\ file' = [network |-> net, indexer |-> o.indexer]
              /\ Goto(r, IF reconnect THEN "read" ELSE "idle", None)
              /\ drift' = IF ~reconnect THEN drift ELSE Reconnecting # {}
           \/ /\ "disk" \in Faults
              /\ drift' = (drift \/ o.indexer # indexer)
              /\ UNCHANGED <<file, threads>>
  BY DEF SaveNetwork
<1>3. /\ o.indexer \in Entry \union {None} /\ o.found \in BOOLEAN
      /\ o.found => /\ Good(o.indexer.url, net) /\ o.indexer # None
                    /\ pin = None
      /\ ~o.found => o.indexer = indexer
  BY <1>1, DiscoveryReturns, IndexerAssumption
<1>4. network' = net
  BY DEF SaveNetwork
<1>5. CASE o.indexer # None /\ (o.found \/ pin # None)
  BY <1>2, <1>3, <1>4, <1>5
<1>6. CASE ~(o.indexer # None /\ (o.found \/ pin # None))
  BY <1>2, <1>3, <1>4, <1>6
<1> QED
  BY <1>5, <1>6

\* An attempt of the retry that looks finds electrs and reconnects, or leaves
\* everything as it was.
LEMMA Retries ==
    ASSUME Typed, RetryTick
    PROVE  \/ UNCHANGED <<indexer, unverified, file, threads>>
           \/ /\ indexer = None /\ unverified' = TRUE
              /\ UNCHANGED <<indexer, file, threads>>
           \/ /\ client = None /\ indexer = None
              /\ indexer' \in Entry /\ Good(indexer'.url, network)
              /\ unverified' = FALSE
              /\ file' \in Saved(network, indexer')
              /\ Goto("retry", "read", None)
<1>1. CASE ~(client = None /\ indexer = None)
  BY <1>1 DEF RetryTick
<1>2. CASE client = None /\ indexer = None
  <2>1. PICK o \in discover_umbrel_if_needed(network, indexer) :
          /\ indexer' = o.indexer
          /\ unverified' = ~o.found
          /\ IF o.indexer = None THEN UNCHANGED <<file, threads>>
             ELSE /\ file' \in Saved(network, o.indexer)
                  /\ Goto("retry", "read", None)
    BY <1>2 DEF RetryTick
  <2>2. /\ o.indexer \in Entry \union {None} /\ o.found \in BOOLEAN
        /\ o.found => o.indexer \in Entry /\ Good(o.indexer.url, network)
        /\ ~o.found => o.indexer = None
    BY <1>2, UmbrelReturns
  <2>3. CASE o.found
    <3>1. o.indexer # None
      BY <2>2, <2>3, IndexerAssumption
    <3> QED
      BY <1>2, <2>1, <2>2, <2>3, <3>1
  <2>4. CASE ~o.found
    BY <1>2, <2>1, <2>2, <2>4
  <2> QED
    BY <2>3, <2>4
<1> QED
  BY <1>1, <1>2

LEMMA SavedTyped ==
    ASSUME Typed, NEW net \in Chains, NEW i \in Entry \union {None},
           NEW f \in Saved(net, i) \union {file}
    PROVE  f \in [network : Chains, indexer : Entry \union {None}]
  BY DEF Typed, TypeOK, Saved

LEMMA TypeStart == Typed /\ Start => Typed'
<1> SUFFICES ASSUME Typed, Start PROVE Typed'
  OBVIOUS
<1>1. PICK net \in Chains, o \in [indexer : Entry \union {None}, found : BOOLEAN] :
        /\ network' = net /\ indexer' = o.indexer /\ unverified' = ~o.found
        /\ file' \in Saved(net, o.indexer) \union {file}
        /\ client' = IF o.indexer = None THEN None ELSE o.indexer.url
        /\ attempt' = IF install = "umbrel" /\ o.indexer = None
                      THEN 0 ELSE MaxAttempts
  <2>1. PICK o : \E net \in Chains :
          /\ network' = net /\ indexer' = o.indexer /\ unverified' = ~o.found
          /\ o.indexer \in Entry \union {None} /\ o.found \in BOOLEAN
          /\ file' \in Saved(net, o.indexer) \union {file}
          /\ client' = IF o.indexer = None THEN None ELSE o.indexer.url
          /\ attempt' = IF install = "umbrel" /\ o.indexer = None
                        THEN 0 ELSE MaxAttempts
    BY Starts
  <2> DEFINE p == [indexer |-> o.indexer, found |-> o.found]
  <2>2. p \in [indexer : Entry \union {None}, found : BOOLEAN]
    BY <2>1
  <2> QED
    BY <2>1, <2>2
<1>2. file' \in [network : Chains, indexer : Entry \union {None}]
  BY <1>1, SavedTyped
<1>3. Reconnecting = {}
  BY DEF Typed, EnvOK, Start
<1>4. unverified' \in BOOLEAN /\ drift' \in BOOLEAN /\ running' \in BOOLEAN
  BY <1>1 DEF Start
<1>5. client' \in Url \union {None} /\ attempt' \in 0 .. MaxAttempts
  BY <1>1, IndexerAssumption DEF Entry
<1>6. TypeOK'
  BY <1>1, <1>2, <1>3, <1>4, <1>5 DEF Typed, TypeOK, Start, Reconnecting, environment, threads
<1>7. EnvOK'
  BY <1>1, <1>3, IndexerAssumption DEF Typed, EnvOK, Start, Reconnecting, environment, threads
<1> QED
  BY <1>6, <1>7 DEF Typed

LEMMA TypeReconnect ==
    ASSUME Typed, NEW th \in Threads, Reconnect(th)
    PROVE  Typed'
<1> USE DEF environment, config, threads, ghosts
<1>0. th \in Reconnecting /\ running /\ running'
  BY DEF Reconnect, Read, Probe, Write, Connect, Reconnecting, Typed, EnvOK
<1>1. CASE Read(th)
  <2>1. indexer.url \in Url
    BY <1>1, IndexerAssumption DEF Read, Typed, TypeOK, Entry
  <2>2. TypeOK'
    BY <1>1, <2>1 DEF Read, Goto, Typed, TypeOK, PC
  <2> QED
    BY <1>0, <1>1, <2>2 DEF Read, Typed, EnvOK
<1>2. CASE Probe(th)
  <2>1. held[th] \in Url
    BY <1>2 DEF Probe, Typed, TypeOK
  <2>2. PICK p \in {"write", "connect"}, url \in Url : Goto(th, p, url)
    <3>1. CASE resolve_working_indexer_url(held[th], network) \in {{}, {held[th]}}
      BY <1>2, <2>1, <3>1 DEF Probe
    <3>2. CASE resolve_working_indexer_url(held[th], network) \notin {{}, {held[th]}}
      BY <1>2, <2>1, <3>2, Resolved DEF Probe, Good
    <3> QED
      BY <3>1, <3>2
  <2>3. indexer # None
    BY <1>2 DEF Probe, Typed, TypeOK
  <2>4. TypeOK'
    BY <1>2, <2>2, <2>3 DEF Probe, Goto, Typed, TypeOK, PC
  <2> QED
    BY <1>0, <1>2, <2>4 DEF Probe, Typed, EnvOK
<1>3. CASE Write(th)
  <2>1. indexer \in Entry /\ held[th] \in Url
    BY <1>3 DEF Write, Typed, TypeOK
  <2>2. indexer' \in Entry /\ indexer' # None
    <3>1. indexer.manual \in BOOLEAN
      BY <2>1 DEF Entry
    <3> QED
      BY <1>3, <2>1, <3>1, IndexerAssumption DEF Write, Entry
  <2>3. TypeOK'
    BY <1>3, <2>1, <2>2 DEF Write, Goto, Typed, TypeOK, PC
  <2> QED
    BY <1>0, <1>3, <2>3 DEF Write, Typed, EnvOK
<1>4. CASE Connect(th)
  <2>1. held[th] \in Url /\ attempt' \in 0 .. MaxAttempts /\ indexer # None
    BY <1>4, IndexerAssumption DEF Connect, Typed, TypeOK
  <2>2. TypeOK'
    BY <1>4, <2>1 DEF Connect, Goto, Typed, TypeOK, PC
  <2>3. attempt' < MaxAttempts => install = "umbrel"
    BY <1>4, IndexerAssumption DEF Connect, Typed, EnvOK
  <2> QED
    BY <1>0, <1>4, <2>2, <2>3 DEF Connect, Typed, EnvOK
<1> QED
  BY <1>1, <1>2, <1>3, <1>4 DEF Reconnect

LEMMA TypeSave ==
    ASSUME Typed, NEW r \in Requests, NEW net \in Chains, SaveNetwork(r, net)
    PROVE  Typed'
<1> USE DEF environment, threads
<1>1. /\ network' = net /\ indexer' \in Entry \union {None}
      /\ unverified' \in BOOLEAN /\ drift' \in BOOLEAN
      /\ indexer # None => indexer' # None
      /\ file' \in [network : Chains, indexer : Entry \union {None}]
      /\ \/ UNCHANGED threads
         \/ Goto(r, "idle", None)
         \/ Goto(r, "read", None) /\ indexer' # None
  <2>1. PICK o \in apply_indexer_discovery(net, indexer) :
          /\ network' = net /\ indexer' = o.indexer /\ unverified' = ~o.found
          /\ o.indexer \in Entry \union {None} /\ o.found \in BOOLEAN
          /\ o.found => o.indexer # None
          /\ ~o.found => o.indexer = indexer
          /\ \/ /\ file' = [network |-> net, indexer |-> o.indexer]
                /\ o.indexer # None /\ Goto(r, "read", None)
                /\ drift' = (Reconnecting # {})
             \/ /\ file' = [network |-> net, indexer |-> o.indexer]
                /\ Goto(r, "idle", None)
                /\ drift' = drift
             \/ /\ drift' = (drift \/ o.indexer # indexer)
                /\ UNCHANGED <<file, threads>>
    BY Saves
  <2>2. unverified' \in BOOLEAN
    BY <2>1
  <2>3. drift' \in BOOLEAN
    BY <2>1 DEF Typed, TypeOK
  <2>4. file' \in [network : Chains, indexer : Entry \union {None}]
    BY <2>1 DEF Typed, TypeOK
  <2> QED
    BY <2>1, <2>2, <2>3, <2>4
<1>2. r \in Threads
  BY DEF Threads
<1>3. /\ pc' \in [Threads -> PC] /\ held' \in [Threads -> Url \union {None}]
      /\ \A th \in Threads :
           /\ pc'[th] # "idle" => indexer' # None
           /\ pc'[th] \in {"probe", "write", "connect"} => held'[th] \in Url
  BY <1>1, <1>2 DEF Typed, TypeOK, Goto, PC
<1>4. TypeOK'
  BY <1>1, <1>3 DEF Typed, TypeOK, SaveNetwork
<1> QED
  BY <1>4 DEF Typed, EnvOK, SaveNetwork

LEMMA TypeRetry == Typed /\ RetryTick => Typed'
<1> SUFFICES ASSUME Typed, RetryTick PROVE Typed'
  OBVIOUS
<1> USE DEF environment, threads
<1>1. /\ indexer' \in Entry \union {None} /\ unverified' \in BOOLEAN
      /\ file' \in [network : Chains, indexer : Entry \union {None}]
      /\ \/ UNCHANGED <<indexer, threads>>
         \/ Goto("retry", "read", None) /\ indexer' # None
  <2>1. unverified' \in BOOLEAN
    BY Retries DEF Typed, TypeOK
  <2>2. CASE UNCHANGED <<indexer, file, threads>>
    BY <2>1, <2>2 DEF Typed, TypeOK
  <2>3. CASE /\ indexer' \in Entry /\ file' \in Saved(network, indexer')
             /\ Goto("retry", "read", None)
    <3>1. file' \in [network : Chains, indexer : Entry \union {None}]
      BY <2>3, SavedTyped DEF Typed, TypeOK
    <3> QED
      BY <2>1, <2>3, <3>1, IndexerAssumption
  <2> QED
    BY <2>2, <2>3, Retries
<1>2. /\ pc' \in [Threads -> PC] /\ held' \in [Threads -> Url \union {None}]
      /\ \A th \in Threads :
           /\ pc'[th] # "idle" => indexer' # None
           /\ pc'[th] \in {"probe", "write", "connect"} => held'[th] \in Url
  BY <1>1, IndexerAssumption DEF Typed, TypeOK, Goto, PC, Threads
<1>3. attempt' \in 0 .. MaxAttempts /\ install = "umbrel"
  BY IndexerAssumption DEF Typed, TypeOK, EnvOK, RetryTick, MayRetry
<1>4. TypeOK'
  BY <1>1, <1>2, <1>3 DEF Typed, TypeOK, RetryTick
<1>5. EnvOK'
  BY <1>3 DEF Typed, EnvOK, RetryTick, MayRetry
<1> QED
  BY <1>4, <1>5 DEF Typed

LEMMA TypeStep == Typed /\ [Next]_vars => Typed'
<1> SUFFICES ASSUME Typed, [Next]_vars PROVE Typed'
  OBVIOUS
<1> USE DEF environment, config, threads, ghosts
<1>1. CASE Crash
  <2>0. running' \in BOOLEAN
    BY <1>1 DEF Crash
  <2>1. TypeOK'
    BY <1>1, <2>0, IndexerAssumption DEF Typed, TypeOK, Crash, PC
  <2>2. EnvOK'
    BY <1>1, IndexerAssumption DEF Typed, EnvOK, Crash, Reconnecting
  <2> QED
    BY <2>1, <2>2 DEF Typed
<1>2. CASE NodeChange
  <2>1. up' \subseteq Nodes
    BY <1>2 DEF Typed, TypeOK, NodeChange
  <2> QED
    BY <1>2, <2>1 DEF Typed, TypeOK, EnvOK, NodeChange, Reconnecting
<1>3. CASE CoreChange
  <2>1. core_up' \in BOOLEAN
    BY <1>3 DEF CoreChange
  <2> QED
    BY <1>3, <2>1 DEF Typed, TypeOK, EnvOK, CoreChange, Reconnecting
<1>4. CASE UNCHANGED vars
  BY <1>4 DEF Typed, TypeOK, EnvOK, vars, Reconnecting
<1> QED
  BY <1>1, <1>2, <1>3, <1>4, TypeStart, TypeReconnect, TypeSave, TypeRetry DEF Next

\* Every reachable state of every instance of Indexer is well typed: a thread
\* that reconnects has an indexer to reconnect to, and a URL once it has read
\* it, whatever discoveries, crashes and failed saves come between.
THEOREM TypeCorrect == Spec => []TypeOK
<1>1. Typed /\ [Next]_vars => Typed'
  BY TypeStep
<1>2. Typed => TypeOK
  BY DEF Typed
<1> QED
  BY <1>1, <1>2, TypeInit, PTL DEF Spec

-----------------------------------------------------------------------------
(* Wallets stay on the network.  A pinned URL is never counted as verified; *)
(* without a pin, a reconnection only ever starts from a URL discovery has  *)
(* probed, which resolves to itself or to nothing: it never writes.         *)

Probed(url) == url \in Url /\ RightScheme(url)

NetworkInv ==
    /\ Typed
    /\ pin # None /\ indexer # None => unverified
    /\ pin = None =>
         \A th \in Threads :
           /\ pc[th] # "write"
           /\ pc[th] = "read" => Probed(indexer.url)
           /\ pc[th] \in {"probe", "connect"} => Probed(held[th])
    /\ OnNetwork

LEMMA NetworkInit == Init => NetworkInv
<1> SUFFICES ASSUME Init PROVE NetworkInv
  OBVIOUS
<1>1. Typed
  BY TypeInit
<1>2. indexer = None /\ \A th \in Threads : pc[th] = "idle"
  BY DEF Init
<1> QED
  BY <1>1, <1>2 DEF NetworkInv, OnNetwork

LEMMA NetworkStart == NetworkInv /\ Start => NetworkInv'
<1> SUFFICES ASSUME NetworkInv, Start PROVE NetworkInv'
  OBVIOUS
<1> USE DEF environment, threads
<1>0. Typed
  BY DEF NetworkInv
<1>1. Typed'
  BY <1>0, TypeStart
<1>2. \A th \in Threads : pc'[th] = "idle"
  BY <1>0 DEF Start, Typed, EnvOK, Reconnecting
<1>3. PICK o : /\ network' = expected_genesis_hash(loaded_network)
               /\ indexer' = o.indexer /\ unverified' = ~o.found
               /\ o.found \in BOOLEAN
               /\ o.found => Good(o.indexer.url, expected_genesis_hash(loaded_network))
               /\ o.found => pin = None
  BY <1>0, Starts
<1>4. pin' # None => unverified'
  BY <1>3 DEF Start
<1>5. OnNetwork'
  <2>1. CASE o.found
    <3>1. ChainOf[indexer'.url.host] =
            expected_genesis_hash(expected_genesis_hash(loaded_network))
      BY <1>3, <2>1 DEF Good, expected_genesis_hash
    <3>2. ChainOf[indexer'.url.host] \in {network', core}
      BY <1>3, <3>1 DEF expected_genesis_hash
    <3> QED
      BY <3>2 DEF OnNetwork, Start
  <2>2. CASE ~o.found
    BY <1>3, <2>2 DEF OnNetwork
  <2> QED
    BY <2>1, <2>2
<1> QED
  BY <1>1, <1>2, <1>4, <1>5 DEF NetworkInv

LEMMA NetworkReconnect ==
    ASSUME NetworkInv, NEW th \in Threads, Reconnect(th)
    PROVE  NetworkInv'
<1> USE DEF environment, config, threads, ghosts
<1>0. Typed /\ Typed'
  BY TypeReconnect DEF NetworkInv
<1>1. CASE Read(th)
  BY <1>0, <1>1 DEF Read, Goto, NetworkInv, OnNetwork, Typed, TypeOK
<1>2. CASE Probe(th)
  <2>1. CASE pin # None
    BY <1>0, <1>2, <2>1 DEF Probe, NetworkInv, OnNetwork
  <2>2. CASE pin = None
    <3>1. Probed(held[th])
      BY <1>2, <2>2 DEF Probe, NetworkInv
    <3>2. Goto(th, "connect", held[th])
      BY <1>2, <3>1, ResolvesToItself DEF Probe, Probed
    <3> QED
      BY <1>0, <1>2, <2>2, <3>1, <3>2 DEF Probe, Goto, NetworkInv, OnNetwork, Typed, TypeOK
  <2> QED
    BY <2>1, <2>2
<1>3. CASE Write(th)
  <2>1. pin # None /\ indexer # None
    BY <1>3 DEF Write, NetworkInv, Typed, TypeOK
  <2> QED
    BY <1>0, <1>3, <2>1 DEF Write, NetworkInv, OnNetwork
<1>4. CASE Connect(th)
  BY <1>0, <1>4 DEF Connect, Goto, NetworkInv, OnNetwork, Typed, TypeOK
<1> QED
  BY <1>1, <1>2, <1>3, <1>4 DEF Reconnect

LEMMA NetworkSave ==
    ASSUME NetworkInv, NEW r \in Requests, NEW net \in Chains, SaveNetwork(r, net)
    PROVE  NetworkInv'
<1> USE DEF environment, threads
<1>0. Typed /\ Typed'
  BY TypeSave DEF NetworkInv
<1>1. PICK o : /\ network' = net /\ indexer' = o.indexer /\ unverified' = ~o.found
               /\ o.found \in BOOLEAN
               /\ o.found => Good(o.indexer.url, net) /\ pin = None
               /\ ~o.found => o.indexer = indexer
               /\ \/ (o.found \/ pin # None) /\ Goto(r, "read", None)
                  \/ Goto(r, "idle", None)
                  \/ UNCHANGED threads
  BY <1>0, Saves
<1>2. OnNetwork'
  BY <1>1 DEF OnNetwork, Good, expected_genesis_hash, SaveNetwork
<1>3. pin' # None => unverified'
  BY <1>1 DEF SaveNetwork
<1>4. pin' = None => \A th \in Threads :
           /\ pc'[th] # "write"
           /\ pc'[th] = "read" => Probed(indexer'.url)
           /\ pc'[th] \in {"probe", "connect"} => Probed(held'[th])
  <2> SUFFICES ASSUME pin = None, NEW th \in Threads
               PROVE  /\ pc'[th] # "write"
                      /\ pc'[th] = "read" => Probed(indexer'.url)
                      /\ pc'[th] \in {"probe", "connect"} => Probed(held'[th])
    BY DEF SaveNetwork
  <2>1. o.found => Probed(indexer'.url)
    BY <1>1 DEF Good, Probed
  <2>2. pc[th] = "read" => Probed(indexer'.url)
    BY <1>1, <2>1 DEF NetworkInv
  <2> QED
    BY <1>0, <1>1, <2>1, <2>2 DEF Goto, NetworkInv, Typed, TypeOK
<1> QED
  BY <1>0, <1>2, <1>3, <1>4 DEF NetworkInv

LEMMA NetworkRetry == NetworkInv /\ RetryTick => NetworkInv'
<1> SUFFICES ASSUME NetworkInv, RetryTick PROVE NetworkInv'
  OBVIOUS
<1> USE DEF environment, threads
<1>0. Typed /\ Typed' /\ UNCHANGED <<install, pin, core, network>>
  BY TypeRetry DEF NetworkInv, RetryTick
<1>1. pin = None
  BY IndexerAssumption DEF NetworkInv, Typed, EnvOK, RetryTick, MayRetry
<1>2. CASE UNCHANGED <<indexer, threads>> /\ (indexer = None \/ UNCHANGED unverified)
  BY <1>0, <1>1, <1>2 DEF NetworkInv, OnNetwork
<1>3. CASE /\ indexer = None /\ indexer' \in Entry /\ Good(indexer'.url, network)
           /\ Goto("retry", "read", None)
  <2>1. \A th \in Threads : pc[th] = "idle"
    BY <1>0, <1>3 DEF Typed, TypeOK
  <2>2. OnNetwork'
    BY <1>0, <1>3 DEF OnNetwork, Good, expected_genesis_hash
  <2> QED
    BY <1>0, <1>1, <1>3, <2>1, <2>2
    DEF NetworkInv, Goto, Typed, TypeOK, Good, Probed
<1> QED
  BY <1>0, <1>2, <1>3, Retries

LEMMA NetworkStep == NetworkInv /\ [Next]_vars => NetworkInv'
<1> SUFFICES ASSUME NetworkInv, [Next]_vars PROVE NetworkInv'
  OBVIOUS
<1> USE DEF environment, config, threads, ghosts
<1>0. Typed'
  BY TypeStep DEF NetworkInv
<1>1. CASE Crash
  <2>1. indexer' = None /\ \A th \in Threads : pc'[th] = "idle"
    BY <1>1 DEF Crash
  <2> QED
    BY <1>0, <2>1 DEF NetworkInv, OnNetwork
<1>2. CASE NodeChange \/ CoreChange \/ UNCHANGED vars
  BY <1>0, <1>2 DEF NodeChange, CoreChange, vars, NetworkInv, OnNetwork
<1> QED
  BY <1>1, <1>2, NetworkStart, NetworkReconnect, NetworkSave, NetworkRetry DEF Next

\* Wallets are never sent to an indexer of another chain that the program chose
\* itself, for any hosts, platforms, configurations, requests and faults.
THEOREM StaysOnNetwork == Spec => []OnNetwork
<1>1. NetworkInv => OnNetwork
  BY DEF NetworkInv
<1> QED
  BY <1>1, NetworkInit, NetworkStep, PTL DEF Spec

-----------------------------------------------------------------------------
(* The client follows the configuration.  Without drift at most one thread  *)
(* reconnects, and past its read it carries the URL of the configuration.   *)

Follows ==
    running /\ ~drift /\ indexer # None =>
      /\ Reconnecting = {} => client = indexer.url
      /\ \A th, u \in Reconnecting : th = u
      /\ \A th \in Threads : pc[th] \in {"probe", "connect"} => held[th] = indexer.url

FollowInv == Typed /\ Follows

LEMMA FollowStart == FollowInv /\ Start => Follows'
<1> SUFFICES ASSUME FollowInv, Start PROVE Follows'
  OBVIOUS
<1>1. \A th \in Threads : pc'[th] = "idle"
  BY DEF FollowInv, Start, Typed, EnvOK, Reconnecting, threads
<1>2. client' = IF indexer' = None THEN None ELSE indexer'.url
  <2>1. PICK o : /\ indexer' = o.indexer
                 /\ client' = IF o.indexer = None THEN None ELSE o.indexer.url
    BY Starts DEF FollowInv
  <2> QED
    BY <2>1
<1> QED
  BY <1>1, <1>2 DEF Follows, Reconnecting

LEMMA FollowReconnect ==
    ASSUME FollowInv, NEW th \in Threads, Reconnect(th)
    PROVE  Follows'
<1> USE DEF config, ghosts
<1>1. TypeOK /\ th \in Reconnecting /\ indexer # None
  BY DEF FollowInv, Typed, TypeOK, Reconnect, Read, Probe, Write, Connect, Reconnecting
<1>2. CASE Read(th)
  BY <1>1, <1>2 DEF Read, Goto, FollowInv, Follows, Reconnecting, TypeOK
<1>3. CASE Probe(th)
  <2>1. \/ Goto(th, "connect", held[th])
        \/ \E url : Goto(th, "write", url)
    BY <1>3 DEF Probe
  <2> QED
    BY <1>1, <1>3, <2>1 DEF Probe, Goto, FollowInv, Follows, Reconnecting, TypeOK
<1>4. CASE Write(th)
  <2>1. indexer'.url = held[th]
    BY <1>4 DEF Write
  <2> QED
    BY <1>1, <1>4, <2>1 DEF Write, Goto, FollowInv, Follows, Reconnecting, TypeOK
<1>5. CASE Connect(th)
  BY <1>1, <1>5 DEF Connect, Goto, FollowInv, Follows, Reconnecting, TypeOK
<1> QED
  BY <1>2, <1>3, <1>4, <1>5 DEF Reconnect

LEMMA FollowSave ==
    ASSUME FollowInv, NEW r \in Requests, NEW net \in Chains, SaveNetwork(r, net)
    PROVE  Follows'
<1> USE DEF threads
<1>1. /\ TypeOK /\ Typed /\ r \in Threads /\ pc[r] = "idle"
      /\ UNCHANGED <<running, client>>
  BY DEF FollowInv, Typed, SaveNetwork, Threads
<1>2. PICK o : /\ indexer' = o.indexer
               /\ o.found \in BOOLEAN
               /\ o.found => o.indexer # None
               /\ ~o.found => o.indexer = indexer
               /\ \/ /\ Goto(r, "read", None)
                     /\ drift' = (Reconnecting # {})
                  \/ /\ o.indexer = None \/ ~o.found
                     /\ Goto(r, "idle", None)
                     /\ drift' = drift
                  \/ /\ drift' = (drift \/ o.indexer # indexer)
                     /\ UNCHANGED threads
  BY <1>1, Saves
<1>3. CASE Goto(r, "read", None) /\ drift' = (Reconnecting # {})
  <2>1. ~drift' => Reconnecting = {}
    BY <1>3
  <2>2. /\ Reconnecting = {} => Reconnecting' = {r}
        /\ Reconnecting = {} => \A th \in Threads : pc'[th] \notin {"probe", "connect"}
    BY <1>1, <1>3 DEF Goto, Reconnecting, TypeOK
  <2> QED
    BY <2>1, <2>2 DEF Follows
<1>4. CASE ~o.found /\ Goto(r, "idle", None) /\ drift' = drift
  BY <1>1, <1>2, <1>4 DEF Goto, FollowInv, Follows, Reconnecting, TypeOK
<1>5. CASE drift' = (drift \/ o.indexer # indexer) /\ UNCHANGED threads
  BY <1>1, <1>2, <1>5 DEF FollowInv, Follows, Reconnecting
<1> QED
  BY <1>2, <1>3, <1>4, <1>5

LEMMA FollowRetry == FollowInv /\ RetryTick => Follows'
<1> SUFFICES ASSUME FollowInv, RetryTick PROVE Follows'
  OBVIOUS
<1> USE DEF threads
<1>1. TypeOK /\ Typed /\ UNCHANGED <<running, client, drift>>
  BY DEF FollowInv, Typed, RetryTick
<1>2. CASE UNCHANGED <<indexer, threads>>
  BY <1>1, <1>2 DEF FollowInv, Follows, Reconnecting
<1>3. CASE indexer = None /\ Goto("retry", "read", None)
  <2>1. \A th \in Threads : pc[th] = "idle"
    BY <1>1, <1>3 DEF TypeOK
  <2>2. "retry" \in Threads /\ pc' = [pc EXCEPT !["retry"] = "read"]
    BY <1>3 DEF Goto, Threads
  <2>3. "retry" \in Reconnecting' /\ \A th \in Reconnecting' : th = "retry"
    BY <1>1, <2>1, <2>2 DEF Reconnecting, TypeOK
  <2>4. \A th \in Threads : pc'[th] \notin {"probe", "connect"}
    BY <1>1, <2>1, <2>2 DEF TypeOK
  <2> QED
    BY <2>3, <2>4 DEF Follows
<1> QED
  BY <1>1, <1>2, <1>3, Retries

LEMMA FollowStep == FollowInv /\ [Next]_vars => FollowInv'
<1> SUFFICES ASSUME FollowInv, [Next]_vars PROVE FollowInv'
  OBVIOUS
<1> USE DEF environment, config, threads, ghosts
<1>1. Typed'
  BY TypeStep DEF FollowInv
<1>2. CASE Crash
  BY <1>1, <1>2 DEF Crash, FollowInv, Follows
<1>3. CASE NodeChange \/ CoreChange \/ UNCHANGED vars
  BY <1>1, <1>3 DEF NodeChange, CoreChange, vars, FollowInv, Follows, Reconnecting
<1> QED
  BY <1>1, <1>2, <1>3, FollowStart, FollowReconnect, FollowSave, FollowRetry
  DEF Next, FollowInv

\* Once nothing reconnects, the pool's client has the URL the sessions use, for
\* any number of requests and any reconnections, unless a save failed half way
\* or two overlapped.
THEOREM ClientIsConfigured == Spec => []ClientFollows
<1>1. Init => FollowInv
  BY TypeInit DEF Init, FollowInv, Follows
<1>2. FollowInv => ClientFollows
  BY DEF FollowInv, Follows, ClientFollows
<1> QED
  BY <1>1, <1>2, FollowStep, PTL DEF Spec

-----------------------------------------------------------------------------
(* Manual indexers.                                                        *)

\* An indexer the user typed in survives every start at which it works: the
\* discovery looks at it before it looks around.
THEOREM ManualKept == Spec => ManualSurvives
<1> DEFINE Works ==
      /\ ~running /\ running' /\ install = "lan" /\ pin = None
      /\ file.indexer # None /\ file.indexer.manual
      /\ resolve_working_indexer_url(file.indexer.url,
             expected_genesis_hash(loaded_network)) # {}
           Kept == indexer'.url.host = file.indexer.url.host /\ indexer'.manual
<1>1. ASSUME Typed, [Next]_vars, Works PROVE Kept
  <2> DEFINE net  == expected_genesis_hash(loaded_network)
             urls == resolve_working_indexer_url(file.indexer.url, net)
  <2>1. Start
    BY <1>1 DEF Next, Crash, Reconnect, Read, Probe, Write, Connect, SaveNetwork,
                RetryTick, MayRetry, NodeChange, CoreChange, vars
  <2>2. PICK o \in apply_indexer_discovery(net, file.indexer) : indexer' = o.indexer
    BY <1>1, <2>1 DEF Start
  <2>3. o \in Outcomes(urls, TRUE)
    BY <1>1, <2>2 DEF apply_indexer_discovery
  <2>4. PICK u \in urls : o.indexer = [url |-> u, manual |-> TRUE]
    <3>1. PICK u \in urls : o = Outcome([url |-> u, manual |-> TRUE], TRUE)
      BY <2>3 DEF Outcomes
    <3> QED
      BY <3>1 DEF Outcome
  <2>5. file.indexer.url \in Url
    BY <1>1 DEF Typed, TypeOK, Entry
  <2>6. u.host = file.indexer.url.host
    BY <2>4, <2>5, Resolved
  <2> QED
    BY <2>2, <2>4, <2>6
<1> QED
  BY <1>1, TypeInit, TypeStep, PTL DEF Spec, ManualSurvives

=============================================================================
