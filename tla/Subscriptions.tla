---------------------------- MODULE Subscriptions ----------------------------
(***************************************************************************)
(* Wallet sessions of the Electrum server (electrum_server/mod.rs), the    *)
(* virtual mempool they are shown (pool/virtual_mempool.rs and its map in  *)
(* pool/manager.rs), the notification channel between them and the relay   *)
(* that keeps one subscription per scripthash at the indexer.              *)
(*                                                                         *)
(* A step is one critical section of the map's mutex, one send into the    *)
(* channel, or one exchange with the indexer.  A status hash is modelled   *)
(* by the set of entries it hashes.  Every session receives every message  *)
(* of the channel and drops those it has no interest in.                   *)
(*                                                                         *)
(* The pool behind the map is reduced to what moves a transaction through  *)
(* it, one row per transaction; BroadcastPool has the rest.  Subscriptions *)
(* to headers are in ChainTip.                                             *)
(***************************************************************************)
EXTENDS Naturals, Sequences, FiniteSets

CONSTANTS
    Sessions,      \* connected wallets
    Scripthashes,
    Txs,           \* transactions that touch them
    Old,           \* the ones in a block before the program starts
    OutputsOf,     \* [Txs -> SUBSET Scripthashes]: what they pay to
    InputsOf,      \* [Txs -> SUBSET Scripthashes]: what they spend from
    Wanted,        \* the scripthashes wallets ask about
    Workers,       \* the pool's loops and requests that announce changes
    None,          \* nothing is being handled
    Untold,        \* no status sent yet
    Faults,        \* what may go wrong: subset of AllFaults
    Capacity       \* messages the channel retains (256 in the program)

AllFaults == {"ingest", "prev_tx", "history", "relay", "crash", "rehydrate"}

ASSUME SubscriptionsAssumption ==
    /\ Old \subseteq Txs
    /\ OutputsOf \in [Txs -> SUBSET Scripthashes \ {{}}]
    /\ InputsOf \in [Txs -> SUBSET Scripthashes]
    /\ Wanted \subseteq Scripthashes
    /\ None \notin Txs \union Scripthashes
    /\ Faults \subseteq AllFaults
    /\ Capacity \in Nat \ {0}
    /\ Sessions \intersect (Txs \union Workers) = {}
    /\ Txs \intersect Workers = {}

VARIABLES
    \* The pool.
    pending_txs,   \* [Txs -> SUBSET Scripthashes]: the map; {} is no entry
    row,           \* [Txs -> Row]: its row in the pool
    job,           \* [Txs -> Job]: background work after the wallet's ack
    owed,          \* [Threads -> SUBSET Scripthashes]: messages still to send
    \* Sessions.
    pc, at,        \* what each session is doing, and about what
    read,          \* what it has read for it from the indexer or the map
    subscribed_scripthashes,
    told,          \* [Sessions -> [Scripthashes -> Status]]: last status sent
    queue,         \* [Sessions -> Seq(Scripthashes)]: its end of the channel
    lagged,        \* messages were overwritten since its last receive
    deaf,          \* its receive failed: off until something else wakes it
    \* The relay.
    watched_scripthashes,
    relay,         \* is its connection up
    subscribed,    \* what it has asked for on this connection
    asked,         \* subscription requests the indexer has not read yet
    \* The indexer.
    upstream,      \* what it holds subscriptions for
    wire,          \* scripthashes it has announced, not yet read
    chain,         \* [Txs -> {"unseen", "mempool", "block"}]: what it knows
    \* Bookkeeping for the properties; the program has no such state.
    missed,        \* [Sessions -> SUBSET Scripthashes]: chain changes it
                   \* cannot have heard of
    lost           \* [Sessions -> SUBSET Scripthashes]: messages it lost

pool    == <<pending_txs, row, job, owed>>
doing   == <<pc, at, read>>
channel == <<queue, lagged, deaf>>
known   == <<subscribed_scripthashes, told>>
relaying == <<watched_scripthashes, relay, subscribed, asked>>
indexer == <<upstream, wire, chain>>
ghost   == <<missed, lost>>
vars == <<pool, doing, channel, known, relaying, indexer, ghost>>

Threads == Sessions \union Txs \union Workers
Entry   == Txs \X {"mempool", "block"}
Status  == SUBSET Entry
Job     == {"idle", "insert", "store", "enrich"}
Row     == {"none", "pending", "sent", "broadcast", "confirmed"}
PC      == {"idle", "subscribe", "get_history", "subscribe_reply",
            "get_history_reply", "push", "ack"}

Init ==
    /\ pending_txs = [t \in Txs |-> {}]
    /\ row = [t \in Txs |-> "none"]
    /\ job = [t \in Txs |-> "idle"]
    /\ owed = [th \in Threads |-> {}]
    /\ pc = [s \in Sessions |-> "idle"]
    /\ at = [s \in Sessions |-> None]
    /\ read = [s \in Sessions |-> {}]
    /\ subscribed_scripthashes = [s \in Sessions |-> {}]
    /\ told = [s \in Sessions |-> [sh \in Scripthashes |-> Untold]]
    /\ queue = [s \in Sessions |-> <<>>]
    /\ lagged = [s \in Sessions |-> FALSE]
    /\ deaf = [s \in Sessions |-> FALSE]
    /\ watched_scripthashes = {}
    /\ relay = FALSE
    /\ subscribed = {}
    /\ asked = {}
    /\ upstream = {}
    /\ wire = {}
    /\ chain = [t \in Txs |-> IF t \in Old THEN "block" ELSE "unseen"]
    /\ missed = [s \in Sessions |-> {}]
    /\ lost = [s \in Sessions |-> {}]

-----------------------------------------------------------------------------
(* The virtual mempool.                                                    *)

Touches(t) == OutputsOf[t] \union InputsOf[t]

\* The input scripthashes found when some previous transactions may not be.
Resolved(t) == IF "prev_tx" \in Faults THEN SUBSET InputsOf[t]
                                       ELSE {InputsOf[t]}

\* What the indexer answers to get_history.
History(sh) == {<<t, chain[t]>> : t \in {u \in Txs :
                    chain[u] # "unseen" /\ sh \in Touches(u)}}

\* get_pending_txids_for_scripthash
PendingAt(sh) == {t \in Txs : sh \in pending_txs[t]}

Txids(entries) == {e[1] : e \in entries}

inject_in_history(history, pending) ==
    history \union {<<t, "mempool">> : t \in pending \ Txids(history)}

\* Faulty variant: the pushed status ignores the real history.
HashOverEmptyHistory(history, pending) == inject_in_history({}, pending)

compute_modified_status_hash(history, pending) ==
    inject_in_history(history, pending)

\* The status of a scripthash when nothing is in flight.
CurrentStatus(sh) == inject_in_history(History(sh), PendingAt(sh))

-----------------------------------------------------------------------------
(* The notification channel.                                               *)

\* Faulty variant: the channel grows without a bound.
SendUnbounded(sh) ==
    /\ queue' = [s \in Sessions |-> Append(queue[s], sh)]
    /\ UNCHANGED <<lagged, deaf, lost, missed>>

\* scripthash_notifications.send: every receiver gets sh; one that is
\* Capacity messages behind loses its oldest.
Send(sh) ==
    LET full(s) == Len(queue[s]) >= Capacity
        Overwrite(ghosts, s) ==
            IF full(s)
            THEN ghosts[s] \union
                 ({Head(queue[s])} \intersect subscribed_scripthashes[s])
            ELSE ghosts[s]
    IN
    /\ queue' = [s \in Sessions |->
                    Append(IF full(s) THEN Tail(queue[s]) ELSE queue[s], sh)]
    /\ lagged' = [s \in Sessions |-> lagged[s] \/ full(s)]
    /\ lost' = [s \in Sessions |-> Overwrite(lost, s)]
    /\ missed' = [s \in Sessions |-> Overwrite(missed, s)]
    /\ UNCHANGED deaf

\* A thread sends one of the messages it owes, after it released the mutex.
Announce(th) ==
    /\ \E sh \in owed[th] :
         /\ Send(sh)
         /\ owed' = [owed EXCEPT ![th] = @ \ {sh}]
    /\ UNCHANGED <<pending_txs, row, job>>
    /\ UNCHANGED <<doing, known, relaying, indexer>>

Free(th) == owed[th] = {}

\* The map gets or replaces the entry of t; thread th owes its scripthashes.
store_pending_tx(th, t) ==
    /\ pending_txs' = [pending_txs EXCEPT ![t] = OutputsOf[t]]
    /\ owed' = [owed EXCEPT ![th] = OutputsOf[t]]
    \* Inputs merged for an earlier copy of t are forgotten without a word.
    /\ lost' = [s \in Sessions |-> lost[s] \union
                   (subscribed_scripthashes[s]
                        \intersect (pending_txs[t] \ OutputsOf[t]))]

\* Faulty variant: sessions are not told of the merged scripthashes.
MergeInSilence(th, t, extra) ==
    /\ pending_txs' = [pending_txs EXCEPT ![t] =
                          IF @ = {} THEN {} ELSE @ \union extra]
    /\ UNCHANGED owed

\* Thread th merges the input scripthashes extra into the entry of t.
merge_pending_scripthashes(th, t, extra) ==
    IF pending_txs[t] = {}
    THEN UNCHANGED <<pending_txs, owed>>
    ELSE /\ pending_txs' = [pending_txs EXCEPT ![t] = @ \union extra]
         /\ owed' = [owed EXCEPT ![th] = extra \ pending_txs[t]]

\* The entry goes and everything it touched is told, inputs included.
remove_pending_tx(th, t) ==
    /\ pending_txs' = [pending_txs EXCEPT ![t] = {}]
    /\ owed' = [owed EXCEPT ![th] = pending_txs[t]]

-----------------------------------------------------------------------------
(* The pool's own steps.                                                   *)

PoolStep == UNCHANGED <<doing, channel, known, relaying, indexer, missed>>

\* handle_broadcast inserts the row ...
Insert(t) ==
    /\ job[t] = "insert"
    /\ row' = [row EXCEPT ![t] = "pending"]
    /\ job' = [job EXCEPT ![t] = "store"]
    /\ UNCHANGED <<pending_txs, owed, lost>> /\ PoolStep

\* ... or fails, which is only logged: the map keeps the entry.
InsertFails(t) ==
    /\ "ingest" \in Faults
    /\ job[t] = "insert"
    /\ job' = [job EXCEPT ![t] = "idle"]
    /\ UNCHANGED <<pending_txs, row, owed, lost>> /\ PoolStep

\* ... stores the outputs again; past ten seconds nobody enriches it.
StoreAgain(t) ==
    /\ job[t] = "store"
    /\ store_pending_tx(t, t)
    /\ \E next \in {"enrich"} \union
                   (IF "ingest" \in Faults THEN {"idle"} ELSE {}) :
         job' = [job EXCEPT ![t] = next]
    /\ UNCHANGED row /\ PoolStep

\* enrich_pending_input_scripthashes
Enrich(t) ==
    /\ job[t] = "enrich" /\ Free(t)
    /\ \E found \in Resolved(t) :
         merge_pending_scripthashes(t, t, found \ OutputsOf[t])
    /\ job' = [job EXCEPT ![t] = "idle"]
    /\ UNCHANGED <<row, lost>> /\ PoolStep

\* The network takes the transaction; mark_broadcast comes a step later.
Emit(t) ==
    /\ row[t] = "pending" /\ chain[t] # "block"
    /\ row' = [row EXCEPT ![t] = "sent"]
    /\ UNCHANGED <<pending_txs, job, owed, lost>> /\ PoolStep

mark_broadcast(w, t) ==
    /\ Free(w)
    /\ row[t] = "sent"
    /\ row' = [row EXCEPT ![t] = "broadcast"]
    /\ remove_pending_tx(w, t)
    /\ UNCHANGED <<job, lost>> /\ PoolStep

remove_transaction(w, t) ==
    /\ Free(w)
    /\ row[t] # "none"
    /\ row' = [row EXCEPT ![t] = "none"]
    /\ remove_pending_tx(w, t)
    /\ UNCHANGED <<job, lost>> /\ PoolStep

\* check_confirmations marks the row and notify_tx_confirmed nudges what it
\* touches, with the inputs it can resolve.
notify_tx_confirmed(w, t) ==
    /\ Free(w)
    /\ row[t] = "broadcast" /\ chain[t] = "block"
    /\ row' = [row EXCEPT ![t] = "confirmed"]
    /\ \E found \in Resolved(t) :
         owed' = [owed EXCEPT ![w] = OutputsOf[t] \union found]
    /\ UNCHANGED <<pending_txs, job, lost>> /\ PoolStep

-----------------------------------------------------------------------------
(* A session: one task that alternates between a line of its wallet and a  *)
(* message of the channel.                                                 *)

Idle(s) == pc[s] = "idle" /\ Free(s)

Doing(s, p, x, r) ==
    /\ pc' = [pc EXCEPT ![s] = p]
    /\ at' = [at EXCEPT ![s] = x]
    /\ read' = [read EXCEPT ![s] = r]

Done(s) == Doing(s, "idle", None, {})

\* A line was read: select! is entered again with every branch enabled.
Awake(s) == deaf' = [deaf EXCEPT ![s] = FALSE] /\ UNCHANGED <<queue, lagged>>

Tell(s, sh, status) == told' = [told EXCEPT ![s][sh] = status]

\* Status computed from what the indexer holds now: older gaps do not matter.
Refreshed(s, sh) == [missed EXCEPT ![s] = @ \ {sh}]

\* Status that leaves the real history out.
Partial(s, sh) == [missed EXCEPT ![s] = @ \union {sh}]

track_scripthash_interest(s, sh) ==
    /\ subscribed_scripthashes' =
           [subscribed_scripthashes EXCEPT ![s] = @ \union {sh}]
    /\ watched_scripthashes' = watched_scripthashes \union {sh}

\* blockchain.scripthash.subscribe, get_history and get_mempool: answered at
\* once from the map when it has something for sh, and from it alone.
Ask(s, sh, method) ==
    /\ Idle(s)
    /\ track_scripthash_interest(s, sh)
    /\ IF PendingAt(sh) # {}
       THEN /\ Tell(s, sh, compute_modified_status_hash({}, PendingAt(sh)))
            /\ missed' = Partial(s, sh)
            /\ lost' = [lost EXCEPT ![s] = @ \ {sh}]
            /\ UNCHANGED doing
       ELSE /\ Doing(s, method, sh, {})
            /\ UNCHANGED <<told, missed, lost>>
    /\ Awake(s)
    /\ UNCHANGED <<pool, relay, subscribed, asked, indexer>>

\* forward_subrequest_sync: the indexer answers ...
Forward(s) ==
    /\ pc[s] \in {"subscribe", "get_history"}
    /\ Doing(s, IF pc[s] = "subscribe" THEN "subscribe_reply"
                                       ELSE "get_history_reply",
             at[s], History(at[s]))
    /\ missed' = Refreshed(s, at[s])
    /\ UNCHANGED <<pool, known, channel, relaying, indexer, lost>>

\* ... or does not: the wallet gets an error and stays subscribed.
ForwardFails(s) ==
    /\ "history" \in Faults
    /\ pc[s] \in {"subscribe", "get_history"}
    /\ Done(s)
    /\ UNCHANGED <<pool, known, channel, relaying, indexer, ghost>>

\* modify_upstream_response
Reply(s) ==
    /\ pc[s] \in {"subscribe_reply", "get_history_reply"}
    /\ LET sh == at[s]
           pending == PendingAt(sh)
           blind == pc[s] = "subscribe_reply" /\ pending # {}
       IN /\ Tell(s, sh, compute_modified_status_hash(
                             IF blind THEN {} ELSE read[s], pending))
          /\ missed' = IF blind THEN Partial(s, sh) ELSE missed
          /\ lost' = [lost EXCEPT ![s] = @ \ {sh}]
    /\ Done(s)
    /\ UNCHANGED <<pool, channel, subscribed_scripthashes, relaying, indexer>>

\* intercept_and_handle_broadcast: the outputs are in the map and announced
\* before the ack.  A wallet may send the same transaction again; bound: not
\* while the background work of the first copy runs.
Broadcast(s, t) ==
    /\ Idle(s)
    /\ t \notin Old /\ job[t] = "idle" /\ Free(t)
    /\ \A r \in Sessions : at[r] # t
    /\ store_pending_tx(s, t)
    /\ Doing(s, "ack", t, {})
    /\ Awake(s)
    /\ UNCHANGED <<row, job, known, relaying, indexer, missed>>

Ack(s) ==
    /\ pc[s] = "ack" /\ Free(s)
    /\ job' = [job EXCEPT ![at[s]] = "insert"]
    /\ Done(s)
    /\ UNCHANGED <<pending_txs, row, owed, channel, known, relaying, indexer>>
    /\ UNCHANGED ghost

\* scripthash_rx.recv() returns Lagged: the pattern Ok(..) does not match and
\* the branch is off for the rest of this select!.
ReceiveLagged(s) ==
    /\ Idle(s) /\ ~deaf[s]
    /\ lagged[s]
    /\ lagged' = [lagged EXCEPT ![s] = FALSE]
    /\ deaf' = [deaf EXCEPT ![s] = TRUE]
    /\ UNCHANGED <<queue, pool, doing, known, relaying, indexer, ghost>>

\* A message is received; the map is read before the indexer.
Receive(s) ==
    /\ Idle(s) /\ ~deaf[s] /\ ~lagged[s]
    /\ queue[s] # <<>>
    /\ queue' = [queue EXCEPT ![s] = Tail(@)]
    /\ LET sh == Head(queue[s]) IN
       IF sh \in subscribed_scripthashes[s]
       THEN /\ Doing(s, "push", sh,
                     {<<t, "mempool">> : t \in PendingAt(sh)})
            /\ lost' = [lost EXCEPT ![s] = @ \ {sh}]
       ELSE UNCHANGED <<doing, lost>>
    /\ UNCHANGED <<pool, known, lagged, deaf, relaying, indexer, missed>>

\* The status goes out over the history the indexer returns, or over an
\* empty one when it cannot be read.
Push(s) ==
    /\ pc[s] = "push"
    /\ LET sh == at[s]
           pending == Txids(read[s])
       IN \/ /\ Tell(s, sh, compute_modified_status_hash(History(sh), pending))
             /\ missed' = Refreshed(s, sh)
          \/ /\ "history" \in Faults
             /\ Tell(s, sh, compute_modified_status_hash({}, pending))
             /\ missed' = Partial(s, sh)
    /\ Done(s)
    /\ UNCHANGED <<pool, channel, subscribed_scripthashes, relaying, indexer>>
    /\ UNCHANGED lost

\* Another branch of select! completes: a ping, a new tip.
Wake(s) ==
    /\ Idle(s) /\ deaf[s]
    /\ Awake(s)
    /\ UNCHANGED <<pool, doing, known, relaying, indexer, ghost>>

\* The wallet reconnects: a new session with a receiver of its own.
Reconnect(s) ==
    /\ Idle(s)
    /\ subscribed_scripthashes[s] # {}
    /\ subscribed_scripthashes' = [subscribed_scripthashes EXCEPT ![s] = {}]
    /\ told' = [told EXCEPT ![s] = [sh \in Scripthashes |-> Untold]]
    /\ queue' = [queue EXCEPT ![s] = <<>>]
    /\ lagged' = [lagged EXCEPT ![s] = FALSE]
    /\ deaf' = [deaf EXCEPT ![s] = FALSE]
    /\ missed' = [missed EXCEPT ![s] = {}]
    /\ lost' = [lost EXCEPT ![s] = {}]
    /\ UNCHANGED <<pool, doing, relaying, indexer>>

-----------------------------------------------------------------------------
(* The relay, run_indexer_subscription_relay, and the indexer.             *)

RelayStep == UNCHANGED <<pool, doing, known, watched_scripthashes>>

\* Faulty variant: the set outlives the connection.
RelayConnectKeepsSet ==
    /\ ~relay
    /\ relay' = TRUE
    /\ UNCHANGED subscribed
    /\ RelayStep /\ UNCHANGED <<asked, channel, indexer, ghost>>

RelayConnect ==
    /\ ~relay
    /\ relay' = TRUE
    /\ subscribed' = {}
    /\ RelayStep /\ UNCHANGED <<asked, channel, indexer, ghost>>

\* Every five seconds: ask for what is watched and not asked for yet.
RelayTick ==
    /\ relay
    /\ watched_scripthashes \ subscribed # {}
    /\ subscribed' = subscribed \union watched_scripthashes
    /\ asked' = asked \union (watched_scripthashes \ subscribed)
    /\ RelayStep /\ UNCHANGED <<relay, channel, indexer, ghost>>

\* The indexer takes a subscription.  Its answer carries the status of that
\* moment and is not looked at.
IndexerSubscribes ==
    /\ \E sh \in asked : /\ upstream' = upstream \union {sh}
                        /\ asked' = asked \ {sh}
    /\ RelayStep
    /\ UNCHANGED <<relay, subscribed, wire, chain, channel, ghost>>

\* A notification is read and announced.
RelayRead ==
    /\ \E sh \in wire : Send(sh) /\ wire' = wire \ {sh}
    /\ RelayStep
    /\ UNCHANGED <<relay, subscribed, asked, upstream, chain>>

\* The connection breaks: subscriptions, requests and notifications are gone.
RelayDrop ==
    /\ "relay" \in Faults
    /\ relay
    /\ relay' = FALSE
    /\ upstream' = {} /\ asked' = {} /\ wire' = {}
    /\ missed' = [s \in Sessions |-> missed[s] \union
                     (wire \intersect subscribed_scripthashes[s])]
    /\ RelayStep /\ UNCHANGED <<subscribed, chain, channel, lost>>

\* The indexer learns something about t: it enters the mempool or is mined.
\* Scripthashes the indexer holds a subscription for are announced.
Index(t) ==
    /\ \/ /\ chain[t] = "unseen"
          /\ row[t] \in {"sent", "broadcast", "confirmed"}
          /\ chain' = [chain EXCEPT ![t] = "mempool"]
       \/ /\ chain[t] = "mempool"
          /\ chain' = [chain EXCEPT ![t] = "block"]
    /\ wire' = wire \union (Touches(t) \intersect upstream)
    /\ missed' = [s \in Sessions |-> missed[s] \union
           (subscribed_scripthashes[s] \intersect (Touches(t) \ upstream))]
    /\ UNCHANGED <<pool, doing, channel, known, relaying, upstream, lost>>

\* The process dies and is started again: load_pending_from_db stores the
\* waiting rows with the inputs it can resolve, before any session opens.
\* Without an indexer URL it stores none, and passes over a row that does not
\* decode; main only logs it.
Restart ==
    /\ "crash" \in Faults
    /\ row' = [t \in Txs |-> IF row[t] = "sent" THEN "pending" ELSE row[t]]
    /\ pending_txs' \in [Txs -> SUBSET Scripthashes]
    /\ \A t \in Txs :
          \/ /\ row'[t] = "pending"
             /\ \E found \in Resolved(t) :
                  pending_txs'[t] = OutputsOf[t] \union found
          \/ /\ row'[t] # "pending" \/ "rehydrate" \in Faults
             /\ pending_txs'[t] = {}
    /\ job' = [t \in Txs |-> "idle"]
    /\ owed' = [th \in Threads |-> {}]
    /\ pc' = [s \in Sessions |-> "idle"]
    /\ at' = [s \in Sessions |-> None]
    /\ read' = [s \in Sessions |-> {}]
    /\ subscribed_scripthashes' = [s \in Sessions |-> {}]
    /\ told' = [s \in Sessions |-> [sh \in Scripthashes |-> Untold]]
    /\ queue' = [s \in Sessions |-> <<>>]
    /\ lagged' = [s \in Sessions |-> FALSE]
    /\ deaf' = [s \in Sessions |-> FALSE]
    /\ watched_scripthashes' = {}
    /\ relay' = FALSE
    /\ subscribed' = {} /\ asked' = {}
    /\ upstream' = {} /\ wire' = {}
    /\ missed' = [s \in Sessions |-> {}]
    /\ lost' = [s \in Sessions |-> {}]
    /\ UNCHANGED chain

-----------------------------------------------------------------------------
Session(s) ==
    \/ Forward(s) \/ ForwardFails(s) \/ Reply(s) \/ Ack(s)
    \/ ReceiveLagged(s) \/ Receive(s) \/ Push(s)

Wallet(s) ==
    \/ \E sh \in Wanted :
         Ask(s, sh, "subscribe") \/ Ask(s, sh, "get_history")
    \/ \E t \in Txs : Broadcast(s, t)
    \/ Wake(s) \/ Reconnect(s)

Pool(t) ==
    \/ Insert(t) \/ InsertFails(t) \/ StoreAgain(t) \/ Enrich(t) \/ Emit(t)
    \/ \E w \in Workers : \/ mark_broadcast(w, t) \/ remove_transaction(w, t)
                          \/ notify_tx_confirmed(w, t)

Relay == RelayConnect \/ RelayTick \/ IndexerSubscribes \/ RelayRead

Next ==
    \/ \E s \in Sessions : Session(s) \/ Wallet(s)
    \/ \E t \in Txs : Pool(t) \/ Index(t)
    \/ \E th \in Threads : Announce(th)
    \/ Relay \/ RelayDrop \/ Restart

Spec == Init /\ [][Next]_vars

-----------------------------------------------------------------------------
(* Properties.                                                             *)

\* Every variable holds a value of its kind, and a session that is doing
\* something knows what it is about.
TypeOK ==
    /\ pending_txs \in [Txs -> SUBSET Scripthashes]
    /\ row \in [Txs -> Row]
    /\ job \in [Txs -> Job]
    /\ owed \in [Threads -> SUBSET Scripthashes]
    /\ pc \in [Sessions -> PC]
    /\ at \in [Sessions -> Txs \union Scripthashes \union {None}]
    /\ read \in [Sessions -> Status]
    /\ subscribed_scripthashes \in [Sessions -> SUBSET Scripthashes]
    /\ told \in [Sessions -> [Scripthashes -> Status \union {Untold}]]
    /\ queue \in [Sessions -> Seq(Scripthashes)]
    /\ lagged \in [Sessions -> BOOLEAN]
    /\ deaf \in [Sessions -> BOOLEAN]
    /\ watched_scripthashes \subseteq Scripthashes
    /\ relay \in BOOLEAN
    /\ subscribed \subseteq Scripthashes
    /\ asked \subseteq Scripthashes
    /\ upstream \subseteq Scripthashes
    /\ wire \subseteq Scripthashes
    /\ chain \in [Txs -> {"unseen", "mempool", "block"}]
    /\ missed \in [Sessions -> SUBSET Scripthashes]
    /\ lost \in [Sessions -> SUBSET Scripthashes]
    /\ \A s \in Sessions :
         /\ pc[s] = "ack" => at[s] \in Txs
         /\ pc[s] \notin {"idle", "ack"} => at[s] \in Scripthashes
         /\ Len(queue[s]) <= Capacity

\* Nothing about sh is on its way to session s.
Settled(s, sh) ==
    /\ \A n \in 1 .. Len(queue[s]) : queue[s][n] # sh
    /\ at[s] # sh
    /\ \A th \in Threads : sh \notin owed[th]

\* A session that was told anything about a scripthash and has nothing about
\* it under way has been told exactly the pool transactions that are pending
\* there; anything else it was told is in the indexer's history, which it
\* hears of by another way.  Holds for every order of stores, merges,
\* removals, sends and reads, except where messages were overwritten or an
\* entry lost its inputs.
PoolReachesWallets ==
    \A s \in Sessions, sh \in Scripthashes :
        (/\ told[s][sh] # Untold /\ Settled(s, sh) /\ sh \notin lost[s])
        => /\ PendingAt(sh) \subseteq Txids(told[s][sh])
           /\ \A t \in Txids(told[s][sh]) \ PendingAt(sh) :
                 chain[t] # "unseen" \/ sh \in missed[s] \union wire

\* ... and, where the relay's subscription covered every change, the status
\* is the hash of the real history plus what the pool holds ("The status
\* pushed to a wallet must be a hash of the REAL history plus whatever we are
\* holding virtually").
StatusIsReal ==
    \A s \in Sessions, sh \in Scripthashes :
        (/\ told[s][sh] # Untold /\ Settled(s, sh)
         /\ sh \notin lost[s] \union missed[s] \union wire)
        => told[s][sh] = CurrentStatus(sh)

\* What the relay believes it holds upstream it does hold, or the request is
\* on its way: nothing is taken for subscribed after the connection that
\* carried it ("on reconnect everything must be re-sent").
RelayHoldsItsSet ==
    relay => subscribed \subseteq upstream \union asked
=============================================================================
