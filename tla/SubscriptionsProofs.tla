------------------------- MODULE SubscriptionsProofs -------------------------
(***************************************************************************)
(* Theorems of Subscriptions: its type invariant, that the relay holds the *)
(* subscriptions it believes it holds, and what the wallets have been told *)
(* once nothing about it is under way.                                     *)
(***************************************************************************)
EXTENDS Subscriptions, TLAPS

-----------------------------------------------------------------------------
(* What a wallet was told, step by step.                                    *)

Queued(s, sh) == \E n \in 1 .. Len(queue[s]) : queue[s][n] = sh
Owed(sh) == \E th \in Threads : sh \in owed[th]

\* No message about sh is on its way to session s, and it has lost none.
Quiet(s, sh) == ~Queued(s, sh) /\ ~Owed(sh) /\ sh \notin lost[s]

\* No change of the chain is on its way to session s, and it has missed none.
Covered(s, sh) == ~Queued(s, sh) /\ sh \notin missed[s] \union wire

\* The session has read something that it is about to tell its wallet.
Answering(s) == pc[s] \in {"subscribe_reply", "get_history_reply", "push"}
Asking(s)    == pc[s] \in {"subscribe", "get_history"}

\* A wallet is told only of what it asked for.
Interested(s) ==
    /\ \A sh \in Scripthashes :
         told[s][sh] # Untold => sh \in subscribed_scripthashes[s]
    /\ Asking(s) \/ Answering(s) => at[s] \in subscribed_scripthashes[s]

\* It knows of every pending transaction, and of no other but real ones.
ToldPool(s) ==
    \A sh \in Scripthashes :
        told[s][sh] # Untold /\ Quiet(s, sh) /\ ~(Answering(s) /\ at[s] = sh)
        => /\ PendingAt(sh) \subseteq Txids(told[s][sh])
           /\ \A t \in Txids(told[s][sh]) \ PendingAt(sh) : chain[t] # "unseen"

\* It knows the status if no change of the chain escaped it either.
ToldStatus(s) ==
    \A sh \in Scripthashes :
        /\ told[s][sh] # Untold /\ Quiet(s, sh) /\ Covered(s, sh)
        /\ ~(Answering(s) /\ at[s] = sh)
        => told[s][sh] = CurrentStatus(sh)

\* What it read from the map for a push is still so.
PushReads(s) ==
    \A sh \in Scripthashes :
        pc[s] = "push" /\ at[s] = sh /\ Quiet(s, sh)
        => Txids(read[s]) = PendingAt(sh)

\* What it read from the indexer was real, and is still so if nothing escaped
\* it since.
ReplyReads(s) ==
    Answering(s) /\ pc[s] # "push" =>
        /\ \A e \in read[s] : e[1] \in Txs /\ chain[e[1]] # "unseen"
        /\ \A sh \in Scripthashes :
             at[s] = sh /\ Covered(s, sh) => read[s] = History(sh)

Informed(s) ==
    /\ Interested(s) /\ ToldPool(s) /\ ToldStatus(s)
    /\ PushReads(s) /\ ReplyReads(s)

\* The background work of a transaction owes nothing before it stores again,
\* and it is started once.
JobsOrdered ==
    /\ \A t \in Txs : job[t] \in {"insert", "store"} => owed[t] = {}
    /\ \A s \in Sessions : pc[s] = "ack" =>
         /\ job[at[s]] = "idle" /\ owed[at[s]] = {}
         /\ \A r \in Sessions \ {s} : pc[r] = "ack" => at[r] # at[s]

InformedInv == TypeOK /\ JobsOrdered /\ \A s \in Sessions : Informed(s)
-----------------------------------------------------------------------------
(* Types.                                                                   *)

ChannelType ==
    /\ queue \in [Sessions -> Seq(Scripthashes)]
    /\ \A s \in Sessions : Len(queue[s]) <= Capacity
    /\ lagged \in [Sessions -> BOOLEAN]
    /\ deaf \in [Sessions -> BOOLEAN]
    /\ missed \in [Sessions -> SUBSET Scripthashes]
    /\ lost \in [Sessions -> SUBSET Scripthashes]

DoingType ==
    /\ pc \in [Sessions -> PC]
    /\ at \in [Sessions -> Txs \union Scripthashes \union {None}]
    /\ read \in [Sessions -> Status]
    /\ \A s \in Sessions :
         /\ pc[s] = "ack" => at[s] \in Txs
         /\ pc[s] \notin {"idle", "ack"} => at[s] \in Scripthashes

PoolType ==
    /\ pending_txs \in [Txs -> SUBSET Scripthashes]
    /\ row \in [Txs -> Row]
    /\ job \in [Txs -> Job]
    /\ owed \in [Threads -> SUBSET Scripthashes]

KnownType ==
    /\ subscribed_scripthashes \in [Sessions -> SUBSET Scripthashes]
    /\ told \in [Sessions -> [Scripthashes -> Status \union {Untold}]]

RelayType ==
    /\ watched_scripthashes \subseteq Scripthashes
    /\ relay \in BOOLEAN
    /\ subscribed \subseteq Scripthashes
    /\ asked \subseteq Scripthashes
    /\ upstream \subseteq Scripthashes
    /\ wire \subseteq Scripthashes
    /\ chain \in [Txs -> {"unseen", "mempool", "block"}]

LEMMA TypeParts ==
    TypeOK <=> ChannelType /\ DoingType /\ PoolType /\ KnownType /\ RelayType
  BY DEF TypeOK, ChannelType, DoingType, PoolType, KnownType, RelayType

LEMMA TypePartsNext ==
    TypeOK' <=> ChannelType' /\ DoingType' /\ PoolType' /\ KnownType' /\ RelayType'
  BY DEF TypeOK, ChannelType, DoingType, PoolType, KnownType, RelayType

LEMMA TypeInit == Init => TypeOK
<1>. SUFFICES ASSUME Init PROVE TypeOK
  OBVIOUS
<1>. USE SubscriptionsAssumption
<1>1. ChannelType
  BY DEF Init, ChannelType
<1>2. DoingType
  BY DEF Init, DoingType, PC, Status
<1>3. PoolType /\ KnownType
  BY DEF Init, PoolType, KnownType, Row, Job
<1>4. RelayType
  BY DEF Init, RelayType
<1>. QED
  BY <1>1, <1>2, <1>3, <1>4, TypeParts

\* A message sent leaves every receiver within its capacity.
LEMMA SendType ==
    ASSUME ChannelType, KnownType, NEW sh \in Scripthashes, Send(sh)
    PROVE  ChannelType'
<1>. USE SubscriptionsAssumption
<1>. DEFINE full(s) == Len(queue[s]) >= Capacity
<1>1. queue' = [s \in Sessions |->
                  Append(IF full(s) THEN Tail(queue[s]) ELSE queue[s], sh)]
  BY DEF Send
<1>2. ASSUME NEW s \in Sessions
      PROVE  queue'[s] \in Seq(Scripthashes) /\ Len(queue'[s]) <= Capacity
  <2>. queue[s] \in Seq(Scripthashes) /\ Len(queue[s]) <= Capacity
    BY DEF ChannelType
  <2>1. CASE full(s)
    <3>1. queue[s] # <<>>
      BY <2>1
    <3>2. Tail(queue[s]) \in Seq(Scripthashes) /\ Len(Tail(queue[s])) = Len(queue[s]) - 1
      BY <3>1
    <3>. QED
      BY <1>1, <2>1, <3>2
  <2>2. CASE ~full(s)
    BY <1>1, <2>2
  <2>. QED
    BY <2>1, <2>2
<1>3. queue' \in [Sessions -> Seq(Scripthashes)]
  BY <1>1, <1>2
<1>4. ASSUME NEW s \in Sessions
      PROVE  {Head(queue[s])} \intersect subscribed_scripthashes[s] \subseteq Scripthashes
  BY DEF KnownType
<1>5. lost' \in [Sessions -> SUBSET Scripthashes] /\ missed' \in [Sessions -> SUBSET Scripthashes]
  BY <1>4 DEF Send, ChannelType
<1>6. lagged' \in [Sessions -> BOOLEAN] /\ deaf' \in [Sessions -> BOOLEAN]
  BY DEF Send, ChannelType
<1>. QED
  BY <1>2, <1>3, <1>5, <1>6 DEF ChannelType

LEMMA ResolvedInputs ==
    ASSUME NEW t \in Txs, NEW found \in Resolved(t)
    PROVE  found \subseteq InputsOf[t] /\ found \subseteq Scripthashes
  BY SubscriptionsAssumption DEF Resolved

LEMMA HistoryType ==
    ASSUME RelayType, NEW sh PROVE History(sh) \in Status
  BY DEF History, RelayType, Status, Entry

LEMMA PendingType == ASSUME NEW sh PROVE PendingAt(sh) \subseteq Txs
  BY DEF PendingAt

LEMMA StatusType ==
    ASSUME NEW history \in Status, NEW pending \in SUBSET Txs
    PROVE  compute_modified_status_hash(history, pending) \in Status
  BY DEF compute_modified_status_hash, inject_in_history, Status, Entry

LEMMA TxidsType == ASSUME NEW entries \in Status PROVE Txids(entries) \subseteq Txs
  BY DEF Txids, Status, Entry

LEMMA DoneType ==
    ASSUME DoingType, NEW s \in Sessions, Done(s) PROVE DoingType'
  BY DEF DoingType, Done, Doing, PC, Status

LEMMA DoingStepType ==
    ASSUME DoingType, NEW s \in Sessions, NEW x \in Scripthashes,
           NEW p \in PC \ {"ack", "idle"}, NEW r \in Status, Doing(s, p, x, r)
    PROVE  DoingType'
  BY DEF DoingType, Doing, PC

LEMMA TellType ==
    ASSUME KnownType, NEW s \in Sessions, NEW sh \in Scripthashes,
           NEW status \in Status, Tell(s, sh, status),
           UNCHANGED subscribed_scripthashes
    PROVE  KnownType'
  BY DEF KnownType, Tell

-----------------------------------------------------------------------------
(* Each step keeps the types.                                               *)

LEMMA PoolStepType ==
    ASSUME TypeOK, NEW t \in Txs, Pool(t)
    PROVE  TypeOK'
<1>. ChannelType /\ DoingType /\ PoolType /\ KnownType /\ RelayType
  BY TypeParts
<1>. USE SubscriptionsAssumption
<1>. t \in Threads /\ OutputsOf[t] \subseteq Scripthashes
  BY DEF Threads
<1>1. PoolStep
  BY DEF Pool, Insert, InsertFails, StoreAgain, Enrich, Emit, mark_broadcast,
         remove_transaction, notify_tx_confirmed
<1>2. DoingType' /\ KnownType' /\ RelayType'
  BY <1>1 DEF PoolStep, DoingType, KnownType, RelayType, doing, known, relaying, indexer
<1>3. ASSUME lost' \in [Sessions -> SUBSET Scripthashes] PROVE ChannelType'
  BY <1>1, <1>3 DEF PoolStep, ChannelType, channel
<1>4. CASE Insert(t) \/ InsertFails(t) \/ Emit(t)
  <2>1. PoolType'
    BY <1>4 DEF Insert, InsertFails, Emit, PoolType, Row, Job
  <2>2. UNCHANGED lost
    BY <1>4 DEF Insert, InsertFails, Emit
  <2>. QED
    BY <1>2, <1>3, <2>1, <2>2, TypePartsNext DEF ChannelType
<1>5. CASE StoreAgain(t)
  <2>1. PoolType'
    BY <1>5 DEF StoreAgain, store_pending_tx, PoolType, Row, Job
  <2>2. lost' \in [Sessions -> SUBSET Scripthashes]
    BY <1>5 DEF StoreAgain, store_pending_tx, ChannelType, KnownType
  <2>. QED
    BY <1>2, <1>3, <2>1, <2>2, TypePartsNext
<1>6. CASE Enrich(t)
  <2>1. PICK found \in Resolved(t) :
          merge_pending_scripthashes(t, t, found \ OutputsOf[t])
    BY <1>6 DEF Enrich
  <2>2. found \subseteq Scripthashes
    BY ResolvedInputs
  <2>3. PoolType'
    BY <1>6, <2>1, <2>2 DEF Enrich, merge_pending_scripthashes, PoolType, Job
  <2>. QED
    BY <1>2, <1>3, <1>6, <2>3, TypePartsNext DEF Enrich, ChannelType
<1>7. ASSUME NEW w \in Workers, mark_broadcast(w, t) \/ remove_transaction(w, t)
      PROVE  TypeOK'
  <2>1. PoolType'
    BY <1>7 DEF mark_broadcast, remove_transaction, remove_pending_tx, PoolType, Row, Threads
  <2>. QED
    BY <1>2, <1>3, <1>7, <2>1, TypePartsNext
    DEF mark_broadcast, remove_transaction, ChannelType
<1>8. ASSUME NEW w \in Workers, notify_tx_confirmed(w, t) PROVE TypeOK'
  <2>1. PICK found \in Resolved(t) : owed' = [owed EXCEPT ![w] = OutputsOf[t] \union found]
    BY <1>8 DEF notify_tx_confirmed
  <2>2. found \subseteq Scripthashes
    BY ResolvedInputs
  <2>3. PoolType'
    BY <1>8, <2>1, <2>2 DEF notify_tx_confirmed, PoolType, Row, Threads
  <2>. QED
    BY <1>2, <1>3, <1>8, <2>3, TypePartsNext DEF notify_tx_confirmed, ChannelType
<1>. QED
  BY <1>4, <1>5, <1>6, <1>7, <1>8 DEF Pool
LEMMA SessionStepType ==
    ASSUME TypeOK, NEW s \in Sessions, Session(s)
    PROVE  TypeOK'
<1>. ChannelType /\ DoingType /\ PoolType /\ KnownType /\ RelayType
  BY TypeParts
<1>. USE SubscriptionsAssumption
<1>. missed \in [Sessions -> SUBSET Scripthashes] /\ lost \in [Sessions -> SUBSET Scripthashes]
  BY DEF ChannelType
<1>1. CASE Forward(s)
  <2>1. at[s] \in Scripthashes /\ History(at[s]) \in Status
    BY <1>1, HistoryType DEF Forward, DoingType
  <2>2. DoingType'
    <3>1. CASE pc[s] = "subscribe"
      BY <1>1, <2>1, <3>1, DoingStepType DEF Forward, PC
    <3>2. CASE pc[s] = "get_history"
      BY <1>1, <2>1, <3>2, DoingStepType DEF Forward, PC
    <3>. QED
      BY <1>1, <3>1, <3>2 DEF Forward
  <2>3. ChannelType'
    BY <1>1 DEF Forward, Refreshed, channel, ChannelType
  <2>4. PoolType' /\ KnownType' /\ RelayType'
    BY <1>1 DEF Forward, PoolType, KnownType, RelayType, pool, known, relaying, indexer
  <2>. QED
    BY <2>2, <2>3, <2>4, TypePartsNext
<1>2. CASE ForwardFails(s)
  <2>1. DoingType'
    BY <1>2, DoneType DEF ForwardFails
  <2>2. ChannelType' /\ PoolType' /\ KnownType' /\ RelayType'
    BY <1>2 DEF ForwardFails, ChannelType, PoolType, KnownType, RelayType,
                pool, known, relaying, indexer, channel, ghost
  <2>. QED
    BY <2>1, <2>2, TypePartsNext
<1>3. CASE Reply(s)
  <2>1. PICK sh, blind, pending :
          /\ sh = at[s] /\ pending = PendingAt(sh)
          /\ Tell(s, sh, compute_modified_status_hash(
                             IF blind THEN {} ELSE read[s], pending))
          /\ missed' = IF blind THEN Partial(s, sh) ELSE missed
          /\ lost' = [lost EXCEPT ![s] = @ \ {sh}]
    BY <1>3 DEF Reply
  <2>2. sh \in Scripthashes /\ read[s] \in Status /\ {} \in Status /\ pending \subseteq Txs
    BY <1>3, <2>1, PendingType DEF Reply, DoingType, Status
  <2>3. compute_modified_status_hash(IF blind THEN {} ELSE read[s], pending) \in Status
    BY <2>2, StatusType
  <2>4. KnownType'
    BY <1>3, <2>1, <2>2, <2>3, TellType DEF Reply
  <2>5. DoingType'
    BY <1>3, DoneType DEF Reply
  <2>6. ChannelType'
    BY <1>3, <2>1, <2>2 DEF Reply, Partial, channel, ChannelType
  <2>7. PoolType' /\ RelayType'
    BY <1>3 DEF Reply, PoolType, RelayType, pool, relaying, indexer
  <2>. QED
    BY <2>4, <2>5, <2>6, <2>7, TypePartsNext
<1>4. CASE Ack(s)
  <2>1. at[s] \in Txs
    BY <1>4 DEF Ack, DoingType
  <2>2. DoingType'
    BY <1>4, DoneType DEF Ack
  <2>3. PoolType'
    BY <1>4, <2>1 DEF Ack, PoolType, Job
  <2>4. ChannelType' /\ KnownType' /\ RelayType'
    BY <1>4 DEF Ack, ChannelType, KnownType, RelayType, known, relaying,
                indexer, channel, ghost
  <2>. QED
    BY <2>2, <2>3, <2>4, TypePartsNext
<1>5. CASE ReceiveLagged(s)
  <2>1. ChannelType'
    BY <1>5 DEF ReceiveLagged, ChannelType, ghost
  <2>2. DoingType' /\ PoolType' /\ KnownType' /\ RelayType'
    BY <1>5 DEF ReceiveLagged, DoingType, PoolType, KnownType, RelayType,
                pool, doing, known, relaying, indexer
  <2>. QED
    BY <2>1, <2>2, TypePartsNext
<1>6. CASE Receive(s)
  <2>1. PICK sh : sh = Head(queue[s])
    OBVIOUS
  <2>2. /\ queue[s] \in Seq(Scripthashes) /\ queue[s] # <<>> /\ Len(queue[s]) <= Capacity
        /\ queue' = [queue EXCEPT ![s] = Tail(@)]
    BY <1>6 DEF Receive, ChannelType
  <2>3. /\ sh \in Scripthashes /\ Tail(queue[s]) \in Seq(Scripthashes)
        /\ Len(Tail(queue[s])) = Len(queue[s]) - 1
    BY <2>1, <2>2
  <2>4. \/ /\ Doing(s, "push", sh, {<<t, "mempool">> : t \in PendingAt(sh)})
           /\ lost' = [lost EXCEPT ![s] = @ \ {sh}]
        \/ UNCHANGED <<doing, lost>>
    BY <1>6, <2>1 DEF Receive
  <2>5. {<<t, "mempool">> : t \in PendingAt(sh)} \in Status
    BY PendingType DEF Status, Entry
  <2>6. DoingType'
    <3>1. CASE Doing(s, "push", sh, {<<t, "mempool">> : t \in PendingAt(sh)})
      BY <2>3, <2>5, <3>1, DoingStepType DEF PC
    <3>2. CASE UNCHANGED doing
      BY <3>2 DEF doing, DoingType
    <3>. QED
      BY <2>4, <3>1, <3>2
  <2>7. ChannelType'
    <3>1. lost' \in [Sessions -> SUBSET Scripthashes]
      BY <2>4
    <3>2. queue' \in [Sessions -> Seq(Scripthashes)]
      BY <2>2, <2>3 DEF ChannelType
    <3>3. \A r \in Sessions : Len(queue'[r]) <= Capacity
      BY <2>2, <2>3 DEF ChannelType
    <3>. QED
      BY <1>6, <3>1, <3>2, <3>3 DEF Receive, ChannelType
  <2>8. PoolType' /\ KnownType' /\ RelayType'
    BY <1>6 DEF Receive, PoolType, KnownType, RelayType, pool, known, relaying, indexer
  <2>. QED
    BY <2>6, <2>7, <2>8, TypePartsNext
<1>7. CASE Push(s)
  <2>1. PICK sh, pending :
          /\ sh = at[s] /\ pending = Txids(read[s])
          /\ \/ /\ Tell(s, sh, compute_modified_status_hash(History(sh), pending))
                /\ missed' = Refreshed(s, sh)
             \/ /\ Tell(s, sh, compute_modified_status_hash({}, pending))
                /\ missed' = Partial(s, sh)
    BY <1>7 DEF Push
  <2>2. sh \in Scripthashes /\ {} \in Status /\ pending \subseteq Txs
    BY <1>7, <2>1, TxidsType DEF Push, DoingType, Status
  <2>3. /\ compute_modified_status_hash(History(sh), pending) \in Status
        /\ compute_modified_status_hash({}, pending) \in Status
    BY <2>2, StatusType, HistoryType
  <2>4. KnownType'
    BY <1>7, <2>1, <2>2, <2>3, TellType DEF Push
  <2>5. DoingType'
    BY <1>7, DoneType DEF Push
  <2>6. ChannelType'
    <3>1. missed' \in [Sessions -> SUBSET Scripthashes]
      BY <2>1, <2>2 DEF Partial, Refreshed
    <3>. QED
      BY <1>7, <3>1 DEF Push, channel, ChannelType
  <2>7. PoolType' /\ RelayType'
    BY <1>7 DEF Push, PoolType, RelayType, pool, relaying, indexer
  <2>. QED
    BY <2>4, <2>5, <2>6, <2>7, TypePartsNext
<1>. QED
  BY <1>1, <1>2, <1>3, <1>4, <1>5, <1>6, <1>7 DEF Session

LEMMA WalletStepType ==
    ASSUME TypeOK, NEW s \in Sessions, Wallet(s)
    PROVE  TypeOK'
<1>. ChannelType /\ DoingType /\ PoolType /\ KnownType /\ RelayType
  BY TypeParts
<1>. USE SubscriptionsAssumption
<1>. missed \in [Sessions -> SUBSET Scripthashes] /\ lost \in [Sessions -> SUBSET Scripthashes]
  BY DEF ChannelType
<1>1. ASSUME NEW sh \in Wanted, NEW method \in {"subscribe", "get_history"},
             Ask(s, sh, method)
      PROVE  TypeOK'
  <2>0. sh \in Scripthashes /\ {} \in Status
    BY DEF Status
  <2>1. CASE PendingAt(sh) # {}
    <3>1. /\ Tell(s, sh, compute_modified_status_hash({}, PendingAt(sh)))
          /\ missed' = Partial(s, sh)
          /\ lost' = [lost EXCEPT ![s] = @ \ {sh}]
          /\ UNCHANGED doing
      BY <1>1, <2>1 DEF Ask
    <3>2. compute_modified_status_hash({}, PendingAt(sh)) \in Status
      BY <2>0, PendingType, StatusType
    <3>3. ChannelType'
      BY <1>1, <2>0, <3>1 DEF Ask, Awake, Partial, ChannelType
    <3>4. KnownType'
      BY <1>1, <2>0, <3>1, <3>2 DEF Ask, track_scripthash_interest, Tell, KnownType
    <3>5. DoingType'
      BY <3>1 DEF doing, DoingType
    <3>. QED
      BY <1>1, <2>0, <3>3, <3>4, <3>5, TypePartsNext
      DEF Ask, track_scripthash_interest, PoolType, RelayType, pool, indexer
  <2>2. CASE PendingAt(sh) = {}
    <3>1. Doing(s, method, sh, {}) /\ UNCHANGED <<told, missed, lost>>
      BY <1>1, <2>2 DEF Ask
    <3>2. DoingType'
      BY <2>0, <3>1, DoingStepType DEF PC
    <3>3. ChannelType'
      BY <1>1, <3>1 DEF Ask, Awake, ChannelType
    <3>4. KnownType'
      BY <1>1, <2>0, <3>1 DEF Ask, track_scripthash_interest, KnownType
    <3>. QED
      BY <1>1, <2>0, <3>2, <3>3, <3>4, TypePartsNext
      DEF Ask, track_scripthash_interest, PoolType, RelayType, pool, indexer
  <2>. QED
    BY <2>1, <2>2
<1>2. ASSUME NEW t \in Txs, Broadcast(s, t) PROVE TypeOK'
  <2>1. DoingType'
    BY <1>2 DEF Broadcast, Doing, DoingType, PC, Status
  <2>2. ChannelType'
    BY <1>2 DEF Broadcast, Awake, store_pending_tx, ChannelType, KnownType
  <2>3. PoolType'
    BY <1>2 DEF Broadcast, store_pending_tx, PoolType, Threads
  <2>4. KnownType' /\ RelayType'
    BY <1>2 DEF Broadcast, KnownType, RelayType, known, relaying, indexer
  <2>. QED
    BY <2>1, <2>2, <2>3, <2>4, TypePartsNext
<1>3. CASE Wake(s)
  <2>1. ChannelType'
    BY <1>3 DEF Wake, Awake, ChannelType, ghost
  <2>2. DoingType' /\ PoolType' /\ KnownType' /\ RelayType'
    BY <1>3 DEF Wake, DoingType, PoolType, KnownType, RelayType,
                pool, doing, known, relaying, indexer
  <2>. QED
    BY <2>1, <2>2, TypePartsNext
<1>4. CASE Reconnect(s)
  <2>1. ChannelType'
    BY <1>4 DEF Reconnect, ChannelType
  <2>2. KnownType'
    BY <1>4 DEF Reconnect, KnownType
  <2>3. DoingType' /\ PoolType' /\ RelayType'
    BY <1>4 DEF Reconnect, DoingType, PoolType, RelayType, pool, doing, relaying, indexer
  <2>. QED
    BY <2>1, <2>2, <2>3, TypePartsNext
<1>. QED
  BY <1>1, <1>2, <1>3, <1>4 DEF Wallet

LEMMA SystemStepType ==
    ASSUME TypeOK,
           \/ \E th \in Threads : Announce(th)
           \/ Relay \/ RelayDrop \/ Restart
           \/ \E t \in Txs : Index(t)
    PROVE  TypeOK'
<1>. ChannelType /\ DoingType /\ PoolType /\ KnownType /\ RelayType
  BY TypeParts
<1>. USE SubscriptionsAssumption
<1>1. ASSUME NEW th \in Threads, Announce(th) PROVE TypeOK'
  <2>1. PICK sh \in owed[th] : Send(sh) /\ owed' = [owed EXCEPT ![th] = @ \ {sh}]
    BY <1>1 DEF Announce
  <2>2. sh \in Scripthashes
    BY DEF PoolType
  <2>3. ChannelType'
    BY <2>1, <2>2, SendType
  <2>4. PoolType'
    BY <1>1, <2>1 DEF Announce, PoolType
  <2>5. DoingType' /\ KnownType' /\ RelayType'
    BY <1>1 DEF Announce, DoingType, KnownType, RelayType, doing, known, relaying, indexer
  <2>. QED
    BY <2>3, <2>4, <2>5, TypePartsNext
<1>2. CASE RelayRead
  <2>1. PICK sh \in wire : Send(sh) /\ wire' = wire \ {sh}
    BY <1>2 DEF RelayRead
  <2>2. sh \in Scripthashes
    BY DEF RelayType
  <2>3. ChannelType'
    BY <2>1, <2>2, SendType
  <2>4. RelayType'
    BY <1>2, <2>1 DEF RelayRead, RelayStep, RelayType
  <2>5. DoingType' /\ PoolType' /\ KnownType'
    BY <1>2 DEF RelayRead, RelayStep, DoingType, KnownType, PoolType, doing, known, pool
  <2>. QED
    BY <2>3, <2>4, <2>5, TypePartsNext
<1>3. CASE RelayConnect \/ RelayTick \/ IndexerSubscribes
  <2>1. RelayStep /\ UNCHANGED <<channel, wire, chain, ghost>>
    BY <1>3 DEF RelayConnect, RelayTick, IndexerSubscribes, indexer
  <2>2. ChannelType' /\ DoingType' /\ PoolType' /\ KnownType'
    BY <2>1 DEF RelayStep, ChannelType, DoingType, KnownType, PoolType,
                channel, ghost, doing, known, pool
  <2>3. RelayType'
    BY <1>3, <2>1 DEF RelayConnect, RelayTick, IndexerSubscribes, RelayStep, RelayType, indexer
  <2>. QED
    BY <2>2, <2>3, TypePartsNext
<1>4. CASE RelayDrop
  <2>1. ChannelType'
    BY <1>4 DEF RelayDrop, ChannelType, KnownType, channel
  <2>2. DoingType' /\ PoolType' /\ KnownType' /\ RelayType'
    BY <1>4 DEF RelayDrop, RelayStep, DoingType, KnownType, PoolType, RelayType, doing, known, pool
  <2>. QED
    BY <2>1, <2>2, TypePartsNext
<1>5. CASE Restart
  <2>1. ChannelType'
    BY <1>5 DEF Restart, ChannelType
  <2>2. DoingType'
    BY <1>5 DEF Restart, DoingType, PC, Status
  <2>3. PoolType'
    BY <1>5 DEF Restart, PoolType, Row, Job
  <2>4. KnownType' /\ RelayType'
    BY <1>5 DEF Restart, KnownType, RelayType
  <2>. QED
    BY <2>1, <2>2, <2>3, <2>4, TypePartsNext
<1>6. ASSUME NEW t \in Txs, Index(t) PROVE TypeOK'
  <2>1. Touches(t) \subseteq Scripthashes
    BY DEF Touches
  <2>2. ChannelType'
    BY <1>6, <2>1 DEF Index, ChannelType, KnownType, channel
  <2>3. RelayType'
    BY <1>6, <2>1 DEF Index, RelayType, relaying
  <2>4. DoingType' /\ PoolType' /\ KnownType'
    BY <1>6 DEF Index, DoingType, PoolType, KnownType, doing, pool, known
  <2>. QED
    BY <2>2, <2>3, <2>4, TypePartsNext
<1>. QED
  BY <1>1, <1>2, <1>3, <1>4, <1>5, <1>6 DEF Relay

LEMMA TypeStep == TypeOK /\ [Next]_vars => TypeOK'
<1>1. ASSUME TypeOK, Next PROVE TypeOK'
  BY <1>1, PoolStepType, SessionStepType, WalletStepType, SystemStepType DEF Next
<1>2. ASSUME TypeOK, UNCHANGED vars PROVE TypeOK'
  <2>1. ChannelType' /\ DoingType' /\ PoolType' /\ KnownType' /\ RelayType'
    BY <1>2, TypeParts DEF vars, pool, doing, channel, known, relaying, indexer, ghost,
       ChannelType, DoingType, PoolType, KnownType, RelayType
  <2>. QED
    BY <2>1, TypePartsNext
<1>. QED
  BY <1>1, <1>2

\* Every variable keeps the kind of value the program gives it, for every
\* number of wallets, transactions and scripthashes: in particular no receiver
\* ever holds more messages than the channel retains
\* (scripthash_notifications, electrum_server/mod.rs), and a session that is
\* answering knows what about.
THEOREM TypeCorrect == Spec => []TypeOK
<1>. QED
  BY TypeInit, TypeStep, PTL DEF Spec

-----------------------------------------------------------------------------
(* The relay.                                                               *)

LEMMA RelayHolds == RelayHoldsItsSet /\ [Next]_vars => RelayHoldsItsSet'
<1>. SUFFICES ASSUME RelayHoldsItsSet, [Next]_vars PROVE RelayHoldsItsSet'
  OBVIOUS
<1>1. CASE UNCHANGED <<relay, subscribed, asked, upstream>>
  BY <1>1 DEF RelayHoldsItsSet
<1>2. CASE RelayConnect
  BY <1>2 DEF RelayConnect, RelayHoldsItsSet
<1>3. CASE RelayTick
  BY <1>3 DEF RelayTick, RelayHoldsItsSet, indexer
<1>4. CASE IndexerSubscribes
  BY <1>4 DEF IndexerSubscribes, RelayHoldsItsSet
<1>5. CASE RelayDrop \/ Restart
  BY <1>5 DEF RelayDrop, Restart, RelayHoldsItsSet
<1>6. ASSUME NEW s \in Sessions, Session(s)
      PROVE  UNCHANGED <<relay, subscribed, asked, upstream>>
  BY <1>6 DEF Session, Forward, ForwardFails, Reply, Ack, ReceiveLagged, Receive,
              Push, relaying, indexer
<1>7. ASSUME NEW s \in Sessions, Wallet(s)
      PROVE  UNCHANGED <<relay, subscribed, asked, upstream>>
  BY <1>7 DEF Wallet, Ask, Broadcast, Wake, Reconnect, relaying, indexer
<1>8. ASSUME NEW t \in Txs, Pool(t)
      PROVE  UNCHANGED <<relay, subscribed, asked, upstream>>
  BY <1>8 DEF Pool, Insert, InsertFails, StoreAgain, Enrich, Emit, mark_broadcast,
              remove_transaction, notify_tx_confirmed, PoolStep, relaying, indexer
<1>9. ASSUME NEW t \in Txs, Index(t)
      PROVE  UNCHANGED <<relay, subscribed, asked, upstream>>
  BY <1>9 DEF Index, relaying
<1>10. ASSUME NEW th \in Threads, Announce(th)
       PROVE  UNCHANGED <<relay, subscribed, asked, upstream>>
  BY <1>10 DEF Announce, relaying, indexer
<1>11. CASE RelayRead
  BY <1>11, <1>1 DEF RelayRead
<1>12. CASE UNCHANGED vars
  BY <1>12, <1>1 DEF vars, relaying, indexer
<1>. QED
  BY <1>1, <1>2, <1>3, <1>4, <1>5, <1>6, <1>7, <1>8, <1>9, <1>10, <1>11, <1>12
  DEF Next, Relay

\* What run_indexer_subscription_relay takes for subscribed is held by the
\* indexer or the request is on its way, over every order of ticks, drops and
\* reconnections: the set is emptied with each new connection ("on reconnect
\* everything must be re-sent").
THEOREM RelayKeepsItsWord == Spec => []RelayHoldsItsSet
<1>1. Init => RelayHoldsItsSet
  BY DEF Init, RelayHoldsItsSet
<1>. QED
  BY <1>1, RelayHolds, PTL DEF Spec
-----------------------------------------------------------------------------
(* The background work of a transaction.                                    *)

LEMMA JobsFrame ==
    ASSUME JobsOrdered, UNCHANGED <<job, owed>>,
           \A s \in Sessions : \/ pc'[s] = pc[s] /\ at'[s] = at[s]
                               \/ pc'[s] # "ack"
    PROVE  JobsOrdered'
  BY DEF JobsOrdered

LEMMA JobsPool ==
    ASSUME TypeOK, JobsOrdered, NEW t \in Txs, Pool(t)
    PROVE  JobsOrdered'
<1>. USE SubscriptionsAssumption DEF JobsOrdered
<1>. PoolType /\ DoingType
  BY TypeParts
<1>. t \in Threads
  BY DEF Threads
<1>1. UNCHANGED <<pc, at>>
  BY DEF Pool, Insert, InsertFails, StoreAgain, Enrich, Emit, mark_broadcast,
         remove_transaction, notify_tx_confirmed, PoolStep, doing
<1>2. CASE Insert(t) \/ InsertFails(t) \/ Emit(t)
  BY <1>1, <1>2 DEF Insert, InsertFails, Emit, PoolType, DoingType
<1>3. CASE StoreAgain(t) \/ Enrich(t)
  <2>1. /\ job[t] \in {"store", "enrich"} /\ job'[t] \in {"enrich", "idle"}
        /\ \A u \in Txs \ {t} : job'[u] = job[u] /\ owed'[u] = owed[u]
    BY <1>3 DEF StoreAgain, Enrich, store_pending_tx, merge_pending_scripthashes,
       PoolType, Threads
  <2>2. \A s \in Sessions : pc[s] = "ack" => at[s] \in Txs \ {t}
    BY <2>1 DEF DoingType
  <2>. QED
    BY <1>1, <2>1, <2>2
<1>4. ASSUME NEW w \in Workers,
             mark_broadcast(w, t) \/ remove_transaction(w, t) \/ notify_tx_confirmed(w, t)
      PROVE  JobsOrdered'
  <2>1. UNCHANGED job /\ \A u \in Txs : owed'[u] = owed[u]
    BY <1>4 DEF mark_broadcast, remove_transaction, remove_pending_tx,
                notify_tx_confirmed, PoolType, Threads
  <2>. QED
    BY <1>1, <2>1 DEF DoingType
<1>. QED
  BY <1>2, <1>3, <1>4 DEF Pool

LEMMA JobsStep ==
    ASSUME TypeOK, JobsOrdered, Next
    PROVE  JobsOrdered'
<1>. USE SubscriptionsAssumption
<1>. PoolType /\ DoingType
  BY TypeParts
<1>1. ASSUME NEW s \in Sessions, Ack(s) PROVE JobsOrdered'
  <2>1. PICK t \in Txs : t = at[s]
    BY <1>1 DEF Ack, DoingType
  <2>2. /\ pc[s] = "ack" /\ owed' = owed
        /\ job' = [job EXCEPT ![t] = "insert"]
        /\ pc' = [pc EXCEPT ![s] = "idle"] /\ at' = [at EXCEPT ![s] = None]
    BY <1>1, <2>1 DEF Ack, Done, Doing
  <2>3. \A r \in Sessions \ {s} : pc[r] = "ack" => at[r] \in Txs \ {t}
    BY <2>1, <2>2 DEF JobsOrdered, DoingType
  <2>. QED
    BY <2>1, <2>2, <2>3 DEF JobsOrdered, PoolType, DoingType
<1>2. ASSUME NEW s \in Sessions, NEW t \in Txs, Broadcast(s, t) PROVE JobsOrdered'
  <2>1. /\ UNCHANGED job /\ job[t] = "idle" /\ owed[t] = {}
        /\ \A u \in Txs : owed'[u] = owed[u]
    BY <1>2 DEF Broadcast, store_pending_tx, Free, PoolType, Threads
  <2>2. /\ pc' = [pc EXCEPT ![s] = "ack"] /\ at' = [at EXCEPT ![s] = t]
        /\ \A r \in Sessions : at[r] # t
    BY <1>2 DEF Broadcast, Doing
  <2>. QED
    BY <2>1, <2>2 DEF JobsOrdered, DoingType
<1>3. ASSUME NEW s \in Sessions, Session(s), ~Ack(s) PROVE JobsOrdered'
  <2>1. UNCHANGED <<job, owed>>
    BY <1>3 DEF Session, Forward, ForwardFails, Reply, ReceiveLagged, Receive, Push, pool
  <2>2. ASSUME NEW r \in Sessions
        PROVE  (pc'[r] = pc[r] /\ at'[r] = at[r]) \/ pc'[r] # "ack"
    BY <1>3 DEF Session, Forward, ForwardFails, Reply, ReceiveLagged, Receive, Push,
       Done, Doing, doing, DoingType, PC
  <2>. QED
    BY <2>1, <2>2, JobsFrame
<1>4. ASSUME NEW s \in Sessions, Wallet(s), \A t \in Txs : ~Broadcast(s, t)
      PROVE  JobsOrdered'
  <2>1. UNCHANGED <<job, owed>>
    BY <1>4 DEF Wallet, Ask, Wake, Reconnect, pool
  <2>2. ASSUME NEW r \in Sessions
        PROVE  (pc'[r] = pc[r] /\ at'[r] = at[r]) \/ pc'[r] # "ack"
    BY <1>4 DEF Wallet, Ask, Wake, Reconnect, Doing, doing, DoingType, PC
  <2>. QED
    BY <2>1, <2>2, JobsFrame
<1>5. ASSUME NEW th \in Threads, Announce(th) PROVE JobsOrdered'
  <2>1. UNCHANGED <<job, pc, at>> /\ \A u \in Txs : owed'[u] \subseteq owed[u]
    BY <1>5 DEF Announce, doing, PoolType, Threads
  <2>. QED
    BY <2>1 DEF JobsOrdered, DoingType
<1>6. CASE Relay \/ RelayDrop
  <2>1. UNCHANGED <<job, owed, pc, at>>
    BY <1>6 DEF Relay, RelayDrop, RelayConnect, RelayTick, IndexerSubscribes,
                RelayRead, RelayStep, pool, doing
  <2>. QED
    BY <2>1, JobsFrame
<1>7. ASSUME NEW t \in Txs, Index(t) PROVE JobsOrdered'
  BY <1>7, JobsFrame DEF Index, pool, doing
<1>8. CASE Restart
  <2>1. \A s \in Sessions : pc'[s] # "ack"
    BY <1>8 DEF Restart
  <2>2. \A t \in Txs : job'[t] = "idle"
    BY <1>8 DEF Restart
  <2>. QED
    BY <2>1, <2>2 DEF JobsOrdered
<1>. QED
  BY <1>1, <1>2, <1>3, <1>4, <1>5, <1>6, <1>7, <1>8, JobsPool DEF Next

-----------------------------------------------------------------------------
(* The steps that leave a session alone.                                    *)

\* What a step may do around session s: whatever changes about a scripthash
\* it subscribes to is announced, or is known to have escaped it.
StepFrame(s) ==
    /\ told'[s] = told[s]
    /\ subscribed_scripthashes'[s] = subscribed_scripthashes[s]
    /\ \A t \in Txs : chain[t] # "unseen" => chain'[t] # "unseen"
    /\ \A sh \in subscribed_scripthashes[s] :
         /\ Quiet(s, sh)' => Quiet(s, sh) /\ PendingAt(sh)' = PendingAt(sh)
         /\ Covered(s, sh)' => Covered(s, sh) /\ History(sh)' = History(sh)

\* The session goes on with what it was doing, or had read nothing and stops.
Untouched(s) ==
    \/ pc'[s] = pc[s] /\ at'[s] = at[s] /\ read'[s] = read[s]
    \/ ~Answering(s) /\ pc'[s] \in {"idle", "ack"}

LEMMA FrameInformed ==
    ASSUME TypeOK, TypeOK', NEW s \in Sessions, Informed(s), StepFrame(s), Untouched(s)
    PROVE  Informed(s)'
<1>. DoingType /\ KnownType /\ RelayType
  BY TypeParts
<1>0. ASSUME NEW sh \in Scripthashes
      PROVE  /\ (told[s][sh] # Untold) <=> (told'[s][sh] # Untold)
             /\ told'[s][sh] = told[s][sh]
             /\ told[s][sh] # Untold =>
                    /\ sh \in subscribed_scripthashes[s]
                    /\ \A t \in Txids(told[s][sh]) : t \in Txs
  <2>1. told[s][sh] # Untold => told[s][sh] \in Status
    BY DEF KnownType
  <2>. QED
    BY <2>1, TxidsType DEF StepFrame, Informed, Interested
<1>1. Answering(s)' => Answering(s) /\ pc'[s] = pc[s] /\ at'[s] = at[s] /\ read'[s] = read[s]
  BY DEF Untouched, Answering
<1>2. ASSUME NEW sh \in Scripthashes, ~(Answering(s) /\ at[s] = sh)' 
      PROVE  ~(Answering(s) /\ at[s] = sh)
  BY <1>2 DEF Untouched, Answering
<1>3. Interested(s)'
  BY <1>0 DEF Informed, Interested, StepFrame, Untouched, Asking, Answering
<1>4. ToldPool(s)'
  <2>. SUFFICES ASSUME NEW sh \in Scripthashes, told'[s][sh] # Untold, Quiet(s, sh)',
                       ~(Answering(s) /\ at[s] = sh)'
                PROVE  /\ PendingAt(sh)' \subseteq Txids(told'[s][sh])
                       /\ \A t \in Txids(told'[s][sh]) \ PendingAt(sh)' :
                            chain'[t] # "unseen"
    BY DEF ToldPool, Txids
  <2>1. sh \in subscribed_scripthashes[s] /\ told[s][sh] # Untold
    BY <1>0
  <2>2. Quiet(s, sh) /\ PendingAt(sh)' = PendingAt(sh)
    BY <2>1 DEF StepFrame
  <2>3. /\ PendingAt(sh) \subseteq Txids(told[s][sh])
        /\ \A t \in Txids(told[s][sh]) \ PendingAt(sh) : chain[t] # "unseen"
    BY <1>2, <2>1, <2>2 DEF Informed, ToldPool
  <2>. QED
    BY <1>0, <2>1, <2>2, <2>3 DEF StepFrame
<1>5. ToldStatus(s)'
  <2>. SUFFICES ASSUME NEW sh \in Scripthashes, told'[s][sh] # Untold, Quiet(s, sh)',
                       Covered(s, sh)', ~(Answering(s) /\ at[s] = sh)'
                PROVE  told'[s][sh] = CurrentStatus(sh)'
    BY DEF ToldStatus
  <2>1. sh \in subscribed_scripthashes[s] /\ told[s][sh] # Untold
    BY <1>0
  <2>2. /\ Quiet(s, sh) /\ PendingAt(sh)' = PendingAt(sh)
        /\ Covered(s, sh) /\ History(sh)' = History(sh)
    BY <2>1 DEF StepFrame
  <2>3. told[s][sh] = CurrentStatus(sh)
    BY <1>2, <2>1, <2>2 DEF Informed, ToldStatus
  <2>4. CurrentStatus(sh)' = CurrentStatus(sh)
    BY <2>2 DEF CurrentStatus, inject_in_history, Txids
  <2>. QED
    BY <1>0, <2>3, <2>4
<1>6. PushReads(s)'
  <2>. SUFFICES ASSUME NEW sh \in Scripthashes, pc'[s] = "push", at'[s] = sh, Quiet(s, sh)'
                PROVE  Txids(read'[s]) = PendingAt(sh)'
    BY DEF PushReads, Txids
  <2>1. /\ pc[s] = "push" /\ at[s] = sh /\ read'[s] = read[s]
        /\ sh \in subscribed_scripthashes[s]
    BY <1>1 DEF Answering, Informed, Interested
  <2>. QED
    BY <2>1 DEF StepFrame, Informed, PushReads
<1>7. ReplyReads(s)'
  <2>. SUFFICES ASSUME Answering(s)', pc'[s] # "push"
                PROVE  /\ \A e \in read'[s] : e[1] \in Txs /\ chain'[e[1]] # "unseen"
                       /\ \A sh \in Scripthashes :
                            at'[s] = sh /\ Covered(s, sh)' => read'[s] = History(sh)'
    BY DEF ReplyReads
  <2>1. /\ Answering(s) /\ pc[s] # "push" /\ at'[s] = at[s] /\ read'[s] = read[s]
        /\ at[s] \in subscribed_scripthashes[s]
    BY <1>1 DEF Informed, Interested
  <2>. QED
    BY <2>1 DEF StepFrame, Informed, ReplyReads
<1>. QED
  BY <1>3, <1>4, <1>5, <1>6, <1>7 DEF Informed
\* A message sent is queued for everyone; one that was overwritten for it is
\* known to be lost.
LEMMA SendQueues ==
    ASSUME ChannelType, NEW sh \in Scripthashes, Send(sh), NEW s \in Sessions
    PROVE  /\ Queued(s, sh)'
           /\ lost[s] \subseteq lost'[s] /\ missed[s] \subseteq missed'[s]
           /\ \A x \in subscribed_scripthashes[s] :
                Queued(s, x) => \/ Queued(s, x)'
                                \/ x \in lost'[s] /\ x \in missed'[s]
<1>. USE SubscriptionsAssumption
<1>. DEFINE q == queue[s]
            full == Len(q) >= Capacity
<1>0. q \in Seq(Scripthashes) /\ Len(q) <= Capacity
  BY DEF ChannelType
<1>1. CASE full
  <2>1. /\ queue'[s] = Append(Tail(q), sh)
        /\ lost'[s] = lost[s] \union ({Head(q)} \intersect subscribed_scripthashes[s])
        /\ missed'[s] = missed[s] \union ({Head(q)} \intersect subscribed_scripthashes[s])
    BY <1>1 DEF Send, ChannelType
  <2>2. /\ q # <<>> /\ Len(Tail(q)) = Len(q) - 1 /\ Head(q) = q[1]
        /\ Tail(q) \in Seq(Scripthashes)
        /\ \A n \in 1 .. Len(q) - 1 : Tail(q)[n] = q[n + 1]
    BY <1>0, <1>1
  <2>3. /\ Len(queue'[s]) = Len(q) /\ queue'[s][Len(q)] = sh
        /\ \A n \in 1 .. Len(q) - 1 : queue'[s][n] = q[n + 1]
    BY <2>1, <2>2
  <2>4. Queued(s, sh)'
    BY <1>0, <1>1, <2>3 DEF Queued
  <2>5. ASSUME NEW x \in subscribed_scripthashes[s], Queued(s, x)
        PROVE  Queued(s, x)' \/ (x \in lost'[s] /\ x \in missed'[s])
    <3>1. PICK n \in 1 .. Len(q) : q[n] = x
      BY <2>5 DEF Queued
    <3>2. CASE n = 1
      BY <2>1, <2>2, <3>1, <3>2
    <3>3. CASE n # 1
      <4>1. n - 1 \in 1 .. Len(q) - 1 /\ n - 1 \in 1 .. Len(q)
        BY <1>0, <3>3
      <4>2. queue'[s][n - 1] = x
        BY <2>3, <3>1, <4>1
      <4>. QED
        BY <2>3, <4>1, <4>2 DEF Queued
    <3>. QED
      BY <3>2, <3>3
  <2>. QED
    BY <2>1, <2>4, <2>5
<1>2. CASE ~full
  <2>1. /\ queue'[s] = Append(q, sh)
        /\ lost'[s] = lost[s] /\ missed'[s] = missed[s]
    BY <1>2 DEF Send, ChannelType
  <2>2. /\ Len(queue'[s]) = Len(q) + 1 /\ queue'[s][Len(q) + 1] = sh
        /\ \A n \in 1 .. Len(q) : queue'[s][n] = q[n]
    BY <1>0, <2>1
  <2>3. Queued(s, sh)'
    BY <1>0, <2>2 DEF Queued
  <2>4. \A x : Queued(s, x) => Queued(s, x)'
    BY <1>0, <2>2 DEF Queued
  <2>. QED
    BY <2>1, <2>3, <2>4
<1>. QED
  BY <1>1, <1>2

\* The parts of the frame, each from the variables it reads.
LEMMA HistoryKept == ASSUME NEW sh, UNCHANGED chain PROVE History(sh)' = History(sh)
  BY DEF History

LEMMA PendingKept ==
    ASSUME NEW sh, UNCHANGED pending_txs PROVE PendingAt(sh)' = PendingAt(sh)
  BY DEF PendingAt

\* A step of the pool announces whatever it changes in the map.
MapFrame(s) ==
    \A sh \in subscribed_scripthashes[s] :
        /\ Owed(sh) => Owed(sh)'
        /\ PendingAt(sh)' # PendingAt(sh) => Owed(sh)' \/ sh \in lost'[s]

LEMMA StoreFrame ==
    ASSUME TypeOK, NEW th \in Threads, NEW t \in Txs, owed[th] = {},
           store_pending_tx(th, t), NEW s \in Sessions
    PROVE  MapFrame(s) /\ lost[s] \subseteq lost'[s]
<1>. PoolType /\ ChannelType /\ KnownType
  BY TypeParts
<1>1. /\ pending_txs' = [pending_txs EXCEPT ![t] = OutputsOf[t]]
      /\ owed' = [owed EXCEPT ![th] = OutputsOf[t]]
      /\ lost'[s] = lost[s] \union
           (subscribed_scripthashes[s] \intersect (pending_txs[t] \ OutputsOf[t]))
  BY DEF store_pending_tx
<1>2. ASSUME NEW sh, Owed(sh) PROVE Owed(sh)'
  BY <1>1, <1>2 DEF Owed, PoolType
<1>3. ASSUME NEW sh \in subscribed_scripthashes[s], PendingAt(sh)' # PendingAt(sh)
      PROVE  Owed(sh)' \/ sh \in lost'[s]
  <2>1. (sh \in pending_txs[t]) # (sh \in OutputsOf[t])
    BY <1>1, <1>3 DEF PendingAt, PoolType
  <2>2. CASE sh \in OutputsOf[t]
    BY <1>1, <2>2 DEF Owed, PoolType
  <2>. QED
    BY <1>1, <2>1, <2>2
<1>. QED
  BY <1>1, <1>2, <1>3 DEF MapFrame

LEMMA RemoveFrame ==
    ASSUME TypeOK, NEW th \in Threads, NEW t \in Txs, owed[th] = {},
           remove_pending_tx(th, t), NEW s \in Sessions
    PROVE  MapFrame(s)
<1>. PoolType
  BY TypeParts
<1>1. /\ pending_txs' = [pending_txs EXCEPT ![t] = {}]
      /\ owed' = [owed EXCEPT ![th] = pending_txs[t]]
  BY DEF remove_pending_tx
<1>2. ASSUME NEW sh, Owed(sh) PROVE Owed(sh)'
  BY <1>1, <1>2 DEF Owed, PoolType
<1>3. ASSUME NEW sh, PendingAt(sh)' # PendingAt(sh) PROVE Owed(sh)'
  <2>1. sh \in pending_txs[t]
    BY <1>1, <1>3 DEF PendingAt, PoolType
  <2>. QED
    BY <1>1, <2>1 DEF Owed, PoolType
<1>. QED
  BY <1>2, <1>3 DEF MapFrame

LEMMA MergeFrame ==
    ASSUME TypeOK, NEW th \in Threads, NEW t \in Txs, owed[th] = {}, NEW extra,
           merge_pending_scripthashes(th, t, extra), NEW s \in Sessions
    PROVE  MapFrame(s)
<1>. PoolType
  BY TypeParts
<1>1. CASE pending_txs[t] = {}
  BY <1>1 DEF merge_pending_scripthashes, MapFrame, Owed, PendingAt
<1>2. CASE pending_txs[t] # {}
  <2>1. /\ pending_txs' = [pending_txs EXCEPT ![t] = @ \union extra]
        /\ owed' = [owed EXCEPT ![th] = extra \ pending_txs[t]]
    BY <1>2 DEF merge_pending_scripthashes
  <2>2. ASSUME NEW sh, Owed(sh) PROVE Owed(sh)'
    BY <2>1, <2>2 DEF Owed, PoolType
  <2>3. ASSUME NEW sh, PendingAt(sh)' # PendingAt(sh) PROVE Owed(sh)'
    <3>1. sh \in extra \ pending_txs[t]
      BY <2>1, <2>3 DEF PendingAt, PoolType
    <3>. QED
      BY <2>1, <3>1 DEF Owed, PoolType
  <2>. QED
    BY <2>2, <2>3 DEF MapFrame
<1>. QED
  BY <1>1, <1>2

\* A step that touches only the map and what is owed around session s.
LEMMA MapStepFrame ==
    ASSUME NEW s \in Sessions, MapFrame(s), lost[s] \subseteq lost'[s],
           told'[s] = told[s],
           subscribed_scripthashes'[s] = subscribed_scripthashes[s],
           UNCHANGED <<chain, wire>>, queue'[s] = queue[s], missed'[s] = missed[s]
    PROVE  StepFrame(s)
<1>1. ASSUME NEW sh \in subscribed_scripthashes[s], Quiet(s, sh)'
      PROVE  Quiet(s, sh) /\ PendingAt(sh)' = PendingAt(sh)
  <2>1. ~Queued(s, sh)' /\ ~Owed(sh)' /\ sh \notin lost'[s]
    BY <1>1 DEF Quiet
  <2>2. ~Queued(s, sh)
    BY <2>1 DEF Queued
  <2>. QED
    BY <2>1, <2>2 DEF Quiet, MapFrame
<1>2. ASSUME NEW sh \in subscribed_scripthashes[s], Covered(s, sh)'
      PROVE  Covered(s, sh) /\ History(sh)' = History(sh)
  BY <1>2, HistoryKept DEF Covered, Queued
<1>. QED
  BY <1>1, <1>2 DEF StepFrame

LEMMA PoolStepInformed ==
    ASSUME TypeOK, TypeOK', JobsOrdered, NEW t \in Txs, Pool(t),
           NEW s \in Sessions, Informed(s)
    PROVE  Informed(s)'
<1>. t \in Threads
  BY DEF Threads
<1>1. PoolStep
  BY DEF Pool, Insert, InsertFails, StoreAgain, Enrich, Emit, mark_broadcast,
         remove_transaction, notify_tx_confirmed
<1>2. MapFrame(s) /\ lost[s] \subseteq lost'[s]
  <2>1. CASE Insert(t) \/ InsertFails(t) \/ Emit(t)
    BY <2>1, PendingKept DEF Insert, InsertFails, Emit, MapFrame, Owed
  <2>2. CASE StoreAgain(t)
    BY <2>2, StoreFrame DEF StoreAgain, JobsOrdered
  <2>3. CASE Enrich(t)
    BY <2>3, MergeFrame DEF Enrich, Free
  <2>4. ASSUME NEW w \in Workers, mark_broadcast(w, t) \/ remove_transaction(w, t)
        PROVE  MapFrame(s) /\ lost[s] \subseteq lost'[s]
    BY <2>4, RemoveFrame DEF mark_broadcast, remove_transaction, Free, Threads
  <2>5. ASSUME NEW w \in Workers, notify_tx_confirmed(w, t)
        PROVE  MapFrame(s) /\ lost[s] \subseteq lost'[s]
    <3>1. PICK found : owed' = [owed EXCEPT ![w] = found]
      BY <2>5 DEF notify_tx_confirmed
    <3>2. owed[w] = {} /\ UNCHANGED <<pending_txs, lost>>
      BY <2>5 DEF notify_tx_confirmed, Free
    <3>3. owed \in [Threads -> SUBSET Scripthashes]
      BY DEF TypeOK
    <3>4. \A sh : Owed(sh) => Owed(sh)'
      BY <3>1, <3>2, <3>3 DEF Owed
    <3>. QED
      BY <3>2, <3>4, PendingKept DEF MapFrame
  <2>. QED
    BY <2>1, <2>2, <2>3, <2>4, <2>5 DEF Pool
<1>3. StepFrame(s)
  BY <1>1, <1>2, MapStepFrame DEF PoolStep, channel, known, indexer
<1>4. Untouched(s)
  BY <1>1 DEF PoolStep, doing, Untouched
<1>. QED
  BY <1>3, <1>4, FrameInformed

LEMMA AnnounceInformed ==
    ASSUME TypeOK, TypeOK', NEW th \in Threads, Announce(th),
           NEW s \in Sessions, Informed(s)
    PROVE  Informed(s)'
<1>. ChannelType /\ PoolType
  BY TypeParts
<1>1. PICK sent \in owed[th] : Send(sent) /\ owed' = [owed EXCEPT ![th] = @ \ {sent}]
  BY DEF Announce
<1>2. sent \in Scripthashes
  BY DEF PoolType
<1>3. /\ Queued(s, sent)'
      /\ lost[s] \subseteq lost'[s] /\ missed[s] \subseteq missed'[s]
      /\ \A x \in subscribed_scripthashes[s] :
           Queued(s, x) => Queued(s, x)' \/ (x \in lost'[s] /\ x \in missed'[s])
  BY <1>1, <1>2, SendQueues
<1>4. ASSUME NEW x, x # sent, Owed(x) PROVE Owed(x)'
  BY <1>1, <1>4 DEF Owed, PoolType
<1>5. UNCHANGED <<pending_txs, doing, known, indexer>>
  BY DEF Announce
<1>6. ASSUME NEW sh \in subscribed_scripthashes[s], Quiet(s, sh)'
      PROVE  Quiet(s, sh) /\ PendingAt(sh)' = PendingAt(sh)
  <2>1. ~Queued(s, sh)' /\ ~Owed(sh)' /\ sh \notin lost'[s]
    BY <1>6 DEF Quiet
  <2>2. sh # sent
    BY <1>3, <2>1
  <2>. QED
    BY <1>3, <1>4, <1>5, <2>1, <2>2, PendingKept DEF Quiet
<1>7. ASSUME NEW sh \in subscribed_scripthashes[s], Covered(s, sh)'
      PROVE  Covered(s, sh) /\ History(sh)' = History(sh)
  <2>1. ~Queued(s, sh)' /\ sh \notin missed'[s] \union wire'
    BY <1>7 DEF Covered
  <2>. QED
    BY <1>3, <1>5, <2>1, HistoryKept DEF Covered, indexer
<1>8. StepFrame(s)
  BY <1>5, <1>6, <1>7 DEF StepFrame, known, indexer
<1>9. Untouched(s)
  BY <1>5 DEF doing, Untouched
<1>. QED
  BY <1>8, <1>9, FrameInformed

LEMMA RelayReadInformed ==
    ASSUME TypeOK, TypeOK', RelayRead, NEW s \in Sessions, Informed(s)
    PROVE  Informed(s)'
<1>. ChannelType /\ RelayType
  BY TypeParts
<1>1. PICK sent \in wire : Send(sent) /\ wire' = wire \ {sent}
  BY DEF RelayRead
<1>2. sent \in Scripthashes
  BY DEF RelayType
<1>3. /\ Queued(s, sent)'
      /\ lost[s] \subseteq lost'[s] /\ missed[s] \subseteq missed'[s]
      /\ \A x \in subscribed_scripthashes[s] :
           Queued(s, x) => Queued(s, x)' \/ (x \in lost'[s] /\ x \in missed'[s])
  BY <1>1, <1>2, SendQueues
<1>4. UNCHANGED <<pending_txs, owed, doing, known, chain>>
  BY DEF RelayRead, RelayStep, pool
<1>5. ASSUME NEW x PROVE Owed(x)' <=> Owed(x)
  BY <1>4 DEF Owed
<1>6. ASSUME NEW sh \in subscribed_scripthashes[s], Quiet(s, sh)'
      PROVE  Quiet(s, sh) /\ PendingAt(sh)' = PendingAt(sh)
  <2>1. ~Queued(s, sh)' /\ ~Owed(sh)' /\ sh \notin lost'[s]
    BY <1>6 DEF Quiet
  <2>. QED
    BY <1>3, <1>4, <1>5, <2>1, PendingKept DEF Quiet
<1>7. ASSUME NEW sh \in subscribed_scripthashes[s], Covered(s, sh)'
      PROVE  Covered(s, sh) /\ History(sh)' = History(sh)
  <2>1. ~Queued(s, sh)' /\ sh \notin missed'[s] \union wire'
    BY <1>7 DEF Covered
  <2>2. sh # sent
    BY <1>3, <2>1
  <2>. QED
    BY <1>1, <1>3, <1>4, <2>1, <2>2, HistoryKept DEF Covered
<1>8. StepFrame(s)
  BY <1>4, <1>6, <1>7 DEF StepFrame, known
<1>9. Untouched(s)
  BY <1>4 DEF doing, Untouched
<1>. QED
  BY <1>8, <1>9, FrameInformed

LEMMA IndexerInformed ==
    ASSUME TypeOK, TypeOK', NEW s \in Sessions, Informed(s),
           \/ RelayConnect \/ RelayTick \/ IndexerSubscribes \/ RelayDrop
           \/ \E t \in Txs : Index(t)
    PROVE  Informed(s)'
<1>. ChannelType /\ RelayType
  BY TypeParts
<1>1. UNCHANGED <<pending_txs, owed, doing, known, queue, lost>>
  BY DEF RelayConnect, RelayTick, IndexerSubscribes, RelayDrop, Index, RelayStep,
         pool, channel, ghost
<1>2. ASSUME NEW sh \in subscribed_scripthashes[s], Quiet(s, sh)'
      PROVE  Quiet(s, sh) /\ PendingAt(sh)' = PendingAt(sh)
  BY <1>1, <1>2, PendingKept DEF Quiet, Queued, Owed
<1>3. ASSUME NEW sh \in subscribed_scripthashes[s], Covered(s, sh)'
      PROVE  Covered(s, sh) /\ History(sh)' = History(sh)
  <2>1. CASE RelayConnect \/ RelayTick \/ IndexerSubscribes
    <3>1. UNCHANGED <<wire, chain, missed>>
      BY <2>1 DEF RelayConnect, RelayTick, IndexerSubscribes, indexer, ghost
    <3>. QED
      BY <1>1, <1>3, <3>1, HistoryKept DEF Covered, Queued
  <2>2. CASE RelayDrop
    <3>1. missed'[s] = missed[s] \union (wire \intersect subscribed_scripthashes[s])
      BY <2>2 DEF RelayDrop
    <3>2. UNCHANGED chain
      BY <2>2 DEF RelayDrop
    <3>. QED
      BY <1>1, <1>3, <3>1, <3>2, HistoryKept DEF Covered, Queued
  <2>3. ASSUME NEW t \in Txs, Index(t)
        PROVE  Covered(s, sh) /\ History(sh)' = History(sh)
    <3>1. /\ wire' = wire \union (Touches(t) \intersect upstream)
          /\ missed'[s] = missed[s] \union
               (subscribed_scripthashes[s] \intersect (Touches(t) \ upstream))
          /\ \A u \in Txs \ {t} : chain'[u] = chain[u]
      BY <2>3 DEF Index, RelayType
    <3>2. ~Queued(s, sh)' /\ sh \notin missed'[s] \union wire'
      BY <1>3 DEF Covered
    <3>3. sh \notin Touches(t)
      BY <3>1, <3>2
    <3>4. History(sh)' = History(sh)
      BY <3>1, <3>3 DEF History, Touches
    <3>. QED
      BY <1>1, <3>1, <3>2, <3>4 DEF Covered, Queued
  <2>. QED
    BY <2>1, <2>2, <2>3
<1>4. ASSUME NEW t \in Txs, chain[t] # "unseen" PROVE chain'[t] # "unseen"
  BY <1>4 DEF RelayConnect, RelayTick, IndexerSubscribes, RelayDrop, Index,
     RelayType, indexer
<1>5. StepFrame(s)
  BY <1>1, <1>2, <1>3, <1>4 DEF StepFrame, known
<1>6. Untouched(s)
  BY <1>1 DEF doing, Untouched
<1>. QED
  BY <1>5, <1>6, FrameInformed
-----------------------------------------------------------------------------
(* The steps of a session.                                                  *)

LEMMA InjectTxids ==
    ASSUME NEW history, NEW pending
    PROVE  Txids(inject_in_history(history, pending)) = Txids(history) \union pending
<1>. DEFINE added == {<<t, "mempool">> : t \in pending \ Txids(history)}
<1>1. inject_in_history(history, pending) = history \union added
  BY DEF inject_in_history
<1>2. ASSUME NEW t \in Txids(history) \union pending
      PROVE  t \in Txids(history \union added)
  <2>1. CASE t \in Txids(history)
    BY <2>1 DEF Txids
  <2>2. CASE t \notin Txids(history)
    <3>1. <<t, "mempool">> \in added /\ <<t, "mempool">>[1] = t
      BY <2>2
    <3>. QED
      BY <3>1 DEF Txids
  <2>. QED
    BY <2>1, <2>2
<1>3. ASSUME NEW e \in history \union added
      PROVE  e[1] \in Txids(history) \union pending
  BY DEF Txids
<1>4. Txids(history \union added) \subseteq Txids(history) \union pending
  BY <1>3 DEF Txids
<1>. QED
  BY <1>1, <1>2, <1>4

LEMMA MempoolTxids ==
    ASSUME NEW pending
    PROVE  Txids({<<t, "mempool">> : t \in pending}) = pending
<1>. DEFINE entries == {<<t, "mempool">> : t \in pending}
<1>1. ASSUME NEW t \in pending PROVE t \in Txids(entries)
  <2>1. <<t, "mempool">> \in entries /\ <<t, "mempool">>[1] = t
    OBVIOUS
  <2>. QED
    BY <2>1 DEF Txids
<1>2. ASSUME NEW e \in entries PROVE e[1] \in pending
  OBVIOUS
<1>3. Txids(entries) \subseteq pending
  BY <1>2 DEF Txids
<1>. QED
  BY <1>1, <1>3

LEMMA HistoryIsReal ==
    ASSUME NEW sh, NEW e \in History(sh)
    PROVE  e[1] \in Txs /\ chain[e[1]] # "unseen"
  BY DEF History

\* A step of one session leaves the others alone ...
LEMMA OthersInformed ==
    ASSUME TypeOK, TypeOK', NEW s \in Sessions, Informed(s),
           UNCHANGED <<pending_txs, owed, wire, chain>>,
           UNCHANGED <<told[s], subscribed_scripthashes[s], queue[s], missed[s], lost[s]>>,
           Untouched(s)
    PROVE  Informed(s)'
<1>1. ASSUME NEW sh
      PROVE  /\ Quiet(s, sh)' <=> Quiet(s, sh)
             /\ Covered(s, sh)' <=> Covered(s, sh)
  BY DEF Quiet, Covered, Queued, Owed
<1>2. StepFrame(s)
  BY <1>1, HistoryKept, PendingKept DEF StepFrame
<1>. QED
  BY <1>2, FrameInformed

LEMMA SessionOthers ==
    ASSUME TypeOK, NEW s \in Sessions, NEW r \in Sessions \ {s},
           Session(s) \/ Wake(s) \/ Reconnect(s)
                      \/ \E sh, method : Ask(s, sh, method)
    PROVE  /\ UNCHANGED <<pending_txs, owed, wire, chain>>
           /\ UNCHANGED <<told[r], subscribed_scripthashes[r], queue[r], missed[r], lost[r]>>
           /\ UNCHANGED <<pc[r], at[r], read[r]>>
<1>. USE DEF TypeOK
<1>1. CASE Forward(s)
  BY <1>1 DEF Forward, Doing, Refreshed, pool, known, channel, indexer
<1>2. CASE ForwardFails(s)
  BY <1>2 DEF ForwardFails, Done, Doing, pool, known, channel, indexer, ghost
<1>3. CASE Reply(s)
  BY <1>3 DEF Reply, Done, Doing, Tell, Partial, pool, channel, indexer
<1>4. CASE Ack(s)
  BY <1>4 DEF Ack, Done, Doing, known, channel, indexer, ghost
<1>5. CASE ReceiveLagged(s)
  BY <1>5 DEF ReceiveLagged, pool, doing, known, indexer, ghost
<1>6. CASE Receive(s)
  BY <1>6 DEF Receive, Doing, pool, doing, known, indexer
<1>7. CASE Push(s)
  BY <1>7 DEF Push, Done, Doing, Tell, Partial, Refreshed, pool, channel, indexer
<1>8. CASE Wake(s)
  BY <1>8 DEF Wake, Awake, pool, doing, known, indexer, ghost
<1>9. CASE Reconnect(s)
  BY <1>9 DEF Reconnect, pool, doing, indexer
<1>10. ASSUME NEW sh, NEW method, Ask(s, sh, method)
       PROVE  /\ UNCHANGED <<pending_txs, owed, wire, chain>>
              /\ UNCHANGED <<told[r], subscribed_scripthashes[r], queue[r], missed[r], lost[r]>>
              /\ UNCHANGED <<pc[r], at[r], read[r]>>
  BY <1>10 DEF Ask, track_scripthash_interest, Awake, Doing, Tell, Partial, pool, doing, indexer
<1>. QED
  BY <1>1, <1>2, <1>3, <1>4, <1>5, <1>6, <1>7, <1>8, <1>9, <1>10 DEF Session

\* ... a request answered from the map tells what is pending and is known to
\* leave the history out, one for the indexer is remembered,
LEMMA AskInformed ==
    ASSUME TypeOK, NEW s \in Sessions, Informed(s),
           NEW sh \in Wanted, NEW method \in {"subscribe", "get_history"},
           Ask(s, sh, method)
    PROVE  Informed(s)'
<1>. USE SubscriptionsAssumption DEF TypeOK
<1>0. /\ sh \in Scripthashes /\ pc[s] = "idle"
      /\ subscribed_scripthashes' = [subscribed_scripthashes EXCEPT ![s] = @ \union {sh}]
      /\ UNCHANGED <<queue, owed, pending_txs, chain, wire>>
  BY DEF Ask, Idle, track_scripthash_interest, Awake, pool, indexer
<1>1. ASSUME NEW x
      PROVE  /\ Queued(s, x)' <=> Queued(s, x)
             /\ Owed(x)' <=> Owed(x)
             /\ PendingAt(x)' = PendingAt(x) /\ History(x)' = History(x)
             /\ CurrentStatus(x)' = CurrentStatus(x)
  BY <1>0 DEF Queued, Owed, PendingAt, History, CurrentStatus, inject_in_history, Txids
<1>2. CASE PendingAt(sh) # {}
  <2>1. /\ told' = [told EXCEPT ![s][sh] = inject_in_history({}, PendingAt(sh))]
        /\ missed' = [missed EXCEPT ![s] = @ \union {sh}]
        /\ lost' = [lost EXCEPT ![s] = @ \ {sh}]
        /\ UNCHANGED <<pc, at, read>>
    BY <1>2 DEF Ask, Tell, Partial, compute_modified_status_hash, doing
  <2>2. pc'[s] = "idle" /\ sh \in missed'[s] /\ ~Answering(s) /\ ~Answering(s)'
    BY <1>0, <2>1 DEF Answering
  <2>3. ASSUME NEW x \in Scripthashes, x # sh
        PROVE  /\ told'[s][x] = told[s][x]
               /\ Quiet(s, x)' => Quiet(s, x)
               /\ Covered(s, x)' => Covered(s, x)
    BY <1>0, <1>1, <2>1, <2>3 DEF Quiet, Covered
  <2>4. told'[s][sh] = inject_in_history({}, PendingAt(sh))
    BY <1>0, <2>1
  <2>5. Txids(told'[s][sh]) = PendingAt(sh)
    BY <2>4, InjectTxids DEF Txids
  <2>6. Interested(s)'
    BY <1>0, <2>2, <2>3 DEF Informed, Interested, Asking, Answering
  <2>7. ToldPool(s)'
    <3>. SUFFICES ASSUME NEW x \in Scripthashes, told'[s][x] # Untold, Quiet(s, x)'
                  PROVE  /\ PendingAt(x)' \subseteq Txids(told'[s][x])
                         /\ \A t \in Txids(told'[s][x]) \ PendingAt(x)' :
                              chain'[t] # "unseen"
      BY DEF ToldPool, Txids
    <3>1. CASE x = sh
      BY <1>1, <2>5, <3>1
    <3>2. CASE x # sh
      <4>1. /\ PendingAt(x) \subseteq Txids(told[s][x])
            /\ \A t \in Txids(told[s][x]) \ PendingAt(x) : chain[t] # "unseen"
        BY <2>2, <2>3, <3>2 DEF Informed, ToldPool
      <4>. QED
        BY <1>0, <1>1, <2>3, <3>2, <4>1
    <3>. QED
      BY <3>1, <3>2
  <2>8. ToldStatus(s)'
    <3>. SUFFICES ASSUME NEW x \in Scripthashes, told'[s][x] # Untold, Quiet(s, x)',
                         Covered(s, x)'
                  PROVE  told'[s][x] = CurrentStatus(x)'
      BY DEF ToldStatus
    <3>1. x # sh
      BY <2>2 DEF Covered
    <3>2. told[s][x] = CurrentStatus(x)
      BY <2>2, <2>3, <3>1 DEF Informed, ToldStatus
    <3>. QED
      BY <1>1, <2>3, <3>1, <3>2
  <2>9. PushReads(s)' /\ ReplyReads(s)'
    BY <2>2 DEF PushReads, ReplyReads, Answering
  <2>. QED
    BY <2>6, <2>7, <2>8, <2>9 DEF Informed
<1>3. CASE PendingAt(sh) = {}
  <2>1. /\ pc'[s] = method /\ at'[s] = sh
        /\ UNCHANGED <<told, missed, lost>>
    BY <1>3 DEF Ask, Doing
  <2>2. ~Answering(s) /\ ~Answering(s)'
    BY <1>0, <2>1 DEF Answering
  <2>3. ASSUME NEW x
        PROVE  /\ Quiet(s, x)' <=> Quiet(s, x)
               /\ Covered(s, x)' <=> Covered(s, x)
    BY <1>0, <1>1, <2>1 DEF Quiet, Covered
  <2>4. Interested(s)'
    BY <1>0, <2>1 DEF Informed, Interested
  <2>5. ToldPool(s)'
    <3>. SUFFICES ASSUME NEW x \in Scripthashes, told[s][x] # Untold, Quiet(s, x)
                  PROVE  /\ PendingAt(x) \subseteq Txids(told[s][x])
                         /\ \A t \in Txids(told[s][x]) \ PendingAt(x) :
                              chain[t] # "unseen"
      BY <1>0, <1>1, <2>1, <2>3 DEF ToldPool, Txids
    <3>. QED
      BY <2>2 DEF Informed, ToldPool
  <2>6. ToldStatus(s)'
    BY <1>1, <2>1, <2>2, <2>3 DEF Informed, ToldStatus
  <2>7. PushReads(s)' /\ ReplyReads(s)'
    BY <2>2 DEF PushReads, ReplyReads, Answering
  <2>. QED
    BY <2>4, <2>5, <2>6, <2>7 DEF Informed
<1>. QED
  BY <1>2, <1>3

\* ... the indexer's answer is read,
LEMMA ForwardInformed ==
    ASSUME TypeOK, NEW s \in Sessions, Informed(s), Forward(s)
    PROVE  Informed(s)'
<1>. USE DEF TypeOK
<1>1. PICK sh \in Scripthashes : sh = at[s]
  BY DEF Forward
<1>2. /\ Asking(s) /\ ~Answering(s)
      /\ pc'[s] \in {"subscribe_reply", "get_history_reply"}
      /\ at'[s] = sh /\ read'[s] = History(sh)
      /\ missed' = [missed EXCEPT ![s] = @ \ {sh}]
      /\ UNCHANGED <<queue, owed, pending_txs, chain, wire, told, lost,
                     subscribed_scripthashes>>
  BY <1>1 DEF Forward, Asking, Answering, Doing, Refreshed, pool, known, channel, indexer
<1>3. ASSUME NEW x
      PROVE  /\ Queued(s, x)' <=> Queued(s, x)
             /\ Quiet(s, x)' <=> Quiet(s, x)
             /\ PendingAt(x)' = PendingAt(x) /\ History(x)' = History(x)
             /\ CurrentStatus(x)' = CurrentStatus(x)
             /\ x # sh => (Covered(s, x)' <=> Covered(s, x))
  <2>1. Queued(s, x)' <=> Queued(s, x)
    BY <1>2 DEF Queued
  <2>2. Owed(x)' <=> Owed(x)
    BY <1>2 DEF Owed
  <2>3. PendingAt(x)' = PendingAt(x) /\ History(x)' = History(x)
    BY <1>2 DEF PendingAt, History
  <2>4. CurrentStatus(x)' = CurrentStatus(x)
    BY <2>3 DEF CurrentStatus, inject_in_history, Txids
  <2>. QED
    BY <1>2, <2>1, <2>2, <2>3, <2>4 DEF Quiet, Covered
<1>4. Interested(s)'
  BY <1>1, <1>2 DEF Informed, Interested
<1>5. ToldPool(s)'
  <2>. SUFFICES ASSUME NEW x \in Scripthashes, told[s][x] # Untold, Quiet(s, x)
                PROVE  /\ PendingAt(x) \subseteq Txids(told[s][x])
                       /\ \A t \in Txids(told[s][x]) \ PendingAt(x) :
                            chain[t] # "unseen"
    BY <1>2, <1>3 DEF ToldPool, Txids
  <2>. QED
    BY <1>2 DEF Informed, ToldPool
<1>6. ToldStatus(s)'
  <2>. SUFFICES ASSUME NEW x \in Scripthashes, told'[s][x] # Untold, Quiet(s, x)',
                       Covered(s, x)', ~(Answering(s) /\ at[s] = x)'
                PROVE  told'[s][x] = CurrentStatus(x)'
    BY DEF ToldStatus
  <2>1. x # sh
    BY <1>2 DEF Answering
  <2>. QED
    BY <1>2, <1>3, <2>1 DEF Informed, ToldStatus
<1>7. PushReads(s)'
  BY <1>2 DEF PushReads
<1>8. ReplyReads(s)'
  <2>1. \A e \in read'[s] : e[1] \in Txs /\ chain'[e[1]] # "unseen"
    BY <1>2, HistoryIsReal
  <2>. QED
    BY <1>2, <1>3, <2>1 DEF ReplyReads
<1>. QED
  BY <1>4, <1>5, <1>6, <1>7, <1>8 DEF Informed
\* ... told with what is pending now,
LEMMA ReplyInformed ==
    ASSUME TypeOK, NEW s \in Sessions, Informed(s), Reply(s)
    PROVE  Informed(s)'
<1>. USE DEF TypeOK
<1>1. PICK sh \in Scripthashes, blind \in BOOLEAN :
        /\ sh = at[s]
        /\ told' = [told EXCEPT ![s][sh] =
                      inject_in_history(IF blind THEN {} ELSE read[s], PendingAt(sh))]
        /\ missed' = IF blind THEN [missed EXCEPT ![s] = @ \union {sh}] ELSE missed
        /\ lost' = [lost EXCEPT ![s] = @ \ {sh}]
  <2>1. at[s] \in Scripthashes
    BY DEF Reply
  <2>. QED
    BY <2>1 DEF Reply, Tell, Partial, compute_modified_status_hash
<1>2. /\ Answering(s) /\ pc[s] # "push" /\ pc'[s] = "idle"
      /\ UNCHANGED <<queue, owed, pending_txs, chain, wire, subscribed_scripthashes>>
  BY DEF Reply, Answering, Done, Doing, pool, channel, indexer
<1>3. sh \in subscribed_scripthashes[s]
  BY <1>1, <1>2 DEF Informed, Interested
<1>4. ASSUME NEW x
      PROVE  /\ Queued(s, x)' <=> Queued(s, x)
             /\ Owed(x)' <=> Owed(x)
             /\ PendingAt(x)' = PendingAt(x) /\ History(x)' = History(x)
             /\ CurrentStatus(x)' = CurrentStatus(x)
  <2>1. Queued(s, x)' <=> Queued(s, x)
    BY <1>2 DEF Queued
  <2>2. Owed(x)' <=> Owed(x)
    BY <1>2 DEF Owed
  <2>3. PendingAt(x)' = PendingAt(x) /\ History(x)' = History(x)
    BY <1>2 DEF PendingAt, History
  <2>4. CurrentStatus(x)' = CurrentStatus(x)
    BY <2>3 DEF CurrentStatus, inject_in_history, Txids
  <2>. QED
    BY <2>1, <2>2, <2>3, <2>4
<1>5. ASSUME NEW x \in Scripthashes, x # sh
      PROVE  /\ told'[s][x] = told[s][x]
             /\ Quiet(s, x)' => Quiet(s, x)
             /\ Covered(s, x)' => Covered(s, x)
             /\ ~(Answering(s) /\ at[s] = x)
  BY <1>1, <1>2, <1>4, <1>5 DEF Quiet, Covered
<1>6. ~Answering(s)' /\ ~Asking(s)'
  BY <1>2 DEF Answering, Asking
<1>7. told'[s][sh] = inject_in_history(IF blind THEN {} ELSE read[s], PendingAt(sh))
  BY <1>1
<1>8. Interested(s)'
  BY <1>2, <1>3, <1>5, <1>6 DEF Informed, Interested
<1>9. ToldPool(s)'
  <2>. SUFFICES ASSUME NEW x \in Scripthashes, told'[s][x] # Untold, Quiet(s, x)'
                PROVE  /\ PendingAt(x)' \subseteq Txids(told'[s][x])
                       /\ \A t \in Txids(told'[s][x]) \ PendingAt(x)' :
                            chain'[t] # "unseen"
    BY DEF ToldPool, Txids
  <2>1. CASE x = sh
    <3>1. Txids(told'[s][sh]) = Txids(IF blind THEN {} ELSE read[s]) \union PendingAt(sh)
      BY <1>7, InjectTxids
    <3>2. \A t \in Txids(IF blind THEN {} ELSE read[s]) : chain[t] # "unseen"
      BY <1>2 DEF Informed, ReplyReads, Txids
    <3>. QED
      BY <1>2, <1>4, <2>1, <3>1, <3>2
  <2>2. CASE x # sh
    <3>1. /\ PendingAt(x) \subseteq Txids(told[s][x])
          /\ \A t \in Txids(told[s][x]) \ PendingAt(x) : chain[t] # "unseen"
      BY <1>5, <2>2 DEF Informed, ToldPool
    <3>. QED
      BY <1>2, <1>4, <1>5, <2>2, <3>1
  <2>. QED
    BY <2>1, <2>2
<1>10. ToldStatus(s)'
  <2>. SUFFICES ASSUME NEW x \in Scripthashes, told'[s][x] # Untold, Quiet(s, x)',
                       Covered(s, x)'
                PROVE  told'[s][x] = CurrentStatus(x)'
    BY DEF ToldStatus
  <2>1. CASE x = sh
    <3>1. ~blind /\ Covered(s, sh)
      BY <1>1, <1>2, <1>4, <2>1 DEF Covered
    <3>2. read[s] = History(sh)
      BY <1>1, <1>2, <3>1 DEF Informed, ReplyReads
    <3>. QED
      BY <1>4, <1>7, <2>1, <3>1, <3>2 DEF CurrentStatus
  <2>2. CASE x # sh
    BY <1>4, <1>5, <2>2 DEF Informed, ToldStatus
  <2>. QED
    BY <2>1, <2>2
<1>11. PushReads(s)' /\ ReplyReads(s)'
  BY <1>2, <1>6 DEF PushReads, ReplyReads
<1>. QED
  BY <1>8, <1>9, <1>10, <1>11 DEF Informed

\* ... a message makes it read the map,
LEMMA ReceiveInformed ==
    ASSUME TypeOK, TypeOK', NEW s \in Sessions, Informed(s), Receive(s)
    PROVE  Informed(s)'
<1>. USE DEF TypeOK
<1>1. PICK sh : sh = Head(queue[s])
  OBVIOUS
<1>2. /\ pc[s] = "idle" /\ queue[s] # <<>> /\ queue[s] \in Seq(Scripthashes)
      /\ queue'[s] = Tail(queue[s])
      /\ UNCHANGED <<owed, pending_txs, chain, wire, told, subscribed_scripthashes, missed>>
  BY DEF Receive, Idle, pool, known, indexer
<1>3. /\ sh \in Scripthashes /\ queue[s][1] = sh
      /\ Len(queue'[s]) = Len(queue[s]) - 1
      /\ \A n \in 1 .. Len(queue[s]) - 1 : queue'[s][n] = queue[s][n + 1]
  BY <1>1, <1>2
<1>4. ASSUME NEW x, x # sh, Queued(s, x) PROVE Queued(s, x)'
  <2>1. PICK n \in 1 .. Len(queue[s]) : queue[s][n] = x
    BY <1>4 DEF Queued
  <2>2. n # 1
    BY <1>3, <1>4, <2>1
  <2>3. n - 1 \in 1 .. Len(queue[s]) - 1
    BY <1>2, <2>2
  <2>4. queue'[s][n - 1] = x
    BY <1>3, <2>1, <2>3
  <2>. QED
    BY <1>3, <2>3, <2>4 DEF Queued
<1>5. ASSUME NEW x
      PROVE  /\ Owed(x)' <=> Owed(x)
             /\ PendingAt(x)' = PendingAt(x) /\ History(x)' = History(x)
             /\ CurrentStatus(x)' = CurrentStatus(x)
  <2>1. Owed(x)' <=> Owed(x)
    BY <1>2 DEF Owed
  <2>2. PendingAt(x)' = PendingAt(x) /\ History(x)' = History(x)
    BY <1>2 DEF PendingAt, History
  <2>3. CurrentStatus(x)' = CurrentStatus(x)
    BY <2>2 DEF CurrentStatus, inject_in_history, Txids
  <2>. QED
    BY <2>1, <2>2, <2>3
<1>6. ~Answering(s)
  BY <1>2 DEF Answering
<1>7. CASE sh \notin subscribed_scripthashes[s]
  <2>1. UNCHANGED <<doing, lost>>
    BY <1>1, <1>7 DEF Receive
  <2>2. ASSUME NEW x \in subscribed_scripthashes[s]
        PROVE  /\ Quiet(s, x)' => Quiet(s, x)
               /\ Covered(s, x)' => Covered(s, x)
    BY <1>2, <1>4, <1>5, <1>7, <2>1 DEF Quiet, Covered
  <2>3. StepFrame(s)
    BY <1>2, <1>5, <2>2 DEF StepFrame
  <2>4. Untouched(s)
    BY <2>1 DEF doing, Untouched
  <2>. QED
    BY <2>3, <2>4, FrameInformed
<1>8. CASE sh \in subscribed_scripthashes[s]
  <2>1. /\ pc'[s] = "push" /\ at'[s] = sh
        /\ read'[s] = {<<t, "mempool">> : t \in PendingAt(sh)}
        /\ lost' = [lost EXCEPT ![s] = @ \ {sh}]
    BY <1>1, <1>8 DEF Receive, Doing
  <2>2. ASSUME NEW x, x # sh
        PROVE  /\ Quiet(s, x)' => Quiet(s, x)
               /\ Covered(s, x)' => Covered(s, x)
    BY <1>2, <1>4, <1>5, <2>1, <2>2 DEF Quiet, Covered
  <2>3. Interested(s)'
    BY <1>2, <1>8, <2>1 DEF Informed, Interested
  <2>4. ToldPool(s)'
    <3>. SUFFICES ASSUME NEW x \in Scripthashes, told[s][x] # Untold, Quiet(s, x)',
                         ~(Answering(s) /\ at[s] = x)'
                  PROVE  /\ PendingAt(x) \subseteq Txids(told[s][x])
                         /\ \A t \in Txids(told[s][x]) \ PendingAt(x) :
                              chain[t] # "unseen"
      BY <1>2, <1>5 DEF ToldPool, Txids
    <3>1. x # sh
      BY <2>1 DEF Answering
    <3>. QED
      BY <1>6, <2>2, <3>1 DEF Informed, ToldPool
  <2>5. ToldStatus(s)'
    <3>. SUFFICES ASSUME NEW x \in Scripthashes, told'[s][x] # Untold, Quiet(s, x)',
                         Covered(s, x)', ~(Answering(s) /\ at[s] = x)'
                  PROVE  told'[s][x] = CurrentStatus(x)'
      BY DEF ToldStatus
    <3>1. x # sh
      BY <2>1 DEF Answering
    <3>. QED
      BY <1>2, <1>5, <1>6, <2>2, <3>1 DEF Informed, ToldStatus
  <2>6. PushReads(s)'
    <3>1. Txids({<<t, "mempool">> : t \in PendingAt(sh)}) = PendingAt(sh)
      BY MempoolTxids
    <3>. QED
      BY <1>5, <2>1, <3>1 DEF PushReads, Txids
  <2>7. ReplyReads(s)'
    BY <2>1 DEF ReplyReads
  <2>. QED
    BY <2>3, <2>4, <2>5, <2>6, <2>7 DEF Informed
<1>. QED
  BY <1>7, <1>8

\* ... and the push tells what it read over the history of the moment.
LEMMA PushInformed ==
    ASSUME TypeOK, NEW s \in Sessions, Informed(s), Push(s)
    PROVE  Informed(s)'
<1>. USE DEF TypeOK
<1>1. PICK sh \in Scripthashes, history \in {{}, History(at[s])} :
        /\ sh = at[s]
        /\ told' = [told EXCEPT ![s][sh] = inject_in_history(history, Txids(read[s]))]
        /\ \/ /\ history = History(sh)
              /\ missed' = [missed EXCEPT ![s] = @ \ {sh}]
           \/ missed' = [missed EXCEPT ![s] = @ \union {sh}]
  <2>1. at[s] \in Scripthashes
    BY DEF Push
  <2>. QED
    BY <2>1 DEF Push, Tell, Partial, Refreshed, compute_modified_status_hash
<1>2. /\ pc[s] = "push" /\ Answering(s) /\ pc'[s] = "idle"
      /\ UNCHANGED <<queue, owed, pending_txs, chain, wire, lost, subscribed_scripthashes>>
  BY DEF Push, Answering, Done, Doing, pool, channel, indexer
<1>3. sh \in subscribed_scripthashes[s]
  BY <1>1, <1>2 DEF Informed, Interested
<1>4. ASSUME NEW x
      PROVE  /\ Queued(s, x)' <=> Queued(s, x)
             /\ Quiet(s, x)' <=> Quiet(s, x)
             /\ PendingAt(x)' = PendingAt(x) /\ History(x)' = History(x)
             /\ CurrentStatus(x)' = CurrentStatus(x)
  <2>1. Queued(s, x)' <=> Queued(s, x)
    BY <1>2 DEF Queued
  <2>2. Owed(x)' <=> Owed(x)
    BY <1>2 DEF Owed
  <2>3. PendingAt(x)' = PendingAt(x) /\ History(x)' = History(x)
    BY <1>2 DEF PendingAt, History
  <2>4. CurrentStatus(x)' = CurrentStatus(x)
    BY <2>3 DEF CurrentStatus, inject_in_history, Txids
  <2>. QED
    BY <1>2, <2>1, <2>2, <2>3, <2>4 DEF Quiet
<1>5. ASSUME NEW x \in Scripthashes, x # sh
      PROVE  /\ told'[s][x] = told[s][x]
             /\ Covered(s, x)' => Covered(s, x)
             /\ ~(Answering(s) /\ at[s] = x)
  BY <1>1, <1>2, <1>4, <1>5 DEF Covered
<1>6. ~Answering(s)' /\ ~Asking(s)'
  BY <1>2 DEF Answering, Asking
<1>7. told'[s][sh] = inject_in_history(history, Txids(read[s]))
  BY <1>1
<1>8. Quiet(s, sh)' => Txids(read[s]) = PendingAt(sh)
  BY <1>1, <1>2, <1>4 DEF Informed, PushReads
<1>9. Interested(s)'
  BY <1>2, <1>3, <1>5, <1>6 DEF Informed, Interested
<1>10. ToldPool(s)'
  <2>. SUFFICES ASSUME NEW x \in Scripthashes, told'[s][x] # Untold, Quiet(s, x)'
                PROVE  /\ PendingAt(x)' \subseteq Txids(told'[s][x])
                       /\ \A t \in Txids(told'[s][x]) \ PendingAt(x)' :
                            chain'[t] # "unseen"
    BY DEF ToldPool, Txids
  <2>1. CASE x = sh
    <3>1. Txids(told'[s][sh]) = Txids(history) \union PendingAt(sh)
      BY <1>7, <1>8, <2>1, InjectTxids
    <3>2. \A t \in Txids(history) : chain[t] # "unseen"
      BY HistoryIsReal DEF Txids
    <3>. QED
      BY <1>2, <1>4, <2>1, <3>1, <3>2
  <2>2. CASE x # sh
    <3>1. /\ PendingAt(x) \subseteq Txids(told[s][x])
          /\ \A t \in Txids(told[s][x]) \ PendingAt(x) : chain[t] # "unseen"
      BY <1>4, <1>5, <2>2 DEF Informed, ToldPool
    <3>. QED
      BY <1>2, <1>4, <1>5, <2>2, <3>1
  <2>. QED
    BY <2>1, <2>2
<1>11. ToldStatus(s)'
  <2>. SUFFICES ASSUME NEW x \in Scripthashes, told'[s][x] # Untold, Quiet(s, x)',
                       Covered(s, x)'
                PROVE  told'[s][x] = CurrentStatus(x)'
    BY DEF ToldStatus
  <2>1. CASE x = sh
    <3>1. history = History(sh)
      BY <1>1, <2>1 DEF Covered
    <3>. QED
      BY <1>4, <1>7, <1>8, <2>1, <3>1 DEF CurrentStatus
  <2>2. CASE x # sh
    BY <1>4, <1>5, <2>2 DEF Informed, ToldStatus
  <2>. QED
    BY <2>1, <2>2
<1>12. PushReads(s)' /\ ReplyReads(s)'
  BY <1>2, <1>6 DEF PushReads, ReplyReads
<1>. QED
  BY <1>9, <1>10, <1>11, <1>12 DEF Informed
LEMMA SessionStepInformed ==
    ASSUME TypeOK, TypeOK', NEW s \in Sessions, Informed(s), Session(s)
    PROVE  Informed(s)'
<1>. USE DEF TypeOK
<1>1. CASE ForwardFails(s) \/ Ack(s) \/ ReceiveLagged(s)
  <2>1. /\ UNCHANGED <<pending_txs, owed, wire, chain>>
        /\ UNCHANGED <<told[s], subscribed_scripthashes[s], queue[s], missed[s], lost[s]>>
    BY <1>1 DEF ForwardFails, Ack, ReceiveLagged, pool, known, channel, indexer, ghost
  <2>2. Untouched(s)
    BY <1>1 DEF ForwardFails, Ack, ReceiveLagged, Untouched, Answering, Done, Doing, doing
  <2>. QED
    BY <2>1, <2>2, OthersInformed
<1>. QED
  BY <1>1, ForwardInformed, ReplyInformed, ReceiveInformed, PushInformed DEF Session

LEMMA BroadcastInformed ==
    ASSUME TypeOK, TypeOK', NEW s \in Sessions, NEW t \in Txs, Broadcast(s, t),
           NEW r \in Sessions, Informed(r)
    PROVE  Informed(r)'
<1>. USE DEF TypeOK
<1>1. MapFrame(r) /\ lost[r] \subseteq lost'[r]
  BY StoreFrame DEF Broadcast, Idle, Free, Threads
<1>2. StepFrame(r)
  BY <1>1, MapStepFrame DEF Broadcast, Awake, known, indexer
<1>3. Untouched(r)
  BY DEF Broadcast, Idle, Doing, Untouched, Answering
<1>. QED
  BY <1>2, <1>3, FrameInformed

\* A session that was told nothing knows nothing wrong.
LEMMA UntoldInformed ==
    ASSUME NEW s \in Sessions, pc'[s] = "idle",
           told'[s] = [sh \in Scripthashes |-> Untold]
    PROVE  Informed(s)'
<1>1. ~Answering(s)' /\ ~Asking(s)'
  BY DEF Answering, Asking
<1>2. \A sh \in Scripthashes : told'[s][sh] = Untold
  OBVIOUS
<1>. QED
  BY <1>1, <1>2 DEF Informed, Interested, ToldPool, ToldStatus, PushReads, ReplyReads

LEMMA WalletStepInformed ==
    ASSUME TypeOK, TypeOK', NEW s \in Sessions, Informed(s), Wallet(s)
    PROVE  Informed(s)'
<1>. USE DEF TypeOK
<1>1. CASE Wake(s)
  <2>1. /\ UNCHANGED <<pending_txs, owed, wire, chain>>
        /\ UNCHANGED <<told[s], subscribed_scripthashes[s], queue[s], missed[s], lost[s]>>
        /\ Untouched(s)
    BY <1>1 DEF Wake, Awake, Untouched, pool, doing, known, indexer, ghost
  <2>. QED
    BY <2>1, OthersInformed
<1>2. CASE Reconnect(s)
  BY <1>2, UntoldInformed DEF Reconnect, Idle, doing
<1>. QED
  BY <1>1, <1>2, AskInformed, BroadcastInformed DEF Wallet

LEMMA InformedStep == InformedInv /\ [Next]_vars => InformedInv'
<1>. SUFFICES ASSUME InformedInv, [Next]_vars PROVE InformedInv'
  OBVIOUS
<1>1. TypeOK /\ TypeOK' /\ JobsOrdered /\ \A s \in Sessions : Informed(s)
  BY TypeStep DEF InformedInv
<1>2. CASE UNCHANGED vars
  <2>1. JobsOrdered'
    BY <1>1, <1>2, JobsFrame DEF vars, pool, doing
  <2>2. ASSUME NEW s \in Sessions PROVE Informed(s)'
    BY <1>1, <1>2, OthersInformed
    DEF vars, pool, doing, known, channel, indexer, ghost, Untouched
  <2>. QED
    BY <1>1, <2>1, <2>2 DEF InformedInv
<1>3. ASSUME Next PROVE InformedInv'
  <2>1. JobsOrdered'
    BY <1>1, <1>3, JobsStep
  <2>. SUFFICES ASSUME NEW r \in Sessions PROVE Informed(r)'
    BY <1>1, <2>1 DEF InformedInv
  <2>2. ASSUME NEW s \in Sessions, Session(s) PROVE Informed(r)'
    <3>1. CASE r = s
      BY <1>1, <2>2, <3>1, SessionStepInformed
    <3>2. CASE r # s
      BY <1>1, <2>2, <3>2, SessionOthers, OthersInformed DEF Untouched
    <3>. QED
      BY <3>1, <3>2
  <2>3. ASSUME NEW s \in Sessions, Wallet(s) PROVE Informed(r)'
    <3>1. CASE r = s
      BY <1>1, <2>3, <3>1, WalletStepInformed
    <3>2. ASSUME NEW t \in Txs, Broadcast(s, t) PROVE Informed(r)'
      BY <1>1, <3>2, BroadcastInformed
    <3>3. CASE r # s /\ \A t \in Txs : ~Broadcast(s, t)
      <4>1. Wake(s) \/ Reconnect(s) \/ \E sh, method : Ask(s, sh, method)
        BY <2>3, <3>3 DEF Wallet
      <4>. QED
        BY <1>1, <3>3, <4>1, SessionOthers, OthersInformed DEF Untouched
    <3>. QED
      BY <3>1, <3>2, <3>3
  <2>4. ASSUME NEW t \in Txs, Pool(t) PROVE Informed(r)'
    BY <1>1, <2>4, PoolStepInformed
  <2>5. ASSUME NEW th \in Threads, Announce(th) PROVE Informed(r)'
    BY <1>1, <2>5, AnnounceInformed
  <2>6. CASE RelayRead
    BY <1>1, <2>6, RelayReadInformed
  <2>7. CASE \/ RelayConnect \/ RelayTick \/ IndexerSubscribes \/ RelayDrop
             \/ \E t \in Txs : Index(t)
    BY <1>1, <2>7, IndexerInformed
  <2>8. CASE Restart
    BY <2>8, UntoldInformed DEF Restart
  <2>. QED
    BY <1>3, <2>2, <2>3, <2>4, <2>5, <2>6, <2>7, <2>8 DEF Next, Relay
<1>. QED
  BY <1>2, <1>3

LEMMA InformedInit == Init => InformedInv
<1>. SUFFICES ASSUME Init PROVE InformedInv
  OBVIOUS
<1>1. JobsOrdered
  BY DEF Init, JobsOrdered
<1>2. ASSUME NEW s \in Sessions PROVE Informed(s)
  BY DEF Init, Informed, Interested, ToldPool, ToldStatus, PushReads, ReplyReads,
         Answering, Asking
<1>. QED
  BY <1>1, <1>2, TypeInit DEF InformedInv

LEMMA InformedAlways == Spec => []InformedInv
<1>. QED
  BY InformedInit, InformedStep, PTL DEF Spec

LEMMA SettledQuiet ==
    ASSUME NEW s \in Sessions, NEW sh \in Scripthashes, Settled(s, sh), sh \notin lost[s]
    PROVE  Quiet(s, sh) /\ ~Queued(s, sh) /\ ~(Answering(s) /\ at[s] = sh)
  BY DEF Settled, Quiet, Queued, Owed

\* Whatever a wallet was told about a scripthash, once the store, the merge,
\* the removal, the message and the read that concern it are through it has
\* been told exactly the transactions the pool holds there, and nothing else
\* but real ones: for every number of wallets and every order of the steps of
\* handle_broadcast, enrich_pending_input_scripthashes, remove_pending_tx, the
\* notification channel and the session's select! loop.
THEOREM WalletsKnowThePool == Spec => []PoolReachesWallets
<1>1. ASSUME InformedInv PROVE PoolReachesWallets
  <2>. SUFFICES ASSUME NEW s \in Sessions, NEW sh \in Scripthashes,
                       told[s][sh] # Untold, Settled(s, sh), sh \notin lost[s]
                PROVE  /\ PendingAt(sh) \subseteq Txids(told[s][sh])
                       /\ \A t \in Txids(told[s][sh]) \ PendingAt(sh) :
                            chain[t] # "unseen" \/ sh \in missed[s] \union wire
    BY DEF PoolReachesWallets
  <2>. QED
    BY <1>1, SettledQuiet DEF InformedInv, Informed, ToldPool
<1>. QED
  BY <1>1, InformedAlways, PTL

\* ... and where no change of the chain escaped the session either, the status
\* it holds is the hash of the real history plus what the pool holds, as the
\* comment on pushed statuses in electrum_server/mod.rs asks.
THEOREM WalletsKnowTheStatus == Spec => []StatusIsReal
<1>1. ASSUME InformedInv PROVE StatusIsReal
  <2>. SUFFICES ASSUME NEW s \in Sessions, NEW sh \in Scripthashes,
                       told[s][sh] # Untold, Settled(s, sh),
                       sh \notin lost[s] \union missed[s] \union wire
                PROVE  told[s][sh] = CurrentStatus(sh)
    BY DEF StatusIsReal
  <2>. QED
    BY <1>1, SettledQuiet DEF InformedInv, Informed, ToldStatus, Covered
<1>. QED
  BY <1>1, InformedAlways, PTL
=============================================================================
