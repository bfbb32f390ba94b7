# Broadcast Pool in TLA+

Broadcast Pool sits between Bitcoin wallets and the network. A wallet connects
to it as to an Electrum server; the pool takes the transactions the wallet
broadcasts, answers as if they were in the mempool, keeps them in an SQLite
table, and hands each to Bitcoin Core or to the indexer when its criterion (a
date, a block height, a price, an order of the user) is met. This directory
models the part that decides: which rows exist, who changes them when, and what
reaches the network.

File names below are relative to `src/src/` unless they say otherwise.

## 1. The system

### Parts, state, interactions

| Part | Code | State | Operations | Talks to |
|---|---|---|---|---|
| Pool table | `db/mod.rs`, `db/models.rs`, `db/schema.rs` | `broadcast_pool` rows (status, mode, times, trigger, price, `row_mac`), `archive_pool` | one method per SQL statement; every mutator is an UPDATE, then `reseal_row_mac`; `MIGRATION_007` at each open | everyone, through one `Mutex<Connection>` |
| Pool manager | `pool/manager.rs` | `safe_mode`, `pending_txs` (the virtual mempool), chain health snapshot, median-time cache | import, schedule, retry, remove, broadcast now, the scheduler tick, rebroadcast, confirm, requeue, rehydrate | table, backends, wallets |
| Scheduler loops | `pool/scheduler.rs` | none | broadcast, block height, price, rebroadcast, confirmation, retention, health poller, notifications | manager |
| Dashboard API | `api/mod.rs` | none of its own | the manager's requests, configuration, archive password | manager, configuration |
| Wallet broadcast | `electrum_server/mod.rs` | none of its own | ack, plan, insert, store, mark due | manager, configuration |
| Liana virtual block | `electrum_server/mod.rs`, `api/mod.rs`, `pool/manager.rs`, `config.rs` | `liana_virtual_block` in the shared configuration and in `config.toml` | arm, disarm, capture and advance by 2, automatic disarm | chain health, table |
| Chain health | `pool/chain_health.rs`, `pool/manager.rs`, `rpc/` | snapshot behind an RwLock, `health_refresh_in_flight` | refresh, note success, note failure | indexer, Bitcoin Core |
| Configuration file | `discovery.rs`, `config.rs` | `config.toml` | whole-file save by several threads | disk |
| Electrum sessions | `electrum_server/`, `pool/virtual_mempool.rs` | subscriptions, the map of pending transactions, a bounded channel per session, the relay's subscriptions at the indexer | merge real and virtual history, push statuses, relay | indexer, wallets |
| Chain tip | `pool/manager.rs`, `electrum_server/virtual_headers.rs` | cached tip, header subscriptions | refresh, answer `headers.subscribe`, push, fabricate a tip for an armed Liana session | indexer, wallets |
| Archive password | `api/archive_key.rs`, `db/mod.rs` | salt, verifier, key in memory | set, unlock, lock, expire, seal, open | table |
| Indexer discovery | `discovery.rs`, `main.rs`, `api/mod.rs`, `pool/manager.rs` | URL in memory, in the file and in the client | detect the network, probe, discover, reconnect, retry | indexers, Bitcoin Core |
| Price feed, notifications, migration plans, fee figures, dashboard page | `price/`, `notify/`, `migration/`, `api/dashboard.html` | caches and settings | polling, pushing, CRUD | outside |

`PROJECT.json` lists each part with what is left out of it.

### What is hard

- **Two critical sections per write.** A mutator lets go of the connection
  between its UPDATE and the reseal of `row_mac`. Any reader in between sees an
  honest row as tampered, and the tick answers a tampered row with a global halt.
- **Batches.** Each loop SELECTs, lets go of the lock, and handles the rows one
  at a time with network calls in between. Status writes look at no previous
  status, so the last writer wins.
- **Network calls.** A node may accept a transaction and the answer be lost;
  the process may die between the acceptance and `mark_broadcast`; the mempool
  may evict what it took.
- **Stale chain reads.** Heights and median times are cached, come from two
  backends, and may be missing.
- **One column, several meanings.** `nlocktime` holds the signed lock of the
  transaction, the target of a virtual block, or nothing for an imported row.
- **The configuration.** It is read under several separate locks within one
  request and saved from clones after the lock is released.
- **Two sources of one status.** A wallet is shown the indexer's history merged
  with the pool's map; each is read at its own moment, each announces changes on
  its own path, and both paths can lose messages.
- **Three copies of one URL.** Sessions read the configuration, the pool uses its
  client, a restart reads the file.
- **Restart.** Rows half written, rows without a seal, failed rows to requeue,
  a virtual mempool to rebuild.

The list of hazards with their lines and the property that watches each is
`hazards` in `PROJECT.json`.

### What makes each part correct

- table: it tells the truth about the network (`BroadcastMeansAccepted`); an
  unsealed row is about to be sealed (`UnsealedHasOwner`); no row disappears
  without its archive blob (`NoRowDropped`).
- manager and loops: nothing leaves before its lock (`NoEarlyRelease`), every
  first send went through a gate (`FirstSendIsGated`), a halt is overtaken by what
  was past its gate and nothing else (`HaltLeaksWhatOvertookIt`), no row is
  forgotten (`NoRowForgotten`), what is due is sent and what is mined is confirmed
  (`EventuallyReleased`, `EventuallyConfirmed`).
- virtual block: two transactions never share a target (`DistinctTargets`), and
  the block does not stay armed (`AutoDisarms`).
- sessions: a wallet with nothing under way was told exactly what is pending
  (`PoolReachesWallets`), as the hash of the real history plus the pool's
  (`StatusIsReal`); the relay believes nothing about a dead connection
  (`RelayHoldsItsSet`).
- chain tip: a fabricated header stays with the Liana session it was made for
  (`NoFictionElsewhere`), and every subscriber ends up at the tip (`TipSettled`,
  `TipReachesWallets`); what a wallet is shown is what it is promised
  (`FeedsTips`).
- archive: the password that is set opens all of it (`ArchiveOpens`), it locks
  itself (`AutoLocks`), and it keeps what it is given and opens for its user only
  (`KeepsVault`).
- discovery: an indexer of the right chain (`OnNetwork`), the client on the URL
  wallets are shown (`ClientFollows`), the user's choice kept
  (`ManualSurvives`), a late electrs found (`UmbrelConnects`).
- chain health: never ahead of the chain (`ClockNeverAhead`), and back once a
  backend is back (`ClockRecovers`).

## 2. The modules

| Module | What it is |
|---|---|
| `PoolRows` | The table: a row's columns, each SQL statement as an operator from row to row, each query as a predicate. Pure. |
| `BroadcastPool` | The pool at work: all loops, requests, wallet broadcasts, restart, the chain and the network. EXTENDS `PoolRows`. |
| `TimelockedRelease` | What the pool promises about time, and nothing else: custody under locks, one release each. `BroadcastPool` implements it. |
| `PoolHalt` | `BroadcastPool` with two history variables: who was past a gate when the halt was set, and what has left for the first time since. |
| `PoolClaims` | A sentence about the pool, as a property the code does not keep. |
| `LianaBlock` | The virtual block, its configuration in memory and on disk, and the health snapshot. |
| `Subscriptions` | Wallet sessions, the virtual mempool they see, the notification channel and the relay. |
| `ChainTip` | The cached tip, header subscriptions and the virtual tip. |
| `TipFeed` | What wallets are promised about the tips they are shown. `ChainTip` implements it. |
| `ArchiveKeys` | The archive's password and key beside retention. |
| `TimedVault` | What the archive promises its user. `ArchiveKeys` implements it. |
| `Indexer` | Network detection, discovery, reconnection and retry. |
| `MC…` | Values for the runs of the module they are named after. |
| `BroadcastPoolProofs`, `BroadcastPoolSafety`, `BroadcastPoolRelease` | Theorems of `BroadcastPool`, each extending the one before. |
| `SubscriptionsProofs`, `LianaBlockProofs`, `ArchiveKeysProofs`, `ChainTipProofs`, `IndexerProofs` | Theorems of `Subscriptions`, `LianaBlock`, `ArchiveKeys`, `ChainTip` and `Indexer`. |

Definitions that follow a mapped operator under the words "Faulty variant" are
plausible mistakes in the code it models; `mutants` in `PROJECT.json` says
which property notices which.

### `PoolRows` and `BroadcastPool`

State is in three groups. On disk: `rows`, `nlocktime` (fixed by the INSERT) and
`archive`. In the process: `safe_mode`, `pending_txs`, and for every thread a
program counter `pc`, the rest of its batch `todo`, the row it is at `cur`, and
the columns it is about to write `arg`. Outside: the clock `now`, `height`,
`mtp`, `chain` (a source of heights and times answers, or none does and the health
snapshot has noticed or not), `core` (Bitcoin Core answers what it is asked), and
`net`, what the network knows of each transaction.

A row carries the columns some branch reads and, in place of `row_mac`, the
record the MAC was computed from; `Tampered` compares the two. Times are natural
numbers on the scale of nLockTime: above `LockThreshold` they are times, below
it heights, so the boundary 500 000 000 is part of every instance.

A worker is a loop or a caller, and its step is one critical section of the
connection mutex or one network call. So the tick is `TickStart`, `TickMark`,
`TickRequeueList`, `TickRequeue`, `TickDueList`, `TickGate` (which sets
`safe_mode` or passes), `TickHold`, `TickSend`, `MarkBroadcast` or `MarkFailed`,
with `Reseal` after each write; the block and price monitors, rebroadcast,
confirmation and retention are `BlockList`/`BlockMark`, `PriceList`/`PriceMark`,
and so on. Requests are one or several steps in the same way. Restart empties
every thread, applies `MIGRATION_007` to every row, rebuilds `pending_txs` (in
part, when scripthashes cannot be derived or there is no indexer) and requeues, in
the order of `main`.

The tick, the block monitor, rebroadcast and the checker pass when
`chain_clock_available` says no. The checker leaves a row as it is when
`test_connection`, `get_transaction` or `get_block_count` fails (`Confirm` under
`~core`). With Core configured every failed send carries "Failed to broadcast",
which makes `requeue_retriable_failures` take every failed row with a lock; without
it the last error may be "No broadcast backend available", which is not retriable,
so `Retriable` is then any of these rows. The model has the consequence, not the
texts.

Abstractions: a chain read is folded into the step that uses it, and may be
stale by `MaxLag`; since height and median time only grow, an older read that
the code carried along is one of these. SQL errors other than a missing row, the
LIMIT of queries, several networks in one table, reorganisations and broadcasts
by third parties are left out.

### `PoolHalt`

The halt is a flag that each thread looks at before a row and not again before its
network call, so one set meanwhile is overtaken. `PoolHalt` keeps `BroadcastPool`
as it is and remembers two things at the moment the halt is set: the row each
thread had past its gate (`overtaking`), and from then on the transactions that
leave for the first time (`leaked`). `HaltLeaksWhatOvertookIt` bounds the second by
the first, at most one transaction for each thread, for as long as the halt lasts.

### `LianaBlock`

A worker is a wallet thread, a thread that may refresh the snapshot, a thread
that checks the height, or a dashboard request. A step is one critical section
of the configuration mutex or the health lock, one probe of a backend, or one
write of the file. `save_config` writes under the mutex; `Capture` and
`DisarmConfig` clone, let go, and write later (`AdvanceSave`, `DisarmSave`),
which is where two savers can pass each other. A write may fail (`"disk"`): the
caller logs it and goes on. `import_transaction` may fail after a capture
(`"import"`): the target stays advanced and the transaction is `Lost`. `Refreshers`
are the threads that may run `refresh_chain_health`, the poller and requests for
diagnostics (`api/mod.rs:1004`); only `Poller` does so by itself. Only the numbers of blocks matter, so heights are
small, a node in initial block download answers with any height up to the tip,
and `DisarmAfter` stands for 10. `epoch` counts the times a user set the target
and `life` the restarts; both are history, not program state.

`BroadcastPool` takes any target in `VirtualTargets`, and none, for a Liana
row: every behaviour of `LianaBlock` towards the table is one of these choices.

### `TimelockedRelease`

Two variables beside the chain: `held`, the locks each transaction was taken
under, and `released`. `Promise` in `BroadcastPool` maps `held` to the locktimes
of all rows ever inserted for the transaction and `released` to what the network
has seen. An INSERT is `Take`, a first send is `Release`, a block is `Grow`, and
everything else (retries, archiving, restarts, evictions) is a stutter. An
imported row takes the transaction without a lock of the pool's, as
`import_transaction` does.

### `Subscriptions`

A status is modelled by the set of entries it hashes: `{}` for no history, a
pair of transaction and "mempool" or "block" for each line. `pending_txs` is the
map in `pool/manager.rs`, which the pool's steps change and announce in two
moves (`store_pending_tx` and so on write the map; `Announce` sends, one message
at a time, after the mutex is released). A session is one task: it answers a
line (`Ask`, then `Forward` and `Reply` if the map has nothing) or takes a
message (`Receive`, then `Push` after the await). `ReceiveLagged` is the
receiver's error when the channel overwrote messages; its `select!` branch then
stays off until another completes (`deaf`). The relay's requests and the
indexer's notifications are sets in transit that die with the connection.
`missed` and `lost` record, for the properties, which sessions have not been able
to hear of a change: a change of the chain no subscription covered, a status
computed without the real history, an overwritten message. The pool behind the
map is reduced to one row per transaction. After a restart a pending transaction
may be missing from the map (`"rehydrate"`: no indexer is configured, or its row is
passed over), which `main` only logs. `notify_tx_confirmed` announces nothing when
the transaction does not decode, which none that a node mined does.

### `ChainTip`

A header is its height, so a reorganisation that ends at the height it began at is
not seen. Refreshing is three steps (ask the indexer, write under
the mutex, send after it), by the poller, by a refresh an instant answer
spawns, and by a session with a cold cache. `Shown` is what
`virtual_tip_height` makes of a real height; sessions are Sparrow's or Liana's,
told apart by port label and `server.version` as in the code.

### `TipFeed`

Five variables and no path between them: the heights the chain has had
(`1 .. peak`), the target, the wallets that may be fooled, those that have asked,
and the last tip each was shown. `Feed` in `ChainTip` maps the third to the
sessions whose `effective_source` is Liana's and the last to `told`. A block above
the peak is `Grow`, arming, a capture and disarming are `Arm`, `server.version` on the shared
port is `Introduce`, a subscription with a cold cache is `Ask`; an instant answer,
an answer of the indexer, a fallback on the cache and a push are `Show`; all that
happens in the cache, the channel and the queues is a stutter. A tip shown may be
old: `Show` allows every height so far, and which one is left to `TipSettled` and
`TipReachesWallets`.

### `ArchiveKeys`

A derived key is the pair of password and salt. Each database call is a step, so
are the uses of the cached key's mutex: `SetPassword`, `WriteSalt`,
`WriteVerifier`; `Unlock`, `ReadSalt`, `CacheKey`; `UseKey` and what follows it.
Time is explicit because the key expires and because retention, which renews it,
ticks at an interval longer than its lifetime. `overlapped` marks behaviours in
which two passwords were set at the same time.

### `TimedVault`

Rows on a shelf or in a vault, whether it has a password, whether it opens, and
the time since its user was there. `Vault` in `ArchiveKeys` maps the shelf to
`broadcast_pool`, the vault to the rows with a blob, `open` to a cached key that is
still good, `idle` to the time since `last_use` and `Patience` to two lifetimes.
Writing the first verifier is `SetPassword`; caching a key, and a user's use of it,
`Use`; `lock`, a restart and the expiry found by anybody `Shut` or a stutter; a
sealing is `Store`; the clock is `Wait`, which may only shut. Retention's tick and
the polls of the status page are stutters: neither opens the archive nor counts as
its user. A batch under way goes on sealing after the archive is locked, as in the
code, which is why `Store` does not ask for an open vault.

### `Indexer`

A host runs one indexer, for one chain and on one transport. Discovery runs
under the configuration's mutex and is one step; reconnection is four
(`Read`, `Probe`, `Write`, `Connect`), by a request or by the retry. A file write
may fail, hosts and Core come and go. `Known` are the hosts tried by name
(`APP_ELECTRS_NODE_IP`, the machine itself, its LAN address), `WalletLan` the ones
`sanitize_umbrel_indexer_config` takes for the wallets' network and clears;
`net_env` is the network of `BROADCAST_POOL_NETWORK` or `APP_BITCOIN_NETWORK`, which
a start takes over the file's (`loaded_network`). The order in which candidates are
tried is left open. `unverified` marks a configuration in which
nothing was found or the URL is pinned; `drift`, that a save failed half way or
two reconnections overlapped.

## 3. The runs

`expect: pass`:

| Run | Question | Instance |
|---|---|---|
| `MCloops` | Do the tick, block monitor and rebroadcast loop keep the table true, seal what they write and respect the gates? | two rows, one locked by height and one by time, no Core; evictions, lost answers, chain sources that come and go |
| `MCrequests` | Can two concurrent requests of any kind corrupt or lose a row? | one row, two symmetric callers, eight kinds of request, a flush among them, tick and price monitor, refusals |
| `MCovertake` | What still leaves after the halt is set? | two rows for immediate broadcast, tick, rebroadcast, `broadcast_now`, random schedules that leave rows unsealed, acknowledgement |
| `MCrestart` | Does a death at any step lose a row, drop one without its blob or let one out early, and is the whole an implementation of `TimelockedRelease`? | one row, every ingest plan (Liana, Sparrow, others; immediate, scheduled, by height), retention, crash, lost answers, stale and missing chain data, no Core |
| `MClive` | Does what is scheduled get sent, and what is mined get confirmed? | one time-locked row, by its own lock or by a virtual target, `broadcast_now` racing the tick, the checker, chain sources and Core coming and going; fairness |
| `MCcapture` | Can two Liana transactions share a target? | two wallets, a poller, a dashboard with arming, disarming, retyping, refused and half-refused requests; disk and import failures and a restart |
| `MCclock` | Is the snapshot ever ahead of the chain, does the clock return, does the block disarm? | the poller, a diagnostics request and a height check as concurrent writers, both backends failing and returning, Core through initial block download, a user arming; fairness |
| `MCstatuses` | Is a wallet that has heard everything told the truth, through every order of stores, merges, sends, pushes and lost messages? | one wallet, two scripthashes, its own transaction and an old payment, a channel of two messages, failing histories, missing previous transactions, relay drops, restart with the map rebuilt in whole or in part |
| `MCtips` | Does a fabricated tip ever leave its session, does every header subscriber follow the chain, and is the whole an implementation of `TipFeed`? | one session of either kind, the poller and a spawned refresh, blocks, a reorganisation, arming; fairness |
| `MCarchive` | Does the password that is set open every blob, does the archive lock itself, and is the whole an implementation of `TimedVault`? | two requests, two passwords, one row, retention, polls, failing writes, restarts |
| `MCindexer` | Does the program use an indexer of its chain, does its client follow, is the user's choice kept, does a late electrs get found? | three hosts of two chains and two transports, Core or none, a network in the environment or none, two requests, the retry, Umbrel and LAN, failing writes, crashes; fairness |

`expect: violation`, a sentence of the repository that an interleaving breaks
(`findings` has the quotation and the trace in words):

| Run | Sentence | What happens |
|---|---|---|
| `MCalarm` | a legitimate write is not flagged as tampered | the tick reads between `mark_due` and its reseal and halts the pool |

The passing runs check for deadlock as well: their loops poll for ever.
`MCalarm` does not, since its instance, cut down to the counterexample, stops
once its clock, its blocks and its request are used up.

### Why the bounds are enough

- *Rows.* The loops treat rows one by one and rows meet only in a batch, in
  `safe_mode` and in `net`. Two rows show an alarm of one stopping the other, and a
  halt in the middle of a batch; the properties about one row's life need one. The
  theorems have no bound.
- *Time.* `LockThreshold = 2` or 3 with `MaxNow` 4 to 6 gives at least two wall
  times and heights on either side of the lock, both sides of the 500 000 000
  boundary, and an MTP behind the clock.
- *Callers.* The hazards are check-then-write pairs, so two callers show them.
- *Heights.* A lock of 1 or 2 with the chain from 0: not met, just met, passed.
- *Lag.* One block of staleness separates "read before" from "read after".
- *Captures.* Two transactions on two threads, `MaxLife = 1` and targets 0 and
  3: 0 is the refused one, 3 is within `MaxGap` of every height.
- *Disarming.* `DisarmAfter = 1` with heights 1 and 2 crosses the edge once. Two
  refreshers show one finding the other's flag; the height check is the writer the
  flag does not keep out.
- *Channel.* `Capacity = 2` in `MCstatuses`: a store announces two scripthashes, so
  the channel holds one operation and overflows in the next.
- *Sessions.* Sessions meet only in the map and the channel, where any thread's
  step is like another's; one wallet with a loop, the background job of its
  transaction and the relay beside it has every order of them (3.4 million states).
- *Tips.* `MaxHeight = 2` and one reorganisation: up, down and up again, with
  targets just above and further above the tip.
- *Archive.* Two salts are what two overlapping set-ups draw; `TTL = 2`,
  `Interval = 3` and a clock to 4 reach the first instant at which the key
  must be gone, with a renewal by retention in between.
- *Indexers.* One scanned host of each chain and one that only a user can name:
  every branch of the discovery has a candidate and can have none. Two attempts
  of the retry: one that fails and one that may succeed.

### Fairness

`BroadcastPool`: `start_all_loops` spawns each loop as a task of its own that
sleeps and repeats for ever and logs every error, hence WF on each loop's step.
An accepted request runs on a thread of its own to its end, hence WF on a caller
that is not idle. Time passes and blocks are found. Nobody is obliged to make a
request, evict, lose or answer. Chain sources and Core are unfair: the tick and the
block monitor pass without a clock, so `EventuallyReleased` speaks of behaviours in
which a source stays up from some point on (`ClockStays`), and `EventuallyConfirmed`
of those in which Core answers too (`CoreStays`; a pruned Core, or one without an
index, never knows some transactions, and the checker never confirms them).
`EventuallyReleased` allows the alarm (the pool then stops by design) and a removal;
`EventuallyConfirmed` allows archiving and removal, and starts once nobody who may
write the row's status has it in hand (`Unclaimed`, see section 5).

`LianaBlock`: the health poller is such a task, and threads under way end. Nobody is
obliged to ask for diagnostics, the other way to refresh. Backends are unfair: the
two liveness properties speak of behaviours in which one of them stays up from some
point on, and say so in their hypothesis.

`ChainTip`: the poller refreshes every thirty seconds for ever, and a refresh
begun, a session's own request, a send and a push end (each is a task that
awaits with a timeout); nobody is obliged to subscribe, nor the chain to grow.
`TipReachesWallets` speaks of a tip that stays.

`Indexer`: the process is started again, the retry sleeps and goes on, a
reconnection runs to its end. Hosts are unfair; `UmbrelConnects` gives up when
electrs goes away again or the attempts are used up.

Weak fairness is enough everywhere: no property needs a step that is enabled
only now and then to be chosen.

## 4. What is proved

Every theorem is for all values of the constants under `RowsAssumption` and
`PoolAssumption`, `LianaAssumption`, `SubscriptionsAssumption`,
`ArchiveKeysAssumption`, `ChainTipAssumption` or `IndexerAssumption`: any number of
rows, transactions, threads, sessions and hosts, any set of loops, requests and
faults, any bounds. Two theorems restrict the set of requests or faults, and say so.

| Theorem | States | Argument |
|---|---|---|
| `BroadcastPoolProofs!TypeCorrect` | `[]TypeOK` | inductive by itself; one lemma per family of moves (`MoveType`), one per group of actions |
| `BroadcastPoolSafety!TableTellsTheTruth` | `[]BroadcastMeansAccepted` | `AcceptedInv` |
| `BroadcastPoolSafety!FirstSendGated` | `FirstSendIsGated` | from `AcceptedInv`: what the rebroadcast loop holds was seen by the network |
| `BroadcastPoolSafety!HaltLeaksBounded` | `HaltSpec => []HaltLeaksWhatOvertookIt` | `HaltInv` with `AcceptedInv` |
| `BroadcastPoolSafety!NothingDropped` | `[]NoRowDropped`, if `"remove" \notin Ops` | inductive with `TypeOK`; every step is one that deletes no row it does not archive (`Archives`) |
| `BroadcastPoolSafety!AlarmsAreReal` | `[]UnsealedHasOwner`, if `"random" \notin Ops` and `"crash" \notin Faults` | inductive with `TypeOK`; every step takes the debt of what it leaves unsealed (`Owes`) |
| `BroadcastPoolRelease!NothingLeavesEarly` | `[]NoEarlyRelease` | `ReleaseInv` |
| `BroadcastPoolRelease!NothingForgotten` | `[]NoRowForgotten` | `WaitingInv` with `RegistersInv` |
| `BroadcastPoolRelease!PromiseKept` | `KeepsPromise`, that is `Promise!Spec` | initial states map to initial states; under `PromiseInv` every step is a step of the promise or a stutter |
| `LianaBlockProofs!TypeCorrect` | `[]TypeOK` | inductive by itself |
| `LianaBlockProofs!ClockSafe` | `[]ClockNeverAhead` | `ClockInv`: every height in a thread's hands is at most the chain's |
| `LianaBlockProofs!TargetsDistinct` | `[]DistinctTargets` | `TargetInv` |
| `SubscriptionsProofs!TypeCorrect` | `[]TypeOK` | inductive by itself; the capacity of the channel is part of it |
| `SubscriptionsProofs!RelayKeepsItsWord` | `[]RelayHoldsItsSet` | inductive by itself |
| `SubscriptionsProofs!WalletsKnowThePool` | `[]PoolReachesWallets` | `InformedInv` |
| `SubscriptionsProofs!WalletsKnowTheStatus` | `[]StatusIsReal` | `InformedInv` |
| `ArchiveKeysProofs!TypeCorrect` | `[]TypeOK` | inductive by itself |
| `ArchiveKeysProofs!LocksItself` | `[]AutoLocks` | `LifetimeInv` |
| `ArchiveKeysProofs!WholeArchiveOpens` | `[]ArchiveOpens` | `OpensInv` |
| `ArchiveKeysProofs!ImplementsVault` | `KeepsVault`, that is `Vault!Spec` | under `LifetimeInv` and `StoredInv` every step is a step of the vault or a stutter |
| `ChainTipProofs!TypeCorrect` | `[]TypeOK` | inductive by itself |
| `ChainTipProofs!FictionStaysHome` | `[]NoFictionElsewhere` | `RealInv` |
| `ChainTipProofs!SubscribersSettle` | `[]TipSettled` | `SettledInv` |
| `ChainTipProofs!ImplementsFeed` | `FeedsTips`, that is `Feed!Spec` | under `RealInv` and `Asked` every step is a step of the feed or a stutter |
| `IndexerProofs!TypeCorrect` | `[]TypeOK` | with `EnvOK`, what `Init` fixes |
| `IndexerProofs!StaysOnNetwork` | `[]OnNetwork` | `NetworkInv` |
| `IndexerProofs!ClientIsConfigured` | `[]ClientFollows` | `FollowInv` |
| `IndexerProofs!ManualKept` | `ManualSurvives` | what discovery returns (`Resolved`); only `Start` starts |

`AcceptedInv` adds two facts about threads to the property: a worker about to
write `mark_broadcast` holds a row whose transaction the network has seen, and
so does every row of a rebroadcast batch. Without them the write of a thread
that was slow, while others failed, retried or deleted its row, could not be
justified; with them it is, because the network does not forget.

`HaltInv` adds to `HaltLeaksWhatOvertookIt` that a worker past its gate during a halt
has been there, on the same row, since the halt was set. That alone would only
restate the gates. What makes it a bound on what leaves is `FirstSendStep`: under
`AcceptedInv` a first send comes from a worker past a gate, so the rebroadcast loop,
which has none, and the threads that record an old answer send nothing new either.

`ReleaseInv` states the property with the code's own test (`LockWasMet`) and has
to know which rows exist. `nlocktime` is fixed by the INSERT, so
the property could only break by a send for a row not yet inserted, or by an
INSERT after the send. `RegistersInv` rules both out: workers and batches name
inserted rows, and an insertion under way has its id for itself.
`LockMonotone` and `ReadIsLate` turn a stale read into a fact about now.
`NoEarlyRelease` speaks of transactions held by one row, since a duplicate import
of the same transaction carries no lock.

`PromiseInv` is `TypeOK`, `AcceptedInv`, `ReleaseInv` and `FreshUnlocked` (an id
never inserted has no lock, so an import adds the lock 0). A step of a thread is
then one of three: a first send, which changes no row and no other transaction
(`FirstSendAlone`) and happens under a lock that is met (`FirstSendReleased`); an
INSERT of one row (`FreshShrinks`, `IngestInserts`), which adds one lock to one
transaction (`CustodyTaken`); or a step that leaves custody and network as they
were (`CustodySame`, `StepGrows`). Unlike `NoEarlyRelease` the promise holds of
transactions in several rows too: it asks for one of their locks.

`NothingDropped` needs its hypothesis because a removal by the user is the one
deletion that archives nothing. `AlarmsAreReal` needs both of its own because what
they exclude does leave a row unsealed for good: the random schedule never
reseals, and a crash between the UPDATE and the reseal takes the worker that was
to do it (the start reseals none). Its heart is that a worker about to reseal
changes no column: two workers on one row seal it twice, and the first seal
covers the columns of both.

`WaitingInv` answers how a row that some thread moves about can stay one that a
query returns. A row that is scheduled, failed or in scheduled mode has a date or
a price (`Sound`); a pending immediate row without one is new and in the hands of
the request that inserts it (`Loose`, `InHand`); and whatever the tick has read,
so whatever it may write back as scheduled or failed, has a date or a price for
good, because no statement takes the last one away (`Fits`, `BatchWaits`,
`HandWaits`). Without the last two, a late `update_tx_status` of a thread could
leave a row failed, to be requeued as scheduled for no date.

`LifetimeInv` says that the key expires within one lifetime of the user's last
use, or within two and before the next retention tick: the tick comes later than
the lifetime it starts, so it renews at most once. `OpensInv` says that nobody
holds a key before there is a verifier (`StoredInv`) and, while passwords were
set one at a time, that one request at most is setting one, no verifier is
written twice, and every key in the hands of a task, in the cache or in a blob is
the one an unlock derives now (`SettingInv`, `KeyInv`).

`ImplementsVault` puts these two together step by step. A key that is cached, or
in the hands of the task that caches it, had a verifier (`StoredInv`), so whoever
opens the vault opens one with a password; a request that asks for the key finds
it as open as it leaves it (`KeyAsked`), since a renewed key is good now
(`Renewed`) and an expired one is only cleared; and at a tick of the clock
`LifetimeInv` bounds what is still open by the time its user has been away
(`VaultWaits`). A second blob of a row that flush and retention both had in hand
stores nothing new (`VaultStores`). The assumption that `None` is not a cached key
is needed here for the first time.

`TargetInv` says that among all targets given out (in rows and in the hands of
threads that have not stored theirs) in one life and under one setting, no two
are equal and the next target in memory is above every one.

`RealInv` adds to `NoFictionElsewhere` the tip of the chain and the tips in
threads' hands, and that a wallet which opens with `server.version` on the shared
port is known before it is subscribed or waits: otherwise a push could make it a
Liana session and tell it the fabricated height.

`SettledInv` follows the last tip sent: it is the last in every queue that is not
empty (`LastQueued`), and what a session holds was made from the cache or from the
last tip sent, or another tip is on its way to everybody (`ToldIsRecent`). A cold
cache needs a clause of its own (`Warm`): nobody was told anything before it was
filled, so the first refresh cannot pass for a repetition.

`ImplementsFeed` needs of `RealInv` that the cache, the queues and the threads
hold heights up to the peak, and of `SettledInv` that a session which waits for
the indexer has subscribed (`Asked`). Each of the four ways a tip gets to a
session is then a `Show` of a real height (`FeedShows`), and what
`virtual_tip_height` makes of it is the feed's own fiction. The theorem says more
than `FictionStaysHome`: it also binds what a Liana session is shown, to the
target armed at that moment.

`InformedInv` follows one session and one scripthash at a time. `ToldPool` and
`ToldStatus` are the two properties with their excuses made exact: *quiet* (no
message about it queued, owed by a thread or lost) and *covered* (no change of the
chain queued, on the wire or missed). They are not inductive, because a session
answers from what it read earlier; hence `PushReads` (what a push has read from the
map is still the map while the scripthash is quiet) and `ReplyReads` (what a reply
has read from the indexer is real, and still the history while it is covered), and
`Interested`, since messages are counted as lost only for who subscribes. The
steps of everybody else fall under one lemma, `FrameInformed`: a step that changes
the map or the chain under a session leaves a message owed, queued, on the wire
or counted as lost or missed (`StoreFrame`, `MergeFrame`, `RemoveFrame`,
`SendQueues`). `JobsOrdered` gives the second store of a broadcast nothing to
overwrite in `owed`.

`NetworkInv` answers why a URL written by a reconnection, which may have been
probed under the network of another moment, cannot break `OnNetwork`: without a
pinned URL every reconnection begins with a URL that discovery has probed, a host
has one indexer, so it resolves to itself or to nothing (`ResolvesToItself`) and
nothing is written; and a pinned URL is never counted as verified. `FollowInv`
says that without drift one thread at most reconnects and that it carries the URL
of the configuration.

Only model-checked: the liveness properties (`EventuallyReleased`,
`EventuallyConfirmed`, `AutoDisarms`, `ClockRecovers`, `TipReachesWallets`,
`UmbrelConnects`), which rest on fairness and are outside the prover's reach.
Every invariant and every action property of the passing runs has its theorem.

## 5. Behaviour worth knowing

Met while modelling, and present in the model although no run is devoted to it:

- The random schedule writes two covered columns and never reseals
  (`pool/manager.rs:506`), and `MIGRATION_007` edits the mode at each start
  without resealing: both reach `NoFalseAlarm` by another road. With
  `Ops = {"import", "random"}` or `CfgModes = {"immediate"}` and a crash,
  `MCalarm` shows them.
- The tick sends from the batch it read. A row rescheduled, removed or given a
  price after that SELECT is still sent with this tick.
- A tick that failed to send a row writes `failed` over whatever another request has
  made of it since (`pool/manager.rs:720`), so a transaction that `broadcast_now`
  sent and a block confirmed may stay `failed` (with an nLockTime it is requeued and
  refused again and again). `Unclaimed` in `EventuallyConfirmed` excuses it.
- Without Bitcoin Core, an indexer that goes between the start of a tick and its
  send leaves "No broadcast backend available" in the row (`pool/manager.rs:383`),
  which no requeue takes for retriable: the row stays failed until the user acts.
  `MClive` has Core configured.
- An answer lost on the way back marks a sent transaction failed; it is true in
  the table again only when a later attempt gets "already in mempool".
- After a restart the virtual mempool is rebuilt before failed rows are
  requeued, so a requeued row is served to wallets only from its next send on.
- Two captures may write their clones of the configuration in the wrong order;
  after a crash the older target is served again. `DistinctTargets` is therefore
  stated within one life of the process.
- A disarm between the reading of the plan and the capture leaves a `by_block`
  row without a target; it waits for the user (`NoRowForgotten` counts it as
  the user's).
- The rebroadcast loop looks at no halt (`pool/manager.rs:915`): rows already
  accepted go out again while safe mode is on, where the design note of the encrypted
  pool stops "TODA la difusión"
  (`docs/superpowers/specs/2026-07-19-pool-encryption-and-archive-design.md:101`, a
  path from `src/`). `HaltLeaksWhatOvertookIt` speaks of first sends.
- `broadcast_now` reads a virtual target in `nlocktime` as the signed lock
  (`pool/manager.rs:569`) and refuses until the height is there.
- The sweep archives and deletes the rows it read, also one a retry has put back
  to work since (`db/mod.rs:1150`); flush and retention together may give one row
  two blobs.
- A configuration request refused at the height check leaves the block armed with
  the height it refused (`api/mod.rs:739`).

Statuses and headers, in `Subscriptions` and `ChainTip`:

- The fast path of `get_history` and of the subscription answers from the pending
  map alone when it has something; so does `modify_upstream_response`. Only the
  push hashes the real history too, as the comment at
  `electrum_server/mod.rs:910` asks. When the history cannot be read the push
  hashes an empty one. `StatusIsReal` excuses these through `missed`.
- A receiver that lagged yields an error its `select!` pattern does not match
  (`electrum_server/mod.rs:2366`): the branch stays off until a line or a tip
  wakes the session, and the overwritten scripthashes are not told again.
- The relay does not look at the answers to its subscriptions: a change before
  one is taken, or while it reconnects, is not announced.
- An ingest that fails or takes ten seconds leaves the pending entry, or leaves
  it without its inputs. The same transaction broadcast again replaces the entry
  by one with outputs only. A row inserted, sent and removed before the second
  store leaves a phantom entry until a restart.
- `notify_tx_confirmed`'s comment that no notification of the indexer is relayed
  predates the relay; `enrich_pending_for_scripthash` has no caller.
- With a cold cache an armed Liana session is answered with the real tip; arming
  and disarming push nothing. Two refreshers may send their tips in the wrong
  order, which only the next block repairs (the excuse in `TipReachesWallets`).

Discovery, in `Indexer`:

- `main.rs:420` takes the network from one probe and falls back on the built-in
  genesis; the retries of `apply_network_from_rpc` are not reached for a known
  network. A Core still warming up leaves the configured network.
- A manual indexer that does not answer at start-up is replaced by a discovered
  one, and that is saved; on Umbrel it is removed. `ManualSurvives` is stated for
  starts at which it works.
- The expected chain is Core's: after a change of network in the dashboard with
  Core on another chain, discovery looks for Core's (hence `{network, core}` in
  `OnNetwork`).
- A change of network that finds nothing keeps the old network's indexer; a save
  that fails returns before reconnecting; overlapping reconnections may leave the
  client on the older URL (`drift`). The retry on Umbrel stops after 40 attempts.

## 6. Not modelled

- Of the sessions: balances and unspent lists, `transaction.get`, ranges of headers
  and headers by height, framing of lines and batches. They answer from the same
  map and caches and change nothing.
- Price sources: polling and parsing; the monitor takes any price.
- Notifications: fire-and-forget messages that nothing reads back.
- Settings other than the virtual block, the network and the indexer, their
  encryption, torn files.
- Key files and cryptographic primitives: only that a MAC and a key depend on
  what they are computed from.
- Migration plans and the importer (sequential CRUD), fee figures (read-only),
  command line, logging and the dashboard page.
- Several networks in one table, LIMIT clauses, SQL errors other than a missing
  row, broadcasts by third parties, reorganisations in `BroadcastPool`.

## 7. Plan

In this order: `PoolRows`, `BroadcastPool`, its runs and theorems; `PoolClaims`;
`LianaBlock`, its runs and theorems; `Subscriptions`, `ChainTip`, `ArchiveKeys`,
`Indexer` and their runs; `TimelockedRelease` and the proof that `BroadcastPool`
implements it; the theorems of `ArchiveKeys`, `ChainTip` and `Indexer`; the theorems
about seals, deletions and waiting rows in `BroadcastPool`, about settled tips in
`ChainTip`, and all of `Subscriptions`; `TimedVault` and `TipFeed` and the proofs that
`ArchiveKeys` and `ChainTip` implement them; `PoolHalt` and its theorem. All of it is
done.

What could follow: the ranges of headers and single headers a session serves, for
which `TipFeed` would have to speak of more than the last tip, and an abstract
specification of the statuses a wallet is told, for `Subscriptions`.
