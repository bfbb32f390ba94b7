---------------------------- MODULE BroadcastPool ----------------------------
(***************************************************************************)
(* The pool manager (pool/manager.rs), the scheduler loops that drive it   *)
(* (pool/scheduler.rs), the API requests and wallet broadcasts that run    *)
(* beside them (api/mod.rs, electrum_server/mod.rs), the table they share  *)
(* (db/mod.rs) and the Bitcoin network they talk to.                       *)
(*                                                                         *)
(* Every thread of the program is a worker: one per scheduler loop and any *)
(* number of Callers for requests.  A worker's step is one critical        *)
(* section of the database mutex or one network call, so two workers       *)
(* interleave exactly where the program lets them: between the UPDATE of a *)
(* mutator and the reseal of its row_mac, between the SELECT of a batch    *)
(* and the handling of each of its rows, between a gate and the call to    *)
(* the network.  A chain read is folded into the step that uses it: it may *)
(* be stale by up to MaxLag, which also covers a read made earlier.        *)
(*                                                                         *)
(* Not modelled here: several networks in one table, LIMIT clauses, SQL    *)
(* errors other than a missing row, chain reorganisations, notifications.  *)
(***************************************************************************)
EXTENDS PoolRows, Integers

CONSTANTS
    Ids,            \* row ids (UUIDs, never reused)
    NoId,           \* no row
    Txs,            \* transactions
    TxOf,           \* [Ids -> Txs]: the transaction a row holds
    OwnLock,        \* [Txs -> Nat]: the nLockTime signed into it
    Callers,        \* threads serving API requests and wallet broadcasts
    Loops,          \* the scheduler loops that run
    Ops,            \* the requests the callers make
    Faults,         \* what may go wrong around the program
    Sources,        \* wallets: "liana", "sparrow", "other"
    CfgModes,       \* values of schedule.broadcast_mode in the configuration
    VirtualTargets, \* heights an armed Liana virtual block may hand out
    CoreConfigured, \* a Bitcoin Core RPC is configured beside the indexer
    MaxHeight,      \* bound on the chain's height
    MaxLag          \* how stale a chain read can be

AllLoops == {"tick", "block", "price", "rebroadcast", "confirm", "retain"}
AllOps == {"ingest", "import", "schedule_at", "by_price", "random", "retry",
           "remove", "now", "flush", "acknowledge"}
AllFaults == {"crash", "lost_reply", "reject", "evict", "no_clock", "no_core"}

ASSUME PoolAssumption ==
    /\ NoId \notin Ids
    /\ TxOf \in [Ids -> Txs]
    /\ OwnLock \in [Txs -> Nat]
    /\ Loops \subseteq AllLoops /\ Ops \subseteq AllOps
    /\ Faults \subseteq AllFaults
    /\ Callers \intersect AllLoops = {}
    /\ \A t \in Txs : OwnLock[t] <= MaxNow
    /\ CfgModes \subseteq Mode
    /\ VirtualTargets \subseteq Nat \ {0}
    /\ CoreConfigured \in BOOLEAN
    /\ MaxHeight \in Nat /\ MaxLag \in Nat

VARIABLES
    \* On disk.
    rows,       \* [Ids -> Row]: the broadcast_pool table
    nlocktime,  \* [Ids -> Nat]: its nlocktime column, fixed by the INSERT
    archive,    \* SUBSET Ids: rows with a blob in archive_pool
    \* In the process.
    safe_mode,  \* the global broadcast halt
    pending_txs,\* SUBSET Txs: the virtual mempool served to wallets
    pc,         \* [Workers -> PC]: where each worker is
    todo,       \* [Workers -> SUBSET Snapshot]: rest of the batch it read
    cur,        \* [Workers -> Ids \cup {NoId}]: the row it is handling
    arg,        \* [Workers -> Arg]: columns it is about to write
    \* Outside.
    now,        \* the wall clock
    height, mtp,\* the best chain's height and median time past
    chain,      \* whether a chain source answers, and is known to
    core,       \* BOOLEAN: Bitcoin Core answers what it is asked
    net         \* [Txs -> NetState]: what the network knows

table   == <<rows, nlocktime, archive>>
world   == <<now, height, mtp, chain, core>>
workers == <<pc, todo, cur, arg>>
vars == <<rows, nlocktime, archive, safe_mode, pending_txs,
          pc, todo, cur, arg, now, height, mtp, chain, core, net>>

Workers == Loops \union Callers

\* A row as a SELECT returned it: its id and the tampered flag of that read.
Snapshot == [id : Ids, tampered : BOOLEAN]
Arg      == [at : Time, defer : Time, price : Prices \union {NoPrice}]
NoArg    == [at |-> NoTime, defer |-> NoTime, price |-> NoPrice]
NetState == {"unseen", "mempool", "dropped", "mined"}

\* "lost": no source answers and the health snapshot has not noticed.  Under
\* "down" a read may succeed again before the snapshot says so.
ChainState == {"up", "lost", "down"}

Sealing == {"mark_seal", "requeue_seal", "sent_seal", "failed_seal",
            "block_seal", "price_seal", "confirm_seal", "api_seal"}
PC == {"idle", "mark", "requeue", "due", "gate", "send", "sent", "failed",
       "block", "price", "resend", "confirm", "retain", "now", "resched",
       "reprice", "insert", "store", "store_due", "mark_due"} \union Sealing

\* Where a worker is handling the row cur[w].
OnRow == {"send", "sent", "failed", "now", "resched", "reprice", "insert",
          "store", "store_due", "mark_due"} \union Sealing

Read(i) == [id |-> i, tampered |-> Tampered(rows[i])]
Select(S) == {Read(i) : i \in S}

Init ==
    /\ rows = [i \in Ids |-> EmptyRow("fresh")]
    /\ nlocktime = [i \in Ids |-> 0]
    /\ archive = {}
    /\ safe_mode = FALSE
    /\ pending_txs = {}
    /\ pc = [w \in Workers |-> "idle"]
    /\ todo = [w \in Workers |-> {}]
    /\ cur = [w \in Workers |-> NoId]
    /\ arg = [w \in Workers |-> NoArg]
    /\ now = LockThreshold + 1
    /\ height = 0
    /\ mtp = LockThreshold
    /\ chain = "up"
    /\ core = TRUE
    /\ net = [t \in Txs |-> "unseen"]

-----------------------------------------------------------------------------
(* How a worker moves.                                                     *)

Goto(w, p) == pc' = [pc EXCEPT ![w] = p]

\* Start on row s of the batch, at program point p.
Take(w, s, p) ==
    /\ Goto(w, p)
    /\ todo' = [todo EXCEPT ![w] = @ \ {s}]
    /\ cur' = [cur EXCEPT ![w] = s.id]
    /\ UNCHANGED arg

\* Drop row s of the batch and stay in the loop.
Skip(w, s) ==
    /\ todo' = [todo EXCEPT ![w] = @ \ {s}]
    /\ UNCHANGED <<pc, cur, arg>>

\* Read a fresh batch and go to program point p.
Batch(w, p, S) ==
    /\ Goto(w, p)
    /\ todo' = [todo EXCEPT ![w] = S]
    /\ cur' = [cur EXCEPT ![w] = NoId]
    /\ UNCHANGED arg

\* Leave the row being handled and go back to p with the rest of the batch.
Back(w, p) ==
    /\ Goto(w, p)
    /\ cur' = [cur EXCEPT ![w] = NoId]
    /\ arg' = [arg EXCEPT ![w] = NoArg]
    /\ UNCHANGED todo

Finish(w) ==
    /\ Goto(w, "idle")
    /\ todo' = [todo EXCEPT ![w] = {}]
    /\ cur' = [cur EXCEPT ![w] = NoId]
    /\ arg' = [arg EXCEPT ![w] = NoArg]

\* A request begins on row i with the columns a.
Request(c, i, a, p) ==
    /\ Goto(c, p)
    /\ cur' = [cur EXCEPT ![c] = i]
    /\ arg' = [arg EXCEPT ![c] = a]
    /\ UNCHANGED todo

\* An UPDATE of row i to r: it changes no row when i was deleted.
Update(i, r) == rows' = [rows EXCEPT ![i] = IF Present(@) THEN r ELSE @]

\* Where a worker goes once the reseal after its UPDATE has succeeded ...
AfterSeal(w, p) ==
    CASE p = "mark_seal"    -> "mark"
      [] p = "requeue_seal" -> "requeue"
      [] p \in {"sent_seal", "failed_seal"} ->
            IF w = "tick" THEN "gate" ELSE "idle"
      [] p = "block_seal"   -> "block"
      [] p = "price_seal"   -> "price"
      [] p = "confirm_seal" -> "confirm"
      [] OTHER              -> "idle"

\* ... and when it failed because the row is gone: an error that is only
\* logged continues, one passed up with `?` drops the rest of the batch.
SealError(w, p) ==
    CASE p \in {"mark_seal", "block_seal", "price_seal", "confirm_seal"} ->
            Back(w, AfterSeal(w, p))
      [] p = "requeue_seal" -> Batch(w, "requeue", {})
      [] OTHER              -> Finish(w)

\* reseal_row_mac: the second critical section of every mutator.  The
\* caller of db.mark_broadcast then removes the virtual mempool entry.
Reseal(w) ==
    /\ pc[w] \in Sealing
    /\ IF Present(rows[cur[w]])
       THEN /\ rows' = [rows EXCEPT ![cur[w]] = reseal_row_mac(@)]
            /\ pending_txs' = IF pc[w] = "sent_seal"
                              THEN pending_txs \ {TxOf[cur[w]]}
                              ELSE pending_txs
            /\ Back(w, AfterSeal(w, pc[w]))
       ELSE /\ UNCHANGED <<rows, pending_txs>>
            /\ SealError(w, pc[w])
    /\ UNCHANGED <<nlocktime, archive, safe_mode, net>> /\ UNCHANGED world

-----------------------------------------------------------------------------
(* The Bitcoin network and the chain clock, as the program uses them.      *)

\* Consensus: a height lock allows the next block, a time lock needs a
\* median time past strictly above it.
Final(t) ==
    \/ OwnLock[t] = 0
    \/ OwnLock[t] < LockThreshold /\ OwnLock[t] <= height
    \/ OwnLock[t] >= LockThreshold /\ OwnLock[t] < mtp

\* What the snapshot says; the loops that need a clock pass without it.
chain_clock_available == chain # "down"

\* What a read of a growing counter x may return; one that fails, 0.
Seen(x) == {y \in 0 .. x : y + MaxLag >= x}
           \union (IF chain = "up" THEN {} ELSE {0})

Accept(t) ==
    /\ net[t] = "mempool" \/ (net[t] \in {"unseen", "dropped"} /\ Final(t))
    /\ net' = [net EXCEPT ![t] = "mempool"]

\* Faulty variant: the failure of the last backend is taken for a success.
BroadcastSwallowsRefusal(t, reply) ==
    \/ reply = "ok" /\ Accept(t)
    \/ reply = "ok" /\ UNCHANGED net

\* broadcast_transaction: "ok", or an error as run_scheduler_tick sorts it.
\* Core's reason is hidden behind "Failed to broadcast transaction", so with
\* Core configured no error is ever retriable.
broadcast_transaction(t, reply) ==
    \/ reply = "ok" /\ Accept(t)
    \/ reply = "error" /\ "lost_reply" \in Faults /\ Accept(t)
    \/ reply = "error" /\ (net[t] = "mined" \/ chain # "up") /\ UNCHANGED net
    \/ /\ reply = IF CoreConfigured THEN "error" ELSE "retriable"
       /\ net[t] \in {"unseen", "dropped"} /\ ~Final(t) /\ UNCHANGED net
    \/ /\ reply \in {"error"} \union
                    (IF CoreConfigured THEN {} ELSE {"retriable"})
       /\ "reject" \in Faults /\ net[t] # "mined" /\ UNCHANGED net

\* Time passes.
Clocktick ==
    /\ now < MaxNow
    /\ now' = now + 1
    /\ UNCHANGED <<height, mtp, chain, core, safe_mode, pending_txs, net>>
    /\ UNCHANGED table /\ UNCHANGED workers

\* A block is found: it confirms some of the mempool's transactions.  At the
\* bound the height stays, the rest goes on.
Block ==
    /\ height < MaxHeight \/ mtp < now \/ \E t \in Txs : net[t] = "mempool"
    /\ height' = IF height < MaxHeight THEN height + 1 ELSE height
    /\ mtp' \in mtp .. now
    /\ \E S \in SUBSET {t \in Txs : net[t] = "mempool"} :
         net' = [t \in Txs |-> IF t \in S THEN "mined" ELSE net[t]]
    /\ UNCHANGED <<now, chain, core, safe_mode, pending_txs>>
    /\ UNCHANGED table /\ UNCHANGED workers

\* The chain sources and the snapshot of them come and go, and so does Core's
\* answer about a transaction (it may know none of the pool's: pruned, or
\* without an index).
Backends ==
    /\ \/ "no_clock" \in Faults /\ chain' \in ChainState /\ UNCHANGED core
       \/ "no_core" \in Faults /\ core' = ~core /\ UNCHANGED chain
    /\ UNCHANGED <<now, height, mtp, safe_mode, pending_txs, net>>
    /\ UNCHANGED table /\ UNCHANGED workers

\* Nodes drop a transaction from their mempools.
Evict(t) ==
    /\ "evict" \in Faults
    /\ net[t] = "mempool"
    /\ net' = [net EXCEPT ![t] = "dropped"]
    /\ UNCHANGED <<safe_mode, pending_txs>>
    /\ UNCHANGED table /\ UNCHANGED world /\ UNCHANGED workers

-----------------------------------------------------------------------------
(* The broadcast loop: run_broadcast_loop / run_scheduler_tick.            *)

\* First stage: the pending rows whose time has come.  Price-triggered rows
\* are passed over (a tampered one still halts the tick).
TickStart(w) ==
    /\ w = "tick" /\ pc[w] = "idle"
    /\ ~safe_mode /\ chain_clock_available
    /\ Batch(w, "mark", Select({i \in Ids :
          /\ get_pending_by_scheduled_time(rows[i], now)
          /\ rows[i].trigger # "price" \/ Tampered(rows[i])}))
    /\ UNCHANGED <<safe_mode, pending_txs, net>>
    /\ UNCHANGED table /\ UNCHANGED world

TickMark(w) ==
    /\ pc[w] = "mark"
    /\ \E s \in todo[w] :
         IF safe_mode \/ s.tampered
         THEN /\ safe_mode' = TRUE
              /\ Batch(w, "mark", {})
              /\ UNCHANGED rows
         ELSE /\ Update(s.id, mark_due(rows[s.id], now))
              /\ Take(w, s, "mark_seal")
              /\ UNCHANGED safe_mode
    /\ UNCHANGED <<nlocktime, archive, pending_txs, net>> /\ UNCHANGED world

\* The failed rows a call of requeue_retriable_failures may find retriable:
\* the ones with an nLockTime and "Failed to broadcast" in the stored error,
\* as every refusal of Core has; an indexer that was gone leaves "No broadcast
\* backend available" in some.
Retriable(tab) ==
    LET failed == {i \in Ids : tab[i].status = "failed" /\ nlocktime[i] > 0}
    IN IF CoreConfigured THEN {failed} ELSE SUBSET failed

\* Second stage: requeue_retriable_failures.
TickRequeueList(w) ==
    /\ pc[w] = "mark" /\ todo[w] = {}
    /\ \E S \in Retriable(rows) : Batch(w, "requeue", Select(S))
    /\ UNCHANGED <<safe_mode, pending_txs, net>>
    /\ UNCHANGED table /\ UNCHANGED world

TickRequeue(w) ==
    /\ pc[w] = "requeue"
    /\ \E s \in todo[w] :
         IF rows[s.id].status = "failed"
         THEN /\ Update(s.id, reset_failed_to_scheduled(rows[s.id]))
              /\ Take(w, s, "requeue_seal")
         ELSE /\ Batch(w, "requeue", {})
              /\ UNCHANGED rows
    /\ UNCHANGED <<nlocktime, archive, safe_mode, pending_txs, net>>
    /\ UNCHANGED world

\* Third stage: broadcast_due_transactions.
TickDueList(w) ==
    /\ pc[w] = "requeue" /\ todo[w] = {}
    /\ IF safe_mode
       THEN Finish(w)
       ELSE \E h \in Seen(height), m \in Seen(mtp) :
              Batch(w, "gate", Select({i \in Ids :
                /\ rows[i].status = "scheduled"
                /\ IsDue(rows[i], now)
                /\ is_locktime_satisfied(nlocktime[i], h, m)}))
    /\ UNCHANGED <<safe_mode, pending_txs, net>>
    /\ UNCHANGED table /\ UNCHANGED world

\* Faulty variant: the halt is only looked at before the batch.
TickGateWithoutHalt(w) ==
    /\ pc[w] = "gate"
    /\ \E s \in todo[w] :
         IF s.tampered
         THEN safe_mode' = TRUE /\ Finish(w)
         ELSE Take(w, s, "send") /\ UNCHANGED safe_mode
    /\ UNCHANGED <<pending_txs, net>>
    /\ UNCHANGED table /\ UNCHANGED world

TickGate(w) ==
    /\ pc[w] = "gate"
    /\ \E s \in todo[w] :
         IF safe_mode \/ s.tampered
         THEN safe_mode' = TRUE /\ Finish(w)
         ELSE Take(w, s, "send") /\ UNCHANGED safe_mode
    /\ UNCHANGED <<pending_txs, net>>
    /\ UNCHANGED table /\ UNCHANGED world

TickDone(w) ==
    /\ pc[w] = "gate" /\ todo[w] = {}
    /\ Finish(w)
    /\ UNCHANGED <<safe_mode, pending_txs, net>>
    /\ UNCHANGED table /\ UNCHANGED world

\* The locktime is read again just before the send.  A time lock that is not
\* reached records a miss; an unreadable MTP aborts the whole batch.
TickHold(w) ==
    /\ pc[w] = "send"
    /\ LET i == cur[w] IN
       \/ /\ \E h \in Seen(height), m \in Seen(mtp) :
               ~is_locktime_satisfied(nlocktime[i], h, m)
          /\ IF nlocktime[i] > LockThreshold
             THEN Update(i, record_broadcast_miss(rows[i]))
             ELSE UNCHANGED rows
          /\ Back(w, "gate")
       \/ /\ chain # "up" /\ nlocktime[i] > LockThreshold
          /\ Finish(w)
          /\ UNCHANGED rows
    /\ UNCHANGED <<nlocktime, archive, safe_mode, pending_txs, net>>
    /\ UNCHANGED world

\* Faulty variant: the lock is not read again before the send.
LocktimeUnread(i) == TRUE

LocktimeRead(i) ==
    \E h \in Seen(height), m \in Seen(mtp) :
        is_locktime_satisfied(nlocktime[i], h, m)

TickSend(w) ==
    /\ pc[w] = "send"
    /\ LocktimeRead(cur[w])
    /\ \/ broadcast_transaction(TxOf[cur[w]], "ok") /\ Goto(w, "sent")
          /\ UNCHANGED cur
       \/ broadcast_transaction(TxOf[cur[w]], "error") /\ Goto(w, "failed")
          /\ UNCHANGED cur
       \/ /\ broadcast_transaction(TxOf[cur[w]], "retriable")
          /\ Goto(w, "gate")
          /\ cur' = [cur EXCEPT ![w] = NoId]
    /\ UNCHANGED <<todo, arg, safe_mode, pending_txs>>
    /\ UNCHANGED table /\ UNCHANGED world

\* Also the last step of broadcast_now.
MarkBroadcast(w) ==
    /\ pc[w] = "sent"
    /\ Update(cur[w], mark_broadcast(rows[cur[w]]))
    /\ Goto(w, "sent_seal")
    /\ UNCHANGED <<nlocktime, archive, safe_mode, pending_txs, net>>
    /\ UNCHANGED <<todo, cur, arg>> /\ UNCHANGED world

MarkFailed(w) ==
    /\ pc[w] = "failed"
    /\ Update(cur[w], update_tx_status(rows[cur[w]], "failed"))
    /\ Goto(w, "failed_seal")
    /\ UNCHANGED <<nlocktime, archive, safe_mode, pending_txs, net>>
    /\ UNCHANGED <<todo, cur, arg>> /\ UNCHANGED world

-----------------------------------------------------------------------------
(* The other loops.  None of them looks at safe_mode or at the tampered    *)
(* flag, except retention, which leaves tampered rows where they are.      *)

LoopStart(w, loop, p, S) ==
    /\ w = loop /\ pc[w] = "idle"
    /\ Batch(w, p, Select(S))
    /\ UNCHANGED <<safe_mode, pending_txs, net>>
    /\ UNCHANGED table /\ UNCHANGED world

LoopEnd(w) ==
    /\ pc[w] \in {"block", "price", "resend", "confirm", "retain"}
    /\ todo[w] = {}
    /\ Finish(w)
    /\ UNCHANGED <<safe_mode, pending_txs, net>>
    /\ UNCHANGED table /\ UNCHANGED world

\* run_block_height_monitor
BlockList(w) ==
    /\ chain_clock_available
    /\ \E h \in Seen(height) :
        LoopStart(w, "block", "block", {i \in Ids :
            /\ get_pending_by_block_height(rows[i], nlocktime[i])
            /\ h >= nlocktime[i]})

\* Faulty variant: no reseal after the UPDATE.
BlockMarkUnsealed(w) ==
    /\ pc[w] = "block"
    /\ \E s \in todo[w] :
         /\ Update(s.id, mark_due(rows[s.id], now))
         /\ Skip(w, s)
    /\ UNCHANGED <<nlocktime, archive, safe_mode, pending_txs, net>>
    /\ UNCHANGED world

BlockMark(w) ==
    /\ pc[w] = "block"
    /\ \E s \in todo[w] :
         /\ Update(s.id, mark_due(rows[s.id], now))
         /\ Take(w, s, "block_seal")
    /\ UNCHANGED <<nlocktime, archive, safe_mode, pending_txs, net>>
    /\ UNCHANGED world

\* run_price_monitor / check_price_triggers with a fresh price p of the feed
\* ("above" targets; "below" is the same with the order reversed).
PriceList(w) ==
    \E p \in Prices :
        LoopStart(w, "price", "price", {i \in Ids :
            get_price_triggered_pending(rows[i]) /\ p >= rows[i].price})

\* Faulty variant: no reseal after the UPDATE.
PriceMarkUnsealed(w) ==
    /\ pc[w] = "price"
    /\ \E s \in todo[w] :
         /\ Update(s.id, mark_due_from_price_trigger(rows[s.id], now))
         /\ Skip(w, s)
    /\ UNCHANGED <<nlocktime, archive, safe_mode, pending_txs, net>>
    /\ UNCHANGED world

PriceMark(w) ==
    /\ pc[w] = "price"
    /\ \E s \in todo[w] :
         /\ Update(s.id, mark_due_from_price_trigger(rows[s.id], now))
         /\ Take(w, s, "price_seal")
    /\ UNCHANGED <<nlocktime, archive, safe_mode, pending_txs, net>>
    /\ UNCHANGED world

\* run_rebroadcast_loop / rebroadcast_pending; S: the rows whose last
\* emission is older than the interval.
RebroadcastList(w) ==
    /\ chain_clock_available
    /\ \E S \in SUBSET {i \in Ids : get_pending_rebroadcast(rows[i])} :
        LoopStart(w, "rebroadcast", "resend", S)

Rebroadcast(w) ==
    /\ pc[w] = "resend"
    /\ \E s \in todo[w], reply \in {"ok", "error", "retriable"} :
         /\ broadcast_transaction(TxOf[s.id], reply)
         /\ Skip(w, s)
    /\ UNCHANGED <<safe_mode, pending_txs>>
    /\ UNCHANGED table /\ UNCHANGED world

\* Faulty variant: a row once confirmed is not looked at again.
ConfirmListOnce(w) ==
    /\ CoreConfigured /\ chain_clock_available
    /\ LoopStart(w, "confirm", "confirm",
                 {i \in Ids : get_pending_rebroadcast(rows[i])})

\* run_confirmation_checker / check_confirmations (Bitcoin Core only: the
\* indexer fallback never confirms anything).
ConfirmList(w) ==
    /\ CoreConfigured /\ chain_clock_available
    /\ LoopStart(w, "confirm", "confirm",
                 {i \in Ids : rows[i].status = "broadcast"})

\* A row is passed over when Core does not answer: test_connection (then all
\* of them), get_transaction or get_block_count.
Confirm(w) ==
    /\ pc[w] = "confirm"
    /\ \E s \in todo[w] :
         \/ /\ net[TxOf[s.id]] = "mined"
            /\ Update(s.id, mark_confirmed(rows[s.id]))
            /\ Take(w, s, "confirm_seal")
         \/ /\ net[TxOf[s.id]] # "mined" \/ ~core
            /\ Skip(w, s) /\ UNCHANGED rows
    /\ UNCHANGED <<nlocktime, archive, safe_mode, pending_txs, net>>
    /\ UNCHANGED world

\* run_retention_loop, and the same sweep on request (archive_flush); S: the
\* terminal rows older than the cutoff.
RetainList(w) ==
    /\ w = "retain" \/ (w \in Callers /\ "flush" \in Ops)
    /\ \E S \in SUBSET {i \in Ids : select_terminal(rows[i])} :
         LoopStart(w, w, "retain", S)

\* Faulty variant: a row that cannot be archived is deleted all the same.
RetainDropsTampered(w) ==
    /\ pc[w] = "retain"
    /\ \E s \in todo[w] :
         /\ Skip(w, s)
         /\ archive' = IF s.tampered THEN archive ELSE archive \union {s.id}
         /\ Update(s.id, remove_broadcast_tx(rows[s.id]))
    /\ UNCHANGED <<nlocktime, safe_mode, pending_txs, net>>
    /\ UNCHANGED world

\* INSERT INTO archive_pool and DELETE FROM broadcast_pool, one transaction.
Retain(w) ==
    /\ pc[w] = "retain"
    /\ \E s \in todo[w] :
         /\ Skip(w, s)
         /\ IF s.tampered
            THEN UNCHANGED <<rows, archive>>
            ELSE /\ archive' = archive \union {s.id}
                 /\ Update(s.id, remove_broadcast_tx(rows[s.id]))
    /\ UNCHANGED <<nlocktime, safe_mode, pending_txs, net>>
    /\ UNCHANGED world

-----------------------------------------------------------------------------
(* Requests of the dashboard (api/mod.rs).  A request refused by an early  *)
(* return changes nothing and is not a step.                               *)

Calls(c, op) == c \in Callers /\ op \in Ops /\ pc[c] = "idle"

\* POST /transactions: import_transaction stores no nLockTime, whatever the
\* transaction says.
ImportTransaction(c, i) ==
    /\ Calls(c, "import")
    /\ rows[i].status = "fresh" /\ \A w \in Workers : cur[w] # i
    /\ rows' = [rows EXCEPT ![i] = insert_broadcast_tx("imported", NoTime)]
    /\ UNCHANGED <<nlocktime, archive, safe_mode, pending_txs, net>>
    /\ UNCHANGED world /\ UNCHANGED workers

\* schedule_at: the row is read and checked ...
ScheduleAt(c, i, at) ==
    /\ Calls(c, "schedule_at")
    /\ Present(rows[i])
    /\ at > now
    /\ nlocktime[i] > LockThreshold => at >= nlocktime[i]
    /\ Request(c, i, [NoArg EXCEPT !.at = at,
                          !.defer = IF IsReschedule(rows[i])
                                    THEN at ELSE NoTime], "resched")
    /\ UNCHANGED <<safe_mode, pending_txs, net>>
    /\ UNCHANGED table /\ UNCHANGED world

\* ... and written later, whatever its status has become.
ScheduleAtWrite(c) ==
    /\ pc[c] = "resched"
    /\ Update(cur[c], update_reschedule(rows[cur[c]], arg[c].at,
                                        arg[c].defer))
    /\ Goto(c, "api_seal")
    /\ UNCHANGED <<nlocktime, archive, safe_mode, pending_txs, net>>
    /\ UNCHANGED <<todo, cur, arg>> /\ UNCHANGED world

ScheduleByPrice(c, i, target) ==
    /\ Calls(c, "by_price")
    /\ rows[i].status \in {"pending", "scheduled"}
    /\ rows[i].mode \in UserMode
    /\ nlocktime[i] = 0
    /\ Request(c, i, [NoArg EXCEPT !.price = target], "reprice")
    /\ UNCHANGED <<safe_mode, pending_txs, net>>
    /\ UNCHANGED table /\ UNCHANGED world

ScheduleByPriceWrite(c) ==
    /\ pc[c] = "reprice"
    /\ Update(cur[c], update_price_schedule(rows[cur[c]], arg[c].price))
    /\ Goto(c, "api_seal")
    /\ UNCHANGED <<nlocktime, archive, safe_mode, pending_txs, net>>
    /\ UNCHANGED <<todo, cur, arg>> /\ UNCHANGED world

\* schedule_transaction, the random delay: one statement and no reseal.
ScheduleRandom(c, i, at) ==
    /\ Calls(c, "random")
    /\ Present(rows[i])
    /\ at >= now
    /\ Update(i, random_schedule(rows[i], at))
    /\ UNCHANGED <<nlocktime, archive, safe_mode, pending_txs, net>>
    /\ UNCHANGED world /\ UNCHANGED workers

RetryFailed(c, i) ==
    /\ Calls(c, "retry")
    /\ rows[i].status = "failed"
    /\ Update(i, reset_failed_to_scheduled(rows[i]))
    /\ Request(c, i, NoArg, "api_seal")
    /\ UNCHANGED <<nlocktime, archive, safe_mode, pending_txs, net>>
    /\ UNCHANGED world

RemoveTransaction(c, i) ==
    /\ Calls(c, "remove")
    /\ Present(rows[i])
    /\ Update(i, remove_broadcast_tx(rows[i]))
    /\ pending_txs' = pending_txs \ {TxOf[i]}
    /\ UNCHANGED <<nlocktime, archive, safe_mode, net>>
    /\ UNCHANGED world /\ UNCHANGED workers

\* broadcast_now, up to its network call.
BroadcastNow(c, i) ==
    /\ Calls(c, "now")
    /\ ~safe_mode
    /\ Present(rows[i])
    /\ IF Tampered(rows[i])
       THEN safe_mode' = TRUE /\ UNCHANGED workers
       ELSE /\ rows[i].status \notin {"broadcast", "confirmed"}
            /\ Request(c, i, NoArg, "now")
            /\ UNCHANGED safe_mode
    /\ UNCHANGED <<pending_txs, net>> /\ UNCHANGED table /\ UNCHANGED world

\* The locktime gate, the call, and an error straight back to the user; a
\* success goes on with MarkBroadcast.
BroadcastNowSend(c) ==
    /\ pc[c] = "now"
    /\ \/ /\ \E h \in Seen(height), m \in Seen(mtp) :
               ~is_locktime_satisfied(nlocktime[cur[c]], h, m)
          /\ Finish(c) /\ UNCHANGED net
       \/ /\ LocktimeRead(cur[c])
          /\ \/ /\ broadcast_transaction(TxOf[cur[c]], "ok")
                /\ Goto(c, "sent") /\ UNCHANGED <<todo, cur, arg>>
             \/ /\ \E reply \in {"error", "retriable"} :
                     broadcast_transaction(TxOf[cur[c]], reply)
                /\ Finish(c)
    /\ UNCHANGED <<safe_mode, pending_txs>>
    /\ UNCHANGED table /\ UNCHANGED world

\* POST /security/acknowledge
Acknowledge ==
    /\ "acknowledge" \in Ops
    /\ safe_mode
    /\ safe_mode' = FALSE
    /\ UNCHANGED <<pending_txs, net>> /\ UNCHANGED table
    /\ UNCHANGED world /\ UNCHANGED workers

-----------------------------------------------------------------------------
(* A wallet broadcasts (electrum_server/mod.rs).                           *)

\* intercept_and_handle_broadcast: the transaction enters the virtual
\* mempool and the wallet gets its ack before anything is on disk.
IngestAck(c, i) ==
    /\ Calls(c, "ingest")
    /\ rows[i].status = "fresh" /\ \A w \in Workers : cur[w] # i
    /\ pending_txs' = pending_txs \union {TxOf[i]}
    /\ Request(c, i, NoArg, "insert")
    /\ UNCHANGED <<safe_mode, net>> /\ UNCHANGED table /\ UNCHANGED world

Plan(mode, scheduled, n) == [mode |-> mode, scheduled |-> scheduled, n |-> n]

\* resolve_broadcast_plan: the configured default.
resolve_broadcast_plan(n) ==
    {Plan(m, NoTime, n) : m \in CfgModes \intersect {"manual", "by_block"}}
    \union {Plan("immediate", now, n) : m \in CfgModes \intersect {"immediate"}}
    \union {Plan(m, at, n) : m \in CfgModes \intersect {"scheduled"},
                            at \in Clock}

\* resolve_ingest_plan, and the nlocktime column handle_broadcast derives: a
\* Liana transaction that meets an armed virtual block takes its target.  The
\* block is read under two locks; disarmed in between, the row is by_block
\* without a target.
resolve_ingest_plan(src, n, tip) ==
    CASE src = "liana" ->
           {Plan("manual", NoTime, n)}
           \union {Plan("by_block", NoTime, v) : v \in VirtualTargets}
           \union {Plan("by_block", NoTime, n) : v \in VirtualTargets}
      [] src = "sparrow" /\ n = 0 -> {Plan("manual", NoTime, 0)}
      [] n > LockThreshold -> {Plan("scheduled", n, n)}
      [] src # "liana" /\ n > 0 /\ n < LockThreshold ->
           {IF n <= tip THEN Plan("immediate", now, n)
                        ELSE Plan("by_block", NoTime, n)}
      [] OTHER -> resolve_broadcast_plan(n)

\* handle_broadcast: the plan and the INSERT ...
IngestInsert(c) ==
    /\ pc[c] = "insert"
    /\ \E src \in Sources, tip \in Seen(height) :
       \E p \in resolve_ingest_plan(src, OwnLock[TxOf[cur[c]]], tip) :
         /\ rows' = [rows EXCEPT ![cur[c]] =
                        insert_broadcast_tx(p.mode, p.scheduled)]
         /\ nlocktime' = [nlocktime EXCEPT ![cur[c]] = p.n]
         /\ Goto(c, IF p.mode = "immediate" THEN "store_due" ELSE "store")
    /\ UNCHANGED <<archive, safe_mode, pending_txs, net>>
    /\ UNCHANGED <<todo, cur, arg>> /\ UNCHANGED world

\* ... the second store_pending_tx ...
IngestStore(c) ==
    /\ pc[c] \in {"store", "store_due"}
    /\ pending_txs' = pending_txs \union {TxOf[cur[c]]}
    /\ IF pc[c] = "store_due"
       THEN Goto(c, "mark_due") /\ UNCHANGED <<todo, cur, arg>>
       ELSE Finish(c)
    /\ UNCHANGED <<safe_mode, net>> /\ UNCHANGED table /\ UNCHANGED world

\* ... and, for an immediate transaction, mark_as_due.
IngestDue(c) ==
    /\ pc[c] = "mark_due"
    /\ Update(cur[c], mark_due(rows[cur[c]], now))
    /\ Goto(c, "api_seal")
    /\ UNCHANGED <<nlocktime, archive, safe_mode, pending_txs, net>>
    /\ UNCHANGED <<todo, cur, arg>> /\ UNCHANGED world

-----------------------------------------------------------------------------
(* The process dies and is started again: Database::open runs its          *)
(* migrations, load_pending_from_db rebuilds the virtual mempool and       *)
(* requeue_retriable_failures runs once, all before the loops start.       *)

Requeued(r, again) ==
    IF again THEN reseal_row_mac(reset_failed_to_scheduled(r)) ELSE r

\* A transaction whose scripthashes the indexer does not help to find is left
\* out of the virtual mempool; without an indexer, all are.
Restart ==
    /\ "crash" \in Faults
    /\ LET opened == [i \in Ids |-> MIGRATION_007(rows[i])] IN
       /\ pending_txs' \in SUBSET {TxOf[i] : i \in {j \in Ids :
                            opened[j].status \in {"pending", "scheduled"}}}
       /\ \E S \in Retriable(opened) :
            rows' = [i \in Ids |-> Requeued(opened[i], i \in S)]
    /\ safe_mode' = FALSE
    /\ pc' = [w \in Workers |-> "idle"]
    /\ todo' = [w \in Workers |-> {}]
    /\ cur' = [w \in Workers |-> NoId]
    /\ arg' = [w \in Workers |-> NoArg]
    /\ UNCHANGED <<nlocktime, archive, net>> /\ UNCHANGED world

-----------------------------------------------------------------------------
Tick(w) ==
    \/ TickStart(w) \/ TickMark(w) \/ TickRequeueList(w) \/ TickRequeue(w)
    \/ TickDueList(w) \/ TickGate(w) \/ TickDone(w) \/ TickHold(w)
    \/ TickSend(w) \/ MarkFailed(w)

Monitor(w) ==
    \/ BlockList(w) \/ BlockMark(w) \/ PriceList(w) \/ PriceMark(w)
    \/ RebroadcastList(w) \/ Rebroadcast(w) \/ ConfirmList(w) \/ Confirm(w)
    \/ RetainList(w) \/ Retain(w) \/ LoopEnd(w)

Call(c) ==
    \/ \E i \in Ids :
         \/ ImportTransaction(c, i) \/ RetryFailed(c, i)
         \/ RemoveTransaction(c, i) \/ BroadcastNow(c, i) \/ IngestAck(c, i)
         \/ \E at \in Clock : ScheduleAt(c, i, at) \/ ScheduleRandom(c, i, at)
         \/ \E p \in Prices : ScheduleByPrice(c, i, p)
    \/ ScheduleAtWrite(c) \/ ScheduleByPriceWrite(c) \/ BroadcastNowSend(c)
    \/ IngestInsert(c) \/ IngestStore(c) \/ IngestDue(c)

Step(w) == Tick(w) \/ Monitor(w) \/ Call(w) \/ MarkBroadcast(w) \/ Reseal(w)

Environment ==
    \/ Clocktick \/ Block \/ (\E t \in Txs : Evict(t)) \/ Backends
    \/ Acknowledge \/ Restart

Next == (\E w \in Workers : Step(w)) \/ Environment

Spec == Init /\ [][Next]_vars

\* Every loop is a task of its own that wakes up for ever, a request that was
\* accepted runs to its end, and time and the chain go on.  Nothing obliges a
\* user or a wallet to make a request.
Fairness ==
    /\ \A w \in Loops : WF_vars(Step(w))
    /\ \A c \in Callers : WF_vars(pc[c] # "idle" /\ Step(c))
    /\ WF_vars(Clocktick) /\ WF_vars(Block)

FairSpec == Spec /\ Fairness

-----------------------------------------------------------------------------
(* Properties.                                                             *)

\* Every variable holds a value of its kind; a worker past the start of a
\* request or of a batch row knows which row it is handling.
TypeOK ==
    /\ rows \in [Ids -> Row]
    /\ nlocktime \in [Ids -> Nat]
    /\ archive \subseteq Ids
    /\ safe_mode \in BOOLEAN
    /\ pending_txs \subseteq Txs
    /\ pc \in [Workers -> PC]
    /\ todo \in [Workers -> SUBSET Snapshot]
    /\ cur \in [Workers -> Ids \union {NoId}]
    /\ arg \in [Workers -> Arg]
    /\ now \in Clock
    /\ height \in 0 .. MaxHeight
    /\ mtp \in LockThreshold .. MaxNow
    /\ chain \in ChainState
    /\ core \in BOOLEAN
    /\ net \in [Txs -> NetState]
    /\ \A w \in Workers : pc[w] \in OnRow => cur[w] \in Ids

\* The table never claims more than the network has seen: a row marked
\* broadcast was accepted by a node, a row marked confirmed is in a block.
\* Between the answer of broadcast_transaction and mark_broadcast another
\* request may change, fail or delete the row.
BroadcastMeansAccepted ==
    \A i \in Ids :
        /\ rows[i].status = "broadcast" => net[TxOf[i]] # "unseen"
        /\ rows[i].status = "confirmed" => net[TxOf[i]] = "mined"

\* The row is the only one that holds its transaction.
Sole(i) == \A j \in Ids : TxOf[j] = TxOf[i] => j = i

\* The pool never hands a transaction to the network before the chain has
\* reached the locktime stored with it, the signed nLockTime or a Liana
\* virtual target: whichever loop or request sends it, on stale heights and
\* stale batches (get_median_time_past_cached: a stale value "can only delay
\* a broadcast, never fire one early").
NoEarlyRelease ==
    \A i \in Ids : Sole(i) /\ net[TxOf[i]] # "unseen"
        => nlocktime[i] <= IF nlocktime[i] <= LockThreshold THEN height ELSE mtp

\* Rows that were ever inserted keep their locktime, whatever becomes of them.
LocksOf(t) ==
    {nlocktime[i] : i \in {j \in Ids : TxOf[j] = t /\ rows[j].status # "fresh"}}

Promise == INSTANCE TimelockedRelease WITH
    Locks     <- {0} \union {OwnLock[t] : t \in Txs} \union VirtualTargets,
    Threshold <- LockThreshold,
    held      <- [t \in Txs |-> LocksOf(t)],
    released  <- {t \in Txs : net[t] # "unseen"}

\* The pool implements its promise: through every ingest plan, request, loop,
\* stale read, lost answer and restart, each transaction is released once,
\* from custody, under a lock it was really given and that has been reached,
\* and nothing rewrites the lock of a row.
KeepsPromise == Promise!Spec

\* A row whose row_mac is out of date has a worker on its way to reseal it:
\* the windows between an UPDATE and its reseal_row_mac are the only moments
\* an honest row reads as tampered.  (For the operations that reseal, in a
\* process that does not die; the runs on false alarms cover the others.)
UnsealedHasOwner ==
    \A i \in Ids : Present(rows[i]) /\ Tampered(rows[i])
        => \E w \in Workers : pc[w] \in Sealing /\ cur[w] = i

Claimed(i) ==
    LET r == rows[i] IN
    \/ r.status = "scheduled" /\ (r.scheduled # NoTime \/ r.defer # NoTime)
    \/ get_pending_by_scheduled_time(r, MaxNow)
    \/ get_pending_by_block_height(r, nlocktime[i])
    \/ get_price_triggered_pending(r)
    \/ r.status = "pending" /\ r.mode \in UserMode
    \/ /\ r.status = "pending" /\ r.mode = "by_block"
       /\ nlocktime[i] = 0 \/ nlocktime[i] >= LockThreshold
    \/ \E c \in Workers : pc[c] \in {"store_due", "mark_due"} /\ cur[c] = i

\* No waiting row is forgotten: each is selected by the query of some loop
\* once its time, height or price comes, or is shown to the user to schedule
\* by hand, or is still in the hands of the request that inserts it.  A
\* by_block row without a height waits for the user too.
NoRowForgotten ==
    \A i \in Ids : rows[i].status \in {"pending", "scheduled"} => Claimed(i)

\* Nothing but a removal by the user makes a row disappear without its blob
\* in the archive, whatever dies in between ("a crash can never drop a pool
\* row without its archive blob"); rows that cannot be archived stay.  (For
\* runs without the request "remove".)
NoRowDropped ==
    \A i \in Ids : rows[i].status = "gone" => i \in archive

\* A transaction the network has not seen is first sent by a worker that went
\* through a gate of the tick or of broadcast_now, never by a rebroadcast.
FirstSendIsGated ==
    [][\A t \in Txs : net[t] = "unseen" /\ net'[t] # "unseen" =>
        \E w \in Workers : pc[w] \in {"send", "now"} /\ TxOf[cur[w]] = t]_vars

\* From some moment on a chain source answers, and so does Bitcoin Core.
ClockStays == <>[](chain = "up")
CoreStays  == <>[](chain = "up" /\ core)

\* A transaction with a date or a height of its own reaches the network, or
\* the pool stops on an integrity alarm, or somebody takes the row away: no
\* interleaving of loops and no outage that ends leaves it behind for ever.
EventuallyReleased ==
    ClockStays => \A i \in Ids :
        (rows[i].status = "pending" /\ rows[i].mode \notin UserMode
            /\ (rows[i].mode = "by_block"
                  => nlocktime[i] \in 1 .. (LockThreshold - 1)))
        ~> (net[TxOf[i]] # "unseen" \/ safe_mode \/ ~Present(rows[i]))

\* Nobody who may write the status of row i has it in hand or in a batch.
Unclaimed(i) ==
    \A w \in Workers \ {"rebroadcast", "confirm"} :
        cur[w] # i /\ \A s \in todo[w] : s.id # i

\* A transaction in a block ends up confirmed in the table (or archived, or
\* removed), also when a late mark_broadcast has overwritten the first
\* confirmation, once Bitcoin Core answers.  A tick that is still to record a
\* refused send may overwrite the row instead; nobody else may.
EventuallyConfirmed ==
    CoreStays => \A i \in Ids :
        (rows[i].status = "broadcast" /\ net[TxOf[i]] = "mined" /\ Unclaimed(i))
        ~> (rows[i].status = "confirmed" \/ ~Present(rows[i]))
=============================================================================
