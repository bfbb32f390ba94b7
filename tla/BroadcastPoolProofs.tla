------------------------ MODULE BroadcastPoolProofs ------------------------
(***************************************************************************)
(* Theorems of BroadcastPool, for every number of rows, transactions and   *)
(* callers and every choice of loops, requests and faults.                 *)
(***************************************************************************)
EXTENDS BroadcastPool, TLAPS

-----------------------------------------------------------------------------
(* The statements of PoolRows map rows to rows.                            *)

\* The statements of db/mod.rs that take a row alone yield a row.
LEMMA RowToRow ==
    ASSUME NEW r \in Row
    PROVE  /\ reseal_row_mac(r) \in Row
           /\ reset_failed_to_scheduled(r) \in Row
           /\ mark_broadcast(r) \in Row
           /\ mark_confirmed(r) \in Row
           /\ record_broadcast_miss(r) \in Row
           /\ MIGRATION_007(r) \in Row
           /\ update_tx_status(r, "failed") \in Row
  <1>1. reseal_row_mac(r) \in Row
    BY DEF Row, MacInput, reseal_row_mac, row_mac_input
  <1>2. /\ reset_failed_to_scheduled(r) \in Row
        /\ update_tx_status(r, "failed") \in Row
    BY DEF Row, reset_failed_to_scheduled, update_tx_status, TxStatus, Live
  <1>3. mark_broadcast(r) \in Row
    BY DEF Row, mark_broadcast, TxStatus, Live, Time
  <1>4. mark_confirmed(r) \in Row /\ record_broadcast_miss(r) \in Row
    BY DEF Row, mark_confirmed, record_broadcast_miss, TxStatus, Live
  <1>5. MIGRATION_007(r) \in Row
    BY DEF Row, MIGRATION_007, Mode
  <1> QED
    BY <1>1, <1>2, <1>3, <1>4, <1>5

\* So do the ones that take a time or a price as well.
LEMMA TimedRowToRow ==
    ASSUME NEW r \in Row, NEW t \in Clock, NEW u \in Time, NEW v \in Time,
           NEW p \in Prices \union {NoPrice}
    PROVE  /\ mark_due(r, t) \in Row
           /\ mark_due_from_price_trigger(r, t) \in Row
           /\ random_schedule(r, t) \in Row
           /\ update_reschedule(r, u, v) \in Row
           /\ update_price_schedule(r, p) \in Row
  <1>0. /\ t \in Time /\ NoTime \in Time /\ NoPrice \in Prices \union {NoPrice}
        /\ {"scheduled", "pending"} \subseteq TxStatus
        /\ {"datetime", "price"} \subseteq Trigger
    BY DEF Time, TxStatus, Live, Trigger
  <1>1. mark_due(r, t) \in Row
    BY <1>0 DEF Row, mark_due
  <1>2. mark_due_from_price_trigger(r, t) \in Row
    BY <1>0 DEF Row, mark_due_from_price_trigger
  <1>3. random_schedule(r, t) \in Row
    BY <1>0 DEF Row, random_schedule
  <1>4. update_reschedule(r, u, v) \in Row
    BY <1>0 DEF Row, update_reschedule
  <1>5. update_price_schedule(r, p) \in Row
    BY <1>0 DEF Row, update_price_schedule
  <1> QED
    BY <1>1, <1>2, <1>3, <1>4, <1>5

\* An id without a row, and a freshly inserted row, are rows of the model.
LEMMA NewRow ==
    ASSUME NEW m \in Mode, NEW t \in Time, NEW r
    PROVE  /\ \A s \in TxStatus : EmptyRow(s) \in Row
           /\ insert_broadcast_tx(m, t) \in Row
           /\ remove_broadcast_tx(r) \in Row
  <1>1. \A s \in TxStatus : EmptyRow(s) \in Row
    BY DEF EmptyRow, reseal_row_mac, row_mac_input, Row, MacInput, Mode,
           Time, NoTime, NoPrice, Trigger
  <1>2. EmptyRow("pending") \in Row /\ EmptyRow("gone") \in Row
    BY <1>1 DEF TxStatus, Live
  <1>3. [EmptyRow("pending") EXCEPT !.mode = m, !.scheduled = t] \in Row
    BY <1>2 DEF Row
  <1> QED
    BY <1>1, <1>2, <1>3, RowToRow DEF insert_broadcast_tx, remove_broadcast_tx

\* An UPDATE of one row keeps the table a table.
LEMMA UpdateType ==
    ASSUME rows \in [Ids -> Row], NEW i \in Ids, NEW r \in Row, Update(i, r)
    PROVE  rows' \in [Ids -> Row]
  BY DEF Update

-----------------------------------------------------------------------------
(* The moves of a worker keep its registers typed.                         *)

WorkersOK ==
    /\ pc \in [Workers -> PC]
    /\ todo \in [Workers -> SUBSET Snapshot]
    /\ cur \in [Workers -> Ids \union {NoId}]
    /\ arg \in [Workers -> Arg]
    /\ \A w \in Workers : pc[w] \in OnRow => cur[w] \in Ids

\* Between two rows of a batch, or between two requests.
OffRow == PC \ OnRow

\* NoArg is a value of the argument registers.
LEMMA NoArgType == NoArg \in Arg
  BY DEF NoArg, Arg, Time, NoTime, NoPrice

\* What a SELECT returns is a set of snapshots.
LEMMA SelectType ==
    ASSUME NEW S \in SUBSET Ids PROVE Select(S) \in SUBSET Snapshot
  <1>1. \A i \in S : Tampered(rows[i]) \in BOOLEAN
    BY Zenon DEF Tampered
  <1>2. \A i \in S : Read(i) \in Snapshot
    BY <1>1 DEF Read, Snapshot
  <1> QED
    BY <1>2 DEF Select

\* A requeue takes rows of the table.
LEMMA RetriableType ==
    ASSUME NEW tab, NEW S \in Retriable(tab) PROVE S \in SUBSET Ids
  BY DEF Retriable

\* Every move of a worker keeps its registers typed.
LEMMA MoveType ==
    ASSUME WorkersOK, NEW w \in Workers
    PROVE  /\ \A s \in todo[w], p \in PC : Take(w, s, p) => WorkersOK'
           /\ \A s \in todo[w] : Skip(w, s) => WorkersOK'
           /\ \A S \in SUBSET Snapshot, p \in OffRow :
                Batch(w, p, S) => WorkersOK'
           /\ \A p \in OffRow : Back(w, p) => WorkersOK'
           /\ Finish(w) => WorkersOK'
           /\ \A i \in Ids, a \in Arg, p \in PC :
                Request(w, i, a, p) => WorkersOK'
           /\ \A p \in PC : Goto(w, p) /\ UNCHANGED <<todo, cur, arg>>
                /\ cur[w] \in Ids => WorkersOK'
           /\ UNCHANGED workers => WorkersOK'
  <1> USE DEF WorkersOK
  <1>1. ASSUME NEW s \in todo[w], NEW p \in PC, Take(w, s, p)
        PROVE  WorkersOK'
    <2>1. s.id \in Ids
      BY DEF Snapshot
    <2> QED
      BY <1>1, <2>1 DEF Take, Goto
  <1>2. ASSUME NEW s \in todo[w], Skip(w, s) PROVE WorkersOK'
    BY <1>2 DEF Skip
  <1>3. ASSUME NEW S \in SUBSET Snapshot, NEW p \in OffRow, Batch(w, p, S)
        PROVE  WorkersOK'
    BY <1>3 DEF Batch, Goto, OffRow
  <1>4. ASSUME NEW p \in OffRow, Back(w, p) PROVE WorkersOK'
    BY <1>4, NoArgType DEF Back, Goto, OffRow
  <1>5. ASSUME Finish(w) PROVE WorkersOK'
    BY <1>5, NoArgType DEF Finish, Goto, PC, OnRow, Sealing
  <1>6. ASSUME NEW i \in Ids, NEW a \in Arg, NEW p \in PC, Request(w, i, a, p)
        PROVE  WorkersOK'
    BY <1>6 DEF Request, Goto
  <1>7. ASSUME NEW p \in PC, Goto(w, p), UNCHANGED <<todo, cur, arg>>,
               cur[w] \in Ids
        PROVE  WorkersOK'
    BY <1>7 DEF Goto
  <1>8. ASSUME UNCHANGED workers PROVE WorkersOK'
    BY <1>8 DEF workers
  <1> QED
    BY <1>1, <1>2, <1>3, <1>4, <1>5, <1>6, <1>7, <1>8

-----------------------------------------------------------------------------
(* TypeOK is inductive.                                                    *)

DataOK ==
    /\ rows \in [Ids -> Row]
    /\ nlocktime \in [Ids -> Nat]
    /\ archive \subseteq Ids
    /\ safe_mode \in BOOLEAN
    /\ pending_txs \subseteq Txs
    /\ now \in Clock
    /\ height \in 0 .. MaxHeight
    /\ mtp \in LockThreshold .. MaxNow
    /\ chain \in ChainState
    /\ core \in BOOLEAN
    /\ net \in [Txs -> NetState]

\* TypeOK in two parts, before and after a step.
LEMMA TypeSplit == /\ TypeOK <=> DataOK /\ WorkersOK
                   /\ TypeOK' <=> DataOK' /\ WorkersOK'
  BY DEF TypeOK, DataOK, WorkersOK

\* A call to the network leaves the network in a state of the model.
LEMMA NetType ==
    ASSUME net \in [Txs -> NetState], NEW t \in Txs, NEW reply,
           broadcast_transaction(t, reply)
    PROVE  net' \in [Txs -> NetState]
  BY DEF broadcast_transaction, Accept, NetState

\* The rows a plan of resolve_ingest_plan describes are rows of the model.
LEMMA PlanType ==
    ASSUME DataOK, NEW src, NEW t \in Txs, NEW tip,
           NEW p \in resolve_ingest_plan(src, OwnLock[t], tip)
    PROVE  p.mode \in Mode /\ p.scheduled \in Time /\ p.n \in Nat
  <1> DEFINE n == OwnLock[t]
  <1>1. n \in Nat /\ n <= MaxNow
    BY PoolAssumption
  <1>2. now \in Time /\ NoTime \in Time
    BY DEF DataOK, Time
  <1>3. n > LockThreshold => n \in Time
    BY <1>1, RowsAssumption DEF Time, Clock
  <1>4. VirtualTargets \subseteq Nat /\ Clock \subseteq Time
    BY PoolAssumption DEF Time
  <1> HIDE DEF n
  <1>5. ASSUME NEW q \in resolve_broadcast_plan(n)
        PROVE  q.mode \in Mode /\ q.scheduled \in Time /\ q.n \in Nat
    BY <1>1, <1>2, <1>4 DEF resolve_broadcast_plan, Plan, Mode
  <1>6. p \in resolve_ingest_plan(src, n, tip)
    BY DEF n
  <1> QED
    BY <1>1, <1>2, <1>3, <1>4, <1>5, <1>6 DEF resolve_ingest_plan, Plan, Mode

\* The steps of the broadcast loop keep the types.
LEMMA TickType ==
    ASSUME TypeOK, NEW w \in Workers, Tick(w) \/ MarkBroadcast(w)
    PROVE  TypeOK'
  <1> USE TypeSplit
  <1>0. DataOK /\ WorkersOK
    OBVIOUS
  <1>1. CASE TickStart(w)
    <2>1. WorkersOK'
      BY <1>0, <1>1, MoveType, SelectType DEF TickStart, OffRow, PC, OnRow, Sealing
    <2>2. DataOK'
      BY <1>0, <1>1 DEF TickStart, DataOK, table, world
    <2> QED
      BY <2>1, <2>2
  <1>2. CASE TickRequeueList(w)
    <2>1. WorkersOK'
      BY <1>0, <1>2, MoveType, SelectType, RetriableType
         DEF TickRequeueList, OffRow, PC, OnRow, Sealing
    <2>2. DataOK'
      BY <1>0, <1>2 DEF TickRequeueList, DataOK, table, world
    <2> QED
      BY <2>1, <2>2
  <1>3. CASE TickDueList(w)
    <2>1. WorkersOK'
      BY <1>0, <1>3, MoveType, SelectType DEF TickDueList, OffRow, PC, OnRow, Sealing
    <2>2. DataOK'
      BY <1>0, <1>3 DEF TickDueList, DataOK, table, world
    <2> QED
      BY <2>1, <2>2
  <1>4. CASE TickDone(w)
    <2>1. WorkersOK'
      BY <1>0, <1>4, MoveType, SelectType DEF TickDone, OffRow, PC, OnRow, Sealing
    <2>2. DataOK'
      BY <1>0, <1>4 DEF TickDone, DataOK, table, world
    <2> QED
      BY <2>1, <2>2
  <1>5. CASE TickGate(w)
    <2>1. PICK s \in todo[w] :
            \/ safe_mode' = TRUE /\ Finish(w)
            \/ Take(w, s, "send") /\ UNCHANGED safe_mode
      BY <1>5 DEF TickGate
    <2>2. WorkersOK'
      BY <1>0, <2>1, MoveType DEF PC
    <2>3. DataOK'
      BY <1>0, <1>5, <2>1 DEF TickGate, DataOK, table, world
    <2> QED
      BY <2>2, <2>3
  <1>6. CASE TickMark(w)
    <2>1. PICK s \in todo[w] :
            \/ safe_mode' = TRUE /\ Batch(w, "mark", {}) /\ UNCHANGED rows
            \/ /\ Update(s.id, mark_due(rows[s.id], now))
               /\ Take(w, s, "mark_seal") /\ UNCHANGED safe_mode
      BY <1>6 DEF TickMark
    <2>2. s.id \in Ids
      BY <1>0 DEF WorkersOK, Snapshot
    <2>3. WorkersOK'
      BY <1>0, <2>1, MoveType DEF PC, OffRow, OnRow, Sealing
    <2>4. mark_due(rows[s.id], now) \in Row
      BY <1>0, <2>2, TimedRowToRow DEF DataOK, Time
    <2>5. rows' \in [Ids -> Row]
      BY <1>0, <2>1, <2>2, <2>4, UpdateType DEF DataOK
    <2>6. DataOK'
      BY <1>0, <1>6, <2>1, <2>5 DEF TickMark, DataOK, world
    <2> QED
      BY <2>3, <2>6
  <1>7. CASE TickRequeue(w)
    <2>1. PICK s \in todo[w] :
            \/ /\ Update(s.id, reset_failed_to_scheduled(rows[s.id]))
               /\ Take(w, s, "requeue_seal")
            \/ Batch(w, "requeue", {}) /\ UNCHANGED rows
      BY <1>7 DEF TickRequeue
    <2>2. s.id \in Ids
      BY <1>0 DEF WorkersOK, Snapshot
    <2>3. WorkersOK'
      BY <1>0, <2>1, MoveType DEF PC, OffRow, OnRow, Sealing
    <2>4. reset_failed_to_scheduled(rows[s.id]) \in Row
      BY <1>0, <2>2, RowToRow DEF DataOK
    <2>5. rows' \in [Ids -> Row]
      BY <1>0, <2>1, <2>2, <2>4, UpdateType DEF DataOK
    <2>6. DataOK'
      BY <1>0, <1>7, <2>5 DEF TickRequeue, DataOK, world
    <2> QED
      BY <2>3, <2>6
  <1>8. CASE TickHold(w)
    <2>1. cur[w] \in Ids
      BY <1>0, <1>8 DEF TickHold, WorkersOK, OnRow
    <2>2. Back(w, "gate") \/ Finish(w)
      BY <1>8 DEF TickHold
    <2>3. WorkersOK'
      BY <1>0, <2>2, MoveType DEF PC, OffRow, OnRow, Sealing
    <2>4. record_broadcast_miss(rows[cur[w]]) \in Row
      BY <1>0, <2>1, RowToRow DEF DataOK
    <2>5. rows' \in [Ids -> Row]
      BY <1>0, <1>8, <2>1, <2>4, UpdateType DEF DataOK, TickHold
    <2>6. DataOK'
      BY <1>0, <1>8, <2>5 DEF TickHold, DataOK, world
    <2> QED
      BY <2>3, <2>6
  <1>9. CASE TickSend(w)
    <2>1. cur[w] \in Ids /\ TxOf[cur[w]] \in Txs
      BY <1>0, <1>9, PoolAssumption DEF TickSend, WorkersOK, OnRow
    <2>2. PICK reply : broadcast_transaction(TxOf[cur[w]], reply)
      BY <1>9 DEF TickSend
    <2>3. net' \in [Txs -> NetState]
      BY <1>0, <2>1, <2>2, NetType DEF DataOK
    <2>4. WorkersOK'
      BY <1>0, <1>9, <2>1 DEF TickSend, Goto, WorkersOK, PC, OnRow, Sealing
    <2>5. DataOK'
      BY <1>0, <1>9, <2>3 DEF TickSend, DataOK, table, world
    <2> QED
      BY <2>4, <2>5
  <1>10. CASE MarkFailed(w)
    <2>1. cur[w] \in Ids
      BY <1>0, <1>10 DEF MarkFailed, WorkersOK, OnRow
    <2>2. WorkersOK'
      BY <1>0, <1>10, <2>1, MoveType DEF MarkFailed, PC, Sealing
    <2>3. update_tx_status(rows[cur[w]], "failed") \in Row
      BY <1>0, <2>1, RowToRow DEF DataOK
    <2>4. rows' \in [Ids -> Row]
      BY <1>0, <1>10, <2>1, <2>3, UpdateType DEF DataOK, MarkFailed
    <2>5. DataOK'
      BY <1>0, <1>10, <2>4 DEF MarkFailed, DataOK, world
    <2> QED
      BY <2>2, <2>5
  <1>11. CASE MarkBroadcast(w)
    <2>1. cur[w] \in Ids
      BY <1>0, <1>11 DEF MarkBroadcast, WorkersOK, OnRow
    <2>2. WorkersOK'
      BY <1>0, <1>11, <2>1, MoveType DEF MarkBroadcast, PC, Sealing
    <2>3. mark_broadcast(rows[cur[w]]) \in Row
      BY <1>0, <2>1, RowToRow DEF DataOK
    <2>4. rows' \in [Ids -> Row]
      BY <1>0, <1>11, <2>1, <2>3, UpdateType DEF DataOK, MarkBroadcast
    <2>5. DataOK'
      BY <1>0, <1>11, <2>4 DEF MarkBroadcast, DataOK, world
    <2> QED
      BY <2>2, <2>5
  <1> QED
    BY <1>1, <1>2, <1>3, <1>4, <1>5, <1>6, <1>7, <1>8, <1>9, <1>10, <1>11
       DEF Tick

\* The steps of the other loops keep the types.
LEMMA MonitorType ==
    ASSUME TypeOK, NEW w \in Workers, Monitor(w)
    PROVE  TypeOK'
  <1> USE TypeSplit
  <1>0. DataOK /\ WorkersOK
    OBVIOUS
  <1>1. CASE BlockList(w)
    <2>1. WorkersOK'
      BY <1>0, <1>1, MoveType, SelectType
         DEF BlockList, LoopStart, OffRow, PC, OnRow, Sealing
    <2>2. DataOK'
      BY <1>0, <1>1 DEF BlockList, LoopStart, DataOK, table, world
    <2> QED
      BY <2>1, <2>2
  <1>2. CASE PriceList(w)
    <2>1. WorkersOK'
      BY <1>0, <1>2, MoveType, SelectType
         DEF PriceList, LoopStart, OffRow, PC, OnRow, Sealing
    <2>2. DataOK'
      BY <1>0, <1>2 DEF PriceList, LoopStart, DataOK, table, world
    <2> QED
      BY <2>1, <2>2
  <1>3. CASE RebroadcastList(w)
    <2>1. WorkersOK'
      BY <1>0, <1>3, MoveType, SelectType
         DEF RebroadcastList, LoopStart, OffRow, PC, OnRow, Sealing
    <2>2. DataOK'
      BY <1>0, <1>3 DEF RebroadcastList, LoopStart, DataOK, table, world
    <2> QED
      BY <2>1, <2>2
  <1>4. CASE ConfirmList(w)
    <2>1. WorkersOK'
      BY <1>0, <1>4, MoveType, SelectType
         DEF ConfirmList, LoopStart, OffRow, PC, OnRow, Sealing
    <2>2. DataOK'
      BY <1>0, <1>4 DEF ConfirmList, LoopStart, DataOK, table, world
    <2> QED
      BY <2>1, <2>2
  <1>5. CASE RetainList(w)
    <2>1. WorkersOK'
      BY <1>0, <1>5, MoveType, SelectType
         DEF RetainList, LoopStart, OffRow, PC, OnRow, Sealing
    <2>2. DataOK'
      BY <1>0, <1>5 DEF RetainList, LoopStart, DataOK, table, world
    <2> QED
      BY <2>1, <2>2
  <1>6. CASE LoopEnd(w)
    <2>1. WorkersOK'
      BY <1>0, <1>6, MoveType DEF LoopEnd
    <2>2. DataOK'
      BY <1>0, <1>6 DEF LoopEnd, DataOK, table, world
    <2> QED
      BY <2>1, <2>2
  <1>7. CASE BlockMark(w)
    <2>1. PICK s \in todo[w] : /\ Update(s.id, mark_due(rows[s.id], now))
                               /\ Take(w, s, "block_seal")
      BY <1>7 DEF BlockMark
    <2>2. s.id \in Ids
      BY <1>0 DEF WorkersOK, Snapshot
    <2>3. WorkersOK'
      BY <1>0, <2>1, MoveType DEF PC, Sealing
    <2>4. mark_due(rows[s.id], now) \in Row
      BY <1>0, <2>2, TimedRowToRow DEF DataOK, Time
    <2>5. rows' \in [Ids -> Row]
      BY <1>0, <2>1, <2>2, <2>4, UpdateType DEF DataOK
    <2>6. DataOK'
      BY <1>0, <1>7, <2>5 DEF BlockMark, DataOK, world
    <2> QED
      BY <2>3, <2>6
  <1>8. CASE PriceMark(w)
    <2>1. PICK s \in todo[w] : /\ Update(s.id, mark_due_from_price_trigger(rows[s.id], now))
                               /\ Take(w, s, "price_seal")
      BY <1>8 DEF PriceMark
    <2>2. s.id \in Ids
      BY <1>0 DEF WorkersOK, Snapshot
    <2>3. WorkersOK'
      BY <1>0, <2>1, MoveType DEF PC, Sealing
    <2>4. mark_due_from_price_trigger(rows[s.id], now) \in Row
      BY <1>0, <2>2, TimedRowToRow DEF DataOK, Time
    <2>5. rows' \in [Ids -> Row]
      BY <1>0, <2>1, <2>2, <2>4, UpdateType DEF DataOK
    <2>6. DataOK'
      BY <1>0, <1>8, <2>5 DEF PriceMark, DataOK, world
    <2> QED
      BY <2>3, <2>6
  <1>9. CASE Rebroadcast(w)
    <2>1. PICK s \in todo[w], reply \in {"ok", "error", "retriable"} :
            broadcast_transaction(TxOf[s.id], reply) /\ Skip(w, s)
      BY <1>9 DEF Rebroadcast
    <2>2. s.id \in Ids /\ TxOf[s.id] \in Txs
      BY <1>0, PoolAssumption DEF WorkersOK, Snapshot
    <2>3. net' \in [Txs -> NetState]
      BY <1>0, <2>1, <2>2, NetType DEF DataOK
    <2>4. WorkersOK'
      BY <1>0, <2>1, MoveType
    <2>5. DataOK'
      BY <1>0, <1>9, <2>3 DEF Rebroadcast, DataOK, table, world
    <2> QED
      BY <2>4, <2>5
  <1>10. CASE Confirm(w)
    <2>1. PICK s \in todo[w] :
            \/ /\ Update(s.id, mark_confirmed(rows[s.id]))
               /\ Take(w, s, "confirm_seal")
            \/ Skip(w, s) /\ UNCHANGED rows
      BY <1>10 DEF Confirm
    <2>2. s.id \in Ids
      BY <1>0 DEF WorkersOK, Snapshot
    <2>3. WorkersOK'
      BY <1>0, <2>1, MoveType DEF PC, Sealing
    <2>4. mark_confirmed(rows[s.id]) \in Row
      BY <1>0, <2>2, RowToRow DEF DataOK
    <2>5. rows' \in [Ids -> Row]
      BY <1>0, <2>1, <2>2, <2>4, UpdateType DEF DataOK
    <2>6. DataOK'
      BY <1>0, <1>10, <2>5 DEF Confirm, DataOK, world
    <2> QED
      BY <2>3, <2>6
  <1>11. CASE Retain(w)
    <2>1. PICK s \in todo[w] :
            /\ Skip(w, s)
            /\ \/ UNCHANGED <<rows, archive>>
               \/ /\ archive' = archive \union {s.id}
                  /\ Update(s.id, remove_broadcast_tx(rows[s.id]))
      BY <1>11 DEF Retain
    <2>2. s.id \in Ids
      BY <1>0 DEF WorkersOK, Snapshot
    <2>3. WorkersOK'
      BY <1>0, <2>1, MoveType
    <2>4. remove_broadcast_tx(rows[s.id]) \in Row
      BY NewRow DEF Mode, Time
    <2>5. rows' \in [Ids -> Row] /\ archive' \subseteq Ids
      BY <1>0, <2>1, <2>2, <2>4, UpdateType DEF DataOK
    <2>6. DataOK'
      BY <1>0, <1>11, <2>5 DEF Retain, DataOK, world
    <2> QED
      BY <2>3, <2>6
  <1> QED
    BY <1>1, <1>2, <1>3, <1>4, <1>5, <1>6, <1>7, <1>8, <1>9, <1>10, <1>11
       DEF Monitor

\* reseal_row_mac keeps the types.
LEMMA ResealType ==
    ASSUME TypeOK, NEW w \in Workers, Reseal(w)
    PROVE  TypeOK'
  <1> USE TypeSplit
  <1>0. DataOK /\ WorkersOK
    OBVIOUS
  <1>1. pc[w] \in Sealing /\ cur[w] \in Ids
    BY <1>0 DEF Reseal, WorkersOK, OnRow
  <1>2. AfterSeal(w, pc[w]) \in OffRow
    BY <1>1 DEF AfterSeal, OffRow, PC, OnRow, Sealing
  <1>3. Back(w, AfterSeal(w, pc[w])) => WorkersOK'
    BY <1>0, <1>2, MoveType
  <1>4. SealError(w, pc[w]) => WorkersOK'
    <2>1. \/ ~SealError(w, pc[w])
          \/ Back(w, AfterSeal(w, pc[w])) \/ Batch(w, "requeue", {})
          \/ Finish(w)
      BY DEF SealError
    <2>2. Batch(w, "requeue", {}) => WorkersOK'
      BY <1>0, MoveType DEF OffRow, PC, OnRow, Sealing
    <2>3. Finish(w) => WorkersOK'
      BY <1>0, MoveType
    <2> QED
      BY <1>3, <2>1, <2>2, <2>3
  <1>5. WorkersOK'
    BY <1>3, <1>4 DEF Reseal
  <1>6. reseal_row_mac(rows[cur[w]]) \in Row
    BY <1>0, <1>1, RowToRow DEF DataOK
  <1>7. DataOK'
    BY <1>0, <1>1, <1>6 DEF Reseal, DataOK, world
  <1> QED
    BY <1>5, <1>7

\* The requests of users and wallets keep the types.
LEMMA CallType ==
    ASSUME TypeOK, NEW c \in Workers, Call(c)
    PROVE  TypeOK'
  <1> USE TypeSplit
  <1>0. DataOK /\ WorkersOK
    OBVIOUS
  <1>1. ASSUME NEW i \in Ids, ImportTransaction(c, i) PROVE TypeOK'
    <2>1. insert_broadcast_tx("imported", NoTime) \in Row
      BY NewRow DEF Mode, Time
    <2>2. DataOK'
      BY <1>0, <1>1, <2>1 DEF ImportTransaction, DataOK, world
    <2>3. WorkersOK'
      BY <1>0, <1>1, MoveType DEF ImportTransaction
    <2> QED
      BY <2>2, <2>3
  <1>2. ASSUME NEW i \in Ids, RetryFailed(c, i) PROVE TypeOK'
    <2>1. reset_failed_to_scheduled(rows[i]) \in Row
      BY <1>0, RowToRow DEF DataOK
    <2>2. rows' \in [Ids -> Row]
      BY <1>0, <1>2, <2>1, UpdateType DEF RetryFailed, DataOK
    <2>3. DataOK'
      BY <1>0, <1>2, <2>2 DEF RetryFailed, DataOK, world
    <2>4. WorkersOK'
      BY <1>0, <1>2, MoveType, NoArgType DEF RetryFailed, PC, Sealing
    <2> QED
      BY <2>3, <2>4
  <1>3. ASSUME NEW i \in Ids, RemoveTransaction(c, i) PROVE TypeOK'
    <2>1. remove_broadcast_tx(rows[i]) \in Row
      BY NewRow DEF Mode, Time
    <2>2. rows' \in [Ids -> Row]
      BY <1>0, <1>3, <2>1, UpdateType DEF RemoveTransaction, DataOK
    <2>3. DataOK'
      BY <1>0, <1>3, <2>2 DEF RemoveTransaction, DataOK, world
    <2>4. WorkersOK'
      BY <1>0, <1>3, MoveType DEF RemoveTransaction
    <2> QED
      BY <2>3, <2>4
  <1>4. ASSUME NEW i \in Ids, BroadcastNow(c, i) PROVE TypeOK'
    <2>1. WorkersOK'
      BY <1>0, <1>4, MoveType, NoArgType DEF BroadcastNow, PC
    <2>2. DataOK'
      BY <1>0, <1>4 DEF BroadcastNow, DataOK, table, world
    <2> QED
      BY <2>1, <2>2
  <1>5. ASSUME NEW i \in Ids, IngestAck(c, i) PROVE TypeOK'
    <2>1. WorkersOK'
      BY <1>0, <1>5, MoveType, NoArgType DEF IngestAck, PC
    <2>2. TxOf[i] \in Txs
      BY PoolAssumption
    <2>3. DataOK'
      BY <1>0, <1>5, <2>2 DEF IngestAck, DataOK, table, world
    <2> QED
      BY <2>1, <2>3
  <1>6. ASSUME NEW i \in Ids, NEW at \in Clock, ScheduleAt(c, i, at)
        PROVE  TypeOK'
    <2> DEFINE a == [NoArg EXCEPT !.at = at,
                        !.defer = IF IsReschedule(rows[i]) THEN at ELSE NoTime]
    <2>1. a \in Arg
      BY NoArgType DEF Arg, Time
    <2>2. WorkersOK'
      BY <1>0, <1>6, <2>1, MoveType DEF ScheduleAt, PC
    <2>3. DataOK'
      BY <1>0, <1>6 DEF ScheduleAt, DataOK, table, world
    <2> QED
      BY <2>2, <2>3
  <1>7. ASSUME NEW i \in Ids, NEW at \in Clock, ScheduleRandom(c, i, at)
        PROVE  TypeOK'
    <2>1. random_schedule(rows[i], at) \in Row
      BY <1>0, TimedRowToRow DEF DataOK, Time
    <2>2. rows' \in [Ids -> Row]
      BY <1>0, <1>7, <2>1, UpdateType DEF ScheduleRandom, DataOK
    <2>3. DataOK'
      BY <1>0, <1>7, <2>2 DEF ScheduleRandom, DataOK, world
    <2>4. WorkersOK'
      BY <1>0, <1>7, MoveType DEF ScheduleRandom
    <2> QED
      BY <2>3, <2>4
  <1>8. ASSUME NEW i \in Ids, NEW p \in Prices, ScheduleByPrice(c, i, p)
        PROVE  TypeOK'
    <2>1. [NoArg EXCEPT !.price = p] \in Arg
      BY NoArgType DEF Arg
    <2>2. WorkersOK'
      BY <1>0, <1>8, <2>1, MoveType DEF ScheduleByPrice, PC
    <2>3. DataOK'
      BY <1>0, <1>8 DEF ScheduleByPrice, DataOK, table, world
    <2> QED
      BY <2>2, <2>3
  <1>9. CASE ScheduleAtWrite(c)
    <2>1. cur[c] \in Ids /\ arg[c] \in Arg
      BY <1>0, <1>9 DEF ScheduleAtWrite, WorkersOK, OnRow
    <2>2. WorkersOK'
      BY <1>0, <1>9, <2>1, MoveType DEF ScheduleAtWrite, PC, Sealing
    <2>3. update_reschedule(rows[cur[c]], arg[c].at, arg[c].defer) \in Row
      BY <1>0, <2>1, TimedRowToRow DEF DataOK, Arg, Time
    <2>4. rows' \in [Ids -> Row]
      BY <1>0, <1>9, <2>1, <2>3, UpdateType DEF DataOK, ScheduleAtWrite
    <2>5. DataOK'
      BY <1>0, <1>9, <2>4 DEF ScheduleAtWrite, DataOK, world
    <2> QED
      BY <2>2, <2>5
  <1>10. CASE ScheduleByPriceWrite(c)
    <2>1. cur[c] \in Ids /\ arg[c] \in Arg
      BY <1>0, <1>10 DEF ScheduleByPriceWrite, WorkersOK, OnRow
    <2>2. WorkersOK'
      BY <1>0, <1>10, <2>1, MoveType DEF ScheduleByPriceWrite, PC, Sealing
    <2>3. update_price_schedule(rows[cur[c]], arg[c].price) \in Row
      BY <1>0, <2>1, TimedRowToRow DEF DataOK, Arg, Time
    <2>4. rows' \in [Ids -> Row]
      BY <1>0, <1>10, <2>1, <2>3, UpdateType DEF DataOK, ScheduleByPriceWrite
    <2>5. DataOK'
      BY <1>0, <1>10, <2>4 DEF ScheduleByPriceWrite, DataOK, world
    <2> QED
      BY <2>2, <2>5
  <1>11. CASE IngestDue(c)
    <2>1. cur[c] \in Ids /\ arg[c] \in Arg
      BY <1>0, <1>11 DEF IngestDue, WorkersOK, OnRow
    <2>2. WorkersOK'
      BY <1>0, <1>11, <2>1, MoveType DEF IngestDue, PC, Sealing
    <2>3. mark_due(rows[cur[c]], now) \in Row
      BY <1>0, <2>1, TimedRowToRow DEF DataOK, Arg, Time
    <2>4. rows' \in [Ids -> Row]
      BY <1>0, <1>11, <2>1, <2>3, UpdateType DEF DataOK, IngestDue
    <2>5. DataOK'
      BY <1>0, <1>11, <2>4 DEF IngestDue, DataOK, world
    <2> QED
      BY <2>2, <2>5
  <1>12. CASE BroadcastNowSend(c)
    <2>1. cur[c] \in Ids /\ TxOf[cur[c]] \in Txs
      BY <1>0, <1>12, PoolAssumption DEF BroadcastNowSend, WorkersOK, OnRow
    <2>2. net' \in [Txs -> NetState]
      BY <1>0, <1>12, <2>1, NetType DEF BroadcastNowSend, DataOK
    <2>3. WorkersOK'
      BY <1>0, <1>12, <2>1, MoveType DEF BroadcastNowSend, PC
    <2>4. DataOK'
      BY <1>0, <1>12, <2>2 DEF BroadcastNowSend, DataOK, table, world
    <2> QED
      BY <2>3, <2>4
  <1>13. CASE IngestInsert(c)
    <2>1. cur[c] \in Ids /\ TxOf[cur[c]] \in Txs
      BY <1>0, <1>13, PoolAssumption DEF IngestInsert, WorkersOK, OnRow
    <2>0. PICK src \in Sources, tip \in Seen(height) :
            \E p \in resolve_ingest_plan(src, OwnLock[TxOf[cur[c]]], tip) :
              /\ rows' = [rows EXCEPT ![cur[c]] =
                            insert_broadcast_tx(p.mode, p.scheduled)]
              /\ nlocktime' = [nlocktime EXCEPT ![cur[c]] = p.n]
              /\ Goto(c, IF p.mode = "immediate"
                         THEN "store_due" ELSE "store")
      BY <1>13 DEF IngestInsert
    <2>2. PICK p \in resolve_ingest_plan(src, OwnLock[TxOf[cur[c]]], tip) :
            /\ rows' = [rows EXCEPT ![cur[c]] =
                            insert_broadcast_tx(p.mode, p.scheduled)]
            /\ nlocktime' = [nlocktime EXCEPT ![cur[c]] = p.n]
            /\ Goto(c, IF p.mode = "immediate" THEN "store_due" ELSE "store")
      BY <2>0
    <2>3. p.mode \in Mode /\ p.scheduled \in Time /\ p.n \in Nat
      BY <1>0, <2>1, PlanType
    <2>4. insert_broadcast_tx(p.mode, p.scheduled) \in Row
      BY <2>3, NewRow
    <2>5. DataOK'
      BY <1>0, <1>13, <2>1, <2>2, <2>3, <2>4 DEF IngestInsert, DataOK, world
    <2>6. (IF p.mode = "immediate" THEN "store_due" ELSE "store") \in PC
      BY DEF PC
    <2>7. WorkersOK'
      BY <1>0, <1>13, <2>1, <2>2, <2>6, MoveType DEF IngestInsert
    <2> QED
      BY <2>5, <2>7
  <1>14. CASE IngestStore(c)
    <2>1. cur[c] \in Ids /\ TxOf[cur[c]] \in Txs
      BY <1>0, <1>14, PoolAssumption DEF IngestStore, WorkersOK, OnRow
    <2>2. WorkersOK'
      BY <1>0, <1>14, <2>1, MoveType DEF IngestStore, PC
    <2>3. DataOK'
      BY <1>0, <1>14, <2>1 DEF IngestStore, DataOK, table, world
    <2> QED
      BY <2>2, <2>3
  <1> QED
    BY <1>1, <1>2, <1>3, <1>4, <1>5, <1>6, <1>7, <1>8, <1>9, <1>10, <1>11,
       <1>12, <1>13, <1>14 DEF Call

\* The world around the program, and a restart, keep the types.
LEMMA EnvironmentType ==
    ASSUME TypeOK, Environment
    PROVE  TypeOK'
  <1> USE TypeSplit
  <1>0. DataOK /\ WorkersOK
    OBVIOUS
  <1>1. ASSUME UNCHANGED workers PROVE WorkersOK'
    BY <1>0, <1>1 DEF WorkersOK, workers
  <1>2. CASE Clocktick
    <2>1. now' \in Clock
      BY <1>0, <1>2, RowsAssumption DEF Clocktick, DataOK, Clock
    <2>2. DataOK' /\ UNCHANGED workers
      BY <1>0, <1>2, <2>1 DEF Clocktick, DataOK, table, workers
    <2> QED
      BY <1>1, <2>2
  <1>3. CASE Block
    <2>1. height' \in 0 .. MaxHeight
      BY <1>0, <1>3, PoolAssumption DEF Block, DataOK
    <2>2. mtp' \in LockThreshold .. MaxNow
      BY <1>0, <1>3, RowsAssumption DEF Block, DataOK, Clock
    <2>3. net' \in [Txs -> NetState]
      BY <1>0, <1>3 DEF Block, DataOK, NetState
    <2>4. DataOK' /\ UNCHANGED workers
      BY <1>0, <1>3, <2>1, <2>2, <2>3 DEF Block, DataOK, table
    <2> QED
      BY <1>1, <2>4
  <1>4. CASE \E t \in Txs : Evict(t)
    <2>1. DataOK' /\ UNCHANGED workers
      BY <1>0, <1>4 DEF Evict, DataOK, table, world, NetState
    <2> QED
      BY <1>1, <2>1
  <1>5. CASE Acknowledge
    <2>1. DataOK' /\ UNCHANGED workers
      BY <1>0, <1>5 DEF Acknowledge, DataOK, table, world
    <2> QED
      BY <1>1, <2>1
  <1>6. CASE Restart
    <2> DEFINE opened == [i \in Ids |-> MIGRATION_007(rows[i])]
    <2>1. \A i \in Ids : opened[i] \in Row
      BY <1>0, RowToRow DEF DataOK
    <2>2. PICK S : rows' = [i \in Ids |-> Requeued(opened[i], i \in S)]
      BY <1>6 DEF Restart
    <2>3. \A i \in Ids : Requeued(opened[i], i \in S) \in Row
      <3> HIDE DEF opened
      <3> TAKE i \in Ids
      <3>1. reset_failed_to_scheduled(opened[i]) \in Row
        BY <2>1, RowToRow
      <3>2. reseal_row_mac(reset_failed_to_scheduled(opened[i])) \in Row
        BY <3>1, RowToRow
      <3> QED
        BY <2>1, <3>2 DEF Requeued
    <2>4. rows' \in [Ids -> Row]
      BY <2>2, <2>3
    <2>5. pending_txs' \subseteq Txs
      BY <1>6, PoolAssumption DEF Restart
    <2>6. DataOK'
      BY <1>0, <1>6, <2>4, <2>5 DEF Restart, DataOK, world
    <2>7. WorkersOK'
      BY <1>6, NoArgType DEF Restart, WorkersOK, PC, OnRow, Sealing
    <2> QED
      BY <2>6, <2>7
  <1>7. CASE Backends
    <2>1. DataOK' /\ UNCHANGED workers
      BY <1>0, <1>7 DEF Backends, DataOK, table
    <2> QED
      BY <1>1, <2>1
  <1> QED
    BY <1>2, <1>3, <1>4, <1>5, <1>6, <1>7 DEF Environment

\* Type correctness of the pool: whatever loops and requests interleave and
\* whatever fails, every column, register and counter keeps its kind and a
\* worker that handles a row has one.
THEOREM TypeCorrect == Spec => []TypeOK
  <1>1. Init => TypeOK
    <2> SUFFICES ASSUME Init PROVE TypeOK
      OBVIOUS
    <2>1. EmptyRow("fresh") \in Row
      BY NewRow DEF TxStatus, Mode, Time
    <2>2. DataOK
      <3>1. now \in Clock /\ height \in 0 .. MaxHeight
            /\ mtp \in LockThreshold .. MaxNow
        BY RowsAssumption, PoolAssumption DEF Init, Clock
      <3>2. rows \in [Ids -> Row] /\ nlocktime \in [Ids -> Nat]
            /\ net \in [Txs -> NetState]
        BY <2>1 DEF Init, NetState
      <3>3. archive \subseteq Ids /\ pending_txs \subseteq Txs
            /\ safe_mode \in BOOLEAN /\ chain \in ChainState /\ core \in BOOLEAN
        BY DEF Init, ChainState
      <3> QED
        BY <3>1, <3>2, <3>3 DEF DataOK
    <2>3. WorkersOK
      BY NoArgType DEF Init, WorkersOK, PC, OnRow, Sealing
    <2> QED
      BY <2>2, <2>3, TypeSplit
  <1>2. TypeOK /\ [Next]_vars => TypeOK'
    <2> SUFFICES ASSUME TypeOK, [Next]_vars PROVE TypeOK'
      OBVIOUS
    <2>1. CASE UNCHANGED vars
      BY <2>1 DEF vars, TypeOK
    <2>2. ASSUME NEW w \in Workers, Step(w) PROVE TypeOK'
      BY <2>2, TickType, MonitorType, CallType, ResealType DEF Step
    <2>3. CASE Environment
      BY <2>3, EnvironmentType
    <2> QED
      BY <2>1, <2>2, <2>3 DEF Next
  <1> QED
    BY <1>1, <1>2, PTL DEF Spec
=============================================================================
