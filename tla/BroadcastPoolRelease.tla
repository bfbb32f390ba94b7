------------------------ MODULE BroadcastPoolRelease ------------------------
(***************************************************************************)
(* What becomes of a row, for every instance of BroadcastPool: nothing is  *)
(* released early, the pool keeps the promise TimelockedRelease states,    *)
(* and no waiting row is forgotten.                                        *)
(*                                                                         *)
(* All three need to know which rows exist: a worker handles, and a batch  *)
(* names, rows that were inserted (their locktime is fixed for good), and  *)
(* an insertion under way has its id for itself.                           *)
(***************************************************************************)
EXTENDS BroadcastPoolSafety

Fresh(i) == rows[i].status = "fresh"

\* NoEarlyRelease in the words of the code's own test.
LockWasMet ==
    \A i \in Ids : Sole(i) /\ net[TxOf[i]] # "unseen"
        => is_locktime_satisfied(nlocktime[i], height, mtp)

FreshUnseen == \A i \in Ids : Fresh(i) /\ Sole(i) => net[TxOf[i]] = "unseen"

HandledExists ==
    \A w \in Workers : pc[w] \in OnRow \ {"insert"} => ~Fresh(cur[w])

InsertReserved ==
    \A w \in Workers : pc[w] = "insert" =>
        /\ Fresh(cur[w])
        /\ \A v \in Workers : v # w => cur[v] # cur[w]

BatchExists == \A w \in Workers : \A s \in todo[w] : ~Fresh(s.id)

RegistersInv == HandledExists /\ InsertReserved /\ BatchExists

ReleaseInv == LockWasMet /\ FreshUnseen /\ RegistersInv

\* A step that inserts no row.
SameFresh == \A i \in Ids : Fresh(i)' <=> Fresh(i)

-----------------------------------------------------------------------------
(* The registers.                                                          *)

\* No UPDATE and no DELETE makes an id fresh again.
LEMMA UpdateFresh ==
    ASSUME TypeOK, NEW i \in Ids, NEW r, r.status # "fresh", Update(i, r)
    PROVE  SameFresh
  BY DEF TypeOK, SameFresh, Fresh, Update, Present, Live

\* The moves of a worker keep the registers on rows that exist.
LEMMA MoveRegisters ==
    ASSUME TypeOK, RegistersInv, SameFresh, NEW w \in Workers
    PROVE  /\ \A s \in todo[w], p \in PC \ {"insert"} :
                Take(w, s, p) => RegistersInv'
           /\ \A s \in todo[w] : Skip(w, s) => RegistersInv'
           /\ \A S \in SUBSET Snapshot, p \in OffRow :
                (\A s \in S : ~Fresh(s.id)) /\ Batch(w, p, S) => RegistersInv'
           /\ \A p \in OffRow : Back(w, p) => RegistersInv'
           /\ Finish(w) => RegistersInv'
           /\ \A i \in Ids, a \in Arg, p \in PC \ {"insert"} :
                ~Fresh(i) /\ Request(w, i, a, p) => RegistersInv'
           /\ \A p \in PC \ {"insert"} :
                /\ pc[w] \in OnRow \ {"insert"}
                /\ Goto(w, p) /\ UNCHANGED <<todo, cur, arg>>
                => RegistersInv'
           /\ UNCHANGED workers => RegistersInv'
  <1>0. /\ pc \in [Workers -> PC] /\ cur \in [Workers -> Ids \union {NoId}]
        /\ todo \in [Workers -> SUBSET Snapshot] /\ NoId \notin Ids
        /\ \A v \in Workers : pc[v] \in OnRow => cur[v] \in Ids
        /\ \A v \in Workers : \A s \in todo[v] : s.id \in Ids
    BY PoolAssumption DEF TypeOK, Snapshot
  <1>00. "insert" \in OnRow
    BY DEF OnRow
  <1> USE DEF RegistersInv, HandledExists, InsertReserved, BatchExists,
              SameFresh
  <1>1. ASSUME NEW s \in todo[w], NEW p \in PC \ {"insert"}, Take(w, s, p)
        PROVE  RegistersInv'
    BY <1>0, <1>00, <1>1 DEF Take, Goto
  <1>2. ASSUME NEW s \in todo[w], Skip(w, s) PROVE RegistersInv'
    BY <1>0, <1>00, <1>2 DEF Skip
  <1>3. ASSUME NEW S \in SUBSET Snapshot, NEW p \in OffRow,
               \A s \in S : ~Fresh(s.id), Batch(w, p, S)
        PROVE  RegistersInv'
    <2>1. \A s \in S : s.id \in Ids
      BY DEF Snapshot
    <2> QED
      BY <1>0, <1>00, <1>3, <2>1 DEF Batch, Goto, OffRow
  <1>4. ASSUME NEW p \in OffRow, Back(w, p) PROVE RegistersInv'
    BY <1>0, <1>00, <1>4 DEF Back, Goto, OffRow
  <1>5. ASSUME Finish(w) PROVE RegistersInv'
    <2>1. "idle" \notin OnRow
      BY DEF OnRow, Sealing
    <2> QED
      BY <1>0, <1>00, <1>5, <2>1 DEF Finish, Goto
  <1>6. ASSUME NEW i \in Ids, NEW a \in Arg, NEW p \in PC \ {"insert"},
               ~Fresh(i), Request(w, i, a, p)
        PROVE  RegistersInv'
    BY <1>0, <1>00, <1>6 DEF Request, Goto
  <1>7. ASSUME NEW p \in PC \ {"insert"}, pc[w] \in OnRow \ {"insert"},
               Goto(w, p), UNCHANGED <<todo, cur, arg>>
        PROVE  RegistersInv'
    BY <1>0, <1>00, <1>7 DEF Goto
  <1>8. ASSUME UNCHANGED workers PROVE RegistersInv'
    BY <1>0, <1>00, <1>8 DEF workers
  <1> QED
    BY <1>1, <1>2, <1>3, <1>4, <1>5, <1>6, <1>7, <1>8

\* Every query returns rows that exist.
LEMMA SelectExists ==
    ASSUME NEW S \in SUBSET Ids, \A i \in S : rows[i].status # "fresh"
    PROVE  /\ Select(S) \in SUBSET Snapshot
           /\ \A s \in Select(S) : ~Fresh(s.id)
  <1>1. Select(S) \in SUBSET Snapshot
    BY SelectType
  <1>2. \A s \in Select(S) : ~Fresh(s.id)
    BY DEF Select, Read, Fresh
  <1> QED
    BY <1>1, <1>2

\* The broadcast loop handles rows that exist.
LEMMA TickRegisters ==
    ASSUME TypeOK, RegistersInv, NEW w \in Workers, Tick(w) \/ MarkBroadcast(w)
    PROVE  SameFresh /\ RegistersInv'
  <1>0. RegistersInv
    OBVIOUS
  <1>1. CASE TickStart(w)
    <2>1. SameFresh
      BY <1>1 DEF TickStart, LoopStart, SameFresh, Fresh, table
    <2>2. RegistersInv'
      BY <1>1, <2>1, MoveRegisters, SelectExists
         DEF TickStart, LoopStart, get_pending_by_scheduled_time, OffRow, PC, OnRow, Sealing
    <2> QED
      BY <2>1, <2>2
  <1>2. CASE TickRequeueList(w)
    <2>1. SameFresh
      BY <1>2 DEF TickRequeueList, LoopStart, SameFresh, Fresh, table
    <2>2. RegistersInv'
      BY <1>2, <2>1, MoveRegisters, SelectExists
         DEF TickRequeueList, Retriable, OffRow, PC, OnRow, Sealing
    <2> QED
      BY <2>1, <2>2
  <1>3. CASE TickDueList(w)
    <2>1. SameFresh
      BY <1>3 DEF TickDueList, LoopStart, SameFresh, Fresh, table
    <2>2. RegistersInv'
      BY <1>3, <2>1, MoveRegisters, SelectExists
         DEF TickDueList, LoopStart, OffRow, PC, OnRow, Sealing
    <2> QED
      BY <2>1, <2>2
  <1>4. CASE TickDone(w)
    <2>1. SameFresh
      BY <1>4 DEF TickDone, SameFresh, Fresh, table
    <2>2. RegistersInv'
      BY <1>4, <2>1, MoveRegisters DEF TickDone, OffRow, PC, OnRow, Sealing
    <2> QED
      BY <2>1, <2>2
  <1>5. CASE TickGate(w)
    <2>1. SameFresh
      BY <1>5 DEF TickGate, SameFresh, Fresh, table
    <2>2. RegistersInv'
      BY <1>5, <2>1, MoveRegisters DEF TickGate, OffRow, PC, OnRow, Sealing
    <2> QED
      BY <2>1, <2>2
  <1>6. CASE TickMark(w)
    <2>1. PICK s \in todo[w] :
            \/ /\ Update(s.id, mark_due(rows[s.id], now))
               /\ Take(w, s, "mark_seal")
            \/ Batch(w, "mark", {}) /\ UNCHANGED rows
      BY <1>6 DEF TickMark
    <2>2. s.id \in Ids /\ rows[s.id] \in Row
      BY DEF TypeOK, Snapshot
    <2>3. mark_due(rows[s.id], now).status # "fresh"
      BY <2>1, <2>2, StatusWritten, <1>0 DEF RegistersInv, BatchExists, Fresh
    <2>4. SameFresh
      BY <2>1, <2>2, <2>3, UpdateFresh DEF SameFresh, Fresh
    <2>5. RegistersInv'
      BY <2>1, <2>4, MoveRegisters DEF OffRow, PC, OnRow, Sealing
    <2> QED
      BY <2>4, <2>5
  <1>7. CASE TickRequeue(w)
    <2>1. PICK s \in todo[w] :
            \/ /\ Update(s.id, reset_failed_to_scheduled(rows[s.id]))
               /\ Take(w, s, "requeue_seal")
            \/ Batch(w, "requeue", {}) /\ UNCHANGED rows
      BY <1>7 DEF TickRequeue
    <2>2. s.id \in Ids /\ rows[s.id] \in Row
      BY DEF TypeOK, Snapshot
    <2>3. reset_failed_to_scheduled(rows[s.id]).status # "fresh"
      BY <2>1, <2>2, StatusWritten, <1>0 DEF RegistersInv, BatchExists, Fresh
    <2>4. SameFresh
      BY <2>1, <2>2, <2>3, UpdateFresh DEF SameFresh, Fresh
    <2>5. RegistersInv'
      BY <2>1, <2>4, MoveRegisters DEF OffRow, PC, OnRow, Sealing
    <2> QED
      BY <2>4, <2>5
  <1>8. CASE TickHold(w)
    <2>1. /\ cur[w] \in Ids /\ rows[cur[w]] \in Row
          /\ pc[w] \in OnRow \ {"insert"}
      BY <1>8 DEF TickHold, TypeOK, OnRow
    <2>2. record_broadcast_miss(rows[cur[w]]).status # "fresh"
      BY <2>1, StatusWritten DEF RegistersInv, HandledExists, Fresh
    <2>3. SameFresh
      BY <1>8, <2>1, <2>2, UpdateFresh DEF TickHold, SameFresh, Fresh
    <2>4. Back(w, "gate") \/ Finish(w)
      BY <1>8 DEF TickHold
    <2>5. RegistersInv'
      BY <2>3, <2>4, MoveRegisters DEF OffRow, PC, OnRow, Sealing
    <2> QED
      BY <2>3, <2>5
  <1>9. CASE TickSend(w)
    <2>1. SameFresh
      BY <1>9 DEF TickSend, SameFresh, Fresh, table
    <2>2. pc[w] \in OnRow \ {"insert"} /\ UNCHANGED <<todo, arg>>
      BY <1>9 DEF TickSend, OnRow
    <2>3. \/ (Goto(w, "sent") \/ Goto(w, "failed")) /\ UNCHANGED cur
          \/ Goto(w, "gate") /\ cur' = [cur EXCEPT ![w] = NoId]
      BY <1>9 DEF TickSend
    <2>4. CASE (Goto(w, "sent") \/ Goto(w, "failed")) /\ UNCHANGED cur
      BY <2>1, <2>2, <2>4, MoveRegisters DEF PC
    <2>5. CASE Goto(w, "gate") /\ cur' = [cur EXCEPT ![w] = NoId]
      <3>1. /\ pc \in [Workers -> PC] /\ NoId \notin Ids
            /\ cur \in [Workers -> Ids \union {NoId}]
            /\ \A v \in Workers : pc[v] \in OnRow => cur[v] \in Ids
            /\ \A v \in Workers : \A s \in todo[v] : s.id \in Ids
            /\ "gate" \notin OnRow /\ "insert" \in OnRow
        BY PoolAssumption DEF TypeOK, Snapshot, OnRow, Sealing
      <3>2. RegistersInv'
        BY <2>1, <2>2, <2>5, <3>1
           DEF Goto, RegistersInv, HandledExists, InsertReserved,
               BatchExists, SameFresh
      <3> QED
        BY <2>1, <3>2
    <2> QED
      BY <2>1, <2>3, <2>4, <2>5
  <1>10. CASE MarkFailed(w)
    <2>1. /\ cur[w] \in Ids /\ rows[cur[w]] \in Row
          /\ pc[w] \in OnRow \ {"insert"}
      BY <1>10 DEF MarkFailed, TypeOK, OnRow
    <2>2. update_tx_status(rows[cur[w]], "failed").status # "fresh"
      BY <2>1, StatusWritten
    <2>3. SameFresh
      BY <1>10, <2>1, <2>2, UpdateFresh DEF MarkFailed
    <2>4. RegistersInv'
      BY <1>10, <2>1, <2>3, MoveRegisters DEF MarkFailed, PC, Sealing
    <2> QED
      BY <2>3, <2>4
  <1>11. CASE MarkBroadcast(w)
    <2>1. /\ cur[w] \in Ids /\ rows[cur[w]] \in Row
          /\ pc[w] \in OnRow \ {"insert"}
      BY <1>11 DEF MarkBroadcast, TypeOK, OnRow
    <2>2. mark_broadcast(rows[cur[w]]).status # "fresh"
      BY <2>1, StatusWritten
    <2>3. SameFresh
      BY <1>11, <2>1, <2>2, UpdateFresh DEF MarkBroadcast
    <2>4. RegistersInv'
      BY <1>11, <2>1, <2>3, MoveRegisters DEF MarkBroadcast, PC, Sealing
    <2> QED
      BY <2>3, <2>4
  <1> QED
    BY <1>1, <1>2, <1>3, <1>4, <1>5, <1>6, <1>7, <1>8, <1>9, <1>10, <1>11
       DEF Tick

\* The other loops handle rows that exist.
LEMMA MonitorRegisters ==
    ASSUME TypeOK, RegistersInv, NEW w \in Workers, Monitor(w)
    PROVE  SameFresh /\ RegistersInv'
  <1>0. RegistersInv
    OBVIOUS
  <1>1. CASE BlockList(w)
    <2>1. SameFresh
      BY <1>1 DEF BlockList, LoopStart, SameFresh, Fresh, table
    <2>2. RegistersInv'
      BY <1>1, <2>1, MoveRegisters, SelectExists
         DEF BlockList, LoopStart, get_pending_by_block_height, OffRow, PC, OnRow, Sealing
    <2> QED
      BY <2>1, <2>2
  <1>2. CASE PriceList(w)
    <2>1. SameFresh
      BY <1>2 DEF PriceList, LoopStart, SameFresh, Fresh, table
    <2>2. RegistersInv'
      BY <1>2, <2>1, MoveRegisters, SelectExists
         DEF PriceList, LoopStart, get_price_triggered_pending, OffRow, PC, OnRow, Sealing
    <2> QED
      BY <2>1, <2>2
  <1>3. CASE RebroadcastList(w)
    <2>1. SameFresh
      BY <1>3 DEF RebroadcastList, LoopStart, SameFresh, Fresh, table
    <2>2. RegistersInv'
      BY <1>3, <2>1, MoveRegisters, SelectExists
         DEF RebroadcastList, LoopStart, get_pending_rebroadcast, OffRow, PC, OnRow, Sealing
    <2> QED
      BY <2>1, <2>2
  <1>4. CASE ConfirmList(w)
    <2>1. SameFresh
      BY <1>4 DEF ConfirmList, LoopStart, SameFresh, Fresh, table
    <2>2. RegistersInv'
      BY <1>4, <2>1, MoveRegisters, SelectExists
         DEF ConfirmList, LoopStart, OffRow, PC, OnRow, Sealing
    <2> QED
      BY <2>1, <2>2
  <1>5. CASE RetainList(w)
    <2>1. SameFresh
      BY <1>5 DEF RetainList, LoopStart, SameFresh, Fresh, table
    <2>2. RegistersInv'
      BY <1>5, <2>1, MoveRegisters, SelectExists
         DEF RetainList, LoopStart, select_terminal, OffRow, PC, OnRow, Sealing
    <2> QED
      BY <2>1, <2>2
  <1>6. CASE LoopEnd(w)
    <2>1. SameFresh
      BY <1>6 DEF LoopEnd, SameFresh, Fresh, table
    <2>2. RegistersInv'
      BY <1>6, <2>1, MoveRegisters DEF LoopEnd, OffRow, PC, OnRow, Sealing
    <2> QED
      BY <2>1, <2>2
  <1>7. CASE BlockMark(w)
    <2>1. PICK s \in todo[w] :
            /\ Update(s.id, mark_due(rows[s.id], now))
            /\ Take(w, s, "block_seal")
      BY <1>7 DEF BlockMark
    <2>2. s.id \in Ids /\ rows[s.id] \in Row
      BY DEF TypeOK, Snapshot
    <2>3. mark_due(rows[s.id], now).status # "fresh"
      BY <2>1, <2>2, StatusWritten, <1>0 DEF RegistersInv, BatchExists, Fresh
    <2>4. SameFresh
      BY <2>1, <2>2, <2>3, UpdateFresh DEF SameFresh, Fresh
    <2>5. RegistersInv'
      BY <2>1, <2>4, MoveRegisters DEF OffRow, PC, OnRow, Sealing
    <2> QED
      BY <2>4, <2>5
  <1>8. CASE PriceMark(w)
    <2>1. PICK s \in todo[w] :
            /\ Update(s.id, mark_due_from_price_trigger(rows[s.id], now))
            /\ Take(w, s, "price_seal")
      BY <1>8 DEF PriceMark
    <2>2. s.id \in Ids /\ rows[s.id] \in Row
      BY DEF TypeOK, Snapshot
    <2>3. mark_due_from_price_trigger(rows[s.id], now).status # "fresh"
      BY <2>1, <2>2, StatusWritten, <1>0 DEF RegistersInv, BatchExists, Fresh
    <2>4. SameFresh
      BY <2>1, <2>2, <2>3, UpdateFresh DEF SameFresh, Fresh
    <2>5. RegistersInv'
      BY <2>1, <2>4, MoveRegisters DEF OffRow, PC, OnRow, Sealing
    <2> QED
      BY <2>4, <2>5
  <1>9. CASE Rebroadcast(w)
    <2>1. SameFresh
      BY <1>9 DEF Rebroadcast, SameFresh, Fresh, table
    <2>2. RegistersInv'
      BY <1>9, <2>1, MoveRegisters DEF Rebroadcast, OffRow, PC, OnRow, Sealing
    <2> QED
      BY <2>1, <2>2
  <1>10. CASE Confirm(w)
    <2>1. PICK s \in todo[w] :
            \/ /\ Update(s.id, mark_confirmed(rows[s.id]))
               /\ Take(w, s, "confirm_seal")
            \/ Skip(w, s) /\ UNCHANGED rows
      BY <1>10 DEF Confirm
    <2>2. s.id \in Ids /\ rows[s.id] \in Row
      BY DEF TypeOK, Snapshot
    <2>3. mark_confirmed(rows[s.id]).status # "fresh"
      BY <2>1, <2>2, StatusWritten, <1>0 DEF RegistersInv, BatchExists, Fresh
    <2>4. SameFresh
      BY <2>1, <2>2, <2>3, UpdateFresh DEF SameFresh, Fresh
    <2>5. RegistersInv'
      BY <2>1, <2>4, MoveRegisters DEF OffRow, PC, OnRow, Sealing
    <2> QED
      BY <2>4, <2>5
  <1>11. CASE Retain(w)
    <2>1. PICK s \in todo[w] :
            /\ Skip(w, s)
            /\ \/ UNCHANGED rows
               \/ Update(s.id, remove_broadcast_tx(rows[s.id]))
      BY <1>11 DEF Retain
    <2>2. s.id \in Ids
      BY DEF TypeOK, Snapshot
    <2>3. remove_broadcast_tx(rows[s.id]).status # "fresh"
      BY StatusInserted DEF Mode, Time
    <2>4. SameFresh
      BY <2>1, <2>2, <2>3, UpdateFresh DEF SameFresh, Fresh
    <2>5. RegistersInv'
      BY <2>1, <2>4, MoveRegisters
    <2> QED
      BY <2>4, <2>5
  <1> QED
    BY <1>1, <1>2, <1>3, <1>4, <1>5, <1>6, <1>7, <1>8, <1>9, <1>10, <1>11
       DEF Monitor

\* So does reseal_row_mac.
LEMMA ResealRegisters ==
    ASSUME TypeOK, RegistersInv, NEW w \in Workers, Reseal(w)
    PROVE  SameFresh /\ RegistersInv'
  <1>1. /\ pc[w] \in Sealing /\ cur[w] \in Ids /\ rows[cur[w]] \in Row
        /\ ~Fresh(cur[w])
    BY DEF Reseal, TypeOK, OnRow, RegistersInv, HandledExists, Sealing
  <1>2. reseal_row_mac(rows[cur[w]]).status = rows[cur[w]].status
    BY <1>1, StatusWritten
  <1>3. SameFresh
    BY <1>1, <1>2 DEF Reseal, SameFresh, Fresh, TypeOK
  <1>4. AfterSeal(w, pc[w]) \in OffRow
    BY <1>1 DEF AfterSeal, OffRow, PC, OnRow, Sealing
  <1>5. \/ Back(w, AfterSeal(w, pc[w])) \/ Batch(w, "requeue", {})
        \/ Finish(w)
    BY DEF Reseal, SealError
  <1>6. RegistersInv'
    BY <1>3, <1>4, <1>5, MoveRegisters DEF OffRow, PC, OnRow, Sealing
  <1> QED
    BY <1>3, <1>6

\* A step that inserts the row k and no other.
Inserts(k) == Fresh(k) /\ \A i \in Ids : Fresh(i)' <=> (Fresh(i) /\ i # k)

\* A step takes at most one id out of the fresh ones.
FreshShrinks == SameFresh \/ \E k \in Ids : Inserts(k)

\* A request handles a row that exists, and a wallet broadcast the id it drew.
LEMMA CallRegisters ==
    ASSUME TypeOK, RegistersInv, NEW c \in Workers, Call(c)
    PROVE  FreshShrinks /\ RegistersInv'
  <1>0. /\ pc \in [Workers -> PC] /\ cur \in [Workers -> Ids \union {NoId}]
        /\ rows \in [Ids -> Row] /\ NoId \notin Ids
        /\ \A v \in Workers : pc[v] \in OnRow => cur[v] \in Ids
        /\ \A v \in Workers : \A s \in todo[v] : s.id \in Ids
        /\ "insert" \in OnRow
    BY PoolAssumption DEF TypeOK, Snapshot, OnRow
  <1>00. SameFresh => FreshShrinks
    BY DEF FreshShrinks
  <1>1. ASSUME NEW i \in Ids, ImportTransaction(c, i)
        PROVE  FreshShrinks /\ RegistersInv'
    <2>1. insert_broadcast_tx("imported", NoTime).status = "pending"
      BY StatusInserted DEF Mode, Time
    <2>2. /\ \A v \in Workers : cur[v] # i
          /\ \A j \in Ids : Fresh(j)' <=> (Fresh(j) /\ j # i)
          /\ UNCHANGED <<pc, todo, cur>>
      BY <1>0, <1>1, <2>1 DEF ImportTransaction, Fresh, workers
    <2>3. RegistersInv'
      BY <1>0, <2>2 DEF RegistersInv, HandledExists, InsertReserved,
                        BatchExists
    <2> QED
      BY <1>1, <2>2, <2>3 DEF FreshShrinks, Inserts, Fresh, ImportTransaction
  <1>2. ASSUME NEW i \in Ids, RetryFailed(c, i)
        PROVE  FreshShrinks /\ RegistersInv'
    <2>1. rows[i] \in Row /\ ~Fresh(i)
      BY <1>0, <1>2 DEF RetryFailed, Fresh
    <2>2. reset_failed_to_scheduled(rows[i]).status # "fresh"
      BY <2>1, StatusWritten DEF Fresh
    <2>3. SameFresh
      BY <1>2, <2>2, UpdateFresh DEF RetryFailed
    <2>4. RegistersInv'
      BY <1>2, <2>1, <2>3, MoveRegisters, NoArgType
         DEF RetryFailed, PC, Sealing
    <2> QED
      BY <1>00, <2>3, <2>4
  <1>3. ASSUME NEW i \in Ids, RemoveTransaction(c, i)
        PROVE  FreshShrinks /\ RegistersInv'
    <2>1. remove_broadcast_tx(rows[i]).status # "fresh"
      BY StatusInserted DEF Mode, Time
    <2>2. SameFresh
      BY <1>3, <2>1, UpdateFresh DEF RemoveTransaction
    <2>3. RegistersInv'
      BY <1>3, <2>2, MoveRegisters DEF RemoveTransaction
    <2> QED
      BY <1>00, <2>2, <2>3
  <1>4. ASSUME NEW i \in Ids, BroadcastNow(c, i)
        PROVE  FreshShrinks /\ RegistersInv'
    <2>1. SameFresh /\ ~Fresh(i)
      BY <1>4 DEF BroadcastNow, SameFresh, Fresh, table, Present, Live
    <2>2. RegistersInv'
      BY <1>4, <2>1, MoveRegisters, NoArgType DEF BroadcastNow, PC
    <2> QED
      BY <1>00, <2>1, <2>2
  <1>5. ASSUME NEW i \in Ids, IngestAck(c, i)
        PROVE  FreshShrinks /\ RegistersInv'
    <2>1. /\ Fresh(i) /\ \A v \in Workers : cur[v] # i
          /\ \A j \in Ids : Fresh(j)' <=> Fresh(j)
          /\ pc' = [pc EXCEPT ![c] = "insert"]
          /\ cur' = [cur EXCEPT ![c] = i] /\ UNCHANGED todo
      BY <1>5 DEF IngestAck, Request, Goto, Fresh, table
    <2>2. RegistersInv'
      BY <1>0, <2>1 DEF RegistersInv, HandledExists, InsertReserved,
                        BatchExists
    <2> QED
      BY <2>1, <2>2 DEF FreshShrinks, SameFresh
  <1>6. ASSUME NEW i \in Ids, NEW at \in Clock, ScheduleAt(c, i, at)
        PROVE  FreshShrinks /\ RegistersInv'
    <2>1. SameFresh /\ ~Fresh(i)
      BY <1>6 DEF ScheduleAt, SameFresh, Fresh, table, Present, Live
    <2>2. [NoArg EXCEPT !.at = at,
             !.defer = IF IsReschedule(rows[i]) THEN at ELSE NoTime] \in Arg
      BY NoArgType DEF Arg, Time
    <2>3. RegistersInv'
      BY <1>6, <2>1, <2>2, MoveRegisters DEF ScheduleAt, PC
    <2> QED
      BY <1>00, <2>1, <2>3
  <1>7. ASSUME NEW i \in Ids, NEW q \in Prices, ScheduleByPrice(c, i, q)
        PROVE  FreshShrinks /\ RegistersInv'
    <2>1. SameFresh /\ ~Fresh(i)
      BY <1>7 DEF ScheduleByPrice, SameFresh, Fresh, table
    <2>2. [NoArg EXCEPT !.price = q] \in Arg
      BY NoArgType DEF Arg
    <2>3. RegistersInv'
      BY <1>7, <2>1, <2>2, MoveRegisters DEF ScheduleByPrice, PC
    <2> QED
      BY <1>00, <2>1, <2>3
  <1>8. ASSUME NEW i \in Ids, NEW at \in Clock, ScheduleRandom(c, i, at)
        PROVE  FreshShrinks /\ RegistersInv'
    <2>1. random_schedule(rows[i], at).status # "fresh"
      BY <1>0, StatusWritten
    <2>2. SameFresh
      BY <1>8, <2>1, UpdateFresh DEF ScheduleRandom
    <2>3. RegistersInv'
      BY <1>8, <2>2, MoveRegisters DEF ScheduleRandom
    <2> QED
      BY <1>00, <2>2, <2>3
  <1>9. CASE ScheduleAtWrite(c)
    <2>1. /\ cur[c] \in Ids /\ rows[cur[c]] \in Row
          /\ pc[c] \in OnRow \ {"insert"}
      BY <1>0, <1>9 DEF ScheduleAtWrite, OnRow
    <2>2. update_reschedule(rows[cur[c]], arg[c].at, arg[c].defer).status
            # "fresh"
      BY <2>1, StatusWritten
    <2>3. SameFresh
      BY <1>9, <2>1, <2>2, UpdateFresh DEF ScheduleAtWrite
    <2>4. RegistersInv'
      BY <1>9, <2>1, <2>3, MoveRegisters DEF ScheduleAtWrite, PC, Sealing
    <2> QED
      BY <1>00, <2>3, <2>4
  <1>10. CASE ScheduleByPriceWrite(c)
    <2>1. /\ cur[c] \in Ids /\ rows[cur[c]] \in Row
          /\ pc[c] \in OnRow \ {"insert"}
      BY <1>0, <1>10 DEF ScheduleByPriceWrite, OnRow
    <2>2. update_price_schedule(rows[cur[c]], arg[c].price).status
            # "fresh"
      BY <2>1, StatusWritten
    <2>3. SameFresh
      BY <1>10, <2>1, <2>2, UpdateFresh DEF ScheduleByPriceWrite
    <2>4. RegistersInv'
      BY <1>10, <2>1, <2>3, MoveRegisters DEF ScheduleByPriceWrite, PC, Sealing
    <2> QED
      BY <1>00, <2>3, <2>4
  <1>11. CASE IngestDue(c)
    <2>1. /\ cur[c] \in Ids /\ rows[cur[c]] \in Row
          /\ pc[c] \in OnRow \ {"insert"}
      BY <1>0, <1>11 DEF IngestDue, OnRow
    <2>2. mark_due(rows[cur[c]], now).status
            # "fresh"
      BY <2>1, StatusWritten
    <2>3. SameFresh
      BY <1>11, <2>1, <2>2, UpdateFresh DEF IngestDue
    <2>4. RegistersInv'
      BY <1>11, <2>1, <2>3, MoveRegisters DEF IngestDue, PC, Sealing
    <2> QED
      BY <1>00, <2>3, <2>4
  <1>12. CASE BroadcastNowSend(c)
    <2>1. SameFresh /\ pc[c] \in OnRow \ {"insert"}
      BY <1>12 DEF BroadcastNowSend, SameFresh, Fresh, table, OnRow
    <2>2. RegistersInv'
      BY <1>12, <2>1, MoveRegisters DEF BroadcastNowSend, PC
    <2> QED
      BY <1>00, <2>1, <2>2
  <1>13. CASE IngestInsert(c)
    <2>1. /\ pc[c] = "insert" /\ cur[c] \in Ids
          /\ TxOf[cur[c]] \in Txs /\ UNCHANGED <<todo, cur>>
      BY <1>0, <1>13, PoolAssumption DEF IngestInsert
    <2>2. PICK src, tip :
            \E p \in resolve_ingest_plan(src, OwnLock[TxOf[cur[c]]], tip) :
              /\ rows' = [rows EXCEPT ![cur[c]] =
                            insert_broadcast_tx(p.mode, p.scheduled)]
              /\ Goto(c, IF p.mode = "immediate"
                         THEN "store_due" ELSE "store")
      BY <1>13 DEF IngestInsert
    <2>3. PICK p \in resolve_ingest_plan(src, OwnLock[TxOf[cur[c]]], tip) :
            /\ rows' = [rows EXCEPT ![cur[c]] =
                            insert_broadcast_tx(p.mode, p.scheduled)]
            /\ Goto(c, IF p.mode = "immediate" THEN "store_due" ELSE "store")
      BY <2>2
    <2>4. insert_broadcast_tx(p.mode, p.scheduled).status = "pending"
      BY <2>1, PlanType, TypeSplit, StatusInserted
    <2>5. \A j \in Ids : Fresh(j)' <=> (Fresh(j) /\ j # cur[c])
      BY <1>0, <2>1, <2>3, <2>4 DEF Fresh
    <2>6. RegistersInv'
      BY <1>0, <2>1, <2>3, <2>5
         DEF Goto, RegistersInv, HandledExists, InsertReserved, BatchExists
    <2>7. Fresh(cur[c])
      BY <2>1 DEF RegistersInv, InsertReserved
    <2> QED
      BY <2>1, <2>5, <2>6, <2>7 DEF FreshShrinks, Inserts
  <1>14. CASE IngestStore(c)
    <2>1. SameFresh /\ pc[c] \in OnRow \ {"insert"}
      BY <1>14 DEF IngestStore, SameFresh, Fresh, table, OnRow
    <2>2. RegistersInv'
      BY <1>14, <2>1, MoveRegisters DEF IngestStore, PC
    <2> QED
      BY <1>00, <2>1, <2>2
  <1> QED
    BY <1>1, <1>2, <1>3, <1>4, <1>5, <1>6, <1>7, <1>8, <1>9, <1>10, <1>11,
       <1>12, <1>13, <1>14 DEF Call

\* Every step of a worker keeps the registers on rows that exist.
LEMMA StepRegisters ==
    ASSUME TypeOK, RegistersInv, NEW w \in Workers, Step(w)
    PROVE  FreshShrinks /\ RegistersInv'
  <1>1. SameFresh => FreshShrinks
    BY DEF FreshShrinks
  <1> QED
    BY <1>1, TickRegisters, MonitorRegisters, CallRegisters, ResealRegisters
       DEF Step

\* A restart empties the registers and inserts nothing.
LEMMA EnvironmentRegisters ==
    ASSUME TypeOK, RegistersInv, Environment
    PROVE  SameFresh /\ RegistersInv'
  <1>1. CASE Restart
    <2> DEFINE opened == [i \in Ids |-> MIGRATION_007(rows[i])]
    <2>1. PICK S \in Retriable(opened) :
            rows' = [i \in Ids |-> Requeued(opened[i], i \in S)]
      BY <1>1 DEF Restart
    <2>2. \A i \in Ids : opened[i] \in Row /\ opened[i].status = rows[i].status
      BY RowToRow, StatusWritten DEF TypeOK
    <2> HIDE DEF opened
    <2>3. \A i \in Ids : Requeued(opened[i], i \in S).status = "fresh"
                           <=> rows[i].status = "fresh"
      <3> TAKE i \in Ids
      <3>1. CASE i \in S
        <4>1. reset_failed_to_scheduled(opened[i]) \in Row
          BY <2>2, RowToRow
        <4>2. reset_failed_to_scheduled(opened[i]).status = "scheduled"
          BY <2>2, <3>1, StatusWritten
             DEF reset_failed_to_scheduled, Retriable
        <4> QED
          BY <2>2, <3>1, <4>1, <4>2, StatusWritten DEF Requeued
      <3> QED
        BY <2>2, <3>1 DEF Requeued
    <2>4. RegistersInv'
      BY <1>1 DEF Restart, RegistersInv, HandledExists, InsertReserved,
                  BatchExists, OnRow, Sealing
    <2> QED
      BY <2>1, <2>3, <2>4 DEF SameFresh, Fresh
  <1>2. CASE ~Restart
    <2>1. UNCHANGED rows /\ UNCHANGED workers
      BY <1>2 DEF Environment, Clocktick, Block, Evict, Backends, Acknowledge,
                  table, workers
    <2>2. SameFresh
      BY <2>1 DEF SameFresh, Fresh
    <2>3. RegistersInv'
      BY <2>1 DEF workers, RegistersInv, HandledExists, InsertReserved,
                  BatchExists, Fresh
    <2> QED
      BY <2>2, <2>3
  <1> QED
    BY <1>1, <1>2

-----------------------------------------------------------------------------
(* The release.                                                            *)

\* A lock that was reached stays reached as the chain grows.
LEMMA LockMonotone ==
    ASSUME NEW n \in Nat, NEW h \in Nat, NEW m \in Nat,
           NEW h2 \in Nat, NEW m2 \in Nat, h <= h2, m <= m2,
           is_locktime_satisfied(n, h, m)
    PROVE  is_locktime_satisfied(n, h2, m2)
  BY RowsAssumption DEF is_locktime_satisfied

\* A chain read is late, never early.
LEMMA ReadIsLate ==
    ASSUME TypeOK, NEW i \in Ids, LocktimeRead(i)
    PROVE  is_locktime_satisfied(nlocktime[i], height, mtp)
  <1>1. /\ height \in Nat /\ mtp \in Nat /\ nlocktime[i] \in Nat
        /\ MaxLag \in Nat
    BY RowsAssumption, PoolAssumption DEF TypeOK
  <1>2. \A x \in Nat : \A y \in Seen(x) : y \in Nat /\ y <= x
    BY DEF Seen
  <1>3. PICK h \in Seen(height), m \in Seen(mtp) :
          is_locktime_satisfied(nlocktime[i], h, m)
    BY DEF LocktimeRead
  <1> QED
    BY <1>1, <1>2, <1>3, LockMonotone

\* No worker moves the chain, and only an INSERT writes a locktime.
LEMMA WorkerFrame ==
    ASSUME NEW w \in Workers, Step(w)
    PROVE  /\ UNCHANGED <<height, mtp>>
           /\ UNCHANGED nlocktime \/ IngestInsert(w)
  <1> USE DEF table, world
  <1>1. CASE Tick(w) \/ MarkBroadcast(w) \/ Reseal(w)
    BY <1>1 DEF Tick, TickStart, TickMark, TickRequeueList, TickRequeue,
                TickDueList, TickGate, TickDone, TickHold, TickSend,
                MarkFailed, MarkBroadcast, Reseal
  <1>2. CASE Monitor(w)
    BY <1>2 DEF Monitor, BlockList, BlockMark, PriceList, PriceMark,
                RebroadcastList, Rebroadcast, ConfirmList, Confirm,
                RetainList, Retain, LoopStart, LoopEnd
  <1>3. CASE Call(w)
    BY <1>3 DEF Call, ImportTransaction, RetryFailed, RemoveTransaction,
                BroadcastNow, BroadcastNowSend, IngestAck, ScheduleAt,
                ScheduleRandom, ScheduleByPrice, ScheduleAtWrite,
                ScheduleByPriceWrite, IngestInsert, IngestStore, IngestDue
  <1> QED
    BY <1>1, <1>2, <1>3 DEF Step

\* What a worker hands to the network for the first time is the transaction
\* of a row that exists and whose stored locktime the chain has reached.
LEMMA FirstSendReleased ==
    ASSUME TypeOK, AcceptedInv, RegistersInv, NEW w \in Workers, Step(w),
           NEW t \in Txs, net[t] = "unseen", net'[t] # "unseen"
    PROVE  \E j \in Ids : /\ TxOf[j] = t /\ ~Fresh(j)
                          /\ is_locktime_satisfied(nlocktime[j], height, mtp)
  <1>1. CASE TickSend(w)
    <2>1. cur[w] \in Ids /\ TxOf[cur[w]] \in Txs /\ ~Fresh(cur[w])
      BY <1>1, PoolAssumption
         DEF TickSend, TypeOK, OnRow, RegistersInv, HandledExists
    <2>2. t = TxOf[cur[w]]
      BY <1>1, <2>1, SendGrows DEF TickSend, TypeOK
    <2>3. is_locktime_satisfied(nlocktime[cur[w]], height, mtp)
      BY <1>1, <2>1, ReadIsLate DEF TickSend
    <2> QED
      BY <2>1, <2>2, <2>3
  <1>2. CASE BroadcastNowSend(w)
    <2>1. cur[w] \in Ids /\ TxOf[cur[w]] \in Txs /\ ~Fresh(cur[w])
      BY <1>2, PoolAssumption
         DEF BroadcastNowSend, TypeOK, OnRow, RegistersInv, HandledExists
    <2>2. LocktimeRead(cur[w]) /\ t = TxOf[cur[w]]
      BY <1>2, <2>1, SendGrows DEF BroadcastNowSend, TypeOK
    <2>3. is_locktime_satisfied(nlocktime[cur[w]], height, mtp)
      BY <2>1, <2>2, ReadIsLate
    <2> QED
      BY <2>1, <2>2, <2>3
  <1>3. ~Rebroadcast(w)
    <2> SUFFICES ASSUME Rebroadcast(w) PROVE FALSE
      OBVIOUS
    <2>1. PICK s \in todo[w], reply \in {"ok", "error", "retriable"} :
            broadcast_transaction(TxOf[s.id], reply)
      BY DEF Rebroadcast
    <2>2. TxOf[s.id] \in Txs
      BY PoolAssumption DEF TypeOK, Snapshot
    <2>3. t = TxOf[s.id]
      BY <2>1, <2>2, SendGrows DEF TypeOK
    <2>4. net[TxOf[s.id]] # "unseen"
      BY DEF Rebroadcast, AcceptedInv, ResendWasAccepted
    <2> QED
      BY <2>3, <2>4
  <1> QED
    BY <1>1, <1>2, <1>3, QuietSteps

\* Every step keeps ReleaseInv.
LEMMA ReleaseStep ==
    ASSUME TypeOK, AcceptedInv, ReleaseInv, [Next]_vars
    PROVE  ReleaseInv'
  <1>0. /\ LockWasMet /\ FreshUnseen /\ RegistersInv
        /\ \A i \in Ids : TxOf[i] \in Txs /\ nlocktime[i] \in Nat
        /\ height \in Nat /\ mtp \in Nat
    BY RowsAssumption, PoolAssumption DEF ReleaseInv, TypeOK
  <1>1. CASE UNCHANGED vars
    BY <1>0, <1>1
       DEF vars, ReleaseInv, LockWasMet, FreshUnseen, RegistersInv,
           HandledExists, InsertReserved, BatchExists, Fresh
  <1>2. ASSUME NEW w \in Workers, Step(w) PROVE ReleaseInv'
    <2>1. FreshShrinks /\ RegistersInv'
      BY <1>0, <1>2, StepRegisters
    <2>2. \A i \in Ids : Sole(i) /\ net[TxOf[i]] = "unseen"
                                 /\ net'[TxOf[i]] # "unseen"
            => ~Fresh(i) /\ is_locktime_satisfied(nlocktime[i], height, mtp)
      <3> SUFFICES ASSUME NEW i \in Ids, Sole(i), net[TxOf[i]] = "unseen",
                          net'[TxOf[i]] # "unseen"
                   PROVE  /\ ~Fresh(i)
                          /\ is_locktime_satisfied(nlocktime[i], height, mtp)
        OBVIOUS
      <3>1. PICK j \in Ids :
              /\ TxOf[j] = TxOf[i] /\ ~Fresh(j)
              /\ is_locktime_satisfied(nlocktime[j], height, mtp)
        BY <1>0, <1>2, FirstSendReleased
      <3> QED
        BY <3>1 DEF Sole
    <2>3. FreshUnseen'
      BY <1>0, <2>1, <2>2 DEF FreshUnseen, FreshShrinks, SameFresh, Inserts, Sole
    <2>4. LockWasMet'
      <3> SUFFICES ASSUME NEW i \in Ids, Sole(i), net'[TxOf[i]] # "unseen"
                   PROVE  is_locktime_satisfied(nlocktime'[i], height', mtp')
        BY DEF LockWasMet, Sole
      <3>1. UNCHANGED <<height, mtp>>
        BY <1>2, WorkerFrame
      <3>2. is_locktime_satisfied(nlocktime[i], height, mtp)
        BY <1>0, <2>2 DEF LockWasMet
      <3>3. nlocktime'[i] = nlocktime[i]
        <4>1. CASE IngestInsert(w)
          <5>1. UNCHANGED net /\ pc[w] = "insert" /\ Fresh(cur[w])
            BY <1>0, <4>1 DEF IngestInsert, RegistersInv, InsertReserved
          <5>2. i # cur[w]
            BY <1>0, <5>1 DEF FreshUnseen
          <5>3. \E n : nlocktime' = [nlocktime EXCEPT ![cur[w]] = n]
            BY <4>1 DEF IngestInsert
          <5> QED
            BY <5>2, <5>3 DEF TypeOK
        <4>2. CASE UNCHANGED nlocktime
          BY <4>2
        <4> QED
          BY <1>2, <4>1, <4>2, WorkerFrame
      <3> QED
        BY <3>1, <3>2, <3>3
    <2> QED
      BY <2>1, <2>3, <2>4 DEF ReleaseInv
  <1>3. CASE Environment
    <2>1. SameFresh /\ RegistersInv'
      BY <1>0, <1>3, EnvironmentRegisters
    <2>2. /\ \A t \in Txs : net[t] = "unseen" <=> net'[t] = "unseen"
          /\ UNCHANGED nlocktime
      BY <1>3 DEF Environment, Clocktick, Block, Evict, Backends, Acknowledge,
                  Restart, TypeOK, table
    <2>3. /\ height' \in Nat /\ mtp' \in Nat
          /\ height <= height' /\ mtp <= mtp'
      <3>1. CASE Block
        BY <1>0, <3>1, RowsAssumption, PoolAssumption DEF Block, TypeOK, Clock
      <3>2. CASE UNCHANGED <<height, mtp>>
        BY <1>0, <3>2
      <3> QED
        BY <1>3, <3>1, <3>2 DEF Environment, Clocktick, Evict, Backends,
                                Acknowledge, Restart, world
    <2>4. FreshUnseen'
      BY <1>0, <2>1, <2>2 DEF FreshUnseen, SameFresh, Sole
    <2>5. LockWasMet'
      <3> SUFFICES ASSUME NEW i \in Ids, Sole(i), net'[TxOf[i]] # "unseen"
                   PROVE  is_locktime_satisfied(nlocktime'[i], height', mtp')
        BY DEF LockWasMet, Sole
      <3>1. is_locktime_satisfied(nlocktime[i], height, mtp)
        BY <1>0, <2>2 DEF LockWasMet
      <3> QED
        BY <1>0, <2>2, <2>3, <3>1, LockMonotone
    <2> QED
      BY <2>1, <2>4, <2>5 DEF ReleaseInv
  <1> QED
    BY <1>1, <1>2, <1>3 DEF Next

\* The network has seen nothing when the program starts for the first time.
LEMMA ReleaseInit == Init => ReleaseInv
  <1> SUFFICES ASSUME Init PROVE ReleaseInv
    OBVIOUS
  <1>1. \A i \in Ids : TxOf[i] \in Txs
    BY PoolAssumption
  <1>2. LockWasMet /\ FreshUnseen
    BY <1>1 DEF Init, LockWasMet, FreshUnseen
  <1>3. RegistersInv
    BY DEF Init, RegistersInv, HandledExists, InsertReserved, BatchExists,
           OnRow, Sealing
  <1> QED
    BY <1>2, <1>3 DEF ReleaseInv

LEMMA ReleaseAlways == Spec => []ReleaseInv
  BY ReleaseInit, ReleaseStep, AcceptedAlways, TypeCorrect, PTL DEF Spec

\* No schedule of loops and requests, no stale read of the chain, no restart
\* and no retry hands a transaction to the network before the chain has
\* reached the locktime stored with its row, be it the signed nLockTime or a
\* Liana virtual target.
THEOREM NothingLeavesEarly == Spec => []NoEarlyRelease
  <1>1. TypeOK /\ ReleaseInv => NoEarlyRelease
    BY RowsAssumption DEF ReleaseInv, LockWasMet, NoEarlyRelease,
                          is_locktime_satisfied, TypeOK
  <1> QED
    BY <1>1, ReleaseAlways, TypeCorrect, PTL

-----------------------------------------------------------------------------
(* BroadcastPool implements TimelockedRelease: every step of a thread, of   *)
(* the network or of a restart is a step of the promise or leaves it where  *)
(* it is.  An INSERT takes a transaction into custody, its first send       *)
(* releases it, a block makes the chain grow, and nothing else is visible.  *)

\* An id without a row carries no lock: import_transaction relies on it.
FreshUnlocked == \A i \in Ids : Fresh(i) => nlocktime[i] = 0

PromiseInv == TypeOK /\ AcceptedInv /\ ReleaseInv /\ FreshUnlocked

Released == {t \in Txs : net[t] # "unseen"}
AllLocks == {0} \union {OwnLock[t] : t \in Txs} \union VirtualTargets

-----------------------------------------------------------------------------
(* What a wallet broadcast inserts.                                        *)

\* The lock of a plan is the one signed into the transaction, a target of
\* the virtual block, or none.
LEMMA PlanLock ==
    ASSUME NEW src, NEW t \in Txs, NEW tip,
           NEW p \in resolve_ingest_plan(src, OwnLock[t], tip)
    PROVE  p.n \in AllLocks
  <1> DEFINE n == OwnLock[t]
  <1>1. n \in AllLocks /\ 0 \in AllLocks /\ VirtualTargets \subseteq AllLocks
    BY DEF AllLocks
  <1> HIDE DEF n
  <1>2. \A q \in resolve_broadcast_plan(n) : q.n = n
    BY DEF resolve_broadcast_plan, Plan
  <1>3. p \in resolve_ingest_plan(src, n, tip)
    BY DEF n
  <1> QED
    BY <1>1, <1>2, <1>3 DEF resolve_ingest_plan, Plan

\* IngestInsert inserts the row the thread drew, under such a lock.
LEMMA IngestInserts ==
    ASSUME TypeOK, RegistersInv, NEW c \in Workers, IngestInsert(c)
    PROVE  /\ cur[c] \in Ids /\ Inserts(cur[c])
           /\ \E n \in AllLocks :
                nlocktime' = [nlocktime EXCEPT ![cur[c]] = n]
           /\ UNCHANGED net
  <1>1. /\ pc[c] = "insert" /\ cur[c] \in Ids /\ TxOf[cur[c]] \in Txs
        /\ Fresh(cur[c]) /\ UNCHANGED net
    BY PoolAssumption
       DEF IngestInsert, TypeOK, OnRow, RegistersInv, InsertReserved
  <1>2. PICK src \in Sources, tip \in Seen(height) :
          \E p \in resolve_ingest_plan(src, OwnLock[TxOf[cur[c]]], tip) :
            /\ rows' = [rows EXCEPT ![cur[c]] =
                          insert_broadcast_tx(p.mode, p.scheduled)]
            /\ nlocktime' = [nlocktime EXCEPT ![cur[c]] = p.n]
    BY DEF IngestInsert
  <1>3. PICK p \in resolve_ingest_plan(src, OwnLock[TxOf[cur[c]]], tip) :
            /\ rows' = [rows EXCEPT ![cur[c]] =
                          insert_broadcast_tx(p.mode, p.scheduled)]
            /\ nlocktime' = [nlocktime EXCEPT ![cur[c]] = p.n]
    BY <1>2
  <1>4. insert_broadcast_tx(p.mode, p.scheduled).status = "pending"
    BY <1>1, PlanType, TypeSplit, StatusInserted
  <1>5. Inserts(cur[c])
    BY <1>1, <1>3, <1>4 DEF Inserts, Fresh, TypeOK
  <1>6. p.n \in AllLocks
    BY <1>1, PlanLock
  <1> QED
    BY <1>1, <1>3, <1>5, <1>6

-----------------------------------------------------------------------------
(* The refinement mapping, step by step.                                   *)

\* Without an INSERT nothing is taken into custody and no lock changes.
LEMMA CustodySame ==
    ASSUME SameFresh, UNCHANGED nlocktime
    PROVE  \A t \in Txs : LocksOf(t)' = LocksOf(t)
  BY DEF LocksOf, SameFresh, Fresh

\* An INSERT adds its lock to the transaction of its row.
LEMMA CustodyTaken ==
    ASSUME TypeOK, NEW k \in Ids, Inserts(k), NEW n,
           nlocktime' = [nlocktime EXCEPT ![k] = n]
    PROVE  [t \in Txs |-> LocksOf(t)]' =
             [[t \in Txs |-> LocksOf(t)] EXCEPT ![TxOf[k]] = @ \union {n}]
  <1>1. nlocktime'[k] = n /\ \A i \in Ids : i # k => nlocktime'[i] = nlocktime[i]
    BY DEF TypeOK
  <1>2. \A t \in Txs : t # TxOf[k] => LocksOf(t)' = LocksOf(t)
    <2> SUFFICES ASSUME NEW t \in Txs, t # TxOf[k]
                 PROVE  LocksOf(t)' = LocksOf(t)
      OBVIOUS
    <2>1. \A j \in Ids : TxOf[j] = t => j # k
      OBVIOUS
    <2> QED
      BY <1>1, <2>1 DEF LocksOf, Inserts, Fresh
  <1>3. LocksOf(TxOf[k])' = LocksOf(TxOf[k]) \union {n}
    BY <1>1 DEF LocksOf, Inserts, Fresh
  <1> QED
    BY <1>2, <1>3

\* A first send is the only visible change of its step.
LEMMA FirstSendAlone ==
    ASSUME TypeOK, AcceptedInv, NEW w \in Workers, Step(w),
           NEW t \in Txs, net[t] = "unseen", net'[t] # "unseen"
    PROVE  /\ UNCHANGED table
           /\ \A u \in Txs : u # t => net'[u] = net[u]
  <1>1. CASE TickSend(w)
    <2>1. TxOf[cur[w]] \in Txs
      BY <1>1, PoolAssumption DEF TickSend, TypeOK, OnRow
    <2>2. \A u \in Txs : u # TxOf[cur[w]] => net'[u] = net[u]
      BY <1>1, <2>1, SendGrows DEF TickSend, TypeOK
    <2> QED
      BY <1>1, <2>2 DEF TickSend
  <1>2. CASE BroadcastNowSend(w)
    <2>1. TxOf[cur[w]] \in Txs
      BY <1>2, PoolAssumption DEF BroadcastNowSend, TypeOK, OnRow
    <2>2. \A u \in Txs : u # TxOf[cur[w]] => net'[u] = net[u]
      BY <1>2, <2>1, SendGrows DEF BroadcastNowSend, TypeOK
    <2> QED
      BY <1>2, <2>2 DEF BroadcastNowSend
  <1>3. ASSUME Rebroadcast(w) PROVE FALSE
    <2>1. PICK s \in todo[w], reply \in {"ok", "error", "retriable"} :
            broadcast_transaction(TxOf[s.id], reply)
      BY <1>3 DEF Rebroadcast
    <2>2. TxOf[s.id] \in Txs
      BY PoolAssumption DEF TypeOK, Snapshot
    <2>3. t = TxOf[s.id]
      BY <2>1, <2>2, SendGrows DEF TypeOK
    <2>4. net[TxOf[s.id]] # "unseen"
      BY <1>3 DEF Rebroadcast, AcceptedInv, ResendWasAccepted
    <2> QED
      BY <2>3, <2>4
  <1> QED
    BY <1>1, <1>2, <1>3, QuietSteps

\* No step makes the network forget.
LEMMA StepGrows ==
    ASSUME TypeOK, NEW w \in Workers, Step(w)
    PROVE  NetGrows
  <1>1. UNCHANGED net => NetGrows
    BY DEF NetGrows
  <1>2. CASE TickSend(w)
    <2>1. TxOf[cur[w]] \in Txs
      BY <1>2, PoolAssumption DEF TickSend, TypeOK, OnRow
    <2> QED
      BY <1>2, <2>1, SendGrows DEF TickSend, TypeOK
  <1>3. CASE BroadcastNowSend(w)
    <2>1. TxOf[cur[w]] \in Txs
      BY <1>3, PoolAssumption DEF BroadcastNowSend, TypeOK, OnRow
    <2> QED
      BY <1>1, <1>3, <2>1, SendGrows DEF BroadcastNowSend, TypeOK
  <1>4. CASE Rebroadcast(w)
    <2>1. PICK s \in todo[w], reply \in {"ok", "error", "retriable"} :
            broadcast_transaction(TxOf[s.id], reply)
      BY <1>4 DEF Rebroadcast
    <2>2. TxOf[s.id] \in Txs
      BY PoolAssumption DEF TypeOK, Snapshot
    <2> QED
      BY <2>1, <2>2, SendGrows DEF TypeOK
  <1> QED
    BY <1>1, <1>2, <1>3, <1>4, QuietSteps

\* Every step of a thread takes, releases, or does nothing the promise sees.
LEMMA WorkerKeepsPromise ==
    ASSUME PromiseInv, NEW w \in Workers, Step(w)
    PROVE  [Promise!Next]_(Promise!vars)
  <1>0. /\ TypeOK /\ AcceptedInv /\ RegistersInv /\ FreshUnlocked
        /\ \A i \in Ids : TxOf[i] \in Txs
    BY PoolAssumption DEF PromiseInv, ReleaseInv
  <1>1. /\ UNCHANGED <<height, mtp>>
        /\ UNCHANGED nlocktime \/ IngestInsert(w)
    BY WorkerFrame
  <1>2. NetGrows
    BY <1>0, StepGrows
  <1>3. ASSUME NEW t \in Txs, net[t] = "unseen", net'[t] # "unseen"
        PROVE  Promise!Release(t)
    <2>1. PICK j \in Ids : /\ TxOf[j] = t /\ ~Fresh(j)
                           /\ is_locktime_satisfied(nlocktime[j], height, mtp)
      BY <1>0, <1>3, FirstSendReleased
    <2>2. nlocktime[j] \in LocksOf(t)
      BY <2>1 DEF LocksOf, Fresh
    <2>3. Promise!Met(nlocktime[j])
      BY <1>0, <2>1, RowsAssumption
         DEF Promise!Met, is_locktime_satisfied, TypeOK
    <2>4. UNCHANGED table /\ \A u \in Txs : u # t => net'[u] = net[u]
      BY <1>0, <1>3, FirstSendAlone
    <2>5. Released' = Released \union {t}
      BY <1>3, <2>4 DEF Released
    <2>6. \A u \in Txs : LocksOf(u)' = LocksOf(u)
      BY <2>4 DEF LocksOf, table
    <2> QED
      BY <1>1, <2>2, <2>3, <2>5, <2>6 DEF Promise!Release, Released
  <1>4. ASSUME \A t \in Txs : net[t] = "unseen" => net'[t] = "unseen",
               NEW k \in Ids, Inserts(k), NEW n \in AllLocks,
               nlocktime' = [nlocktime EXCEPT ![k] = n]
        PROVE  Promise!Take(TxOf[k])
    <2>1. Released' = Released
      BY <1>2, <1>4 DEF Released, NetGrows
    <2>2. [t \in Txs |-> LocksOf(t)]' =
            [[t \in Txs |-> LocksOf(t)] EXCEPT ![TxOf[k]] = @ \union {n}]
      BY <1>0, <1>4, CustodyTaken
    <2> QED
      BY <1>1, <1>4, <2>1, <2>2 DEF Promise!Take, Released, AllLocks
  <1>5. CASE \E t \in Txs : net[t] = "unseen" /\ net'[t] # "unseen"
    BY <1>3, <1>5 DEF Promise!Next
  <1>6. CASE /\ \A t \in Txs : net[t] = "unseen" => net'[t] = "unseen"
             /\ IngestInsert(w)
    BY <1>0, <1>4, <1>6, IngestInserts DEF Promise!Next
  <1>7. CASE /\ \A t \in Txs : net[t] = "unseen" => net'[t] = "unseen"
             /\ UNCHANGED nlocktime
    <2>1. CASE SameFresh
      <3>1. \A t \in Txs : LocksOf(t)' = LocksOf(t)
        BY <1>7, <2>1, CustodySame
      <3>2. Released' = Released
        BY <1>2, <1>7 DEF Released, NetGrows
      <3> QED
        BY <1>1, <3>1, <3>2 DEF Promise!vars, Released
    <2>2. ASSUME NEW k \in Ids, Inserts(k) PROVE Promise!Take(TxOf[k])
      <3>1. nlocktime[k] = 0 /\ 0 \in AllLocks
        BY <1>0, <2>2 DEF FreshUnlocked, Inserts, AllLocks
      <3>2. nlocktime' = [nlocktime EXCEPT ![k] = 0]
        BY <1>0, <1>7, <2>2, <3>1 DEF TypeOK
      <3> QED
        BY <1>4, <1>7, <2>2, <3>1, <3>2
    <2>3. SameFresh \/ \E k \in Ids : Inserts(k)
      BY <1>0, StepRegisters DEF FreshShrinks
    <2> QED
      BY <1>0, <2>1, <2>2, <2>3 DEF Promise!Next
  <1> QED
    BY <1>1, <1>5, <1>6, <1>7

\* The world moves the chain forward, or does nothing the promise sees.
LEMMA WorldKeepsPromise ==
    ASSUME PromiseInv, Environment
    PROVE  [Promise!Next]_(Promise!vars)
  <1>0. TypeOK /\ RegistersInv
    BY DEF PromiseInv, ReleaseInv
  <1>1. /\ \A t \in Txs : net[t] = "unseen" <=> net'[t] = "unseen"
        /\ UNCHANGED nlocktime
    BY <1>0 DEF Environment, Clocktick, Block, Evict, Backends, Acknowledge,
                Restart, TypeOK, table
  <1>2. Released' = Released
    BY <1>1 DEF Released
  <1>3. \A t \in Txs : LocksOf(t)' = LocksOf(t)
    BY <1>0, <1>1, EnvironmentRegisters, CustodySame
  <1>4. CASE Block
    <2>1. /\ height' \in Nat /\ height' >= height
          /\ mtp' \in Nat /\ mtp' >= mtp
      BY <1>0, <1>4, RowsAssumption, PoolAssumption DEF Block, TypeOK, Clock
    <2> QED
      BY <1>2, <1>3, <2>1 DEF Promise!Next, Promise!Grow, Released
  <1>5. CASE UNCHANGED <<height, mtp>>
    BY <1>2, <1>3, <1>5 DEF Promise!vars, Released
  <1> QED
    BY <1>4, <1>5 DEF Environment, Clocktick, Evict, Backends, Acknowledge,
                      Restart, world

LEMMA PromiseStep ==
    ASSUME PromiseInv, [Next]_vars
    PROVE  [Promise!Next]_(Promise!vars)
  <1>1. CASE UNCHANGED vars
    BY <1>1 DEF vars, Promise!vars, LocksOf
  <1> QED
    BY <1>1, WorkerKeepsPromise, WorldKeepsPromise DEF Next

LEMMA PromiseInit == Init => Promise!Init
  <1> SUFFICES ASSUME Init PROVE Promise!Init
    OBVIOUS
  <1>1. \A t \in Txs : LocksOf(t) = {}
    BY DEF Init, LocksOf, EmptyRow, reseal_row_mac
  <1> QED
    BY <1>1, RowsAssumption DEF Init, Promise!Init

LEMMA FreshUnlockedAlways == Spec => []FreshUnlocked
  <1>1. Init => FreshUnlocked
    BY DEF Init, FreshUnlocked
  <1>2. TypeOK /\ ReleaseInv /\ FreshUnlocked /\ [Next]_vars => FreshUnlocked'
    <2> SUFFICES ASSUME TypeOK, RegistersInv, FreshUnlocked, [Next]_vars
                 PROVE  FreshUnlocked'
      BY DEF ReleaseInv
    <2>1. CASE UNCHANGED vars
      BY <2>1 DEF vars, FreshUnlocked, Fresh
    <2>2. ASSUME NEW w \in Workers, Step(w) PROVE FreshUnlocked'
      <3>1. \A i \in Ids : Fresh(i)' => Fresh(i)
        BY <2>2, StepRegisters DEF FreshShrinks, SameFresh, Inserts
      <3>2. CASE IngestInsert(w)
        <4>1. /\ Inserts(cur[w])
              /\ \E n : nlocktime' = [nlocktime EXCEPT ![cur[w]] = n]
          BY <3>2, IngestInserts
        <4> QED
          BY <4>1 DEF FreshUnlocked, Inserts, TypeOK
      <3> QED
        BY <2>2, <3>1, <3>2, WorkerFrame DEF FreshUnlocked
    <2>3. CASE Environment
      <3>1. SameFresh
        BY <2>3, EnvironmentRegisters
      <3>2. UNCHANGED nlocktime
        BY <2>3 DEF Environment, Clocktick, Block, Evict, Backends,
                    Acknowledge, Restart, table
      <3> QED
        BY <3>1, <3>2 DEF FreshUnlocked, SameFresh
    <2> QED
      BY <2>1, <2>2, <2>3 DEF Next
  <1> QED
    BY <1>1, <1>2, TypeCorrect, ReleaseAlways, PTL DEF Spec

\* The pool keeps its promise: no plan, request, loop, stale read, lost
\* answer, retry, eviction or restart releases a transaction that was not
\* taken into custody, or before a lock it was taken under is reached, makes
\* the network's knowledge of it go back, or replaces a lock once given.
THEOREM PromiseKept == Spec => KeepsPromise
  <1>1. PromiseInv /\ [Next]_vars => [Promise!Next]_(Promise!vars)
    BY PromiseStep
  <1>2. Spec => []PromiseInv
    BY TypeCorrect, AcceptedAlways, ReleaseAlways, FreshUnlockedAlways, PTL
       DEF PromiseInv
  <1> QED
    BY <1>1, <1>2, PromiseInit, PTL DEF Spec, KeepsPromise, Promise!Spec

-----------------------------------------------------------------------------
(* No waiting row is forgotten.  A row that is to be sent by itself has a   *)
(* date or a price; what the broadcast loop has read, and may write back as *)
(* scheduled or failed, has one too.                                        *)

Priced(r) == r.trigger = "price" /\ r.price # NoPrice
Timed(r)  == r.scheduled # NoTime \/ Priced(r)

\* A row that may be sent or put off, for good.
Waits(r) == r.status = "gone" \/ (Present(r) /\ Timed(r))

\* What holds of every row of the table.
Sound(r) ==
    r.status \in {"scheduled", "failed"} \/ r.mode = "scheduled" => Timed(r)

\* A row that nobody has marked as due yet.
Loose(r) == r.status = "pending" /\ r.mode = "immediate" /\ ~Priced(r)

InHand(i) == \E c \in Workers : pc[c] \in {"store_due", "mark_due"} /\ cur[c] = i

\* A worker inside a batch that is not one of rows to send.
OtherStage == {"mark", "mark_seal", "requeue", "requeue_seal", "block",
               "block_seal", "price", "price_seal", "resend", "confirm",
               "confirm_seal", "retain"}

RowsSound == \A i \in Ids : Sound(rows[i]) /\ (Loose(rows[i]) => InHand(i))

BatchWaits ==
    \A w \in Workers : pc[w] \notin OtherStage
        => \A s \in todo[w] : Waits(rows[s.id])

HandWaits ==
    \A w \in Workers :
        /\ pc[w] \in {"send", "failed"} => Waits(rows[cur[w]])
        /\ pc[w] = "resched" => arg[w].at # NoTime
        /\ pc[w] = "reprice" => arg[w].price # NoPrice

WaitingInv == RowsSound /\ BatchWaits /\ HandWaits

\* What an UPDATE of the row r to q may do.
Fit(r, q) ==
    /\ Sound(q)
    /\ Waits(r) => Waits(q)
    /\ Loose(q) => Loose(r)

\* Every statement of the table keeps a row that has a date or a price one
\* that has a date or a price.
LEMMA Fits ==
    ASSUME NEW r \in Row, Present(r), Sound(r), NEW t \in Clock, NEW u, NEW q,
           q # NoPrice
    PROVE  /\ Fit(r, reseal_row_mac(r)) /\ Fit(r, record_broadcast_miss(r))
           /\ Fit(r, mark_broadcast(r)) /\ Fit(r, mark_confirmed(r))
           /\ Timed(r) => Fit(r, update_tx_status(r, "failed"))
           /\ Fit(r, mark_due(r, t)) /\ Fit(r, mark_due_from_price_trigger(r, t))
           /\ Fit(r, random_schedule(r, t)) /\ Fit(r, update_reschedule(r, t, u))
           /\ Fit(r, update_price_schedule(r, q))
           /\ Fit(r, reset_failed_to_scheduled(r))
           /\ Fit(r, remove_broadcast_tx(r))
           /\ Fit(r, MIGRATION_007(r)) /\ ~Loose(MIGRATION_007(r))
  <1>0. t # NoTime
    BY RowsAssumption DEF Clock, NoTime
  <1> USE DEF Row, Fit, Sound, Waits, Loose, Timed, Priced, Present, Live
  <1>1. Fit(r, reseal_row_mac(r)) /\ Fit(r, record_broadcast_miss(r))
    BY DEF reseal_row_mac, record_broadcast_miss
  <1>2. Fit(r, mark_broadcast(r)) /\ Fit(r, mark_confirmed(r))
    BY DEF mark_broadcast, mark_confirmed
  <1>3. Timed(r) => Fit(r, update_tx_status(r, "failed"))
    BY DEF update_tx_status
  <1>4. Fit(r, mark_due(r, t)) /\ Fit(r, mark_due_from_price_trigger(r, t))
    BY <1>0 DEF mark_due, mark_due_from_price_trigger
  <1>5. Fit(r, random_schedule(r, t)) /\ Fit(r, update_reschedule(r, t, u))
    BY <1>0 DEF random_schedule, update_reschedule
  <1>6. Fit(r, update_price_schedule(r, q))
    BY DEF update_price_schedule
  <1>7. Fit(r, reset_failed_to_scheduled(r))
    BY DEF reset_failed_to_scheduled
  <1>8. Fit(r, remove_broadcast_tx(r))
    <2>1. EmptyRow("gone").status = "gone" /\ EmptyRow("gone").mode = "immediate"
      BY DEF EmptyRow, reseal_row_mac
    <2> QED
      BY <2>1 DEF remove_broadcast_tx
  <1>9. Fit(r, MIGRATION_007(r)) /\ ~Loose(MIGRATION_007(r))
    BY DEF MIGRATION_007
  <1> QED
    BY <1>1, <1>2, <1>3, <1>4, <1>5, <1>6, <1>7, <1>8, <1>9

\* A step of the table that forgets no row.
RowsFit ==
    \A i \in Ids : /\ Sound(rows'[i])
                   /\ Waits(rows[i]) => Waits(rows'[i])
                   /\ Loose(rows'[i]) => Loose(rows[i]) \/ InHand(i)'

LEMMA UpdateFits ==
    ASSUME TypeOK, RowsSound, NEW i \in Ids, NEW r,
           Present(rows[i]) => Fit(rows[i], r), Update(i, r)
    PROVE  RowsFit
  BY DEF TypeOK, RowsSound, RowsFit, Fit, Update

LEMMA TableFits ==
    ASSUME TypeOK, RowsSound, UNCHANGED rows
    PROVE  RowsFit
  BY DEF RowsSound, RowsFit

\* A move of worker w that lets no row go.
MoveFits(w) ==
    /\ \A v \in Workers \ {w} : /\ pc'[v] = pc[v] /\ todo'[v] = todo[v]
                                /\ cur'[v] = cur[v] /\ arg'[v] = arg[v]
    /\ pc[w] \in {"store_due", "mark_due"}
         => \/ pc'[w] \in {"store_due", "mark_due"} /\ cur'[w] = cur[w]
            \/ ~Loose(rows'[cur[w]])
    /\ pc'[w] \notin OtherStage
         => \A s \in todo'[w] : s.id \in Ids /\ Waits(rows[s.id])
    /\ pc'[w] \in {"send", "failed"} => cur'[w] \in Ids /\ Waits(rows[cur'[w]])
    /\ pc'[w] = "resched" => arg'[w].at # NoTime
    /\ pc'[w] = "reprice" => arg'[w].price # NoPrice

LEMMA WaitingStep ==
    ASSUME TypeOK, WaitingInv, NEW w \in Workers, RowsFit, MoveFits(w)
    PROVE  WaitingInv'
  <1>0. /\ \A v \in Workers : \A s \in todo[v] : s.id \in Ids
        /\ \A v \in Workers : pc[v] \in {"send", "failed"} => cur[v] \in Ids
    BY DEF TypeOK, Snapshot, OnRow
  <1>1. RowsSound'
    <2> SUFFICES ASSUME NEW i \in Ids, Loose(rows'[i]) PROVE InHand(i)'
      BY DEF RowsSound, RowsFit
    <2>1. CASE Loose(rows[i])
      <3>1. PICK c \in Workers : pc[c] \in {"store_due", "mark_due"} /\ cur[c] = i
        BY <2>1 DEF WaitingInv, RowsSound, InHand
      <3> QED
        BY <3>1 DEF MoveFits, InHand
    <2> QED
      BY <2>1 DEF RowsFit
  <1>2. BatchWaits'
    BY <1>0 DEF WaitingInv, BatchWaits, MoveFits, RowsFit
  <1>3. HandWaits'
    BY <1>0 DEF WaitingInv, HandWaits, MoveFits, RowsFit
  <1> QED
    BY <1>1, <1>2, <1>3 DEF WaitingInv

\* The moves that take up no row to send and no columns to write.
LEMMA PlainMove ==
    ASSUME TypeOK, WaitingInv, NEW w \in Workers, NEW p, NEW T, NEW i, NEW a,
           Moved(w, p, T, i, a), pc[w] \notin {"store_due", "mark_due"},
           p \notin {"send", "failed", "resched", "reprice"},
           \/ p \in OtherStage
           \/ T = {}
           \/ pc[w] \notin OtherStage /\ T \subseteq todo[w]
    PROVE  MoveFits(w)
  <1>0. \A v \in Workers : \A s \in todo[v] : s.id \in Ids
    BY DEF TypeOK, Snapshot
  <1> QED
    BY <1>0 DEF WaitingInv, BatchWaits, Moved, MoveFits

\* The broadcast loop takes up rows that have a date or a price, and may put
\* them back as scheduled or failed.
LEMMA TickWaits ==
    ASSUME TypeOK, WaitingInv, NEW w \in Workers, Tick(w) \/ MarkBroadcast(w)
    PROVE  RowsFit /\ MoveFits(w)
  <1>0. /\ RowsSound /\ BatchWaits /\ HandWaits
        /\ \A i \in Ids : rows[i] \in Row /\ Sound(rows[i])
        /\ \A s \in todo[w] : s.id \in Ids
        /\ now \in Clock /\ 1 # NoPrice
    BY DEF WaitingInv, TypeOK, RowsSound, Snapshot, NoPrice
  <1>1. CASE TickStart(w) \/ TickRequeueList(w)
    <2>1. RowsFit
      BY <1>0, <1>1, TableFits DEF TickStart, TickRequeueList, table
    <2>2. PICK p, S : Batch(w, p, S) /\ p \in {"mark", "requeue"}
      BY <1>1 DEF TickStart, TickRequeueList
    <2>3. pc[w] \notin {"store_due", "mark_due"}
      BY <1>1 DEF TickStart, TickRequeueList
    <2> QED
      BY <2>1, <2>2, <2>3, MoveMoves, PlainMove DEF OtherStage
  <1>2. CASE TickDone(w)
    <2>1. RowsFit
      BY <1>0, <1>2, TableFits DEF TickDone, table
    <2> QED
      BY <1>2, <2>1, MoveMoves, PlainMove DEF TickDone
  <1>3. CASE TickDueList(w)
    <2>1. RowsFit /\ pc[w] \notin {"store_due", "mark_due"}
      BY <1>0, <1>3, TableFits DEF TickDueList, table
    <2>2. PICK S \in SUBSET Ids : /\ \A i \in S : rows[i].status = "scheduled"
                                  /\ Finish(w) \/ Batch(w, "gate", Select(S))
      BY <1>3 DEF TickDueList
    <2>3. CASE Finish(w)
      BY <2>1, <2>3, MoveMoves, PlainMove
    <2>4. CASE Batch(w, "gate", Select(S))
      <3>1. Moved(w, "gate", Select(S), NoId, arg[w])
        BY <2>4, MoveMoves
      <3>2. \A s \in Select(S) : s.id \in S
        BY DEF Select, Read
      <3>3. \A i \in S : Waits(rows[i])
        BY <1>0, <2>2 DEF Sound, Waits, Present, Live
      <3> QED
        BY <2>1, <3>1, <3>2, <3>3 DEF MoveFits, Moved
    <2> QED
      BY <2>2, <2>3, <2>4
  <1>4. CASE TickGate(w)
    <2>1. RowsFit /\ pc[w] = "gate"
      BY <1>0, <1>4, TableFits DEF TickGate, table
    <2>2. CASE Finish(w)
      BY <2>1, <2>2, MoveMoves, PlainMove
    <2>3. ASSUME NEW s \in todo[w], Take(w, s, "send") PROVE MoveFits(w)
      <3>1. Moved(w, "send", todo[w] \ {s}, s.id, arg[w])
        BY <2>3, MoveMoves
      <3>2. \A x \in todo[w] : Waits(rows[x.id])
        BY <1>0, <2>1 DEF BatchWaits, OtherStage
      <3> QED
        BY <1>0, <2>1, <3>1, <3>2 DEF MoveFits, Moved
    <2> QED
      BY <1>4, <2>1, <2>2, <2>3 DEF TickGate
  <1>5. CASE TickMark(w) \/ TickRequeue(w)
    <2>1. PICK s \in todo[w] :
            \/ /\ Update(s.id, mark_due(rows[s.id], now))
               /\ Take(w, s, "mark_seal")
            \/ /\ Update(s.id, reset_failed_to_scheduled(rows[s.id]))
               /\ Take(w, s, "requeue_seal")
            \/ UNCHANGED rows /\ (Batch(w, "mark", {}) \/ Batch(w, "requeue", {}))
      BY <1>5 DEF TickMark, TickRequeue
    <2>2. RowsFit
      BY <1>0, <2>1, Fits, UpdateFits, TableFits
    <2>3. pc[w] \notin {"store_due", "mark_due"}
      BY <1>5 DEF TickMark, TickRequeue
    <2>4. \E p \in {"mark_seal", "requeue_seal", "mark", "requeue"} :
            \E T, i, a : Moved(w, p, T, i, a)
      BY <2>1, MoveMoves
    <2> QED
      BY <2>2, <2>3, <2>4, PlainMove DEF OtherStage
  <1>6. CASE TickHold(w)
    <2>1. cur[w] \in Ids /\ pc[w] = "send"
      BY <1>6 DEF TickHold, TypeOK, OnRow
    <2>2. \/ Update(cur[w], record_broadcast_miss(rows[cur[w]]))
          \/ UNCHANGED rows
      BY <1>6 DEF TickHold
    <2>3. RowsFit
      BY <1>0, <2>1, <2>2, Fits, UpdateFits, TableFits
    <2>4. Back(w, "gate") \/ Finish(w)
      BY <1>6 DEF TickHold
    <2> QED
      BY <2>1, <2>3, <2>4, MoveMoves, PlainMove DEF OtherStage
  <1>7. CASE TickSend(w)
    <2>1. cur[w] \in Ids /\ pc[w] = "send" /\ UNCHANGED <<todo, arg>>
      BY <1>7 DEF TickSend, TypeOK, OnRow
    <2>2. RowsFit
      BY <1>0, <1>7, TableFits DEF TickSend, table
    <2>3. Waits(rows[cur[w]]) /\ \A s \in todo[w] : Waits(rows[s.id])
      BY <1>0, <2>1 DEF HandWaits, BatchWaits, OtherStage
    <2>4. \/ (Goto(w, "sent") \/ Goto(w, "failed")) /\ UNCHANGED cur
          \/ Goto(w, "gate") /\ cur' = [cur EXCEPT ![w] = NoId]
      BY <1>7 DEF TickSend
    <2>5. /\ pc'[w] \in {"sent", "failed", "gate"}
          /\ pc'[w] = "failed" => cur'[w] = cur[w]
          /\ todo'[w] = todo[w]
          /\ \A v \in Workers \ {w} : /\ pc'[v] = pc[v] /\ todo'[v] = todo[v]
                                      /\ cur'[v] = cur[v] /\ arg'[v] = arg[v]
      BY <2>1, <2>4 DEF Goto, TypeOK
    <2> QED
      BY <1>0, <2>1, <2>2, <2>3, <2>5 DEF MoveFits
  <1>8. CASE MarkFailed(w)
    <2>1. /\ cur[w] \in Ids /\ pc[w] = "failed"
          /\ Update(cur[w], update_tx_status(rows[cur[w]], "failed"))
          /\ Goto(w, "failed_seal") /\ UNCHANGED <<todo, cur, arg>>
      BY <1>8 DEF MarkFailed, TypeOK, OnRow
    <2>2. Present(rows[cur[w]]) => Timed(rows[cur[w]])
      BY <1>0, <2>1 DEF HandWaits, Waits, Present, Live
    <2>3. RowsFit
      BY <1>0, <2>1, <2>2, Fits, UpdateFits
    <2> QED
      BY <2>1, <2>3, MoveMoves, PlainMove DEF OtherStage
  <1>9. CASE MarkBroadcast(w)
    <2>1. /\ cur[w] \in Ids /\ pc[w] = "sent"
          /\ Update(cur[w], mark_broadcast(rows[cur[w]]))
          /\ Goto(w, "sent_seal") /\ UNCHANGED <<todo, cur, arg>>
      BY <1>9 DEF MarkBroadcast, TypeOK, OnRow
    <2>2. RowsFit
      BY <1>0, <2>1, Fits, UpdateFits
    <2> QED
      BY <2>1, <2>2, MoveMoves, PlainMove DEF OtherStage
  <1> QED
    BY <1>1, <1>2, <1>3, <1>4, <1>5, <1>6, <1>7, <1>8, <1>9 DEF Tick

\* The other loops send nothing for the first time and put nothing off.
LEMMA MonitorWaits ==
    ASSUME TypeOK, WaitingInv, NEW w \in Workers, Monitor(w)
    PROVE  RowsFit /\ MoveFits(w)
  <1>0. /\ RowsSound
        /\ \A i \in Ids : rows[i] \in Row /\ Sound(rows[i])
        /\ \A s \in todo[w] : s.id \in Ids
        /\ now \in Clock /\ 1 # NoPrice
    BY DEF WaitingInv, TypeOK, RowsSound, Snapshot, NoPrice
  <1>1. CASE \/ BlockList(w) \/ PriceList(w) \/ RebroadcastList(w)
             \/ ConfirmList(w) \/ RetainList(w) \/ LoopEnd(w)
    <2>1. UNCHANGED rows /\ pc[w] \notin {"store_due", "mark_due"}
      BY <1>1 DEF BlockList, PriceList, RebroadcastList, ConfirmList,
                  RetainList, LoopStart, LoopEnd, table
    <2>2. \/ Finish(w)
          \/ \E p \in {"block", "price", "resend", "confirm", "retain"} :
               \E S : Batch(w, p, S)
      BY <1>1 DEF BlockList, PriceList, RebroadcastList, ConfirmList,
                  RetainList, LoopStart, LoopEnd
    <2> QED
      BY <1>0, <2>1, <2>2, TableFits, MoveMoves, PlainMove DEF OtherStage
  <1>2. CASE BlockMark(w) \/ PriceMark(w) \/ Confirm(w)
    <2>1. PICK s \in todo[w] :
            \/ /\ \/ Update(s.id, mark_due(rows[s.id], now))
                  \/ Update(s.id, mark_due_from_price_trigger(rows[s.id], now))
                  \/ Update(s.id, mark_confirmed(rows[s.id]))
               /\ \E p \in {"block_seal", "price_seal", "confirm_seal"} :
                    Take(w, s, p)
            \/ UNCHANGED rows /\ Skip(w, s)
      BY <1>2 DEF BlockMark, PriceMark, Confirm
    <2>2. pc[w] \in {"block", "price", "confirm"}
      BY <1>2 DEF BlockMark, PriceMark, Confirm
    <2>3. RowsFit
      <3>0. s.id \in Ids /\ rows[s.id] \in Row /\ Sound(rows[s.id])
        BY <1>0
      <3>1. ASSUME Present(rows[s.id])
            PROVE  /\ Fit(rows[s.id], mark_due(rows[s.id], now))
                   /\ Fit(rows[s.id], mark_due_from_price_trigger(rows[s.id], now))
                   /\ Fit(rows[s.id], mark_confirmed(rows[s.id]))
        BY <1>0, <3>0, <3>1, Fits
      <3>2. CASE Update(s.id, mark_due(rows[s.id], now))
        BY <1>0, <3>0, <3>1, <3>2, UpdateFits
      <3>3. CASE Update(s.id, mark_due_from_price_trigger(rows[s.id], now))
        BY <1>0, <3>0, <3>1, <3>3, UpdateFits
      <3>4. CASE Update(s.id, mark_confirmed(rows[s.id]))
        BY <1>0, <3>0, <3>1, <3>4, UpdateFits
      <3>5. CASE UNCHANGED rows
        BY <1>0, <3>5, TableFits
      <3> QED
        BY <2>1, <3>2, <3>3, <3>4, <3>5
    <2>4. \E p \in OtherStage : \E T, i, a : Moved(w, p, T, i, a)
      <3>1. ASSUME NEW p \in {"block_seal", "price_seal", "confirm_seal"}, Take(w, s, p)
            PROVE  p \in OtherStage /\ Moved(w, p, todo[w] \ {s}, s.id, arg[w])
        BY <3>1, MoveMoves DEF OtherStage
      <3>2. CASE Skip(w, s)
        <4>1. Moved(w, pc[w], todo[w] \ {s}, cur[w], arg[w])
          BY <3>2, MoveMoves
        <4> QED
          BY <2>2, <4>1 DEF OtherStage
      <3> QED
        BY <2>1, <3>1, <3>2
    <2> QED
      BY <2>2, <2>3, <2>4, PlainMove DEF OtherStage
  <1>3. CASE Rebroadcast(w) \/ Retain(w)
    <2>1. PICK s \in todo[w] :
            /\ Skip(w, s)
            /\ UNCHANGED rows \/ Update(s.id, remove_broadcast_tx(rows[s.id]))
      BY <1>3 DEF Rebroadcast, Retain, table
    <2>2. pc[w] \in {"resend", "retain"}
      BY <1>3 DEF Rebroadcast, Retain
    <2>3. RowsFit
      <3>0. s.id \in Ids /\ rows[s.id] \in Row /\ Sound(rows[s.id])
        BY <1>0
      <3>1. ASSUME Present(rows[s.id])
            PROVE  Fit(rows[s.id], remove_broadcast_tx(rows[s.id]))
        BY <1>0, <3>0, <3>1, Fits
      <3>2. CASE Update(s.id, remove_broadcast_tx(rows[s.id]))
        BY <1>0, <3>0, <3>1, <3>2, UpdateFits
      <3>3. CASE UNCHANGED rows
        BY <1>0, <3>3, TableFits
      <3> QED
        BY <2>1, <3>2, <3>3
    <2>4. Moved(w, pc[w], todo[w] \ {s}, cur[w], arg[w])
      BY <2>1, MoveMoves
    <2> QED
      BY <2>2, <2>3, <2>4, PlainMove DEF OtherStage
  <1> QED
    BY <1>1, <1>2, <1>3 DEF Monitor

\* reseal_row_mac writes no column that control reads.
LEMMA ResealWaits ==
    ASSUME TypeOK, WaitingInv, NEW w \in Workers, Reseal(w)
    PROVE  RowsFit /\ MoveFits(w)
  <1>1. /\ RowsSound /\ pc[w] \in Sealing /\ cur[w] \in Ids
        /\ rows[cur[w]] \in Row /\ Sound(rows[cur[w]])
        /\ now \in Clock /\ 1 # NoPrice
    BY DEF Reseal, WaitingInv, TypeOK, OnRow, RowsSound, NoPrice
  <1>2. \/ UNCHANGED rows
        \/ Present(rows[cur[w]]) /\ Update(cur[w], reseal_row_mac(rows[cur[w]]))
    BY DEF Reseal, Update
  <1>3. RowsFit
    BY <1>1, <1>2, Fits, UpdateFits, TableFits
  <1>4. \/ Back(w, AfterSeal(w, pc[w])) \/ Batch(w, "requeue", {})
        \/ Finish(w)
    BY DEF Reseal, SealError
  <1>5. /\ AfterSeal(w, pc[w]) \notin {"send", "failed", "resched", "reprice"}
        /\ AfterSeal(w, pc[w]) \in OtherStage \/ pc[w] \notin OtherStage
        /\ pc[w] \notin {"store_due", "mark_due"}
    BY <1>1 DEF AfterSeal, Sealing, OtherStage
  <1>6. CASE Back(w, AfterSeal(w, pc[w]))
    BY <1>3, <1>5, <1>6, MoveMoves, PlainMove
  <1>7. CASE Batch(w, "requeue", {}) \/ Finish(w)
    BY <1>3, <1>5, <1>7, MoveMoves, PlainMove
  <1> QED
    BY <1>4, <1>6, <1>7

\* The columns of an inserted row.
LEMMA Inserted ==
    ASSUME NEW m \in Mode, NEW t \in Time
    PROVE  /\ insert_broadcast_tx(m, t).status = "pending"
           /\ insert_broadcast_tx(m, t).mode = m
           /\ insert_broadcast_tx(m, t).scheduled = t
  <1>1. EmptyRow("pending") \in Row
    BY NewRow DEF TxStatus, Live
  <1>2. [EmptyRow("pending") EXCEPT !.mode = m, !.scheduled = t] \in Row
    BY <1>1 DEF Row
  <1>3. EmptyRow("pending").status = "pending"
    BY DEF EmptyRow, reseal_row_mac
  <1> QED
    BY <1>1, <1>2, <1>3 DEF insert_broadcast_tx, reseal_row_mac, Row

\* A plan to send at a date has the date.
LEMMA PlanTimed ==
    ASSUME NEW src, NEW t \in Txs, NEW tip,
           NEW p \in resolve_ingest_plan(src, OwnLock[t], tip),
           p.mode = "scheduled"
    PROVE  p.scheduled # NoTime
  <1> DEFINE n == OwnLock[t]
  <1>1. n \in Nat /\ LockThreshold \in Nat
    BY PoolAssumption, RowsAssumption
  <1> HIDE DEF n
  <1>2. ASSUME NEW q \in resolve_broadcast_plan(n), q.mode = "scheduled"
        PROVE  q.scheduled # NoTime
    BY <1>2, RowsAssumption DEF resolve_broadcast_plan, Plan, Clock, NoTime
  <1>3. p \in resolve_ingest_plan(src, n, tip)
    BY DEF n
  <1> QED
    BY <1>1, <1>2, <1>3 DEF resolve_ingest_plan, Plan, NoTime

\* A row that is inserted has what it waits for, or the request in whose hands
\* it is marks it as due.
LEMMA InsertFits ==
    ASSUME TypeOK, RowsSound, NEW k \in Ids, Fresh(k),
           NEW m \in Mode, NEW t \in Time,
           rows' = [rows EXCEPT ![k] = insert_broadcast_tx(m, t)],
           m = "scheduled" => t # NoTime,
           m = "immediate" => InHand(k)'
    PROVE  RowsFit
  <1>1. rows \in [Ids -> Row]
    BY DEF TypeOK
  <1>2. /\ ~Waits(rows[k]) /\ rows'[k] = insert_broadcast_tx(m, t)
        /\ \A i \in Ids \ {k} : rows'[i] = rows[i]
    BY <1>1 DEF Fresh, Waits, Present, Live
  <1>3. Sound(insert_broadcast_tx(m, t))
    BY Inserted DEF Sound, Timed
  <1>4. Loose(insert_broadcast_tx(m, t)) => InHand(k)'
    BY Inserted DEF Loose
  <1> QED
    BY <1>2, <1>3, <1>4 DEF RowsSound, RowsFit

\* The requests: what they put off has the date or the price they were given.
LEMMA CallWaits ==
    ASSUME TypeOK, RegistersInv, WaitingInv, NEW c \in Workers, Call(c)
    PROVE  RowsFit /\ MoveFits(c)
  <1>0. /\ RowsSound /\ HandWaits
        /\ \A i \in Ids : rows[i] \in Row /\ Sound(rows[i])
        /\ \A s \in todo[c] : s.id \in Ids
        /\ now \in Clock /\ 1 # NoPrice
        /\ "idle" \notin OtherStage
    BY DEF WaitingInv, TypeOK, RowsSound, Snapshot, NoPrice, OtherStage
  <1>1. ASSUME NEW i \in Ids, ImportTransaction(c, i) PROVE RowsFit /\ MoveFits(c)
    <2>1. /\ rows' = [rows EXCEPT ![i] = insert_broadcast_tx("imported", NoTime)]
          /\ Fresh(i) /\ UNCHANGED workers /\ pc[c] = "idle"
      BY <1>1 DEF ImportTransaction, Fresh, Calls
    <2>2. "imported" \in Mode /\ NoTime \in Time
      BY DEF Mode, Time
    <2>3. RowsFit
      BY <1>0, <2>1, <2>2, InsertFits
    <2> QED
      BY <1>0, <2>1, <2>3, MoveMoves, PlainMove
  <1>2. ASSUME NEW i \in Ids, RetryFailed(c, i) PROVE RowsFit /\ MoveFits(c)
    <2>1. /\ Update(i, reset_failed_to_scheduled(rows[i]))
          /\ Request(c, i, NoArg, "api_seal") /\ pc[c] = "idle"
      BY <1>2 DEF RetryFailed, Calls
    <2>2. RowsFit
      BY <1>0, <2>1, Fits, UpdateFits
    <2> QED
      BY <1>0, <2>1, <2>2, MoveMoves, PlainMove
  <1>3. ASSUME NEW i \in Ids,
               \/ RemoveTransaction(c, i)
               \/ \E at \in Clock : ScheduleRandom(c, i, at)
        PROVE  RowsFit /\ MoveFits(c)
    <2>1. /\ \/ Update(i, remove_broadcast_tx(rows[i]))
             \/ \E at \in Clock : Update(i, random_schedule(rows[i], at))
          /\ UNCHANGED workers /\ pc[c] = "idle"
      BY <1>3 DEF RemoveTransaction, ScheduleRandom, Calls
    <2>2. RowsFit
      <3>1. CASE Update(i, remove_broadcast_tx(rows[i]))
        BY <1>0, <3>1, Fits, UpdateFits
      <3>2. ASSUME NEW at \in Clock, Update(i, random_schedule(rows[i], at))
            PROVE  RowsFit
        <4>1. Present(rows[i]) => Fit(rows[i], random_schedule(rows[i], at))
          BY <1>0, Fits
        <4> QED
          BY <1>0, <3>2, <4>1, UpdateFits
      <3> QED
        BY <2>1, <3>1, <3>2
    <2> QED
      BY <1>0, <2>1, <2>2, MoveMoves, PlainMove
  <1>4. ASSUME NEW i \in Ids, BroadcastNow(c, i) \/ IngestAck(c, i)
        PROVE  RowsFit /\ MoveFits(c)
    <2>1. /\ UNCHANGED rows /\ pc[c] = "idle"
          /\ \/ UNCHANGED workers
             \/ Request(c, i, NoArg, "now") \/ Request(c, i, NoArg, "insert")
      BY <1>4 DEF BroadcastNow, IngestAck, Calls, table
    <2>2. RowsFit
      BY <1>0, <2>1, TableFits
    <2> QED
      BY <1>0, <2>1, <2>2, MoveMoves, PlainMove
  <1>5. ASSUME NEW i \in Ids, NEW at \in Clock, ScheduleAt(c, i, at)
        PROVE  RowsFit /\ MoveFits(c)
    <2> DEFINE a == [NoArg EXCEPT !.at = at,
                        !.defer = IF IsReschedule(rows[i]) THEN at ELSE NoTime]
    <2>1. /\ UNCHANGED rows /\ pc[c] = "idle"
          /\ Request(c, i, a, "resched")
      BY <1>5 DEF ScheduleAt, Calls, table
    <2>2. a.at # NoTime
      BY RowsAssumption DEF NoArg, Clock, NoTime
    <2> HIDE DEF a
    <2>3. Moved(c, "resched", todo[c], i, a)
      BY <2>1, MoveMoves
    <2>4. RowsFit
      BY <1>0, <2>1, TableFits
    <2>5. \A s \in todo[c] : Waits(rows[s.id])
      BY <1>0, <2>1 DEF WaitingInv, BatchWaits
    <2> QED
      BY <1>0, <2>1, <2>2, <2>3, <2>4, <2>5 DEF MoveFits, Moved
  <1>6. ASSUME NEW i \in Ids, NEW q \in Prices, ScheduleByPrice(c, i, q)
        PROVE  RowsFit /\ MoveFits(c)
    <2> DEFINE a == [NoArg EXCEPT !.price = q]
    <2>1. /\ UNCHANGED rows /\ pc[c] = "idle"
          /\ Request(c, i, a, "reprice")
      BY <1>6 DEF ScheduleByPrice, Calls, table
    <2>2. a.price # NoPrice
      BY RowsAssumption DEF NoArg, NoPrice
    <2> HIDE DEF a
    <2>3. Moved(c, "reprice", todo[c], i, a)
      BY <2>1, MoveMoves
    <2>4. RowsFit
      BY <1>0, <2>1, TableFits
    <2>5. \A s \in todo[c] : Waits(rows[s.id])
      BY <1>0, <2>1 DEF WaitingInv, BatchWaits
    <2> QED
      BY <1>0, <2>1, <2>2, <2>3, <2>4, <2>5 DEF MoveFits, Moved
  <1>7. CASE ScheduleAtWrite(c) \/ ScheduleByPriceWrite(c)
    <2>1. /\ cur[c] \in Ids /\ pc[c] \in {"resched", "reprice"}
          /\ Goto(c, "api_seal") /\ UNCHANGED <<todo, cur, arg>>
      BY <1>7 DEF ScheduleAtWrite, ScheduleByPriceWrite, TypeOK, OnRow
    <2>3. pc[c] = "resched" => arg[c].at \in Clock
      BY <1>0 DEF HandWaits, TypeOK, Arg, Time
    <2>4. RowsFit
      <3>1. CASE ScheduleAtWrite(c)
        <4>1. Present(rows[cur[c]]) =>
                Fit(rows[cur[c]],
                    update_reschedule(rows[cur[c]], arg[c].at, arg[c].defer))
          BY <1>0, <2>1, <2>3, <3>1, Fits DEF ScheduleAtWrite
        <4> QED
          BY <1>0, <2>1, <3>1, <4>1, UpdateFits DEF ScheduleAtWrite
      <3>2. CASE ScheduleByPriceWrite(c)
        <4>1. arg[c].price # NoPrice
          BY <1>0, <3>2 DEF ScheduleByPriceWrite, HandWaits
        <4>2. Present(rows[cur[c]]) =>
                Fit(rows[cur[c]], update_price_schedule(rows[cur[c]], arg[c].price))
          BY <1>0, <2>1, <4>1, Fits
        <4> QED
          BY <1>0, <2>1, <3>2, <4>2, UpdateFits DEF ScheduleByPriceWrite
      <3> QED
        BY <1>7, <3>1, <3>2
    <2> QED
      BY <1>0, <2>1, <2>4, MoveMoves, PlainMove DEF OtherStage
  <1>8. CASE BroadcastNowSend(c)
    <2>1. /\ UNCHANGED rows /\ pc[c] = "now"
          /\ Finish(c) \/ (Goto(c, "sent") /\ UNCHANGED <<todo, cur, arg>>)
      BY <1>8 DEF BroadcastNowSend, table
    <2>2. RowsFit
      BY <1>0, <2>1, TableFits
    <2> QED
      BY <2>1, <2>2, MoveMoves, PlainMove DEF OtherStage
  <1>9. CASE IngestInsert(c)
    <2>1. /\ cur[c] \in Ids /\ TxOf[cur[c]] \in Txs /\ pc[c] = "insert"
          /\ Fresh(cur[c])
      BY <1>9, PoolAssumption
         DEF IngestInsert, TypeOK, OnRow, RegistersInv, InsertReserved
    <2>2. PICK src, tip :
            \E p \in resolve_ingest_plan(src, OwnLock[TxOf[cur[c]]], tip) :
              /\ rows' = [rows EXCEPT ![cur[c]] =
                            insert_broadcast_tx(p.mode, p.scheduled)]
              /\ Goto(c, IF p.mode = "immediate" THEN "store_due" ELSE "store")
      BY <1>9 DEF IngestInsert
    <2>3. PICK p \in resolve_ingest_plan(src, OwnLock[TxOf[cur[c]]], tip) :
            /\ rows' = [rows EXCEPT ![cur[c]] =
                            insert_broadcast_tx(p.mode, p.scheduled)]
            /\ Goto(c, IF p.mode = "immediate" THEN "store_due" ELSE "store")
      BY <2>2
    <2>4. p.mode \in Mode /\ p.scheduled \in Time
      BY <2>1, PlanType, TypeSplit
    <2>5. p.mode = "scheduled" => p.scheduled # NoTime
      BY <2>1, PlanTimed
    <2>6. UNCHANGED <<todo, cur, arg>>
      BY <1>9 DEF IngestInsert
    <2>7. Moved(c, IF p.mode = "immediate" THEN "store_due" ELSE "store",
                todo[c], cur[c], arg[c])
      BY <2>3, <2>6, MoveMoves
    <2>8. PICK k \in Ids : k = cur[c]
      BY <2>1
    <2>9. p.mode = "immediate" => InHand(k)'
      BY <2>6, <2>7, <2>8 DEF Moved, InHand
    <2>10. RowsFit
      BY <1>0, <2>1, <2>3, <2>4, <2>5, <2>8, <2>9, InsertFits
    <2> QED
      BY <2>1, <2>7, <2>10, PlainMove DEF OtherStage
  <1>10. CASE IngestStore(c)
    <2>1. RowsFit
      BY <1>0, <1>10, TableFits DEF IngestStore, table
    <2>2. CASE pc[c] = "store"
      BY <1>10, <2>1, <2>2, MoveMoves, PlainMove DEF IngestStore
    <2>3. CASE pc[c] = "store_due"
      <3>1. Moved(c, "mark_due", todo[c], cur[c], arg[c])
        BY <1>10, <2>3, MoveMoves DEF IngestStore
      <3>2. \A s \in todo[c] : Waits(rows[s.id])
        BY <2>3 DEF WaitingInv, BatchWaits, OtherStage
      <3> QED
        BY <1>0, <2>1, <3>1, <3>2 DEF MoveFits, Moved
    <2> QED
      BY <1>10, <2>2, <2>3 DEF IngestStore
  <1>11. CASE IngestDue(c)
    <2>1. /\ cur[c] \in Ids /\ pc[c] = "mark_due"
          /\ Update(cur[c], mark_due(rows[cur[c]], now))
          /\ Goto(c, "api_seal") /\ UNCHANGED <<todo, cur, arg>>
      BY <1>11 DEF IngestDue, TypeOK, OnRow
    <2>2. RowsFit
      BY <1>0, <2>1, Fits, UpdateFits
    <2>3. Moved(c, "api_seal", todo[c], cur[c], arg[c])
      BY <2>1, MoveMoves
    <2>4. \A s \in todo[c] : Waits(rows[s.id])
      <3>1. pc[c] \notin OtherStage
        BY <2>1 DEF OtherStage
      <3> QED
        BY <3>1 DEF WaitingInv, BatchWaits
    <2>5. ~Loose(rows'[cur[c]])
      <3>0. rows[cur[c]] \in Row
        BY <1>0, <2>1
      <3>1. mark_due(rows[cur[c]], now).status = "scheduled"
        BY <3>0 DEF mark_due, Row
      <3>2. rows'[cur[c]] = IF Present(rows[cur[c]])
                              THEN mark_due(rows[cur[c]], now) ELSE rows[cur[c]]
        BY <2>1 DEF Update, TypeOK
      <3>3. CASE Present(rows[cur[c]])
        BY <3>1, <3>2, <3>3 DEF Loose
      <3>4. CASE ~Present(rows[cur[c]])
        BY <3>2, <3>4 DEF Loose, Present, Live
      <3> QED
        BY <3>3, <3>4
    <2> QED
      BY <1>0, <2>1, <2>2, <2>3, <2>4, <2>5 DEF MoveFits, Moved
  <1> QED
    BY <1>1, <1>2, <1>3, <1>4, <1>5, <1>6, <1>7, <1>8, <1>9, <1>10, <1>11 DEF Call

\* A restart turns the immediate rows nobody will mark as due into rows of the
\* user, and requeues rows that have a date or a price.
LEMMA EnvironmentWaits ==
    ASSUME TypeOK, WaitingInv, Environment
    PROVE  WaitingInv'
  <1>1. CASE Restart
    <2> DEFINE opened == [i \in Ids |-> MIGRATION_007(rows[i])]
    <2>1. PICK S \in Retriable(opened) :
            rows' = [i \in Ids |-> Requeued(opened[i], i \in S)]
      BY <1>1 DEF Restart
    <2>2. ASSUME NEW i \in Ids
          PROVE  opened[i] \in Row /\ Sound(opened[i]) /\ ~Loose(opened[i])
      <3>1. rows[i] \in Row /\ Sound(rows[i])
        BY DEF TypeOK, WaitingInv, RowsSound
      <3>2. CASE Present(rows[i])
        BY <3>1, <3>2, Fits, RowToRow, RowsAssumption DEF Fit, NoPrice, TypeOK
      <3>3. CASE ~Present(rows[i])
        BY <3>1, <3>3 DEF MIGRATION_007, Present, Live, Loose
      <3> QED
        BY <3>2, <3>3
    <2> HIDE DEF opened
    <2>3. ASSUME NEW i \in Ids
          PROVE  /\ Sound(Requeued(opened[i], i \in S))
                 /\ ~Loose(Requeued(opened[i], i \in S))
      <3>1. CASE i \in S
        <4>1. PICK r \in Row : r = reset_failed_to_scheduled(opened[i])
          BY <2>2, RowToRow
        <4>2. Sound(r) /\ r.status = "scheduled"
          BY <2>2, <3>1, <4>1
             DEF reset_failed_to_scheduled, Row, Sound, Timed, Priced, Retriable
        <4>3. Sound(reseal_row_mac(r)) /\ ~Loose(reseal_row_mac(r))
          BY <4>2 DEF reseal_row_mac, Row, Sound, Timed, Priced, Loose
        <4> QED
          BY <3>1, <4>1, <4>3 DEF Requeued
      <3> QED
        BY <2>2, <3>1 DEF Requeued
    <2>4. \A w \in Workers : pc'[w] = "idle" /\ todo'[w] = {}
      BY <1>1 DEF Restart
    <2> QED
      BY <2>1, <2>3, <2>4 DEF WaitingInv, RowsSound, BatchWaits, HandWaits
  <1>2. CASE ~Restart
    <2>1. UNCHANGED rows /\ UNCHANGED workers
      BY <1>2 DEF Environment, Clocktick, Block, Evict, Backends, Acknowledge,
                  table, workers
    <2> QED
      BY <2>1 DEF workers, WaitingInv, RowsSound, BatchWaits, HandWaits, InHand
  <1> QED
    BY <1>1, <1>2

LEMMA WaitingInit == Init => WaitingInv
  <1> SUFFICES ASSUME Init PROVE WaitingInv
    OBVIOUS
  <1>1. EmptyRow("fresh").status = "fresh" /\ EmptyRow("fresh").mode = "immediate"
    BY DEF EmptyRow, reseal_row_mac
  <1>2. /\ rows = [i \in Ids |-> EmptyRow("fresh")]
        /\ \A w \in Workers : pc[w] = "idle" /\ todo[w] = {}
    BY DEF Init
  <1> QED
    BY <1>1, <1>2 DEF WaitingInv, RowsSound, BatchWaits, HandWaits, Sound, Loose

\* No waiting row is forgotten, whatever was asked of it and whatever died in
\* between: for any number of loops, requests, wallets and restarts, a row that
\* is pending or scheduled is selected by the query of some loop once its time,
\* height or price comes, is shown to the user to schedule by hand, or is in
\* the hands of the request that inserts it.  In particular no failed send, no
\* requeue and no restart turns a row into one that no query of db/mod.rs
\* would ever return.
THEOREM NothingForgotten == Spec => []NoRowForgotten
  <1>1. TypeOK /\ RegistersInv /\ WaitingInv /\ [Next]_vars => WaitingInv'
    <2> SUFFICES ASSUME TypeOK, RegistersInv, WaitingInv, [Next]_vars
                 PROVE  WaitingInv'
      OBVIOUS
    <2>1. CASE UNCHANGED vars
      BY <2>1 DEF vars, WaitingInv, RowsSound, BatchWaits, HandWaits, InHand
    <2>2. ASSUME NEW w \in Workers, Step(w) PROVE WaitingInv'
      <3>1. RowsFit /\ MoveFits(w)
        BY <2>2, TickWaits, MonitorWaits, ResealWaits, CallWaits DEF Step
      <3> QED
        BY <3>1, WaitingStep
    <2> QED
      BY <2>1, <2>2, EnvironmentWaits DEF Next
  <1>2. TypeOK /\ WaitingInv => NoRowForgotten
    <2> SUFFICES ASSUME TypeOK, WaitingInv, NEW i \in Ids,
                        rows[i].status \in {"pending", "scheduled"}
                 PROVE  Claimed(i)
      BY DEF NoRowForgotten
    <2>1. /\ rows[i] \in Row /\ Sound(rows[i])
          /\ Loose(rows[i]) => InHand(i)
          /\ nlocktime[i] \in Nat
      BY DEF TypeOK, WaitingInv, RowsSound
    <2>2. CASE Priced(rows[i])
      BY <2>2 DEF Priced, Claimed, get_price_triggered_pending
    <2>3. CASE rows[i].status = "scheduled" /\ ~Priced(rows[i])
      BY <2>1, <2>3 DEF Sound, Timed, Claimed
    <2>4. CASE rows[i].status = "pending" /\ ~Priced(rows[i])
      <3>1. CASE rows[i].mode = "scheduled"
        <4>1. rows[i].scheduled # NoTime /\ rows[i].scheduled <= MaxNow
          BY <2>1, <2>4, <3>1 DEF Sound, Timed, Row, Time, Clock
        <4> QED
          BY <2>4, <3>1, <4>1 DEF Claimed, get_pending_by_scheduled_time
      <3>2. CASE rows[i].mode = "by_block"
        BY <2>1, <2>4, <3>2, RowsAssumption
           DEF Claimed, get_pending_by_block_height
      <3>3. CASE rows[i].mode = "immediate"
        BY <2>1, <2>4, <3>3 DEF Claimed, Loose, InHand
      <3>4. CASE rows[i].mode \in UserMode
        BY <2>4, <3>4 DEF Claimed
      <3> QED
        BY <2>1, <3>1, <3>2, <3>3, <3>4 DEF Row, Mode, UserMode
    <2> QED
      BY <2>2, <2>3, <2>4
  <1>3. TypeOK /\ ReleaseInv => TypeOK /\ RegistersInv
    BY DEF ReleaseInv
  <1> QED
    BY <1>1, <1>2, <1>3, WaitingInit, ReleaseAlways, TypeCorrect, PTL DEF Spec
=============================================================================
