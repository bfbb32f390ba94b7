------------------------ MODULE BroadcastPoolSafety ------------------------
(***************************************************************************)
(* Safety theorems of BroadcastPool: what the table says of the network is *)
(* true, what reaches the network went through a gate, a halt is overtaken  *)
(* by no more than was past its gate, no row disappears without its blob,  *)
(* and a row that reads as tampered is not the program's own doing.        *)
(***************************************************************************)
EXTENDS BroadcastPoolProofs, PoolHalt

-----------------------------------------------------------------------------
(* The network never forgets.                                              *)

\* What a step may do to the network's knowledge of the transactions.
NetGrows ==
    \A t \in Txs : /\ net[t] # "unseen" => net'[t] # "unseen"
                   /\ net[t] = "mined" => net'[t] = "mined"

\* A call to the network changes only the transaction it sends, and only to
\* put it in the mempool.
LEMMA SendGrows ==
    ASSUME net \in [Txs -> NetState], NEW t \in Txs, NEW reply,
           broadcast_transaction(t, reply)
    PROVE  /\ NetGrows
           /\ \A u \in Txs : u # t => net'[u] = net[u]
           /\ reply = "ok" => net'[t] # "unseen"
  BY DEF broadcast_transaction, Accept, NetGrows, NetState

-----------------------------------------------------------------------------
(* The inductive invariant behind BroadcastMeansAccepted: a worker about   *)
(* to write mark_broadcast, and a batch of rows to send again, concern     *)
(* transactions the network has seen.                                      *)

SentWasAccepted ==
    \A w \in Workers : pc[w] = "sent" => net[TxOf[cur[w]]] # "unseen"

ResendWasAccepted ==
    \A w \in Workers : pc[w] = "resend" =>
        \A s \in todo[w] : net[TxOf[s.id]] # "unseen"

AcceptedInv ==
    BroadcastMeansAccepted /\ SentWasAccepted /\ ResendWasAccepted

\* An UPDATE that writes no status the network does not back.
LEMMA UpdateAccepted ==
    ASSUME TypeOK, BroadcastMeansAccepted, NetGrows, NEW i \in Ids,
           NEW r, r.status = "broadcast" => net[TxOf[i]] # "unseen",
           r.status = "confirmed" => net[TxOf[i]] = "mined",
           Update(i, r)
    PROVE  BroadcastMeansAccepted'
  BY PoolAssumption DEF TypeOK, BroadcastMeansAccepted, NetGrows, Update

\* A step that leaves the table alone.
LEMMA TableAccepted ==
    ASSUME TypeOK, BroadcastMeansAccepted, NetGrows, UNCHANGED rows
    PROVE  BroadcastMeansAccepted'
  BY PoolAssumption DEF TypeOK, BroadcastMeansAccepted, NetGrows

\* A move of a worker that neither claims a send nor starts to send again.
LEMMA MoveAccepted ==
    ASSUME TypeOK, AcceptedInv, NetGrows, NEW w \in Workers
    PROVE  /\ \A s \in todo[w], p \in PC \ {"sent", "resend"} :
                Take(w, s, p) => SentWasAccepted' /\ ResendWasAccepted'
           /\ \A s \in todo[w] :
                Skip(w, s) => SentWasAccepted' /\ ResendWasAccepted'
           /\ \A S \in SUBSET Snapshot, p \in PC \ {"sent", "resend"} :
                Batch(w, p, S) => SentWasAccepted' /\ ResendWasAccepted'
           /\ \A p \in PC \ {"sent", "resend"} :
                Back(w, p) => SentWasAccepted' /\ ResendWasAccepted'
           /\ Finish(w) => SentWasAccepted' /\ ResendWasAccepted'
           /\ \A i \in Ids, a \in Arg, p \in PC \ {"sent", "resend"} :
                Request(w, i, a, p) => SentWasAccepted' /\ ResendWasAccepted'
           /\ \A p \in PC \ {"sent", "resend"} :
                Goto(w, p) /\ UNCHANGED <<todo, cur, arg>>
                  => SentWasAccepted' /\ ResendWasAccepted'
           /\ UNCHANGED workers => SentWasAccepted' /\ ResendWasAccepted'
  <1>0. /\ pc \in [Workers -> PC] /\ cur \in [Workers -> Ids \union {NoId}]
        /\ todo \in [Workers -> SUBSET Snapshot]
        /\ \A v \in Workers : pc[v] = "sent" => TxOf[cur[v]] \in Txs
        /\ \A v \in Workers : \A s \in todo[v] : TxOf[s.id] \in Txs
    <2>1. \A v \in Workers : pc[v] = "sent" => cur[v] \in Ids
      BY DEF TypeOK, OnRow
    <2>2. \A v \in Workers : \A s \in todo[v] : s.id \in Ids
      BY DEF TypeOK, Snapshot
    <2> QED
      BY <2>1, <2>2, PoolAssumption DEF TypeOK
  <1> USE DEF AcceptedInv, SentWasAccepted, ResendWasAccepted, NetGrows
  <1>1. ASSUME NEW s \in todo[w], NEW p \in PC \ {"sent", "resend"},
               Take(w, s, p)
        PROVE  SentWasAccepted' /\ ResendWasAccepted'
    BY <1>0, <1>1 DEF Take, Goto
  <1>2. ASSUME NEW s \in todo[w], Skip(w, s)
        PROVE  SentWasAccepted' /\ ResendWasAccepted'
    BY <1>0, <1>2 DEF Skip
  <1>3. ASSUME NEW S \in SUBSET Snapshot, NEW p \in PC \ {"sent", "resend"},
               Batch(w, p, S)
        PROVE  SentWasAccepted' /\ ResendWasAccepted'
    BY <1>0, <1>3 DEF Batch, Goto
  <1>4. ASSUME NEW p \in PC \ {"sent", "resend"}, Back(w, p)
        PROVE  SentWasAccepted' /\ ResendWasAccepted'
    BY <1>0, <1>4 DEF Back, Goto
  <1>5. ASSUME Finish(w) PROVE SentWasAccepted' /\ ResendWasAccepted'
    BY <1>0, <1>5 DEF Finish, Goto
  <1>6. ASSUME NEW i \in Ids, NEW a \in Arg, NEW p \in PC \ {"sent", "resend"},
               Request(w, i, a, p)
        PROVE  SentWasAccepted' /\ ResendWasAccepted'
    BY <1>0, <1>6 DEF Request, Goto
  <1>7. ASSUME NEW p \in PC \ {"sent", "resend"}, Goto(w, p),
               UNCHANGED <<todo, cur, arg>>
        PROVE  SentWasAccepted' /\ ResendWasAccepted'
    BY <1>0, <1>7 DEF Goto
  <1>8. ASSUME UNCHANGED workers
        PROVE  SentWasAccepted' /\ ResendWasAccepted'
    BY <1>0, <1>8 DEF workers
  <1> QED
    BY <1>1, <1>2, <1>3, <1>4, <1>5, <1>6, <1>7, <1>8

-----------------------------------------------------------------------------
(* The status each statement writes.                                       *)

\* reseal_row_mac, record_broadcast_miss and the migration keep the status;
\* the others write the status they are named for.
LEMMA StatusWritten ==
    ASSUME NEW r \in Row, NEW t, NEW u, NEW q
    PROVE  /\ reseal_row_mac(r).status = r.status
           /\ record_broadcast_miss(r).status = r.status
           /\ MIGRATION_007(r).status = r.status
           /\ mark_broadcast(r).status = "broadcast"
           /\ mark_confirmed(r).status = "confirmed"
           /\ update_tx_status(r, "failed").status = "failed"
           /\ mark_due(r, t).status = "scheduled"
           /\ mark_due_from_price_trigger(r, t).status = "scheduled"
           /\ random_schedule(r, t).status = "scheduled"
           /\ update_reschedule(r, t, u).status = "scheduled"
           /\ update_price_schedule(r, q).status = "pending"
           /\ reset_failed_to_scheduled(r).status
                = (IF r.status = "failed" THEN "scheduled" ELSE r.status)
  <1> USE DEF Row
  <1>1. /\ reseal_row_mac(r).status = r.status
        /\ record_broadcast_miss(r).status = r.status
        /\ MIGRATION_007(r).status = r.status
    BY DEF reseal_row_mac, record_broadcast_miss, MIGRATION_007
  <1>2. /\ mark_broadcast(r).status = "broadcast"
        /\ mark_confirmed(r).status = "confirmed"
        /\ update_tx_status(r, "failed").status = "failed"
    BY DEF mark_broadcast, mark_confirmed, update_tx_status
  <1>3. /\ mark_due(r, t).status = "scheduled"
        /\ mark_due_from_price_trigger(r, t).status = "scheduled"
        /\ random_schedule(r, t).status = "scheduled"
    BY DEF mark_due, mark_due_from_price_trigger, random_schedule
  <1>4. /\ update_reschedule(r, t, u).status = "scheduled"
        /\ update_price_schedule(r, q).status = "pending"
    BY DEF update_reschedule, update_price_schedule
  <1>5. reset_failed_to_scheduled(r).status
            = (IF r.status = "failed" THEN "scheduled" ELSE r.status)
    BY DEF reset_failed_to_scheduled
  <1> QED
    BY <1>1, <1>2, <1>3, <1>4, <1>5

\* The status of an inserted row, and of an id whose row was deleted.
LEMMA StatusInserted ==
    ASSUME NEW m \in Mode, NEW t \in Time, NEW r
    PROVE  /\ insert_broadcast_tx(m, t).status = "pending"
           /\ remove_broadcast_tx(r).status = "gone"
  <1>1. \A x : EmptyRow(x).status = x
    BY DEF EmptyRow, reseal_row_mac
  <1>2. EmptyRow("pending") \in Row
    BY NewRow DEF TxStatus, Live
  <1>3. [EmptyRow("pending") EXCEPT !.mode = m, !.scheduled = t] \in Row
    BY <1>2 DEF Row
  <1>4. insert_broadcast_tx(m, t).status
          = [EmptyRow("pending") EXCEPT !.mode = m, !.scheduled = t].status
    BY <1>3, StatusWritten DEF insert_broadcast_tx
  <1> QED
    BY <1>1, <1>2, <1>4 DEF remove_broadcast_tx, Row

-----------------------------------------------------------------------------
(* AcceptedInv is inductive.                                               *)

\* The steps of the broadcast loop keep the table true to the network.
LEMMA TickAccepted ==
    ASSUME TypeOK, AcceptedInv, NEW w \in Workers,
           Tick(w) \/ MarkBroadcast(w)
    PROVE  AcceptedInv'
  <1> SUFFICES /\ BroadcastMeansAccepted'
               /\ SentWasAccepted' /\ ResendWasAccepted'
    BY DEF AcceptedInv
  <1>0. BroadcastMeansAccepted /\ SentWasAccepted /\ ResendWasAccepted
    BY DEF AcceptedInv
  <1> USE <1>0
  <1>1. CASE TickStart(w)
    <2>1. NetGrows /\ UNCHANGED rows
      BY <1>1 DEF TickStart, NetGrows, table
    <2>2. SentWasAccepted' /\ ResendWasAccepted'
      BY <1>1, <2>1, MoveAccepted, SelectType DEF TickStart, PC
    <2> QED
      BY <2>1, <2>2, TableAccepted
  <1>2. CASE TickRequeueList(w)
    <2>1. NetGrows /\ UNCHANGED rows
      BY <1>2 DEF TickRequeueList, NetGrows, table
    <2>2. SentWasAccepted' /\ ResendWasAccepted'
      BY <1>2, <2>1, MoveAccepted, SelectType, RetriableType
         DEF TickRequeueList, PC
    <2> QED
      BY <2>1, <2>2, TableAccepted
  <1>3. CASE TickDueList(w)
    <2>1. NetGrows /\ UNCHANGED rows
      BY <1>3 DEF TickDueList, NetGrows, table
    <2>2. SentWasAccepted' /\ ResendWasAccepted'
      BY <1>3, <2>1, MoveAccepted, SelectType DEF TickDueList, PC
    <2> QED
      BY <2>1, <2>2, TableAccepted
  <1>4. CASE TickDone(w)
    <2>1. NetGrows /\ UNCHANGED rows
      BY <1>4 DEF TickDone, NetGrows, table
    <2>2. SentWasAccepted' /\ ResendWasAccepted'
      BY <1>4, <2>1, MoveAccepted, SelectType DEF TickDone, PC
    <2> QED
      BY <2>1, <2>2, TableAccepted
  <1>5. CASE TickGate(w)
    <2>1. NetGrows /\ UNCHANGED rows
      BY <1>5 DEF TickGate, NetGrows, table
    <2>2. SentWasAccepted' /\ ResendWasAccepted'
      BY <1>5, <2>1, MoveAccepted, SelectType DEF TickGate, PC
    <2> QED
      BY <2>1, <2>2, TableAccepted
  <1>6. CASE TickMark(w)
    <2>1. PICK s \in todo[w] :
            \/ /\ Update(s.id, mark_due(rows[s.id], now))
               /\ Take(w, s, "mark_seal")
            \/ Batch(w, "mark", {}) /\ UNCHANGED rows
      BY <1>6 DEF TickMark
    <2>2. s.id \in Ids /\ rows[s.id] \in Row
      BY DEF TypeOK, Snapshot
    <2>3. NetGrows
      BY <1>6 DEF TickMark, NetGrows
    <2>4. SentWasAccepted' /\ ResendWasAccepted'
      BY <2>1, <2>3, MoveAccepted DEF PC, Sealing
    <2>5. BroadcastMeansAccepted'
      BY <2>1, <2>2, <2>3, UpdateAccepted, TableAccepted, StatusWritten
    <2> QED
      BY <2>4, <2>5
  <1>7. CASE TickRequeue(w)
    <2>1. PICK s \in todo[w] :
            \/ /\ rows[s.id].status = "failed"
               /\ Update(s.id, reset_failed_to_scheduled(rows[s.id]))
               /\ Take(w, s, "requeue_seal")
            \/ Batch(w, "requeue", {}) /\ UNCHANGED rows
      BY <1>7 DEF TickRequeue
    <2>2. s.id \in Ids /\ rows[s.id] \in Row
      BY DEF TypeOK, Snapshot
    <2>3. NetGrows
      BY <1>7 DEF TickRequeue, NetGrows
    <2>4. SentWasAccepted' /\ ResendWasAccepted'
      BY <2>1, <2>3, MoveAccepted DEF PC, Sealing
    <2>5. BroadcastMeansAccepted'
      BY <2>1, <2>2, <2>3, UpdateAccepted, TableAccepted, StatusWritten
    <2> QED
      BY <2>4, <2>5
  <1>8. CASE TickHold(w)
    <2>1. cur[w] \in Ids /\ rows[cur[w]] \in Row
      BY <1>8 DEF TickHold, TypeOK, OnRow
    <2>2. NetGrows
      BY <1>8 DEF TickHold, NetGrows
    <2>3. Back(w, "gate") \/ Finish(w)
      BY <1>8 DEF TickHold
    <2>4. SentWasAccepted' /\ ResendWasAccepted'
      BY <2>2, <2>3, MoveAccepted DEF PC
    <2>5. \/ Update(cur[w], record_broadcast_miss(rows[cur[w]]))
          \/ UNCHANGED rows
      BY <1>8 DEF TickHold
    <2>6. record_broadcast_miss(rows[cur[w]]).status = rows[cur[w]].status
      BY <2>1, StatusWritten
    <2>7. BroadcastMeansAccepted'
      BY <2>1, <2>2, <2>5, <2>6, UpdateAccepted, TableAccepted
         DEF BroadcastMeansAccepted
    <2> QED
      BY <2>4, <2>7
  <1>9. CASE TickSend(w)
    <2>1. cur[w] \in Ids /\ TxOf[cur[w]] \in Txs
      BY <1>9, PoolAssumption DEF TickSend, TypeOK, OnRow
    <2>2. NetGrows /\ UNCHANGED rows
      BY <1>9, <2>1, SendGrows DEF TickSend, TypeOK, table
    <2>3. \/ net'[TxOf[cur[w]]] # "unseen" /\ Goto(w, "sent") /\ UNCHANGED cur
          \/ Goto(w, "failed") /\ UNCHANGED cur
          \/ Goto(w, "gate") /\ cur' = [cur EXCEPT ![w] = NoId]
      BY <1>9, <2>1, SendGrows DEF TickSend, TypeOK
    <2>4. UNCHANGED todo /\ pc[w] = "send"
      BY <1>9 DEF TickSend
    <2>5. \A v \in Workers : pc[v] = "sent" => TxOf[cur[v]] \in Txs
      BY PoolAssumption DEF TypeOK, OnRow
    <2>6. \A v \in Workers : \A s \in todo[v] : TxOf[s.id] \in Txs
      BY PoolAssumption DEF TypeOK, Snapshot
    <2>7. SentWasAccepted'
      BY <2>2, <2>3, <2>5 DEF Goto, TypeOK, SentWasAccepted, NetGrows
    <2>8. ResendWasAccepted'
      BY <2>2, <2>3, <2>4, <2>6 DEF Goto, TypeOK, ResendWasAccepted, NetGrows
    <2> QED
      BY <2>2, <2>7, <2>8, TableAccepted
  <1>10. CASE MarkFailed(w)
    <2>1. cur[w] \in Ids /\ rows[cur[w]] \in Row
      BY <1>10 DEF MarkFailed, TypeOK, OnRow
    <2>2. NetGrows
      BY <1>10 DEF MarkFailed, NetGrows
    <2>3. SentWasAccepted' /\ ResendWasAccepted'
      BY <1>10, <2>2, MoveAccepted DEF MarkFailed, PC, Sealing
    <2>4. BroadcastMeansAccepted'
      BY <1>10, <2>1, <2>2, UpdateAccepted, StatusWritten DEF MarkFailed
    <2> QED
      BY <2>3, <2>4
  <1>11. CASE MarkBroadcast(w)
    <2>1. /\ cur[w] \in Ids /\ rows[cur[w]] \in Row
          /\ net[TxOf[cur[w]]] # "unseen"
      BY <1>11 DEF MarkBroadcast, TypeOK, OnRow, SentWasAccepted
    <2>2. NetGrows
      BY <1>11 DEF MarkBroadcast, NetGrows
    <2>3. SentWasAccepted' /\ ResendWasAccepted'
      BY <1>11, <2>2, MoveAccepted DEF MarkBroadcast, PC, Sealing
    <2>4. BroadcastMeansAccepted'
      BY <1>11, <2>1, <2>2, UpdateAccepted, StatusWritten DEF MarkBroadcast
    <2> QED
      BY <2>3, <2>4
  <1> QED
    BY <1>1, <1>2, <1>3, <1>4, <1>5, <1>6, <1>7, <1>8, <1>9, <1>10, <1>11
       DEF Tick

\* The steps of the other loops keep the table true to the network.
LEMMA MonitorAccepted ==
    ASSUME TypeOK, AcceptedInv, NEW w \in Workers, Monitor(w)
    PROVE  AcceptedInv'
  <1> SUFFICES /\ BroadcastMeansAccepted'
               /\ SentWasAccepted' /\ ResendWasAccepted'
    BY DEF AcceptedInv
  <1>0. BroadcastMeansAccepted /\ SentWasAccepted /\ ResendWasAccepted
    BY DEF AcceptedInv
  <1> USE <1>0
  <1>1. CASE BlockList(w)
    <2>1. NetGrows /\ UNCHANGED rows
      BY <1>1 DEF BlockList, NetGrows, table, LoopStart
    <2>2. SentWasAccepted' /\ ResendWasAccepted'
      BY <1>1, <2>1, MoveAccepted, SelectType DEF BlockList, PC, LoopStart
    <2> QED
      BY <2>1, <2>2, TableAccepted
  <1>2. CASE PriceList(w)
    <2>1. NetGrows /\ UNCHANGED rows
      BY <1>2 DEF PriceList, NetGrows, table, LoopStart
    <2>2. SentWasAccepted' /\ ResendWasAccepted'
      BY <1>2, <2>1, MoveAccepted, SelectType DEF PriceList, PC, LoopStart
    <2> QED
      BY <2>1, <2>2, TableAccepted
  <1>3. CASE ConfirmList(w)
    <2>1. NetGrows /\ UNCHANGED rows
      BY <1>3 DEF ConfirmList, NetGrows, table, LoopStart
    <2>2. SentWasAccepted' /\ ResendWasAccepted'
      BY <1>3, <2>1, MoveAccepted, SelectType DEF ConfirmList, PC, LoopStart
    <2> QED
      BY <2>1, <2>2, TableAccepted
  <1>4. CASE RetainList(w)
    <2>1. NetGrows /\ UNCHANGED rows
      BY <1>4 DEF RetainList, LoopStart, NetGrows, table
    <2>2. SentWasAccepted' /\ ResendWasAccepted'
      BY <1>4, <2>1, MoveAccepted, SelectType DEF RetainList, LoopStart, PC
    <2> QED
      BY <2>1, <2>2, TableAccepted
  <1>5. CASE LoopEnd(w)
    <2>1. NetGrows /\ UNCHANGED rows
      BY <1>5 DEF LoopEnd, NetGrows, table
    <2>2. SentWasAccepted' /\ ResendWasAccepted'
      BY <1>5, <2>1, MoveAccepted DEF LoopEnd
    <2> QED
      BY <2>1, <2>2, TableAccepted
  <1>6. CASE RebroadcastList(w)
    <2>1. PICK S \in SUBSET {i \in Ids : get_pending_rebroadcast(rows[i])} :
            LoopStart(w, "rebroadcast", "resend", S)
      BY <1>6 DEF RebroadcastList
    <2>2. NetGrows /\ UNCHANGED <<rows, net>>
      BY <2>1 DEF LoopStart, NetGrows, table
    <2>3. \A s \in Select(S) : net[TxOf[s.id]] # "unseen"
      BY DEF Select, Read, get_pending_rebroadcast, BroadcastMeansAccepted
    <2>4. /\ pc' = [pc EXCEPT ![w] = "resend"]
          /\ todo' = [todo EXCEPT ![w] = Select(S)]
          /\ cur' = [cur EXCEPT ![w] = NoId]
      BY <2>1 DEF LoopStart, Batch, Goto
    <2>5. SentWasAccepted' /\ ResendWasAccepted'
      BY <2>2, <2>3, <2>4 DEF TypeOK, SentWasAccepted, ResendWasAccepted
    <2> QED
      BY <2>2, <2>5, TableAccepted
  <1>7. CASE BlockMark(w)
    <2>1. PICK s \in todo[w] :
            /\ Update(s.id, mark_due(rows[s.id], now))
            /\ Take(w, s, "block_seal")
      BY <1>7 DEF BlockMark
    <2>2. s.id \in Ids /\ rows[s.id] \in Row
      BY DEF TypeOK, Snapshot
    <2>3. NetGrows
      BY <1>7 DEF BlockMark, NetGrows
    <2>4. SentWasAccepted' /\ ResendWasAccepted'
      BY <2>1, <2>3, MoveAccepted DEF PC, Sealing
    <2>5. BroadcastMeansAccepted'
      BY <2>1, <2>2, <2>3, UpdateAccepted, TableAccepted, StatusWritten
    <2> QED
      BY <2>4, <2>5
  <1>8. CASE PriceMark(w)
    <2>1. PICK s \in todo[w] :
            /\ Update(s.id, mark_due_from_price_trigger(rows[s.id], now))
            /\ Take(w, s, "price_seal")
      BY <1>8 DEF PriceMark
    <2>2. s.id \in Ids /\ rows[s.id] \in Row
      BY DEF TypeOK, Snapshot
    <2>3. NetGrows
      BY <1>8 DEF PriceMark, NetGrows
    <2>4. SentWasAccepted' /\ ResendWasAccepted'
      BY <2>1, <2>3, MoveAccepted DEF PC, Sealing
    <2>5. BroadcastMeansAccepted'
      BY <2>1, <2>2, <2>3, UpdateAccepted, TableAccepted, StatusWritten
    <2> QED
      BY <2>4, <2>5
  <1>9. CASE Rebroadcast(w)
    <2>1. PICK s \in todo[w], reply \in {"ok", "error", "retriable"} :
            broadcast_transaction(TxOf[s.id], reply) /\ Skip(w, s)
      BY <1>9 DEF Rebroadcast
    <2>2. TxOf[s.id] \in Txs
      BY PoolAssumption DEF TypeOK, Snapshot
    <2>3. NetGrows /\ UNCHANGED rows
      BY <1>9, <2>1, <2>2, SendGrows DEF Rebroadcast, TypeOK, table
    <2>4. SentWasAccepted' /\ ResendWasAccepted'
      BY <2>1, <2>3, MoveAccepted
    <2> QED
      BY <2>3, <2>4, TableAccepted
  <1>10. CASE Confirm(w)
    <2>1. PICK s \in todo[w] :
            \/ /\ net[TxOf[s.id]] = "mined"
               /\ Update(s.id, mark_confirmed(rows[s.id]))
               /\ Take(w, s, "confirm_seal")
            \/ Skip(w, s) /\ UNCHANGED rows
      BY <1>10 DEF Confirm
    <2>2. s.id \in Ids /\ rows[s.id] \in Row
      BY DEF TypeOK, Snapshot
    <2>3. NetGrows
      BY <1>10 DEF Confirm, NetGrows
    <2>4. SentWasAccepted' /\ ResendWasAccepted'
      BY <2>1, <2>3, MoveAccepted DEF PC, Sealing
    <2>5. BroadcastMeansAccepted'
      BY <2>1, <2>2, <2>3, UpdateAccepted, TableAccepted, StatusWritten
    <2> QED
      BY <2>4, <2>5
  <1>11. CASE Retain(w)
    <2>1. PICK s \in todo[w] :
            /\ Skip(w, s)
            /\ \/ UNCHANGED rows
               \/ Update(s.id, remove_broadcast_tx(rows[s.id]))
      BY <1>11 DEF Retain
    <2>2. s.id \in Ids
      BY DEF TypeOK, Snapshot
    <2>3. NetGrows
      BY <1>11 DEF Retain, NetGrows
    <2>4. SentWasAccepted' /\ ResendWasAccepted'
      BY <2>1, <2>3, MoveAccepted
    <2>5. remove_broadcast_tx(rows[s.id]).status = "gone"
      BY StatusInserted DEF Mode, Time
    <2>6. BroadcastMeansAccepted'
      BY <2>1, <2>2, <2>3, <2>5, UpdateAccepted, TableAccepted
    <2> QED
      BY <2>4, <2>6
  <1> QED
    BY <1>1, <1>2, <1>3, <1>4, <1>5, <1>6, <1>7, <1>8, <1>9, <1>10, <1>11
       DEF Monitor

\* reseal_row_mac keeps the table true to the network.
LEMMA ResealAccepted ==
    ASSUME TypeOK, AcceptedInv, NEW w \in Workers, Reseal(w)
    PROVE  AcceptedInv'
  <1> SUFFICES /\ BroadcastMeansAccepted'
               /\ SentWasAccepted' /\ ResendWasAccepted'
    BY DEF AcceptedInv
  <1>0. BroadcastMeansAccepted /\ SentWasAccepted /\ ResendWasAccepted
    BY DEF AcceptedInv
  <1> USE <1>0
  <1>1. pc[w] \in Sealing /\ cur[w] \in Ids /\ rows[cur[w]] \in Row
    BY DEF Reseal, TypeOK, OnRow
  <1>2. NetGrows
    BY DEF Reseal, NetGrows
  <1>3. AfterSeal(w, pc[w]) \in PC \ {"sent", "resend"}
    BY <1>1 DEF AfterSeal, PC, Sealing
  <1>4. \/ Back(w, AfterSeal(w, pc[w])) \/ Batch(w, "requeue", {})
        \/ Finish(w)
    BY DEF Reseal, SealError
  <1>5. SentWasAccepted' /\ ResendWasAccepted'
    BY <1>2, <1>3, <1>4, MoveAccepted DEF PC
  <1>6. \/ UNCHANGED rows
        \/ rows' = [rows EXCEPT ![cur[w]] = reseal_row_mac(@)]
    BY DEF Reseal
  <1>7. reseal_row_mac(rows[cur[w]]).status = rows[cur[w]].status
    BY <1>1, StatusWritten
  <1>8. BroadcastMeansAccepted'
    BY <1>1, <1>2, <1>6, <1>7, PoolAssumption
       DEF BroadcastMeansAccepted, NetGrows, TypeOK
  <1> QED
    BY <1>5, <1>8

\* The requests keep the table true to the network.
LEMMA CallAccepted ==
    ASSUME TypeOK, AcceptedInv, NEW c \in Workers, Call(c)
    PROVE  AcceptedInv'
  <1> SUFFICES /\ BroadcastMeansAccepted'
               /\ SentWasAccepted' /\ ResendWasAccepted'
    BY DEF AcceptedInv
  <1>0. BroadcastMeansAccepted /\ SentWasAccepted /\ ResendWasAccepted
    BY DEF AcceptedInv
  <1> USE <1>0
  <1>1. ASSUME NEW i \in Ids, ImportTransaction(c, i)
        PROVE  BroadcastMeansAccepted' /\ SentWasAccepted' /\ ResendWasAccepted'
    <2>1. NetGrows
      BY <1>1 DEF ImportTransaction, NetGrows
    <2>2. SentWasAccepted' /\ ResendWasAccepted'
      BY <1>1, <2>1, MoveAccepted DEF ImportTransaction
    <2>3. insert_broadcast_tx("imported", NoTime).status = "pending"
      BY StatusInserted DEF Mode, Time
    <2>4. BroadcastMeansAccepted'
      BY <1>1, <2>1, <2>3, PoolAssumption
         DEF ImportTransaction, BroadcastMeansAccepted, NetGrows, TypeOK
    <2> QED
      BY <2>2, <2>4
  <1>2. ASSUME NEW i \in Ids, RetryFailed(c, i)
        PROVE  BroadcastMeansAccepted' /\ SentWasAccepted' /\ ResendWasAccepted'
    <2>1. NetGrows /\ rows[i] \in Row
      BY <1>2 DEF RetryFailed, NetGrows, TypeOK
    <2>2. SentWasAccepted' /\ ResendWasAccepted'
      BY <1>2, <2>1, MoveAccepted, NoArgType DEF RetryFailed, PC, Sealing
    <2>3. reset_failed_to_scheduled(rows[i]).status = "scheduled"
      BY <1>2, <2>1, StatusWritten DEF RetryFailed
    <2>4. BroadcastMeansAccepted'
      BY <1>2, <2>1, <2>3, UpdateAccepted DEF RetryFailed
    <2> QED
      BY <2>2, <2>4
  <1>3. ASSUME NEW i \in Ids, RemoveTransaction(c, i)
        PROVE  BroadcastMeansAccepted' /\ SentWasAccepted' /\ ResendWasAccepted'
    <2>1. NetGrows
      BY <1>3 DEF RemoveTransaction, NetGrows
    <2>2. SentWasAccepted' /\ ResendWasAccepted'
      BY <1>3, <2>1, MoveAccepted DEF RemoveTransaction
    <2>3. remove_broadcast_tx(rows[i]).status = "gone"
      BY StatusInserted DEF Mode, Time
    <2>4. BroadcastMeansAccepted'
      BY <1>3, <2>1, <2>3, UpdateAccepted DEF RemoveTransaction
    <2> QED
      BY <2>2, <2>4
  <1>4. ASSUME NEW i \in Ids, BroadcastNow(c, i)
        PROVE  BroadcastMeansAccepted' /\ SentWasAccepted' /\ ResendWasAccepted'
    <2>1. NetGrows /\ UNCHANGED rows
      BY <1>4 DEF BroadcastNow, NetGrows, table
    <2>2. SentWasAccepted' /\ ResendWasAccepted'
      BY <1>4, <2>1, MoveAccepted, NoArgType DEF BroadcastNow, PC
    <2> QED
      BY <2>1, <2>2, TableAccepted
  <1>5. ASSUME NEW i \in Ids, IngestAck(c, i)
        PROVE  BroadcastMeansAccepted' /\ SentWasAccepted' /\ ResendWasAccepted'
    <2>1. NetGrows /\ UNCHANGED rows
      BY <1>5 DEF IngestAck, NetGrows, table
    <2>2. SentWasAccepted' /\ ResendWasAccepted'
      BY <1>5, <2>1, MoveAccepted, NoArgType DEF IngestAck, PC
    <2> QED
      BY <2>1, <2>2, TableAccepted
  <1>6. ASSUME NEW i \in Ids, NEW at \in Clock, ScheduleAt(c, i, at)
        PROVE  BroadcastMeansAccepted' /\ SentWasAccepted' /\ ResendWasAccepted'
    <2>1. NetGrows /\ UNCHANGED rows
      BY <1>6 DEF ScheduleAt, NetGrows, table
    <2>3. [NoArg EXCEPT !.at = at,
             !.defer = IF IsReschedule(rows[i]) THEN at ELSE NoTime] \in Arg
      BY NoArgType DEF Arg, Time
    <2>2. SentWasAccepted' /\ ResendWasAccepted'
      BY <1>6, <2>1, MoveAccepted, NoArgType, <2>3 DEF ScheduleAt, PC
    <2> QED
      BY <2>1, <2>2, TableAccepted
  <1>7. ASSUME NEW i \in Ids, NEW q \in Prices, ScheduleByPrice(c, i, q)
        PROVE  BroadcastMeansAccepted' /\ SentWasAccepted' /\ ResendWasAccepted'
    <2>1. NetGrows /\ UNCHANGED rows
      BY <1>7 DEF ScheduleByPrice, NetGrows, table
    <2>3. [NoArg EXCEPT !.price = q] \in Arg
      BY NoArgType DEF Arg
    <2>2. SentWasAccepted' /\ ResendWasAccepted'
      BY <1>7, <2>1, MoveAccepted, NoArgType, <2>3 DEF ScheduleByPrice, PC
    <2> QED
      BY <2>1, <2>2, TableAccepted
  <1>8. ASSUME NEW i \in Ids, NEW at \in Clock, ScheduleRandom(c, i, at)
        PROVE  BroadcastMeansAccepted' /\ SentWasAccepted' /\ ResendWasAccepted'
    <2>1. NetGrows /\ rows[i] \in Row
      BY <1>8 DEF ScheduleRandom, NetGrows, TypeOK
    <2>2. SentWasAccepted' /\ ResendWasAccepted'
      BY <1>8, <2>1, MoveAccepted DEF ScheduleRandom
    <2>3. BroadcastMeansAccepted'
      BY <1>8, <2>1, UpdateAccepted, StatusWritten DEF ScheduleRandom
    <2> QED
      BY <2>2, <2>3
  <1>9. CASE ScheduleAtWrite(c)
    <2>1. cur[c] \in Ids /\ rows[cur[c]] \in Row
      BY <1>9 DEF ScheduleAtWrite, TypeOK, OnRow
    <2>2. NetGrows
      BY <1>9 DEF ScheduleAtWrite, NetGrows
    <2>3. SentWasAccepted' /\ ResendWasAccepted'
      BY <1>9, <2>2, MoveAccepted DEF ScheduleAtWrite, PC, Sealing
    <2>4. BroadcastMeansAccepted'
      BY <1>9, <2>1, <2>2, UpdateAccepted, StatusWritten DEF ScheduleAtWrite
    <2> QED
      BY <2>3, <2>4
  <1>10. CASE ScheduleByPriceWrite(c)
    <2>1. cur[c] \in Ids /\ rows[cur[c]] \in Row
      BY <1>10 DEF ScheduleByPriceWrite, TypeOK, OnRow
    <2>2. NetGrows
      BY <1>10 DEF ScheduleByPriceWrite, NetGrows
    <2>3. SentWasAccepted' /\ ResendWasAccepted'
      BY <1>10, <2>2, MoveAccepted DEF ScheduleByPriceWrite, PC, Sealing
    <2>4. BroadcastMeansAccepted'
      BY <1>10, <2>1, <2>2, UpdateAccepted, StatusWritten DEF ScheduleByPriceWrite
    <2> QED
      BY <2>3, <2>4
  <1>11. CASE IngestDue(c)
    <2>1. cur[c] \in Ids /\ rows[cur[c]] \in Row
      BY <1>11 DEF IngestDue, TypeOK, OnRow
    <2>2. NetGrows
      BY <1>11 DEF IngestDue, NetGrows
    <2>3. SentWasAccepted' /\ ResendWasAccepted'
      BY <1>11, <2>2, MoveAccepted DEF IngestDue, PC, Sealing
    <2>4. BroadcastMeansAccepted'
      BY <1>11, <2>1, <2>2, UpdateAccepted, StatusWritten DEF IngestDue
    <2> QED
      BY <2>3, <2>4
  <1>12. CASE BroadcastNowSend(c)
    <2>1. cur[c] \in Ids /\ TxOf[cur[c]] \in Txs
      BY <1>12, PoolAssumption DEF BroadcastNowSend, TypeOK, OnRow
    <2>2. NetGrows /\ UNCHANGED rows
      <3>1. UNCHANGED net => NetGrows
        BY DEF NetGrows
      <3> QED
        BY <1>12, <2>1, <3>1, SendGrows DEF BroadcastNowSend, TypeOK, table
    <2>3. \/ Finish(c)
          \/ /\ net'[TxOf[cur[c]]] # "unseen" /\ Goto(c, "sent")
             /\ UNCHANGED <<todo, cur>>
      BY <1>12, <2>1, SendGrows DEF BroadcastNowSend, TypeOK
    <2>4. CASE Finish(c)
      BY <2>2, <2>4, MoveAccepted, TableAccepted
    <2>5. CASE /\ net'[TxOf[cur[c]]] # "unseen" /\ Goto(c, "sent")
               /\ UNCHANGED <<todo, cur>>
      <3>1. \A v \in Workers : pc[v] = "sent" => TxOf[cur[v]] \in Txs
        BY PoolAssumption DEF TypeOK, OnRow
      <3>2. \A v \in Workers : \A s \in todo[v] : TxOf[s.id] \in Txs
        BY PoolAssumption DEF TypeOK, Snapshot
      <3>3. SentWasAccepted'
        BY <2>2, <2>5, <3>1 DEF Goto, TypeOK, SentWasAccepted, NetGrows
      <3>4. ResendWasAccepted'
        BY <2>2, <2>5, <3>2 DEF Goto, TypeOK, ResendWasAccepted, NetGrows
      <3> QED
        BY <2>2, <3>3, <3>4, TableAccepted
    <2> QED
      BY <2>3, <2>4, <2>5
  <1>13. CASE IngestInsert(c)
    <2>1. cur[c] \in Ids /\ TxOf[cur[c]] \in Txs
      BY <1>13, PoolAssumption DEF IngestInsert, TypeOK, OnRow
    <2>2. PICK src, tip :
            \E p \in resolve_ingest_plan(src, OwnLock[TxOf[cur[c]]], tip) :
              /\ rows' = [rows EXCEPT ![cur[c]] =
                            insert_broadcast_tx(p.mode, p.scheduled)]
              /\ Goto(c, IF p.mode = "immediate"
                         THEN "store_due" ELSE "store")
      BY <1>13 DEF IngestInsert
    <2>3. PICK p \in resolve_ingest_plan(src, OwnLock[TxOf[cur[c]]], tip) :
            /\ rows' = [rows EXCEPT ![cur[c]] =
                            insert_broadcast_tx(p.mode, p.scheduled)]
            /\ Goto(c, IF p.mode = "immediate" THEN "store_due" ELSE "store")
      BY <2>2
    <2>4. p.mode \in Mode /\ p.scheduled \in Time
      BY <2>1, PlanType, TypeSplit
    <2>5. insert_broadcast_tx(p.mode, p.scheduled).status = "pending"
      BY <2>4, StatusInserted
    <2>6. NetGrows
      BY <1>13 DEF IngestInsert, NetGrows
    <2>7. BroadcastMeansAccepted'
      BY <2>1, <2>3, <2>5, <2>6, PoolAssumption
         DEF BroadcastMeansAccepted, NetGrows, TypeOK
    <2>8. (IF p.mode = "immediate" THEN "store_due" ELSE "store")
            \in PC \ {"sent", "resend"}
      BY DEF PC
    <2>9. SentWasAccepted' /\ ResendWasAccepted'
      BY <1>13, <2>3, <2>6, <2>8, MoveAccepted DEF IngestInsert
    <2> QED
      BY <2>7, <2>9
  <1>14. CASE IngestStore(c)
    <2>1. NetGrows /\ UNCHANGED rows
      BY <1>14 DEF IngestStore, NetGrows, table
    <2>2. SentWasAccepted' /\ ResendWasAccepted'
      BY <1>14, <2>1, MoveAccepted, SelectType DEF IngestStore, PC
    <2> QED
      BY <2>1, <2>2, TableAccepted
  <1> QED
    BY <1>1, <1>2, <1>3, <1>4, <1>5, <1>6, <1>7, <1>8, <1>9, <1>10, <1>11,
       <1>12, <1>13, <1>14 DEF Call

\* Neither the network nor a restart breaks it: mined stays mined, and the
\* start-up requeue only touches failed rows.
LEMMA EnvironmentAccepted ==
    ASSUME TypeOK, AcceptedInv, Environment
    PROVE  AcceptedInv'
  <1> SUFFICES /\ BroadcastMeansAccepted'
               /\ SentWasAccepted' /\ ResendWasAccepted'
    BY DEF AcceptedInv
  <1>0. BroadcastMeansAccepted /\ SentWasAccepted /\ ResendWasAccepted
    BY DEF AcceptedInv
  <1> USE <1>0
  <1>1. ASSUME NetGrows, UNCHANGED rows, UNCHANGED workers
        PROVE  BroadcastMeansAccepted' /\ SentWasAccepted' /\ ResendWasAccepted'
    <2>1. \A v \in Workers : pc[v] = "sent" => TxOf[cur[v]] \in Txs
      BY PoolAssumption DEF TypeOK, OnRow
    <2>2. \A v \in Workers : \A s \in todo[v] : TxOf[s.id] \in Txs
      BY PoolAssumption DEF TypeOK, Snapshot
    <2>3. SentWasAccepted' /\ ResendWasAccepted'
      BY <1>1, <2>1, <2>2
         DEF workers, SentWasAccepted, ResendWasAccepted, NetGrows
    <2> QED
      BY <1>1, <2>3, TableAccepted
  <1>2. CASE Clocktick
    <2>1. NetGrows /\ UNCHANGED rows /\ UNCHANGED workers
      BY <1>2 DEF Clocktick, NetGrows, table
    <2> QED
      BY <1>1, <2>1
  <1>3. CASE Block
    <2>1. NetGrows /\ UNCHANGED rows /\ UNCHANGED workers
      BY <1>3 DEF Block, NetGrows, table
    <2> QED
      BY <1>1, <2>1
  <1>4. CASE \E t \in Txs : Evict(t)
    <2>1. NetGrows /\ UNCHANGED rows /\ UNCHANGED workers
      BY <1>4 DEF Evict, NetGrows, table, TypeOK
    <2> QED
      BY <1>1, <2>1
  <1>5. CASE Acknowledge
    <2>1. NetGrows /\ UNCHANGED rows /\ UNCHANGED workers
      BY <1>5 DEF Acknowledge, NetGrows, table
    <2> QED
      BY <1>1, <2>1
  <1>6. CASE Restart
    <2> DEFINE opened == [i \in Ids |-> MIGRATION_007(rows[i])]
    <2>1. PICK S : rows' = [i \in Ids |-> Requeued(opened[i], i \in S)]
          /\ UNCHANGED net
      BY <1>6 DEF Restart
    <2>2. \A i \in Ids : opened[i] \in Row /\ opened[i].status = rows[i].status
      BY RowToRow, StatusWritten DEF TypeOK
    <2> HIDE DEF opened
    <2>3. \A i \in Ids : Requeued(opened[i], i \in S).status
                           \in {rows[i].status, "scheduled"}
      <3> TAKE i \in Ids
      <3>1. reset_failed_to_scheduled(opened[i]) \in Row
        BY <2>2, RowToRow
      <3>2. reseal_row_mac(reset_failed_to_scheduled(opened[i])).status
              \in {rows[i].status, "scheduled"}
        BY <2>2, <3>1, StatusWritten
      <3> QED
        BY <2>2, <3>2 DEF Requeued
    <2>4. BroadcastMeansAccepted'
      BY <2>1, <2>3 DEF BroadcastMeansAccepted
    <2>5. SentWasAccepted' /\ ResendWasAccepted'
      BY <1>6 DEF Restart, SentWasAccepted, ResendWasAccepted
    <2> QED
      BY <2>4, <2>5
  <1>7. CASE Backends
    <2>1. NetGrows /\ UNCHANGED rows /\ UNCHANGED workers
      BY <1>7 DEF Backends, NetGrows, table
    <2> QED
      BY <1>1, <2>1
  <1> QED
    BY <1>2, <1>3, <1>4, <1>5, <1>6, <1>7 DEF Environment

\* Every step keeps AcceptedInv.
LEMMA AcceptedStep ==
    ASSUME TypeOK, AcceptedInv, [Next]_vars
    PROVE  AcceptedInv'
  <1>1. CASE UNCHANGED vars
    BY <1>1 DEF vars, AcceptedInv, BroadcastMeansAccepted, SentWasAccepted,
                ResendWasAccepted
  <1>2. ASSUME NEW w \in Workers, Step(w) PROVE AcceptedInv'
    BY <1>2, TickAccepted, MonitorAccepted, CallAccepted, ResealAccepted
       DEF Step
  <1>3. CASE Environment
    BY <1>3, EnvironmentAccepted
  <1> QED
    BY <1>1, <1>2, <1>3 DEF Next

\* The initial table is empty.
LEMMA AcceptedInit == Init => AcceptedInv
  <1>1. EmptyRow("fresh").status = "fresh"
    BY DEF EmptyRow, reseal_row_mac
  <1> QED
    BY <1>1 DEF Init, AcceptedInv, BroadcastMeansAccepted, SentWasAccepted,
                ResendWasAccepted

\* AcceptedInv holds in every reachable state.
LEMMA AcceptedAlways == Spec => []AcceptedInv
  BY TypeCorrect, AcceptedInit, AcceptedStep, PTL DEF Spec

\* Whatever loops, requests, restarts, lost answers and deletions interleave
\* between the answer of broadcast_transaction and the write that records it,
\* the table calls a transaction broadcast only if a node accepted it, and
\* confirmed only if it is in a block.
THEOREM TableTellsTheTruth == Spec => []BroadcastMeansAccepted
  <1>1. AcceptedInv => BroadcastMeansAccepted
    BY DEF AcceptedInv
  <1> QED
    BY <1>1, AcceptedAlways, PTL

-----------------------------------------------------------------------------
(* What reaches the network went through a gate.                           *)

\* Only three steps of the program call the network.
LEMMA QuietSteps ==
    ASSUME NEW w \in Workers, Step(w)
    PROVE  UNCHANGED net \/ TickSend(w) \/ Rebroadcast(w) \/ BroadcastNowSend(w)
  <1>1. CASE Tick(w) \/ MarkBroadcast(w) \/ Reseal(w)
    BY <1>1 DEF Tick, TickStart, TickMark, TickRequeueList, TickRequeue,
                TickDueList, TickGate, TickDone, TickHold, MarkFailed,
                MarkBroadcast, Reseal
  <1>2. CASE Monitor(w)
    BY <1>2 DEF Monitor, BlockList, BlockMark, PriceList, PriceMark,
                RebroadcastList, ConfirmList, Confirm, RetainList, Retain,
                LoopStart, LoopEnd
  <1>3. CASE Call(w)
    BY <1>3 DEF Call, ImportTransaction, RetryFailed, RemoveTransaction,
                BroadcastNow, IngestAck, ScheduleAt, ScheduleRandom,
                ScheduleByPrice, ScheduleAtWrite, ScheduleByPriceWrite,
                IngestInsert, IngestStore, IngestDue
  <1> QED
    BY <1>1, <1>2, <1>3 DEF Step

\* The worker that sends t for the first time is past its gate with t's row.
FirstSender(t) ==
    \E w \in Workers : PastGate(w) /\ cur[w] \in Ids /\ TxOf[cur[w]] = t

\* A step that shows the network a transaction it has not seen is the send of
\* the tick or of broadcast_now.
LEMMA FirstSendStep ==
    ASSUME TypeOK, AcceptedInv, Next,
           NEW t \in Txs, net[t] = "unseen", net'[t] # "unseen"
    PROVE  FirstSender(t)
  <1>1. ASSUME NEW w \in Workers, TickSend(w) \/ BroadcastNowSend(w)
        PROVE FirstSender(t)
    <2>1. PastGate(w) /\ cur[w] \in Ids /\ TxOf[cur[w]] \in Txs
      BY <1>1, PoolAssumption
         DEF TickSend, BroadcastNowSend, TypeOK, OnRow, PastGate
    <2>2. \A u \in Txs : u # TxOf[cur[w]] => net'[u] = net[u]
      BY <1>1, <2>1, SendGrows DEF TickSend, BroadcastNowSend, TypeOK
    <2> QED
      BY <2>1, <2>2 DEF FirstSender
  <1>2. ASSUME NEW w \in Workers, Rebroadcast(w) PROVE FALSE
    <2>1. PICK s \in todo[w], reply \in {"ok", "error", "retriable"} :
            broadcast_transaction(TxOf[s.id], reply)
      BY <1>2 DEF Rebroadcast
    <2>2. TxOf[s.id] \in Txs
      BY PoolAssumption DEF TypeOK, Snapshot
    <2>3. \A u \in Txs : u # TxOf[s.id] => net'[u] = net[u]
      BY <2>1, <2>2, SendGrows DEF TypeOK
    <2>4. net[TxOf[s.id]] # "unseen"
      BY <1>2 DEF Rebroadcast, AcceptedInv, ResendWasAccepted
    <2> QED
      BY <2>2, <2>3, <2>4
  <1>3. ASSUME Environment PROVE FALSE
    BY <1>3 DEF Environment, Clocktick, Block, Evict, Acknowledge,
                Backends, Restart, TypeOK
  <1> QED
    BY <1>1, <1>2, <1>3, QuietSteps DEF Next

\* A transaction the network has not seen leaves the pool only from the send
\* step of the tick or of broadcast_now, behind their safe-mode, integrity
\* and locktime checks: the rebroadcast loop, which has none of them, never
\* sends anything for the first time.
THEOREM FirstSendGated == Spec => FirstSendIsGated
  <1> DEFINE Gated == \A t \in Txs : net[t] = "unseen" /\ net'[t] # "unseen" =>
        \E w \in Workers : pc[w] \in {"send", "now"} /\ TxOf[cur[w]] = t
  <1>1. TypeOK /\ AcceptedInv /\ [Next]_vars => [Gated]_vars
    BY FirstSendStep DEF FirstSender, PastGate
  <1> QED
    BY <1>1, TypeCorrect, AcceptedAlways, PTL DEF Spec, FirstSendIsGated

-----------------------------------------------------------------------------
(* What a halt does not stop.                                              *)

\* While the halt is on, a worker enters the send of the tick or of
\* broadcast_now in no step, and one that is there keeps the row it is on.
LEMMA GatesLookAtTheHalt ==
    ASSUME TypeOK, NEW w \in Workers, Step(w), safe_mode,
           NEW v \in Workers, PastGate(v)'
    PROVE  PastGate(v) /\ cur'[v] = cur[v]
  <1> USE DEF Goto, Take, Skip, Batch, Back, Finish, Request
  <1> SUFFICES \/ UNCHANGED <<pc, cur>>
               \/ /\ \E p : p \notin {"send", "now"}
                            /\ pc' = [pc EXCEPT ![w] = p]
                  /\ UNCHANGED cur \/ \E i : cur' = [cur EXCEPT ![w] = i]
    BY DEF PastGate, TypeOK
  <1>1. CASE Tick(w) \/ MarkBroadcast(w)
    BY <1>1 DEF Tick, TickStart, TickMark, TickRequeueList, TickRequeue,
                TickDueList, TickGate, TickDone, TickHold, TickSend,
                MarkFailed, MarkBroadcast
  <1>2. CASE Monitor(w)
    BY <1>2 DEF Monitor, BlockList, BlockMark, PriceList, PriceMark,
                RebroadcastList, Rebroadcast, ConfirmList, Confirm,
                RetainList, Retain, LoopStart, LoopEnd
  <1>3. CASE Call(w)
    BY <1>3 DEF Call, ImportTransaction, RetryFailed, RemoveTransaction,
                BroadcastNow, BroadcastNowSend, IngestAck, ScheduleAt,
                ScheduleRandom, ScheduleByPrice, ScheduleAtWrite,
                ScheduleByPriceWrite, IngestInsert, IngestStore, IngestDue,
                workers
  <1>4. CASE Reseal(w)
    <2>1. AfterSeal(w, pc[w]) \notin {"send", "now"}
      BY DEF AfterSeal
    <2>2. \/ Back(w, AfterSeal(w, pc[w])) \/ Batch(w, "requeue", {})
          \/ Finish(w)
      BY <1>4 DEF Reseal, SealError
    <2> QED
      BY <2>1, <2>2
  <1> QED
    BY <1>1, <1>2, <1>3, <1>4 DEF Step

\* A worker past its gate while the halt is on has been there, on the same
\* row, since the halt was set.
HaltInv ==
    /\ HaltLeaksWhatOvertookIt
    /\ safe_mode => \A w \in Workers : PastGate(w) => cur[w] = overtaking[w]

LEMMA HaltStep ==
    ASSUME TypeOK, AcceptedInv, HaltInv, HaltNext
    PROVE  HaltInv'
  <1>1. CASE HaltSet
    BY <1>1 DEF HaltSet, HaltInv, HaltLeaksWhatOvertookIt, PastGate
  <1>2. CASE NoHalt
    BY <1>2 DEF NoHalt, HaltInv, HaltLeaksWhatOvertookIt
  <1>3. CASE HaltLasts
    <2>1. UNCHANGED overtaking /\ safe_mode
          /\ leaked' = leaked \union
                         {t \in Txs : net[t] = "unseen" /\ net'[t] # "unseen"}
      BY <1>3 DEF HaltLasts
    <2>2. HaltLeaksWhatOvertookIt'
      <3>1. ASSUME NEW t \in Txs, net[t] = "unseen", net'[t] # "unseen"
            PROVE  \E w \in Workers : overtaking[w] \in Ids
                                        /\ TxOf[overtaking[w]] = t
        <4>1. FirstSender(t)
          BY <3>1, FirstSendStep DEF HaltNext
        <4> QED
          BY <2>1, <4>1 DEF FirstSender, HaltInv
      <3> QED
        BY <2>1, <3>1 DEF HaltInv, HaltLeaksWhatOvertookIt
    <2>3. ASSUME NEW v \in Workers, PastGate(v)'
          PROVE  cur'[v] = overtaking'[v]
      <3>1. PastGate(v) /\ cur'[v] = cur[v]
        <4>1. CASE \E w \in Workers : Step(w)
          BY <2>1, <2>3, <4>1, GatesLookAtTheHalt
        <4>2. CASE Environment
          <5>1. \/ UNCHANGED <<pc, cur>>
                \/ pc' = [w \in Workers |-> "idle"]
            BY <4>2 DEF Environment, Clocktick, Block, Evict, Backends,
                        Acknowledge, Restart, workers
          <5> QED
            BY <2>3, <5>1 DEF PastGate
        <4> QED
          BY <4>1, <4>2 DEF HaltNext, Next
      <3> QED
        BY <2>1, <3>1 DEF HaltInv
    <2> QED
      BY <2>2, <2>3 DEF HaltInv
  <1> QED
    BY <1>1, <1>2, <1>3 DEF HaltNext

\* From the moment the halt is set until it is acknowledged, each thread lets
\* out at most the transaction it had past its gate at that moment, whatever
\* batches, requests, rebroadcasts, crashes and lost answers come between: no
\* loop gets past a gate, and the loop that has none sends nothing new.
THEOREM HaltLeaksBounded == HaltSpec => []HaltLeaksWhatOvertookIt
  <1>1. HaltSpec => Spec
    <2>1. HaltInit => Init
      BY DEF HaltInit
    <2>2. [HaltNext]_haltVars => [Next]_vars
      BY DEF HaltNext, haltVars, vars
    <2> QED
      BY <2>1, <2>2, PTL DEF HaltSpec, Spec
  <1>2. HaltInit => HaltInv
    BY DEF HaltInit, Init, HaltInv, HaltLeaksWhatOvertookIt
  <1>3. TypeOK /\ AcceptedInv /\ HaltInv /\ [HaltNext]_haltVars => HaltInv'
    <2>1. ASSUME HaltInv, UNCHANGED haltVars PROVE HaltInv'
      BY <2>1 DEF haltVars, vars, HaltInv, HaltLeaksWhatOvertookIt, PastGate
    <2> QED
      BY <2>1, HaltStep
  <1>4. HaltInv => HaltLeaksWhatOvertookIt
    BY DEF HaltInv
  <1> QED
    BY <1>1, <1>2, <1>3, <1>4, TypeCorrect, AcceptedAlways, PTL DEF HaltSpec

-----------------------------------------------------------------------------
(* NoRowDropped, in a pool whose user removes nothing: the one statement    *)
(* that deletes a row archives it in the same transaction.                  *)

\* A step of the table that deletes no row it does not archive.
Archives ==
    /\ archive \subseteq archive'
    /\ \A i \in Ids : rows'[i].status = "gone"
                        => rows[i].status = "gone" \/ i \in archive'

\* An UPDATE deletes no row.
LEMMA UpdateArchives ==
    ASSUME TypeOK, NEW i \in Ids, NEW r,
           r.status # "gone" \/ r.status = rows[i].status,
           Update(i, r), UNCHANGED archive
    PROVE  Archives
  BY DEF TypeOK, Archives, Update

\* The broadcast loop and mark_broadcast delete nothing.
LEMMA TickArchives ==
    ASSUME TypeOK, NEW w \in Workers, Tick(w) \/ MarkBroadcast(w)
    PROVE  Archives
  <1>0. UNCHANGED rows /\ UNCHANGED archive => Archives
    BY DEF Archives
  <1>1. CASE \/ TickStart(w) \/ TickRequeueList(w) \/ TickDueList(w)
             \/ TickDone(w) \/ TickGate(w) \/ TickSend(w)
    BY <1>0, <1>1 DEF TickStart, TickRequeueList, TickDueList, TickDone,
                      TickGate, TickSend, table
  <1>2. CASE TickMark(w) \/ TickRequeue(w)
    <2>1. PICK s \in todo[w] :
            \/ Update(s.id, mark_due(rows[s.id], now))
            \/ /\ rows[s.id].status = "failed"
               /\ Update(s.id, reset_failed_to_scheduled(rows[s.id]))
            \/ UNCHANGED rows
      BY <1>2 DEF TickMark, TickRequeue
    <2>2. s.id \in Ids /\ rows[s.id] \in Row /\ UNCHANGED archive
      BY <1>2 DEF TypeOK, Snapshot, TickMark, TickRequeue
    <2> QED
      BY <1>0, <2>1, <2>2, StatusWritten, UpdateArchives
  <1>3. CASE TickHold(w) \/ MarkFailed(w) \/ MarkBroadcast(w)
    <2>1. cur[w] \in Ids /\ rows[cur[w]] \in Row /\ UNCHANGED archive
      BY <1>3 DEF TickHold, MarkFailed, MarkBroadcast, TypeOK, OnRow
    <2>2. \/ Update(cur[w], record_broadcast_miss(rows[cur[w]]))
          \/ Update(cur[w], update_tx_status(rows[cur[w]], "failed"))
          \/ Update(cur[w], mark_broadcast(rows[cur[w]]))
          \/ UNCHANGED rows
      BY <1>3 DEF TickHold, MarkFailed, MarkBroadcast
    <2>3. /\ record_broadcast_miss(rows[cur[w]]).status = rows[cur[w]].status
          /\ update_tx_status(rows[cur[w]], "failed").status = "failed"
          /\ mark_broadcast(rows[cur[w]]).status = "broadcast"
      BY <2>1, StatusWritten
    <2> QED
      BY <1>0, <2>1, <2>2, <2>3, UpdateArchives
  <1> QED
    BY <1>1, <1>2, <1>3 DEF Tick

\* Of the other loops only retention deletes, and what it deletes it archives.
LEMMA MonitorArchives ==
    ASSUME TypeOK, NEW w \in Workers, Monitor(w)
    PROVE  Archives
  <1>0. UNCHANGED rows /\ UNCHANGED archive => Archives
    BY DEF Archives
  <1>1. CASE \/ BlockList(w) \/ PriceList(w) \/ RebroadcastList(w)
             \/ ConfirmList(w) \/ RetainList(w) \/ LoopEnd(w) \/ Rebroadcast(w)
    BY <1>0, <1>1 DEF BlockList, PriceList, RebroadcastList, ConfirmList,
                      RetainList, LoopStart, LoopEnd, Rebroadcast, table
  <1>2. CASE BlockMark(w) \/ PriceMark(w) \/ Confirm(w)
    <2>1. PICK s \in todo[w] :
            \/ Update(s.id, mark_due(rows[s.id], now))
            \/ Update(s.id, mark_due_from_price_trigger(rows[s.id], now))
            \/ Update(s.id, mark_confirmed(rows[s.id]))
            \/ UNCHANGED rows
      BY <1>2 DEF BlockMark, PriceMark, Confirm
    <2>2. s.id \in Ids /\ rows[s.id] \in Row /\ UNCHANGED archive
      BY <1>2 DEF TypeOK, Snapshot, BlockMark, PriceMark, Confirm
    <2> QED
      BY <1>0, <2>1, <2>2, StatusWritten, UpdateArchives
  <1>3. CASE Retain(w)
    <2>1. PICK s \in todo[w] :
            \/ UNCHANGED <<rows, archive>>
            \/ /\ archive' = archive \union {s.id}
               /\ Update(s.id, remove_broadcast_tx(rows[s.id]))
      BY <1>3 DEF Retain
    <2>2. s.id \in Ids
      BY DEF TypeOK, Snapshot
    <2> QED
      BY <1>0, <2>1, <2>2 DEF Archives, Update, TypeOK
  <1> QED
    BY <1>1, <1>2, <1>3 DEF Monitor

\* Of the requests only a removal deletes.
LEMMA CallArchives ==
    ASSUME TypeOK, "remove" \notin Ops, NEW c \in Workers, Call(c)
    PROVE  Archives
  <1>0. UNCHANGED rows /\ UNCHANGED archive => Archives
    BY DEF Archives
  <1>1. ASSUME NEW i \in Ids, ImportTransaction(c, i) PROVE Archives
    <2>1. insert_broadcast_tx("imported", NoTime).status = "pending"
      BY StatusInserted DEF Mode, Time
    <2> QED
      BY <1>1, <2>1 DEF ImportTransaction, Archives, TypeOK
  <1>2. ASSUME NEW i \in Ids, RetryFailed(c, i) PROVE Archives
    <2>1. rows[i] \in Row /\ rows[i].status = "failed" /\ UNCHANGED archive
          /\ Update(i, reset_failed_to_scheduled(rows[i]))
      BY <1>2 DEF RetryFailed, TypeOK
    <2> QED
      BY <2>1, StatusWritten, UpdateArchives
  <1>3. ASSUME NEW i \in Ids PROVE ~RemoveTransaction(c, i)
    BY DEF RemoveTransaction, Calls
  <1>4. ASSUME NEW i \in Ids, BroadcastNow(c, i) \/ IngestAck(c, i)
                 \/ (\E at \in Clock : ScheduleAt(c, i, at))
                 \/ (\E q \in Prices : ScheduleByPrice(c, i, q))
        PROVE  Archives
    BY <1>0, <1>4 DEF BroadcastNow, IngestAck, ScheduleAt, ScheduleByPrice, table
  <1>5. ASSUME NEW i \in Ids, NEW at \in Clock, ScheduleRandom(c, i, at)
        PROVE  Archives
    <2>1. rows[i] \in Row /\ Update(i, random_schedule(rows[i], at))
          /\ UNCHANGED archive
      BY <1>5 DEF ScheduleRandom, TypeOK
    <2> QED
      BY <2>1, StatusWritten, UpdateArchives
  <1>6. CASE ScheduleAtWrite(c) \/ ScheduleByPriceWrite(c) \/ IngestDue(c)
    <2>1. cur[c] \in Ids /\ rows[cur[c]] \in Row /\ UNCHANGED archive
      BY <1>6 DEF ScheduleAtWrite, ScheduleByPriceWrite, IngestDue, TypeOK, OnRow
    <2>2. \/ Update(cur[c], update_reschedule(rows[cur[c]], arg[c].at, arg[c].defer))
          \/ Update(cur[c], update_price_schedule(rows[cur[c]], arg[c].price))
          \/ Update(cur[c], mark_due(rows[cur[c]], now))
      BY <1>6 DEF ScheduleAtWrite, ScheduleByPriceWrite, IngestDue
    <2> QED
      BY <2>1, <2>2, StatusWritten, UpdateArchives
  <1>7. CASE BroadcastNowSend(c) \/ IngestStore(c)
    BY <1>0, <1>7 DEF BroadcastNowSend, IngestStore, table
  <1>8. CASE IngestInsert(c)
    <2>1. cur[c] \in Ids /\ TxOf[cur[c]] \in Txs /\ UNCHANGED archive
      BY <1>8, PoolAssumption DEF IngestInsert, TypeOK, OnRow
    <2>2. PICK src, tip :
            \E p \in resolve_ingest_plan(src, OwnLock[TxOf[cur[c]]], tip) :
              rows' = [rows EXCEPT ![cur[c]] =
                          insert_broadcast_tx(p.mode, p.scheduled)]
      BY <1>8 DEF IngestInsert
    <2>3. PICK p \in resolve_ingest_plan(src, OwnLock[TxOf[cur[c]]], tip) :
            rows' = [rows EXCEPT ![cur[c]] =
                        insert_broadcast_tx(p.mode, p.scheduled)]
      BY <2>2
    <2>4. p.mode \in Mode /\ p.scheduled \in Time
      BY <2>1, PlanType, TypeSplit
    <2>5. insert_broadcast_tx(p.mode, p.scheduled).status = "pending"
      BY <2>4, StatusInserted
    <2> QED
      BY <2>1, <2>3, <2>5 DEF Archives, TypeOK
  <1> QED
    BY <1>1, <1>2, <1>3, <1>4, <1>5, <1>6, <1>7, <1>8 DEF Call

\* A restart migrates and requeues; neither deletes.
LEMMA EnvironmentArchives ==
    ASSUME TypeOK, Environment
    PROVE  Archives
  <1>1. CASE Restart
    <2> DEFINE opened == [i \in Ids |-> MIGRATION_007(rows[i])]
    <2>1. PICK S : /\ rows' = [i \in Ids |-> Requeued(opened[i], i \in S)]
                   /\ UNCHANGED archive
      BY <1>1 DEF Restart
    <2>2. \A i \in Ids : opened[i] \in Row /\ opened[i].status = rows[i].status
      BY RowToRow, StatusWritten DEF TypeOK
    <2> HIDE DEF opened
    <2>3. ASSUME NEW i \in Ids, Requeued(opened[i], i \in S).status = "gone"
          PROVE  rows[i].status = "gone"
      <3>1. CASE i \in S
        <4>1. reset_failed_to_scheduled(opened[i]) \in Row
          BY <2>2, RowToRow
        <4>2. reset_failed_to_scheduled(opened[i]).status
                \in {"scheduled", rows[i].status}
          BY <2>2, StatusWritten
        <4> QED
          BY <2>3, <3>1, <4>1, <4>2, StatusWritten DEF Requeued
      <3> QED
        BY <2>2, <2>3, <3>1 DEF Requeued
    <2> QED
      BY <2>1, <2>3 DEF Archives
  <1>2. CASE ~Restart
    BY <1>2 DEF Environment, Clocktick, Block, Evict, Backends, Acknowledge,
                table, Archives
  <1> QED
    BY <1>1, <1>2

\* Where the user removes nothing, no row ever leaves the table without its
\* blob in the archive: for any set of loops, flush requests, concurrent
\* requests that bring a terminal row back, and crashes between any two steps
\* ("a crash can never drop a pool row without its archive blob").
THEOREM NothingDropped ==
    ASSUME "remove" \notin Ops
    PROVE  Spec => []NoRowDropped
<1>1. Init => NoRowDropped
  BY StatusInserted DEF Init, NoRowDropped, EmptyRow, reseal_row_mac
<1>2. TypeOK /\ NoRowDropped /\ [Next]_vars => NoRowDropped'
  <2> SUFFICES ASSUME TypeOK, NoRowDropped, [Next]_vars PROVE NoRowDropped'
    OBVIOUS
  <2>1. CASE UNCHANGED vars
    BY <2>1 DEF vars, NoRowDropped
  <2>2. ASSUME NEW w \in Workers, Step(w) PROVE Archives
    <3>1. CASE Reseal(w)
      <4>1. cur[w] \in Ids /\ rows[cur[w]] \in Row
        BY <3>1 DEF Reseal, TypeOK, OnRow
      <4>2. reseal_row_mac(rows[cur[w]]).status = rows[cur[w]].status
        BY <4>1, StatusWritten
      <4> QED
        BY <3>1, <4>1, <4>2 DEF Reseal, Archives, TypeOK
    <3> QED
      BY <2>2, <3>1, TickArchives, MonitorArchives, CallArchives DEF Step
  <2>3. ASSUME Environment PROVE Archives
    BY <2>3, EnvironmentArchives
  <2> QED
    BY <2>1, <2>2, <2>3 DEF Next, Archives, NoRowDropped
<1> QED
  BY <1>1, <1>2, TypeCorrect, PTL DEF Spec

-----------------------------------------------------------------------------
(* Where a move leaves the worker that makes it, and the others.            *)

Moved(w, p, T, i, a) ==
    /\ pc'[w] = p /\ todo'[w] = T /\ cur'[w] = i /\ arg'[w] = a
    /\ \A v \in Workers \ {w} : /\ pc'[v] = pc[v] /\ todo'[v] = todo[v]
                                /\ cur'[v] = cur[v] /\ arg'[v] = arg[v]

LEMMA MoveMoves ==
    ASSUME TypeOK, NEW w \in Workers
    PROVE  /\ \A s, p : Take(w, s, p) => Moved(w, p, todo[w] \ {s}, s.id, arg[w])
           /\ \A s : Skip(w, s) => Moved(w, pc[w], todo[w] \ {s}, cur[w], arg[w])
           /\ \A S, p : Batch(w, p, S) => Moved(w, p, S, NoId, arg[w])
           /\ \A p : Back(w, p) => Moved(w, p, todo[w], NoId, NoArg)
           /\ Finish(w) => Moved(w, "idle", {}, NoId, NoArg)
           /\ \A i, a, p : Request(w, i, a, p) => Moved(w, p, todo[w], i, a)
           /\ \A p : Goto(w, p) /\ UNCHANGED <<todo, cur, arg>>
                => Moved(w, p, todo[w], cur[w], arg[w])
           /\ UNCHANGED workers => Moved(w, pc[w], todo[w], cur[w], arg[w])
  <1>0. /\ pc \in [Workers -> PC] /\ cur \in [Workers -> Ids \union {NoId}]
        /\ todo \in [Workers -> SUBSET Snapshot] /\ arg \in [Workers -> Arg]
    BY DEF TypeOK
  <1> USE DEF Moved, Goto
  <1>1. \A s, p : Take(w, s, p) => Moved(w, p, todo[w] \ {s}, s.id, arg[w])
    BY <1>0 DEF Take
  <1>2. \A s : Skip(w, s) => Moved(w, pc[w], todo[w] \ {s}, cur[w], arg[w])
    BY <1>0 DEF Skip
  <1>3. \A S, p : Batch(w, p, S) => Moved(w, p, S, NoId, arg[w])
    BY <1>0 DEF Batch
  <1>4. \A p : Back(w, p) => Moved(w, p, todo[w], NoId, NoArg)
    BY <1>0 DEF Back
  <1>5. Finish(w) => Moved(w, "idle", {}, NoId, NoArg)
    BY <1>0 DEF Finish
  <1>6. \A i, a, p : Request(w, i, a, p) => Moved(w, p, todo[w], i, a)
    BY <1>0 DEF Request
  <1>7. \A p : Goto(w, p) /\ UNCHANGED <<todo, cur, arg>>
                => Moved(w, p, todo[w], cur[w], arg[w])
    BY <1>0
  <1>8. UNCHANGED workers => Moved(w, pc[w], todo[w], cur[w], arg[w])
    BY DEF workers
  <1> QED
    BY <1>1, <1>2, <1>3, <1>4, <1>5, <1>6, <1>7, <1>8

-----------------------------------------------------------------------------
(* UnsealedHasOwner, in a process that does not die and for the requests    *)
(* that reseal what they write (schedule_transaction does not).             *)

Unsealed(i) == Present(rows[i]) /\ Tampered(rows[i])

\* Worker w, which owed no reseal, leaves a row unsealed only by taking the
\* debt, and takes nobody else's.
Owes(w) ==
    /\ pc[w] \notin Sealing
    /\ \A v \in Workers \ {w} : pc'[v] = pc[v] /\ cur'[v] = cur[v]
    /\ \A i \in Ids : Unsealed(i)' =>
         Unsealed(i) \/ (pc'[w] \in Sealing /\ cur'[w] = i)

\* An UPDATE after which the worker that ran it is about to reseal.
LEMMA UpdateOwes ==
    ASSUME TypeOK, NEW w \in Workers, pc[w] \notin Sealing,
           NEW i \in Ids, NEW r, Update(i, r),
           NEW p \in Sealing, NEW T, NEW a, Moved(w, p, T, i, a)
    PROVE  Owes(w)
  BY DEF TypeOK, Owes, Moved, Update, Unsealed

\* The INSERT computes row_mac from the columns it inserts, and a miss is not
\* under the row_mac.
LEMMA SealedRows ==
    ASSUME NEW m \in Mode, NEW t \in Time, NEW r \in Row, NEW q
    PROVE  /\ ~Tampered(insert_broadcast_tx(m, t))
           /\ Tampered(record_broadcast_miss(r)) <=> Tampered(r)
           /\ ~Present(remove_broadcast_tx(q))
           /\ ~Tampered(reseal_row_mac(r))
  <1>1. \A x \in Row : reseal_row_mac(x).mac = row_mac_input(x)
                       /\ row_mac_input(reseal_row_mac(x)) = row_mac_input(x)
    BY DEF Row, reseal_row_mac, row_mac_input
  <1>2. EmptyRow("pending") \in Row
    BY NewRow DEF TxStatus, Live
  <1>3. [EmptyRow("pending") EXCEPT !.mode = m, !.scheduled = t] \in Row
    BY <1>2 DEF Row
  <1>4. ~Tampered(insert_broadcast_tx(m, t))
    BY <1>1, <1>3 DEF Tampered, insert_broadcast_tx
  <1>5. /\ record_broadcast_miss(r).mac = r.mac
        /\ row_mac_input(record_broadcast_miss(r)) = row_mac_input(r)
    BY DEF Row, record_broadcast_miss, row_mac_input
  <1>6. ~Present(remove_broadcast_tx(q))
    BY StatusInserted DEF Mode, Time, Present, Live
  <1> QED
    BY <1>1, <1>4, <1>5, <1>6 DEF Tampered

\* In the broadcast loop every UPDATE of a sealed column is followed by its
\* reseal before the worker does anything else.
LEMMA TickOwes ==
    ASSUME TypeOK, NEW w \in Workers, Tick(w) \/ MarkBroadcast(w)
    PROVE  Owes(w)
  <1>0. ASSUME UNCHANGED rows, pc[w] \notin Sealing,
               NEW p, NEW T, NEW i, NEW a, Moved(w, p, T, i, a)
        PROVE  Owes(w)
    BY <1>0 DEF Owes, Moved, Unsealed
  <1>1. CASE \/ TickStart(w) \/ TickRequeueList(w) \/ TickDueList(w)
             \/ TickDone(w) \/ TickGate(w)
    <2>1. UNCHANGED rows /\ pc[w] \notin Sealing
      BY <1>1 DEF TickStart, TickRequeueList, TickDueList, TickDone, TickGate,
                  table, Sealing
    <2>2. \/ \E p, S : Batch(w, p, S)
          \/ Finish(w)
          \/ \E s, p : Take(w, s, p)
      BY <1>1 DEF TickStart, TickRequeueList, TickDueList, TickDone, TickGate
    <2>3. \E p, T, i, a : Moved(w, p, T, i, a)
      BY <2>2, MoveMoves
    <2> QED
      BY <1>0, <2>1, <2>3
  <1>2. CASE TickMark(w) \/ TickRequeue(w)
    <2>1. PICK s \in todo[w] :
            \/ \E r : \E p \in Sealing : Update(s.id, r) /\ Take(w, s, p)
            \/ UNCHANGED rows /\ \E p : Batch(w, p, {})
      BY <1>2 DEF TickMark, TickRequeue, Sealing
    <2>2. s.id \in Ids /\ pc[w] \notin Sealing
      BY <1>2 DEF TypeOK, Snapshot, TickMark, TickRequeue, Sealing
    <2>3. CASE \E r : \E p \in Sealing : Update(s.id, r) /\ Take(w, s, p)
      BY <2>2, <2>3, UpdateOwes, MoveMoves
    <2>4. CASE UNCHANGED rows /\ \E p : Batch(w, p, {})
      BY <1>0, <2>2, <2>4, MoveMoves
    <2> QED
      BY <2>1, <2>3, <2>4
  <1>3. CASE MarkFailed(w) \/ MarkBroadcast(w)
    <2>1. cur[w] \in Ids /\ pc[w] \notin Sealing
      BY <1>3 DEF MarkFailed, MarkBroadcast, TypeOK, OnRow, Sealing
    <2>2. \E r : \E p \in Sealing : /\ Update(cur[w], r)
                                    /\ Goto(w, p) /\ UNCHANGED <<todo, cur, arg>>
      BY <1>3 DEF MarkFailed, MarkBroadcast, Sealing
    <2> QED
      BY <2>1, <2>2, UpdateOwes, MoveMoves
  <1>4. CASE TickSend(w)
    BY <1>4 DEF TickSend, table, TypeOK, Goto, Owes, Unsealed, Sealing
  <1>5. CASE TickHold(w)
    <2>1. cur[w] \in Ids /\ rows[cur[w]] \in Row /\ pc[w] \notin Sealing
      BY <1>5 DEF TickHold, TypeOK, OnRow, Sealing
    <2>2. Back(w, "gate") \/ Finish(w)
      BY <1>5 DEF TickHold
    <2>3. \A v \in Workers \ {w} : pc'[v] = pc[v] /\ cur'[v] = cur[v]
      BY <2>2, MoveMoves DEF Moved
    <2>4. \/ UNCHANGED rows
          \/ Update(cur[w], record_broadcast_miss(rows[cur[w]]))
      BY <1>5 DEF TickHold
    <2>5. Tampered(record_broadcast_miss(rows[cur[w]])) <=> Tampered(rows[cur[w]])
      BY <2>1, SealedRows DEF Mode, Time
    <2> QED
      BY <2>1, <2>3, <2>4, <2>5 DEF Owes, Unsealed, Update, TypeOK
  <1> QED
    BY <1>1, <1>2, <1>3, <1>4, <1>5 DEF Tick

\* So it is in the other loops.
LEMMA MonitorOwes ==
    ASSUME TypeOK, NEW w \in Workers, Monitor(w)
    PROVE  Owes(w)
  <1>0. ASSUME UNCHANGED rows, pc[w] \notin Sealing,
               NEW p, NEW T, NEW i, NEW a, Moved(w, p, T, i, a)
        PROVE  Owes(w)
    BY <1>0 DEF Owes, Moved, Unsealed
  <1>1. CASE \/ BlockList(w) \/ PriceList(w) \/ RebroadcastList(w)
             \/ ConfirmList(w) \/ RetainList(w) \/ LoopEnd(w)
    <2>1. UNCHANGED rows /\ pc[w] \notin Sealing
      BY <1>1 DEF BlockList, PriceList, RebroadcastList, ConfirmList,
                  RetainList, LoopStart, LoopEnd, table, Sealing
    <2>2. Finish(w) \/ \E p, S : Batch(w, p, S)
      BY <1>1 DEF BlockList, PriceList, RebroadcastList, ConfirmList,
                  RetainList, LoopStart, LoopEnd
    <2>3. \E p, T, i, a : Moved(w, p, T, i, a)
      BY <2>2, MoveMoves
    <2> QED
      BY <1>0, <2>1, <2>3
  <1>2. CASE BlockMark(w) \/ PriceMark(w) \/ Confirm(w) \/ Rebroadcast(w)
    <2>1. PICK s \in todo[w] :
            \/ \E r : \E p \in Sealing : Update(s.id, r) /\ Take(w, s, p)
            \/ UNCHANGED rows /\ Skip(w, s)
      BY <1>2 DEF BlockMark, PriceMark, Confirm, Rebroadcast, Sealing, table
    <2>2. s.id \in Ids /\ pc[w] \notin Sealing
      BY <1>2 DEF TypeOK, Snapshot, BlockMark, PriceMark, Confirm, Rebroadcast,
                  Sealing
    <2>3. CASE \E r : \E p \in Sealing : Update(s.id, r) /\ Take(w, s, p)
      BY <2>2, <2>3, UpdateOwes, MoveMoves
    <2>4. CASE UNCHANGED rows /\ Skip(w, s)
      BY <1>0, <2>2, <2>4, MoveMoves
    <2> QED
      BY <2>1, <2>3, <2>4
  <1>3. CASE Retain(w)
    <2>1. PICK s \in todo[w] :
            /\ Skip(w, s)
            /\ \/ UNCHANGED rows
               \/ Update(s.id, remove_broadcast_tx(rows[s.id]))
      BY <1>3 DEF Retain
    <2>2. s.id \in Ids /\ pc[w] \notin Sealing
      BY <1>3 DEF TypeOK, Snapshot, Retain, Sealing
    <2>3. ~Present(remove_broadcast_tx(rows[s.id]))
      BY StatusInserted DEF Mode, Time, Present, Live
    <2>4. \A v \in Workers \ {w} : pc'[v] = pc[v] /\ cur'[v] = cur[v]
      BY <2>1, MoveMoves DEF Moved
    <2> QED
      BY <2>1, <2>2, <2>3, <2>4 DEF Owes, Unsealed, Update, TypeOK
  <1> QED
    BY <1>1, <1>2, <1>3 DEF Monitor

\* Every request but schedule_transaction reseals what it writes.
LEMMA CallOwes ==
    ASSUME TypeOK, "random" \notin Ops, NEW c \in Workers, Call(c)
    PROVE  Owes(c)
  <1>0. ASSUME UNCHANGED rows, pc[c] \notin Sealing,
               NEW p, NEW T, NEW i, NEW a, Moved(c, p, T, i, a)
        PROVE  Owes(c)
    BY <1>0 DEF Owes, Moved, Unsealed
  <1>1. ASSUME NEW i \in Ids, ImportTransaction(c, i) PROVE Owes(c)
    <2>1. ~Tampered(insert_broadcast_tx("imported", NoTime))
      BY NewRow, SealedRows DEF Mode, Time, TxStatus, Live
    <2>2. /\ rows' = [rows EXCEPT ![i] = insert_broadcast_tx("imported", NoTime)]
          /\ pc[c] = "idle" /\ UNCHANGED <<pc, cur>>
      BY <1>1 DEF ImportTransaction, Calls, workers
    <2> QED
      BY <2>1, <2>2 DEF Owes, Unsealed, TypeOK, Sealing
  <1>2. ASSUME NEW i \in Ids, RetryFailed(c, i) PROVE Owes(c)
    <2>1. /\ \E r : Update(i, r)
          /\ Request(c, i, NoArg, "api_seal") /\ "api_seal" \in Sealing
          /\ pc[c] \notin Sealing
      BY <1>2 DEF RetryFailed, Calls, Sealing
    <2> QED
      BY <2>1, UpdateOwes, MoveMoves
  <1>3. ASSUME NEW i \in Ids, RemoveTransaction(c, i) PROVE Owes(c)
    <2>1. ~Present(remove_broadcast_tx(rows[i]))
      BY StatusInserted DEF Mode, Time, Present, Live
    <2>2. /\ Update(i, remove_broadcast_tx(rows[i]))
          /\ pc[c] = "idle" /\ UNCHANGED <<pc, cur>>
      BY <1>3 DEF RemoveTransaction, Calls, workers
    <2> QED
      BY <2>1, <2>2 DEF Owes, Unsealed, Update, TypeOK, Sealing
  <1>4. ASSUME NEW i \in Ids, BroadcastNow(c, i) \/ IngestAck(c, i)
                 \/ (\E at \in Clock : ScheduleAt(c, i, at))
                 \/ (\E q \in Prices : ScheduleByPrice(c, i, q))
        PROVE  Owes(c)
    <2>1. UNCHANGED rows /\ pc[c] \notin Sealing
      BY <1>4 DEF BroadcastNow, IngestAck, ScheduleAt, ScheduleByPrice, table,
                  Calls, Sealing
    <2>2. UNCHANGED workers \/ \E a, p : Request(c, i, a, p)
      BY <1>4 DEF BroadcastNow, IngestAck, ScheduleAt, ScheduleByPrice
    <2>3. \E p, T, j, a : Moved(c, p, T, j, a)
      BY <2>2, MoveMoves
    <2> QED
      BY <1>0, <2>1, <2>3
  <1>5. ASSUME NEW i \in Ids, NEW at \in Clock PROVE ~ScheduleRandom(c, i, at)
    BY DEF ScheduleRandom, Calls
  <1>6. CASE ScheduleAtWrite(c) \/ ScheduleByPriceWrite(c) \/ IngestDue(c)
    <2>1. cur[c] \in Ids /\ pc[c] \notin Sealing
      BY <1>6 DEF ScheduleAtWrite, ScheduleByPriceWrite, IngestDue, TypeOK,
                  OnRow, Sealing
    <2>2. /\ \E r : Update(cur[c], r)
          /\ Goto(c, "api_seal") /\ UNCHANGED <<todo, cur, arg>>
          /\ "api_seal" \in Sealing
      BY <1>6 DEF ScheduleAtWrite, ScheduleByPriceWrite, IngestDue, Sealing
    <2> QED
      BY <2>1, <2>2, UpdateOwes, MoveMoves
  <1>7. CASE BroadcastNowSend(c) \/ IngestStore(c)
    <2>1. UNCHANGED rows /\ pc[c] \notin Sealing
      BY <1>7 DEF BroadcastNowSend, IngestStore, table, Sealing
    <2>2. Finish(c) \/ \E p : Goto(c, p) /\ UNCHANGED <<todo, cur, arg>>
      BY <1>7 DEF BroadcastNowSend, IngestStore
    <2>3. \E p, T, i, a : Moved(c, p, T, i, a)
      BY <2>2, MoveMoves
    <2> QED
      BY <1>0, <2>1, <2>3
  <1>8. CASE IngestInsert(c)
    <2>1. cur[c] \in Ids /\ TxOf[cur[c]] \in Txs /\ pc[c] \notin Sealing
      BY <1>8, PoolAssumption DEF IngestInsert, TypeOK, OnRow, Sealing
    <2>0. EmptyRow("pending") \in Row
      BY NewRow DEF TxStatus, Live, Mode, Time
    <2>2. PICK src, tip :
            \E p \in resolve_ingest_plan(src, OwnLock[TxOf[cur[c]]], tip) :
              rows' = [rows EXCEPT ![cur[c]] =
                          insert_broadcast_tx(p.mode, p.scheduled)]
      BY <1>8 DEF IngestInsert
    <2>3. PICK p \in resolve_ingest_plan(src, OwnLock[TxOf[cur[c]]], tip) :
            rows' = [rows EXCEPT ![cur[c]] =
                        insert_broadcast_tx(p.mode, p.scheduled)]
      BY <2>2
    <2>4. p.mode \in Mode /\ p.scheduled \in Time
      BY <2>1, PlanType, TypeSplit
    <2>5. ~Tampered(insert_broadcast_tx(p.mode, p.scheduled))
      BY <2>0, <2>4, SealedRows
    <2>6. \A v \in Workers \ {c} : pc'[v] = pc[v] /\ cur'[v] = cur[v]
      BY <1>8 DEF IngestInsert, Goto, TypeOK
    <2> QED
      BY <2>1, <2>3, <2>5, <2>6 DEF Owes, Unsealed, TypeOK
  <1> QED
    BY <1>1, <1>2, <1>3, <1>4, <1>5, <1>6, <1>7, <1>8 DEF Call

\* A row whose row_mac is out of date has a worker on its way to reseal it, as
\* long as the process lives and nobody calls schedule_transaction: for any
\* number of loops and requests on the same row, in any interleaving of the
\* UPDATEs and of the critical sections that reseal.  Two workers that write
\* the same row seal it twice; neither leaves the other's columns unsealed.
THEOREM AlarmsAreReal ==
    ASSUME "random" \notin Ops, "crash" \notin Faults
    PROVE  Spec => []UnsealedHasOwner
<1>1. Init => UnsealedHasOwner
  BY StatusInserted DEF Init, UnsealedHasOwner, EmptyRow, reseal_row_mac, Present, Live
<1>2. TypeOK /\ UnsealedHasOwner /\ [Next]_vars => UnsealedHasOwner'
  <2> SUFFICES ASSUME TypeOK, UnsealedHasOwner, [Next]_vars
               PROVE  UnsealedHasOwner'
    OBVIOUS
  <2>1. CASE UNCHANGED vars
    BY <2>1 DEF vars, UnsealedHasOwner
  <2>2. ASSUME NEW w \in Workers, Owes(w) PROVE UnsealedHasOwner'
    BY <2>2 DEF Owes, Unsealed, UnsealedHasOwner
  <2>3. ASSUME NEW w \in Workers, Reseal(w) PROVE UnsealedHasOwner'
    <3>1. cur[w] \in Ids /\ rows[cur[w]] \in Row
      BY <2>3 DEF Reseal, TypeOK, OnRow
    <3>2. ~Tampered(reseal_row_mac(rows[cur[w]]))
      BY <3>1, SealedRows DEF Mode, Time
    <3>3. Back(w, AfterSeal(w, pc[w])) \/ Finish(w) \/ \E p, S : Batch(w, p, S)
      BY <2>3 DEF Reseal, SealError
    <3>4. \A v \in Workers \ {w} : pc'[v] = pc[v] /\ cur'[v] = cur[v]
      BY <3>3, MoveMoves DEF Moved
    <3>5. /\ \A i \in Ids \ {cur[w]} : rows'[i] = rows[i]
          /\ ~(Present(rows'[cur[w]]) /\ Tampered(rows'[cur[w]]))
      BY <2>3, <3>1, <3>2 DEF Reseal, TypeOK
    <3> QED
      BY <3>4, <3>5 DEF UnsealedHasOwner
  <2>4. CASE Environment
    <3>1. UNCHANGED <<rows, pc, cur>>
      BY <2>4 DEF Environment, Clocktick, Block, Evict, Backends, Acknowledge,
                  Restart, table, workers
    <3> QED
      BY <3>1 DEF UnsealedHasOwner
  <2> QED
    BY <2>1, <2>2, <2>3, <2>4, TickOwes, MonitorOwes, CallOwes DEF Next, Step
<1> QED
  BY <1>1, <1>2, TypeCorrect, PTL DEF Spec
=============================================================================
