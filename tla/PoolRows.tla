------------------------------ MODULE PoolRows ------------------------------
(***************************************************************************)
(* The rows of the broadcast_pool table (db/mod.rs, db/schema.rs): the     *)
(* columns that control reads, the SQL statements that change them as      *)
(* operators from row to row, and the SQL queries as predicates on a row.  *)
(*                                                                         *)
(* Times are natural numbers on the scale of nLockTime: every wall-clock   *)
(* time is above LockThreshold (500 000 000 in the code), every block      *)
(* height below it.  The columns left out are the ones no branch reads     *)
(* (txid, fees, labels, error text, original_scheduled_time, counters) and *)
(* the ones that never change once inserted (tx_hex, nlocktime, network).  *)
(***************************************************************************)
EXTENDS Naturals

CONSTANTS
    LockThreshold,  \* nLockTime values above it are times, the others heights
    MaxNow,         \* bound on the wall clock and on every scheduled time
    Prices          \* target prices a user may choose

ASSUME RowsAssumption ==
    /\ LockThreshold \in Nat \ {0}
    /\ MaxNow \in Nat
    /\ MaxNow > LockThreshold
    /\ Prices \subseteq Nat \ {0}

NoTime  == 0    \* SQL NULL in a time column
NoPrice == 0    \* SQL NULL in target_price

Clock == (LockThreshold + 1) .. MaxNow   \* values of Utc::now()
Time  == Clock \union {NoTime}

\* "fresh": the id was never inserted.  "gone": the row was deleted.
Live       == {"pending", "scheduled", "broadcast", "confirmed", "failed"}
TxStatus   == Live \union {"fresh", "gone"}
Mode       == {"immediate", "scheduled", "by_block", "manual", "imported"}
Trigger    == {"datetime", "price"}
UserMode   == {"manual", "imported"}     \* is_user_scheduled_mode

\* The columns under row_mac that can change after the insert.
MacInput == [status : TxStatus, mode : Mode, scheduled : Time,
             trigger : Trigger, price : Prices \union {NoPrice}]

Row == [status : TxStatus, mode : Mode, scheduled : Time, defer : Time,
        trigger : Trigger, price : Prices \union {NoPrice},
        missed : BOOLEAN,       \* broadcast_missed_at IS NOT NULL
        confirmedAt : BOOLEAN,  \* confirmed_at IS NOT NULL
        mac : MacInput]         \* what row_mac was computed from

row_mac_input(r) ==
    [status |-> r.status, mode |-> r.mode, scheduled |-> r.scheduled,
     trigger |-> r.trigger, price |-> r.price]

reseal_row_mac(r) == [r EXCEPT !.mac = row_mac_input(r)]

\* The flag map_broadcast_row computes on every read.
Tampered(r) == r.mac # row_mac_input(r)

Present(r) == r.status \in Live

-----------------------------------------------------------------------------
(* The INSERT, and the two states of an id without a row.                  *)

EmptyRow(s) ==
    reseal_row_mac([status |-> s, mode |-> "immediate", scheduled |-> NoTime,
        defer |-> NoTime, trigger |-> "datetime", price |-> NoPrice,
        missed |-> FALSE, confirmedAt |-> FALSE,
        mac |-> [status |-> s, mode |-> "immediate", scheduled |-> NoTime,
                 trigger |-> "datetime", price |-> NoPrice]])

insert_broadcast_tx(mode, scheduled) ==
    reseal_row_mac([EmptyRow("pending") EXCEPT !.mode = mode,
                                               !.scheduled = scheduled])

remove_broadcast_tx(r) == EmptyRow("gone")

-----------------------------------------------------------------------------
(* The UPDATE statements.  None but reset_failed_to_scheduled looks at the *)
(* status it overwrites; none of them writes row_mac.                      *)

update_tx_status(r, s) == [r EXCEPT !.status = s]

reset_failed_to_scheduled(r) ==
    IF r.status = "failed" THEN [r EXCEPT !.status = "scheduled"] ELSE r

mark_broadcast(r) ==
    [r EXCEPT !.status = "broadcast", !.missed = FALSE, !.defer = NoTime]

mark_confirmed(r) == [r EXCEPT !.status = "confirmed", !.confirmedAt = TRUE]

record_broadcast_miss(r) == [r EXCEPT !.missed = TRUE]

update_reschedule(r, at, defer) ==
    [r EXCEPT !.status = "scheduled", !.scheduled = at, !.defer = defer,
              !.trigger = "datetime", !.price = NoPrice]

\* Faulty variant: the trigger column is not written.
PriceScheduleWithoutTrigger(r, target) ==
    [r EXCEPT !.status = "pending", !.scheduled = NoTime, !.defer = NoTime,
              !.price = target]

update_price_schedule(r, target) ==
    [r EXCEPT !.status = "pending", !.scheduled = NoTime, !.defer = NoTime,
              !.trigger = "price", !.price = target]

\* Faulty variant: a status string that TxStatus does not have.
MarkDueUnknownStatus(r, now) ==
    [r EXCEPT !.status = "due", !.scheduled = now]

mark_due(r, now) == [r EXCEPT !.status = "scheduled", !.scheduled = now]

mark_due_from_price_trigger(r, now) ==
    [r EXCEPT !.status = "scheduled", !.scheduled = now,
              !.trigger = "datetime"]

\* The statement schedule_transaction passes to execute_raw.
random_schedule(r, at) ==
    [r EXCEPT !.status = "scheduled", !.scheduled = at]

\* Faulty variant: the migration is not run.
MigrationSkipped(r) == r

\* Run by every Database::open, before anything else touches the table.
MIGRATION_007(r) ==
    IF r.mode = "immediate" /\ r.status = "pending"
    THEN [r EXCEPT !.mode = "imported"] ELSE r

-----------------------------------------------------------------------------
(* The WHERE clauses of the queries; n is the row's nlocktime column.      *)

get_pending_by_scheduled_time(r, now) ==
    /\ r.status = "pending"
    /\ r.mode \in UserMode \union {"scheduled"}
    /\ r.scheduled # NoTime /\ r.scheduled <= now

\* Faulty variant: the first height is left out of the range.
BlockHeightAboveOne(r, n) ==
    /\ r.status = "pending" /\ r.mode = "by_block"
    /\ n > 1 /\ n < LockThreshold

get_pending_by_block_height(r, n) ==
    /\ r.status = "pending" /\ r.mode = "by_block"
    /\ n > 0 /\ n < LockThreshold

get_price_triggered_pending(r) ==
    /\ r.status \in {"pending", "scheduled"}
    /\ r.trigger = "price" /\ r.price # NoPrice

\* Faulty variant: every row without a confirmation.
RebroadcastUnconfirmed(r) == Present(r) /\ ~r.confirmedAt

get_pending_rebroadcast(r) == r.status = "broadcast" /\ ~r.confirmedAt

select_terminal(r) == r.status \in {"confirmed", "failed", "broadcast"}

-----------------------------------------------------------------------------
(* The decisions of pool/manager.rs that depend on one row alone.          *)

\* schedule_at: does the date replace a schedule the row already has?
IsReschedule(r) ==
    \/ r.missed
    \/ r.defer # NoTime
    \/ r.scheduled # NoTime
    \/ r.trigger = "price"
    \/ r.mode \in UserMode \union {"scheduled"}

\* Faulty variant: one block early.
LocktimeNextBlock(n, h, m) ==
    \/ n = 0
    \/ n > LockThreshold /\ m >= n
    \/ n <= LockThreshold /\ h + 1 >= n

\* is_locktime_satisfied against a height h and a median time past m; an
\* unknown height is read as 0.
is_locktime_satisfied(n, h, m) ==
    \/ n = 0
    \/ n > LockThreshold /\ m >= n
    \/ n <= LockThreshold /\ h >= n

\* is_tx_due_for_broadcast, without its locktime conjunct.
IsDue(r, now) ==
    /\ ~(r.trigger = "price" /\ r.status = "pending")
    /\ IF r.defer # NoTime THEN r.defer <= now
       ELSE r.scheduled # NoTime /\ r.scheduled <= now
=============================================================================
