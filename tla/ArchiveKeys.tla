------------------------------ MODULE ArchiveKeys ------------------------------
(***************************************************************************)
(* The archive password and its key (api/archive_key.rs, the archive       *)
(* handlers of api/mod.rs), with the retention loop and the sealing of     *)
(* rows that use it (pool/scheduler.rs, db/mod.rs, crypto/mod.rs).         *)
(*                                                                         *)
(* Requests run beside each other, each database call takes the connection *)
(* by itself and is a step, and so is each use of the cached key's mutex.  *)
(* A derived key is the pair of the password and the salt it comes from; a *)
(* blob opens with the key it was sealed with and with no other.           *)
(***************************************************************************)
EXTENDS Naturals

CONSTANTS
    Requests,     \* handlers that may be in progress at once
    Passwords,    \* what users type
    Rows,         \* terminal rows of the pool, all old enough to archive
    TTL,          \* how long an unused key stays cached
    Interval,     \* the time between two retention ticks
    None,         \* nothing stored, nothing held
    MaxSalts,     \* bound on the passwords set
    MaxNow        \* bound on the clock

Salt     == 1 .. MaxSalts
Verifier == [password : Passwords, salt : Salt]
Key      == [password : Passwords, salt : Salt]
Cached   == [key : Key, expires_at : Nat]

ASSUME ArchiveKeysAssumption ==
    /\ TTL \in Nat \ {0} /\ Interval \in Nat /\ Interval > TTL
    /\ MaxSalts \in Nat /\ MaxNow \in Nat
    /\ "retention" \notin Requests
    /\ None \notin Salt \union Key \union Cached

VARIABLES
    archive_salt,       \* config_store, each under a key of its own
    archive_verifier,
    cached,             \* a Cached, or None
    broadcast_pool,     \* the rows not archived yet
    archive_pool,       \* the blobs
    pc, held, todo,     \* per task: its next step, what it read, its rows
    now,
    next_tick,          \* when retention wakes up
    salts,              \* salts drawn so far; each is new
    last_use,           \* bookkeeping: when a user last used the archive
    overlapped          \* bookkeeping: two passwords were set at once

store  == <<archive_salt, archive_verifier>>
rows   == <<broadcast_pool, archive_pool>>
tasks  == <<pc, held, todo>>
time   == <<now, next_tick>>
ghosts == <<last_use, overlapped>>
vars   == <<store, cached, rows, tasks, time, salts, ghosts>>

Tasks    == Requests \union {"retention"}
Blob     == [row : Rows, key : Key]
PC       == {"idle", "set_salt", "set_verifier", "read_salt", "cache",
             "open", "select", "seal"}

Init ==
    /\ archive_salt = None /\ archive_verifier = None
    /\ cached = None
    /\ broadcast_pool = Rows /\ archive_pool = {}
    /\ pc = [t \in Tasks |-> "idle"]
    /\ held = [t \in Tasks |-> None]
    /\ todo = [t \in Tasks |-> {}]
    /\ now = 0 /\ next_tick = 0 /\ salts = 0
    /\ last_use = 0 /\ overlapped = FALSE

Goto(t, p, h) ==
    /\ pc' = [pc EXCEPT ![t] = p]
    /\ held' = [held EXCEPT ![t] = h]
    /\ UNCHANGED todo

-----------------------------------------------------------------------------
(* Setting the password.                                                   *)

Setting == {t \in Requests : pc[t] \in {"set_salt", "set_verifier"}}

\* Faulty variant: a password that is already set may be set again.
SetPasswordAgain(r, password) ==
    /\ pc[r] = "idle"
    /\ salts < MaxSalts
    /\ salts' = salts + 1
    /\ Goto(r, "set_salt", [password |-> password, salt |-> salts'])
    /\ overlapped' = (overlapped \/ Setting # {})
    /\ UNCHANGED <<store, cached, rows, time, last_use>>

\* archive_set_password: refused when there is a verifier, and otherwise a
\* salt is drawn and the verifier, which carries it, computed.
SetPassword(r, password) ==
    /\ pc[r] = "idle" /\ archive_verifier = None
    /\ salts < MaxSalts
    /\ salts' = salts + 1
    /\ Goto(r, "set_salt", [password |-> password, salt |-> salts'])
    /\ overlapped' = (overlapped \/ Setting # {})
    /\ UNCHANGED <<store, cached, rows, time, last_use>>

WriteSalt(r) ==
    /\ pc[r] = "set_salt"
    /\ archive_salt' = held[r].salt
    /\ Goto(r, "set_verifier", held[r])
    /\ UNCHANGED <<archive_verifier, cached, rows, time, salts, ghosts>>

WriteVerifier(r) ==
    /\ pc[r] = "set_verifier"
    /\ archive_verifier' = held[r]
    /\ Goto(r, "idle", None)
    /\ UNCHANGED <<archive_salt, cached, rows, time, salts, ghosts>>

\* Either write may fail; what was written before it stays.
WriteFails(r) ==
    /\ pc[r] \in {"set_salt", "set_verifier"}
    /\ Goto(r, "idle", None)
    /\ UNCHANGED <<store, cached, rows, time, salts, ghosts>>

-----------------------------------------------------------------------------
(* Unlocking and locking.                                                  *)

\* archive_unlock with the right password reads the verifier and the salt one
\* after the other; a wrong one changes nothing.
Unlock(r, password) ==
    /\ pc[r] = "idle"
    /\ archive_verifier # None /\ archive_verifier.password = password
    /\ Goto(r, "read_salt", archive_verifier)
    /\ UNCHANGED <<store, cached, rows, time, salts, ghosts>>

derive_key(password, salt) == [password |-> password, salt |-> salt]

ReadSalt(r) ==
    /\ pc[r] = "read_salt"
    /\ IF archive_salt = None THEN Goto(r, "idle", None)
       ELSE Goto(r, "cache", derive_key(held[r].password, archive_salt))
    /\ UNCHANGED <<store, cached, rows, time, salts, ghosts>>

CacheKey(r) ==
    /\ pc[r] = "cache"
    /\ cached' = [key |-> held[r], expires_at |-> now + TTL]
    /\ last_use' = now
    /\ Goto(r, "idle", None)
    /\ UNCHANGED <<store, rows, time, salts, overlapped>>

Lock ==
    /\ cached' = None
    /\ UNCHANGED <<store, rows, tasks, time, salts, ghosts>>

Live == cached # None /\ now < cached.expires_at

\* Faulty variant: a look at the lock state counts as a use.
PeekSlides ==
    /\ cached' = IF Live THEN [cached EXCEPT !.expires_at = now + TTL] ELSE None
    /\ UNCHANGED <<store, rows, tasks, time, salts, ghosts>>

\* Every poll of the status page; clears a key that has expired.
is_unlocked ==
    /\ cached' = IF Live THEN cached ELSE None
    /\ UNCHANGED <<store, rows, tasks, time, salts, ghosts>>

\* Faulty variant: a locked archive stops nobody.
UseKeyUnchecked(t, p) ==
    /\ pc[t] = "idle"
    /\ cached' = IF Live THEN [cached EXCEPT !.expires_at = now + TTL] ELSE None
    /\ Goto(t, p, IF Live THEN cached.key ELSE None)

\* key(), by a task that continues at p with it: the lifetime starts again.
UseKey(t, p) ==
    /\ pc[t] = "idle"
    /\ IF Live THEN /\ cached' = [cached EXCEPT !.expires_at = now + TTL]
                    /\ Goto(t, p, cached.key)
               ELSE /\ cached' = None
                    /\ Goto(t, "idle", None)

-----------------------------------------------------------------------------
(* The operations on the archive.                                          *)

\* list_archive holds no key past its check, get_archive_item opens a blob
\* with it and archive_flush seals with it.
UserUse(r) ==
    /\ \E p \in {"idle", "open", "select"} : UseKey(r, p)
    /\ last_use' = IF Live THEN now ELSE last_use
    /\ UNCHANGED <<store, rows, time, salts, overlapped>>

\* Reading changes nothing, whether the blob opens or not.
Open(r) ==
    /\ pc[r] = "open"
    /\ Goto(r, "idle", None)
    /\ UNCHANGED <<store, cached, rows, time, salts, ghosts>>

\* The retention loop's tick: nothing while the archive is locked.
RetentionTick ==
    /\ now >= next_tick
    /\ UseKey("retention", "select")
    /\ next_tick' = now + Interval
    /\ UNCHANGED <<store, rows, now, salts, ghosts>>

\* archive_terminal_older_than reads the rows, then moves one at a time in a
\* transaction; a row that is gone meanwhile gets a second blob.
Select(t) ==
    /\ pc[t] = "select"
    /\ todo' = [todo EXCEPT ![t] = broadcast_pool]
    /\ pc' = [pc EXCEPT ![t] = "seal"]
    /\ UNCHANGED <<store, cached, rows, held, time, salts, ghosts>>

\* Faulty variant: the blob and the delete are not one transaction.
SealInTwo(t) ==
    /\ pc[t] = "seal"
    /\ \E row \in todo[t] :
         /\ archive_pool' = archive_pool \union {[row |-> row, key |-> held[t]]}
         /\ broadcast_pool' \in {broadcast_pool, broadcast_pool \ {row}}
         /\ todo' = [todo EXCEPT ![t] = @ \ {row}]
    /\ UNCHANGED <<store, cached, pc, held, time, salts, ghosts>>

Seal(t) ==
    /\ pc[t] = "seal"
    /\ \E row \in todo[t] :
         /\ archive_pool' = archive_pool \union {[row |-> row, key |-> held[t]]}
         /\ broadcast_pool' = broadcast_pool \ {row}
         /\ todo' = [todo EXCEPT ![t] = @ \ {row}]
    /\ UNCHANGED <<store, cached, pc, held, time, salts, ghosts>>

\* All rows are moved, or one could not be and the rest are left.
SealEnds(t) ==
    /\ pc[t] = "seal"
    /\ pc' = [pc EXCEPT ![t] = "idle"]
    /\ held' = [held EXCEPT ![t] = None]
    /\ todo' = [todo EXCEPT ![t] = {}]
    /\ UNCHANGED <<store, cached, rows, time, salts, ghosts>>

-----------------------------------------------------------------------------
Tick ==
    /\ now < MaxNow
    /\ now' = now + 1
    /\ UNCHANGED <<store, cached, rows, tasks, next_tick, salts, ghosts>>

\* The key lives in memory only; retention ticks at once after a start.
Restart ==
    /\ cached' = None
    /\ pc' = [t \in Tasks |-> "idle"]
    /\ held' = [t \in Tasks |-> None]
    /\ todo' = [t \in Tasks |-> {}]
    /\ next_tick' = now
    /\ UNCHANGED <<store, rows, now, salts, ghosts>>

Next ==
    \/ \E r \in Requests :
         \/ \E p \in Passwords : SetPassword(r, p) \/ Unlock(r, p)
         \/ WriteSalt(r) \/ WriteVerifier(r) \/ WriteFails(r)
         \/ ReadSalt(r) \/ CacheKey(r)
         \/ UserUse(r) \/ Open(r)
    \/ Lock \/ is_unlocked
    \/ RetentionTick
    \/ \E t \in Tasks : Select(t) \/ Seal(t) \/ SealEnds(t)
    \/ Tick \/ Restart

Spec == Init /\ [][Next]_vars

-----------------------------------------------------------------------------
(* Properties.                                                             *)

\* Every variable holds a value of its kind, and a task between two steps has
\* in hand what the next one uses: a verifier while the password is set, a
\* whole key, salt included, when it caches, opens or seals.
TypeOK ==
    /\ archive_salt \in Salt \union {None}
    /\ archive_verifier \in Verifier \union {None}
    /\ cached \in Cached \union {None}
    /\ broadcast_pool \subseteq Rows
    /\ archive_pool \subseteq Blob
    /\ pc \in [Tasks -> PC]
    /\ held \in [Tasks -> Key \union {None}]
    /\ todo \in [Tasks -> SUBSET Rows]
    /\ now \in 0 .. MaxNow /\ next_tick \in Nat
    /\ salts \in 0 .. MaxSalts
    /\ last_use \in 0 .. now
    /\ overlapped \in BOOLEAN
    /\ \A t \in Tasks : pc[t] # "idle" => held[t] \in Key

\* A password that is set opens the archive, the whole of it: a verifier is
\* never stored without a salt, whichever write fails and whenever the
\* process dies, and every blob there is opens with the key an unlock would
\* derive now.  The excuse is two passwords set at the same time, which may
\* leave the verifier of one with the salt of the other.
ArchiveOpens ==
    /\ archive_verifier # None => archive_salt # None
    /\ archive_pool # {} => archive_verifier # None
    /\ \/ overlapped
       \/ \A b \in archive_pool :
            b.key = derive_key(archive_verifier.password, archive_salt)

\* An archive its user has left alone locks itself, although status pages are
\* polled and retention uses the key on its own: retention may renew it once,
\* so two lifetimes are enough.
AutoLocks == now >= last_use + 2 * TTL => ~Live

\* All of it is a vault that keeps what it is given: a row is sealed and taken
\* from the pool in one piece or not at all, whoever else is archiving it; it
\* opens only for a user's request, never for retention, a poll or a restart,
\* and shuts by itself however often those come by.
Vault ==
    INSTANCE TimedVault WITH
        shelf <- broadcast_pool,
        vault <- {b.row : b \in archive_pool},
        keyed <- archive_verifier # None,
        open <- Live,
        idle <- now - last_use,
        Patience <- 2 * TTL

KeepsVault == Vault!Spec
=============================================================================
