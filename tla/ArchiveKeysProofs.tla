--------------------------- MODULE ArchiveKeysProofs ---------------------------
(***************************************************************************)
(* Theorems of ArchiveKeys, for any number of requests, passwords and rows *)
(* and any times.                                                          *)
(***************************************************************************)
EXTENDS ArchiveKeys, TLAPS

-----------------------------------------------------------------------------
(* Types.                                                                  *)

\* A step of task t to a program point with what it holds there.
LEMMA GotoType ==
    ASSUME TypeOK, NEW t \in Tasks, NEW p \in PC,
           NEW h \in Key \union {None}, Goto(t, p, h), p # "idle" => h \in Key
    PROVE  /\ pc' \in [Tasks -> PC]
           /\ held' \in [Tasks -> Key \union {None}]
           /\ todo' \in [Tasks -> SUBSET Rows]
           /\ \A u \in Tasks : pc'[u] # "idle" => held'[u] \in Key
  BY DEF TypeOK, Goto

LEMMA UseKeyType ==
    ASSUME TypeOK, NEW t \in Tasks, NEW p \in PC, UseKey(t, p)
    PROVE  /\ cached' \in Cached \union {None}
           /\ pc' \in [Tasks -> PC]
           /\ held' \in [Tasks -> Key \union {None}]
           /\ todo' \in [Tasks -> SUBSET Rows]
           /\ \A u \in Tasks : pc'[u] # "idle" => held'[u] \in Key
  <1>1. "idle" \in PC
    BY DEF PC
  <1>2. CASE Live
    <2>1. cached.key \in Key /\ cached \in Cached
      BY <1>2 DEF Live, TypeOK, Cached
    <2>2. now + TTL \in Nat
      BY ArchiveKeysAssumption DEF TypeOK
    <2>3. Goto(t, p, cached.key) /\ cached' = [cached EXCEPT !.expires_at = now + TTL]
      BY <1>2 DEF UseKey
    <2>4. cached' \in Cached
      BY <2>1, <2>2, <2>3 DEF Cached
    <2> QED
      BY <2>1, <2>3, <2>4, GotoType
  <1>3. CASE ~Live
    <2>1. Goto(t, "idle", None) /\ cached' = None
      BY <1>3 DEF UseKey
    <2> QED
      BY <1>1, <2>1, GotoType
  <1> QED
    BY <1>2, <1>3

LEMMA TypeInit == Init => TypeOK
  <1> SUFFICES ASSUME Init PROVE TypeOK
    OBVIOUS
  <1>1. /\ MaxSalts \in Nat /\ MaxNow \in Nat
        /\ pc \in [Tasks -> PC] /\ \A t \in Tasks : pc[t] = "idle"
        /\ held \in [Tasks -> Key \union {None}]
        /\ todo \in [Tasks -> SUBSET Rows]
    BY ArchiveKeysAssumption DEF Init, PC
  <1>2. overlapped \in BOOLEAN
    BY DEF Init
  <1>3. /\ now \in 0 .. MaxNow /\ next_tick \in Nat
        /\ salts \in 0 .. MaxSalts /\ last_use \in 0 .. now
    BY <1>1 DEF Init
  <1>4. /\ archive_salt = None /\ archive_verifier = None /\ cached = None
        /\ broadcast_pool \subseteq Rows /\ archive_pool \subseteq Blob
    BY DEF Init
  <1> QED
    BY <1>1, <1>2, <1>3, <1>4 DEF TypeOK

LEMMA TypeStep == TypeOK /\ [Next]_vars => TypeOK'
  <1> SUFFICES ASSUME TypeOK, [Next]_vars PROVE TypeOK'
    OBVIOUS
  <1> USE DEF store, rows, tasks, time, ghosts
  <1>0. /\ TTL \in Nat \ {0} /\ Interval \in Nat
        /\ MaxSalts \in Nat /\ MaxNow \in Nat
        /\ Requests \subseteq Tasks /\ "retention" \in Tasks
        /\ {"idle", "set_salt", "set_verifier", "read_salt", "cache", "open",
            "select", "seal"} \subseteq PC
    BY ArchiveKeysAssumption DEF Tasks, PC
  <1>1. ASSUME NEW r \in Requests, NEW q \in Passwords, SetPassword(r, q)
        PROVE  TypeOK'
    <2>1. /\ salts' \in 0 .. MaxSalts /\ overlapped' \in BOOLEAN
          /\ [password |-> q, salt |-> salts'] \in Key
      BY <1>0, <1>1 DEF SetPassword, TypeOK, Key, Salt
    <2> QED
      BY <1>0, <1>1, <2>1, GotoType DEF SetPassword, TypeOK
  <1>2. ASSUME NEW r \in Requests, WriteSalt(r) PROVE TypeOK'
    <2>1. held[r] \in Key /\ held[r].salt \in Salt
      BY <1>0, <1>2 DEF WriteSalt, TypeOK, Key
    <2> QED
      BY <1>0, <1>2, <2>1, GotoType DEF WriteSalt, TypeOK
  <1>3. ASSUME NEW r \in Requests, WriteVerifier(r) PROVE TypeOK'
    <2>1. held[r] \in Verifier
      BY <1>0, <1>3 DEF WriteVerifier, TypeOK, Key, Verifier
    <2> QED
      BY <1>0, <1>3, <2>1, GotoType DEF WriteVerifier, TypeOK
  <1>4. ASSUME NEW r \in Requests, WriteFails(r) \/ Open(r) PROVE TypeOK'
    BY <1>0, <1>4, GotoType DEF WriteFails, Open, TypeOK
  <1>5. ASSUME NEW r \in Requests, NEW q \in Passwords, Unlock(r, q)
        PROVE  TypeOK'
    <2>1. archive_verifier \in Key
      BY <1>5 DEF Unlock, TypeOK, Key, Verifier
    <2> QED
      BY <1>0, <1>5, <2>1, GotoType DEF Unlock, TypeOK
  <1>6. ASSUME NEW r \in Requests, ReadSalt(r) PROVE TypeOK'
    <2>1. archive_salt # None =>
            derive_key(held[r].password, archive_salt) \in Key
      BY <1>0, <1>6 DEF ReadSalt, derive_key, TypeOK, Key
    <2> QED
      BY <1>0, <1>6, <2>1, GotoType DEF ReadSalt, TypeOK
  <1>7. ASSUME NEW r \in Requests, CacheKey(r) PROVE TypeOK'
    <2>1. held[r] \in Key /\ now + TTL \in Nat /\ now \in 0 .. now
      BY <1>0, <1>7 DEF CacheKey, TypeOK
    <2>2. cached' \in Cached
      BY <1>7, <2>1 DEF CacheKey, Cached
    <2> QED
      BY <1>0, <1>7, <2>1, <2>2, GotoType DEF CacheKey, TypeOK
  <1>8. ASSUME NEW r \in Requests, UserUse(r) PROVE TypeOK'
    <2>1. PICK p \in PC : UseKey(r, p)
      BY <1>0, <1>8 DEF UserUse
    <2>2. last_use' \in 0 .. now
      BY <1>8 DEF UserUse, TypeOK
    <2> QED
      BY <1>0, <1>8, <2>1, <2>2, UseKeyType DEF UserUse, TypeOK
  <1>9. CASE Lock \/ is_unlocked
    BY <1>9 DEF Lock, is_unlocked, TypeOK
  <1>10. CASE RetentionTick
    <2>1. next_tick' \in Nat
      BY <1>0, <1>10 DEF RetentionTick, TypeOK
    <2> QED
      BY <1>0, <1>10, <2>1, UseKeyType DEF RetentionTick, TypeOK
  <1>11. ASSUME NEW t \in Tasks, Select(t) PROVE TypeOK'
    BY <1>0, <1>11 DEF Select, TypeOK
  <1>12. ASSUME NEW t \in Tasks, Seal(t) PROVE TypeOK'
    <2>1. PICK row \in todo[t] :
            /\ archive_pool' = archive_pool \union {[row |-> row, key |-> held[t]]}
            /\ broadcast_pool' = broadcast_pool \ {row}
            /\ todo' = [todo EXCEPT ![t] = @ \ {row}]
      BY <1>12 DEF Seal
    <2>2. row \in Rows /\ held[t] \in Key
      BY <1>12 DEF Seal, TypeOK
    <2>3. archive_pool' \subseteq Blob
      BY <2>1, <2>2 DEF TypeOK, Blob
    <2>4. todo' \in [Tasks -> SUBSET Rows]
      BY <2>1 DEF TypeOK
    <2> QED
      BY <1>12, <2>1, <2>3, <2>4 DEF Seal, TypeOK
  <1>13. ASSUME NEW t \in Tasks, SealEnds(t) PROVE TypeOK'
    BY <1>0, <1>13 DEF SealEnds, TypeOK
  <1>14. CASE Tick
    BY <1>0, <1>14 DEF Tick, TypeOK
  <1>15. CASE Restart
    BY <1>0, <1>15 DEF Restart, TypeOK
  <1>16. CASE UNCHANGED vars
    BY <1>16 DEF vars, TypeOK
  <1> QED
    BY <1>1, <1>2, <1>3, <1>4, <1>5, <1>6, <1>7, <1>8, <1>9, <1>10, <1>11,
       <1>12, <1>13, <1>14, <1>15, <1>16 DEF Next

\* Every reachable state is well typed, and a task between two steps holds a
\* whole key: no path of the handlers opens or seals with half of one.
THEOREM TypeCorrect == Spec => []TypeOK
  BY TypeInit, TypeStep, PTL DEF Spec

-----------------------------------------------------------------------------
(* The archive locks itself.                                               *)

\* A cached key lives one lifetime from the user's last use, or two once
\* retention has renewed it; then the next tick comes after it has expired.
LifetimeInv ==
    cached # None =>
        \/ cached.expires_at <= last_use + TTL
        \/ /\ cached.expires_at <= last_use + 2 * TTL
           /\ cached.expires_at <= next_tick

\* Every step keeps LifetimeInv; only uses of the key and restarts matter.
LEMMA LifetimeStep == TypeOK /\ LifetimeInv /\ [Next]_vars => LifetimeInv'
  <1> SUFFICES ASSUME TypeOK, LifetimeInv, [Next]_vars PROVE LifetimeInv'
    OBVIOUS
  <1> USE DEF store, rows, tasks, time, ghosts
  <1>0. /\ TTL \in Nat \ {0} /\ Interval \in Nat /\ Interval > TTL
        /\ now \in Nat /\ next_tick \in Nat /\ last_use \in Nat
        /\ last_use <= now
        /\ cached # None => /\ cached.expires_at \in Nat
                            /\ cached \in Cached
    BY ArchiveKeysAssumption DEF TypeOK, Cached
  <1>1. CASE UNCHANGED <<cached, last_use, next_tick>>
    BY <1>1 DEF LifetimeInv
  <1>2. ASSUME NEW r \in Requests, CacheKey(r) PROVE LifetimeInv'
    <2>1. cached'.expires_at = now + TTL /\ last_use' = now
      BY <1>2 DEF CacheKey
    <2> QED
      BY <1>0, <2>1 DEF LifetimeInv
  <1>3. ASSUME NEW r \in Requests, UserUse(r) PROVE LifetimeInv'
    <2>1. CASE Live
      <3>1. cached'.expires_at = now + TTL /\ last_use' = now
        BY <1>0, <1>3, <2>1 DEF UserUse, UseKey, Live, Cached
      <3> QED
        BY <1>0, <3>1 DEF LifetimeInv
    <2>2. CASE ~Live
      BY <1>3, <2>2 DEF UserUse, UseKey, LifetimeInv
    <2> QED
      BY <2>1, <2>2
  <1>4. CASE RetentionTick
    <2>1. CASE Live
      <3>1. /\ cached'.expires_at = now + TTL /\ last_use' = last_use
            /\ next_tick' = now + Interval
            /\ next_tick <= now
            /\ cached # None /\ now < cached.expires_at
        BY <1>0, <1>4, <2>1 DEF RetentionTick, UseKey, Live, Cached
      <3>2. now < last_use + TTL
        BY <1>0, <3>1 DEF LifetimeInv
      <3> QED
        BY <1>0, <3>1, <3>2 DEF LifetimeInv
    <2>2. CASE ~Live
      BY <1>4, <2>2 DEF RetentionTick, UseKey, LifetimeInv
    <2> QED
      BY <2>1, <2>2
  <1>5. CASE Lock \/ is_unlocked \/ Restart
    BY <1>5 DEF Lock, is_unlocked, Restart, LifetimeInv
  <1> QED
    BY <1>1, <1>2, <1>3, <1>4, <1>5
       DEF Next, vars, SetPassword, Unlock, WriteSalt, WriteVerifier,
           WriteFails, ReadSalt, Open, Select, Seal, SealEnds, Tick

\* An archive its user has left alone for two lifetimes of the key is locked,
\* however often its state is polled and whenever retention ticks.
THEOREM LocksItself == Spec => []AutoLocks
  <1>1. Init => LifetimeInv
    BY DEF Init, LifetimeInv
  <1>2. TypeOK /\ LifetimeInv => AutoLocks
    BY ArchiveKeysAssumption DEF TypeOK, LifetimeInv, AutoLocks, Live, Cached
  <1> QED
    BY <1>1, <1>2, LifetimeStep, TypeCorrect, PTL DEF Spec

-----------------------------------------------------------------------------
(* The password that is set opens the archive.                             *)

\* A task that has derived a key, or has read the verifier to derive one.
Derived == {"cache", "open", "select", "seal"}
InUse == {"read_salt"} \union Derived

\* Nobody holds or used a key before there was a verifier, and there is no
\* verifier, nor anybody about to write one, before there is a salt.
StoredInv ==
    /\ archive_verifier # None => archive_salt # None
    /\ \A t \in Tasks : pc[t] = "set_verifier" => archive_salt # None
    /\ archive_pool # {} \/ cached # None \/ (\E t \in Tasks : pc[t] \in InUse)
         => archive_verifier # None

\* While no two passwords were set at once, one request at most is setting
\* one, none is once the verifier is there, and it writes the salt it drew.
SettingInv ==
    /\ \A t, u \in Setting : t = u
    /\ archive_verifier # None => Setting = {}
    /\ archive_verifier # None => archive_verifier.salt = archive_salt
    /\ \A t \in Requests :
         pc[t] = "set_verifier" => held[t].salt = archive_salt

TheKey == derive_key(archive_verifier.password, archive_salt)

\* ... and every key anywhere is the one an unlock derives now.
KeyInv ==
    /\ \A b \in archive_pool : b.key = TheKey
    /\ cached # None => cached.key = TheKey
    /\ \A t \in Tasks : pc[t] = "read_salt" => held[t] = archive_verifier
    /\ \A t \in Tasks : pc[t] \in Derived => held[t] = TheKey

OpensInv == StoredInv /\ (overlapped \/ (SettingInv /\ KeyInv))

\* Nobody reads or holds a key while there is no verifier.
LEMMA StoredStep == TypeOK /\ StoredInv /\ [Next]_vars => StoredInv'
  <1> SUFFICES ASSUME TypeOK, StoredInv, [Next]_vars PROVE StoredInv'
    OBVIOUS
  <1> USE DEF store, rows, tasks, time, ghosts
  <1>0. /\ Requests \subseteq Tasks /\ "retention" \in Tasks
        /\ pc \in [Tasks -> PC] /\ held \in [Tasks -> Key \union {None}]
        /\ \A t \in Tasks : pc[t] # "idle" => held[t] # None
        /\ \A k \in Key : k.salt # None
    BY ArchiveKeysAssumption DEF TypeOK, Tasks, Key
  <1> USE DEF StoredInv, InUse, Derived
  <1>1. ASSUME NEW r \in Requests, NEW q \in Passwords,
               SetPassword(r, q) \/ Unlock(r, q)
        PROVE  StoredInv'
    BY <1>0, <1>1 DEF SetPassword, Unlock, Goto
  <1>2. ASSUME NEW r \in Requests, WriteSalt(r) PROVE StoredInv'
    <2>1. archive_salt' # None
      BY <1>0, <1>2 DEF WriteSalt, TypeOK
    <2> QED
      BY <1>0, <1>2, <2>1 DEF WriteSalt, Goto
  <1>3. ASSUME NEW r \in Requests, WriteVerifier(r) PROVE StoredInv'
    <2>1. archive_verifier' # None
      BY <1>0, <1>3 DEF WriteVerifier
    <2> QED
      BY <1>0, <1>3, <2>1 DEF WriteVerifier, Goto
  <1>4. ASSUME NEW r \in Requests,
               \/ WriteFails(r) \/ ReadSalt(r) \/ CacheKey(r) \/ Open(r)
        PROVE  StoredInv'
    BY <1>0, <1>4 DEF WriteFails, ReadSalt, CacheKey, Open, Goto
  <1>5. ASSUME NEW t \in Tasks, NEW p \in {"idle", "open", "select"},
               UseKey(t, p), UNCHANGED <<store, archive_pool>>
        PROVE  StoredInv'
    BY <1>0, <1>5 DEF UseKey, Live, Goto
  <1>6. ASSUME NEW r \in Requests, UserUse(r) PROVE StoredInv'
    BY <1>0, <1>5, <1>6 DEF UserUse
  <1>7. CASE RetentionTick
    BY <1>0, <1>5, <1>7 DEF RetentionTick
  <1>8. ASSUME NEW t \in Tasks, Select(t) \/ Seal(t) \/ SealEnds(t)
        PROVE  StoredInv'
    BY <1>0, <1>8 DEF Select, Seal, SealEnds
  <1>9. CASE Lock \/ is_unlocked \/ Tick \/ Restart
    BY <1>9 DEF Lock, is_unlocked, Tick, Restart
  <1>10. CASE UNCHANGED vars
    BY <1>10 DEF vars
  <1> QED
    BY <1>1, <1>2, <1>3, <1>4, <1>6, <1>7, <1>8, <1>9, <1>10 DEF Next

\* While passwords are set one at a time, there is one key.
LEMMA KeyStep ==
    ASSUME TypeOK, StoredInv, SettingInv, KeyInv, ~overlapped', [Next]_vars
    PROVE  SettingInv' /\ KeyInv'
  <1> USE DEF store, rows, tasks, time, ghosts
  <1>0. /\ Requests \subseteq Tasks /\ "retention" \in Tasks
        /\ "retention" \notin Requests
        /\ pc \in [Tasks -> PC] /\ held \in [Tasks -> Key \union {None}]
        /\ \A t \in Tasks : pc[t] # "idle" => held[t] # None
    BY ArchiveKeysAssumption DEF TypeOK, Tasks
  <1>1. ASSUME NEW r \in Requests, NEW q \in Passwords, SetPassword(r, q)
        PROVE  SettingInv' /\ KeyInv'
    <2>1. Setting = {} /\ archive_verifier = None
      BY <1>1 DEF SetPassword
    <2>2. Setting' = {r}
      BY <1>0, <1>1, <2>1 DEF SetPassword, Goto, Setting
    <2>3. SettingInv'
      BY <1>0, <1>1, <2>1, <2>2 DEF SetPassword, Goto, SettingInv
    <2>4. KeyInv'
      BY <1>0, <1>1, <2>1
         DEF SetPassword, Goto, KeyInv, TheKey, Derived
    <2> QED
      BY <2>3, <2>4
  <1>2. ASSUME NEW r \in Requests, WriteSalt(r) PROVE SettingInv' /\ KeyInv'
    <2>1. r \in Setting /\ \A t \in Setting : t = r
      BY <1>2 DEF WriteSalt, Setting, SettingInv
    <2>2. archive_verifier = None
      BY <2>1 DEF SettingInv
    <2>3. Setting' = {r}
      BY <1>0, <1>2, <2>1 DEF WriteSalt, Goto, Setting
    <2>4. SettingInv'
      BY <1>0, <1>2, <2>1, <2>2, <2>3 DEF WriteSalt, Goto, SettingInv, Setting
    <2>5. KeyInv'
      BY <1>0, <1>2, <2>2
         DEF WriteSalt, Goto, KeyInv, StoredInv, InUse, Derived
    <2> QED
      BY <2>4, <2>5
  <1>3. ASSUME NEW r \in Requests, WriteVerifier(r)
        PROVE  SettingInv' /\ KeyInv'
    <2>1. r \in Setting /\ \A t \in Setting : t = r
      BY <1>3 DEF WriteVerifier, Setting, SettingInv
    <2>2. archive_verifier = None /\ held[r].salt = archive_salt
      BY <1>3, <2>1 DEF SettingInv, WriteVerifier
    <2>3. Setting' = {}
      BY <1>0, <1>3, <2>1 DEF WriteVerifier, Goto, Setting
    <2>4. SettingInv'
      BY <1>0, <1>3, <2>1, <2>2, <2>3
         DEF WriteVerifier, Goto, SettingInv, Setting
    <2>5. KeyInv'
      BY <1>0, <1>3, <2>2
         DEF WriteVerifier, Goto, KeyInv, StoredInv, InUse, Derived
    <2> QED
      BY <2>4, <2>5
  <1>4. ASSUME UNCHANGED <<store, cached, archive_pool>>,
               Setting' \subseteq Setting,
               \A t \in Requests : pc'[t] = "set_verifier" =>
                    pc[t] = "set_verifier" /\ held'[t] = held[t],
               \A t \in Tasks : pc'[t] = "read_salt" =>
                    held'[t] = archive_verifier,
               \A t \in Tasks : pc'[t] \in Derived => held'[t] = TheKey
        PROVE  SettingInv' /\ KeyInv'
    BY <1>4 DEF SettingInv, KeyInv, TheKey, derive_key
  <1>5. ASSUME NEW r \in Requests, NEW q \in Passwords, Unlock(r, q)
        PROVE  SettingInv' /\ KeyInv'
    BY <1>0, <1>4, <1>5 DEF Unlock, Goto, Setting, KeyInv, Derived
  <1>6. ASSUME NEW r \in Requests, WriteFails(r) \/ Open(r)
        PROVE  SettingInv' /\ KeyInv'
    BY <1>0, <1>4, <1>6 DEF WriteFails, Open, Goto, Setting, KeyInv, Derived
  <1>7. ASSUME NEW r \in Requests, ReadSalt(r) PROVE SettingInv' /\ KeyInv'
    <2>1. held[r] = archive_verifier
      BY <1>0, <1>7 DEF ReadSalt, KeyInv
    <2> QED
      BY <1>0, <1>4, <1>7, <2>1
         DEF ReadSalt, Goto, Setting, KeyInv, Derived, TheKey
  <1>8. ASSUME cached' # None => cached'.key = TheKey,
               UNCHANGED <<store, archive_pool>>,
               Setting' \subseteq Setting,
               \A t \in Requests : pc'[t] = "set_verifier" =>
                    pc[t] = "set_verifier" /\ held'[t] = held[t],
               \A t \in Tasks : pc'[t] = "read_salt" =>
                    held'[t] = archive_verifier,
               \A t \in Tasks : pc'[t] \in Derived => held'[t] = TheKey
        PROVE  SettingInv' /\ KeyInv'
    BY <1>8 DEF SettingInv, KeyInv, TheKey, derive_key
  <1>9. ASSUME NEW r \in Requests, CacheKey(r) PROVE SettingInv' /\ KeyInv'
    <2>1. cached'.key = TheKey
      BY <1>0, <1>9 DEF CacheKey, KeyInv, Derived
    <2> QED
      BY <1>0, <1>8, <1>9, <2>1 DEF CacheKey, Goto, Setting, KeyInv, Derived
  <1>10. ASSUME NEW t \in Tasks, NEW p \in {"idle", "open", "select"},
                UseKey(t, p), UNCHANGED <<store, archive_pool>>
         PROVE  SettingInv' /\ KeyInv'
    <2>1. cached' # None => cached'.key = TheKey
      BY <1>10 DEF UseKey, Live, KeyInv, TypeOK, Cached
    <2>2. Live => cached.key = TheKey
      BY DEF Live, KeyInv
    <2> QED
      BY <1>0, <1>8, <1>10, <2>1, <2>2 DEF UseKey, Goto, Setting, KeyInv, Derived
  <1>11. ASSUME NEW r \in Requests, UserUse(r) PROVE SettingInv' /\ KeyInv'
    BY <1>0, <1>10, <1>11 DEF UserUse
  <1>12. CASE RetentionTick
    BY <1>0, <1>10, <1>12 DEF RetentionTick
  <1>13. ASSUME NEW t \in Tasks, Select(t) \/ SealEnds(t)
         PROVE  SettingInv' /\ KeyInv'
    BY <1>0, <1>4, <1>13 DEF Select, SealEnds, Setting, KeyInv, Derived
  <1>14. ASSUME NEW t \in Tasks, Seal(t) PROVE SettingInv' /\ KeyInv'
    <2>1. /\ UNCHANGED <<store, cached, pc, held>>
          /\ \E row \in todo[t] : archive_pool' =
                archive_pool \union {[row |-> row, key |-> held[t]]}
      BY <1>14 DEF Seal
    <2>2. held[t] = TheKey
      BY <1>14 DEF Seal, KeyInv, Derived
    <2>3. \A b \in archive_pool' : b.key = TheKey
      BY <2>1, <2>2 DEF KeyInv
    <2> QED
      BY <2>1, <2>3 DEF SettingInv, Setting, KeyInv, TheKey, derive_key
  <1>15. CASE Lock \/ is_unlocked
    BY <1>8, <1>15 DEF Lock, is_unlocked, Setting, KeyInv
  <1>16. CASE Restart
    BY <1>0, <1>8, <1>16 DEF Restart, Setting, KeyInv, Derived
  <1>17. CASE Tick \/ UNCHANGED vars
    BY <1>4, <1>17 DEF Tick, vars, Setting, KeyInv
  <1> QED
    BY <1>1, <1>2, <1>3, <1>5, <1>6, <1>7, <1>9, <1>11, <1>12, <1>13, <1>14,
       <1>15, <1>16, <1>17 DEF Next

\* An overlap is never forgotten.
LEMMA OverlapStays == TypeOK /\ [Next]_vars => (overlapped => overlapped')
  BY DEF Next, vars, ghosts, SetPassword, WriteSalt, WriteVerifier, WriteFails,
         Unlock, ReadSalt, CacheKey, UserUse, Open, Lock, is_unlocked,
         RetentionTick, Select, Seal, SealEnds, Tick, Restart

\* A password that is set opens the whole archive: whichever write fails and
\* whenever the process dies, no verifier is stored without a salt and every
\* blob was sealed with the key an unlock derives now, unless two passwords
\* were once set at the same time.
THEOREM WholeArchiveOpens == Spec => []ArchiveOpens
  <1>1. Init => OpensInv
    <2> SUFFICES ASSUME Init PROVE StoredInv /\ SettingInv /\ KeyInv
      BY DEF OpensInv
    <2>1. /\ \A t \in Tasks : pc[t] = "idle"
          /\ Requests \subseteq Tasks
      BY DEF Init, Tasks
    <2>2. StoredInv
      BY <2>1 DEF Init, StoredInv, InUse, Derived
    <2>3. SettingInv
      BY <2>1 DEF Init, SettingInv, Setting
    <2>4. KeyInv
      BY <2>1 DEF Init, KeyInv, Derived
    <2> QED
      BY <2>2, <2>3, <2>4
  <1>2. TypeOK /\ OpensInv /\ [Next]_vars => OpensInv'
    <2> SUFFICES ASSUME TypeOK, OpensInv, [Next]_vars PROVE OpensInv'
      OBVIOUS
    <2>1. StoredInv /\ StoredInv'
      BY StoredStep DEF OpensInv
    <2>2. ~overlapped' => ~overlapped /\ SettingInv /\ KeyInv
      BY OverlapStays DEF OpensInv
    <2>3. ~overlapped' => SettingInv' /\ KeyInv'
      BY <2>1, <2>2, KeyStep
    <2> QED
      BY <2>1, <2>3 DEF OpensInv
  <1>3. OpensInv => ArchiveOpens
    BY DEF OpensInv, StoredInv, KeyInv, TheKey, ArchiveOpens
  <1> QED
    BY <1>1, <1>2, <1>3, TypeCorrect, PTL DEF Spec
-----------------------------------------------------------------------------
(* The archive is a vault: ArchiveKeys implements TimedVault.              *)

\* What no step but a user's request, a sealing or the clock moves.
LEMMA VaultStutters ==
    ASSUME UNCHANGED rows, UNCHANGED archive_verifier, Live' = Live,
           UNCHANGED <<now, last_use>>
    PROVE  UNCHANGED Vault!vars
  BY DEF rows, Vault!vars

\* A user at the open archive, or one who opens it.
LEMMA VaultUsed ==
    ASSUME UNCHANGED rows, UNCHANGED archive_verifier, archive_verifier # None,
           Live', last_use' = now, UNCHANGED now, now \in Nat
    PROVE  Vault!Next
  <1>1. now' - last_use' = 0
    OBVIOUS
  <1>2. Live' = TRUE
    OBVIOUS
  <1>3. Vault!Use
    BY <1>1, <1>2 DEF rows, Vault!Use
  <1> QED
    BY <1>3 DEF Vault!Next

\* A cached key that goes shuts it, one that had expired changes nothing.
LEMMA VaultShuts ==
    ASSUME UNCHANGED rows, UNCHANGED archive_verifier, ~Live',
           UNCHANGED <<now, last_use>>
    PROVE  Vault!Next
  <1>1. Live' = FALSE
    OBVIOUS
  <1>2. Vault!Shut
    BY <1>1 DEF rows, Vault!Shut
  <1> QED
    BY <1>2 DEF Vault!Next

\* The key just renewed or cached is good now.
LEMMA Renewed ==
    ASSUME TypeOK, UNCHANGED now, cached' # None,
           cached'.expires_at = now + TTL
    PROVE  Live'
  <1>1. now \in Nat /\ TTL \in Nat /\ TTL > 0
    BY ArchiveKeysAssumption DEF TypeOK
  <1>2. now' < cached'.expires_at
    BY <1>1
  <1> QED
    BY <1>2 DEF Live

\* Asking for the key neither opens nor shuts the archive.
LEMMA KeyAsked ==
    ASSUME TypeOK, NEW t, NEW p, UseKey(t, p), UNCHANGED now
    PROVE  Live' = Live
  <1>1. CASE Live
    <2>1. /\ cached \in Cached
          /\ cached' = [cached EXCEPT !.expires_at = now + TTL]
      BY <1>1 DEF Live, TypeOK, UseKey
    <2>2. cached'.expires_at = now + TTL /\ cached' \in Cached
      BY <2>1, ArchiveKeysAssumption DEF TypeOK, Cached
    <2>3. cached' # None
      BY <2>2, ArchiveKeysAssumption
    <2>4. Live'
      BY <2>2, <2>3, Renewed
    <2> QED
      BY <1>1, <2>4
  <1>2. CASE ~Live
    BY <1>2 DEF UseKey, Live
  <1> QED
    BY <1>1, <1>2
\* A row sealed is stored; a second blob of a stored row changes nothing.
LEMMA VaultStores ==
    ASSUME TypeOK, StoredInv, NEW t \in Tasks, Seal(t)
    PROVE  Vault!Next
  <1>1. PICK row \in todo[t] :
          /\ archive_pool' = archive_pool \union {[row |-> row, key |-> held[t]]}
          /\ broadcast_pool' = broadcast_pool \ {row}
    BY DEF Seal
  <1>2. row \in Rows
    BY <1>1 DEF TypeOK
  <1>3. PICK k : k = held[t]
    OBVIOUS
  <1>4. {b.row : b \in archive_pool'} = {b.row : b \in archive_pool} \union {row}
    <2>1. archive_pool' = archive_pool \union {[row |-> row, key |-> k]}
      BY <1>1, <1>3
    <2>2. [row |-> row, key |-> k].row = row
      OBVIOUS
    <2> QED
      BY <2>1, <2>2
  <1>5. /\ archive_verifier # None /\ archive_verifier' = archive_verifier
        /\ cached' = cached /\ now' = now /\ last_use' = last_use
    BY DEF Seal, StoredInv, InUse, Derived, store, time, ghosts
  <1>6. Live' = Live
    BY <1>5 DEF Live
  <1>7. Vault!Store(row)
    BY <1>1, <1>4, <1>5, <1>6 DEF Vault!Store
  <1> QED
    BY <1>2, <1>7 DEF Vault!Next

\* The clock alone shuts it, in time.
LEMMA VaultWaits ==
    ASSUME TypeOK, TypeOK', LifetimeInv', Tick
    PROVE  Vault!Next
  <1>1. /\ now' = now + 1 /\ last_use' = last_use /\ cached' = cached
        /\ archive_verifier' = archive_verifier /\ UNCHANGED rows
    BY DEF Tick, store, ghosts
  <1>2. /\ now \in Nat /\ last_use \in Nat /\ TTL \in Nat
        /\ now' - last_use' = (now - last_use) + 1
    BY <1>1, ArchiveKeysAssumption DEF TypeOK
  <1>3. ASSUME Live'
        PROVE  Live /\ now' - last_use' < 2 * TTL
    <2>1. /\ cached # None /\ cached.expires_at \in Nat
          /\ now + 1 < cached.expires_at
      BY <1>1, <1>3 DEF Live, TypeOK, Cached
    <2>2. cached.expires_at <= last_use + 2 * TTL
      BY <1>1, <1>2, <2>1 DEF LifetimeInv
    <2>3. Live
      BY <1>2, <2>1 DEF Live
    <2> QED
      BY <1>1, <1>2, <2>1, <2>2, <2>3
  <1>4. Live' \in {FALSE, Live /\ now' - last_use' < 2 * TTL}
    <2>1. CASE Live'
      <3>1. Live' = TRUE /\ (Live /\ now' - last_use' < 2 * TTL) = TRUE
        BY <1>3, <2>1
      <3> QED
        BY <3>1
    <2>2. CASE ~Live'
      <3>1. Live' = FALSE
        BY <2>2
      <3> QED
        BY <3>1
    <2> QED
      BY <2>1, <2>2
  <1>5. Vault!Wait
    BY <1>1, <1>2, <1>4 DEF Vault!Wait, rows
  <1> QED
    BY <1>5 DEF Vault!Next

\* Each operation is a step of the vault, or none: only a request that holds a
\* key or takes one opens it, and only sealing moves a row.
LEMMA VaultStep ==
    ASSUME TypeOK, TypeOK', StoredInv, LifetimeInv', [Next]_vars
    PROVE  [Vault!Next]_(Vault!vars)
  <1> USE DEF store, tasks, time, ghosts
  <1>0. now \in Nat
    BY DEF TypeOK
  <1>1. ASSUME NEW r \in Requests, NEW q \in Passwords,
               SetPassword(r, q) \/ Unlock(r, q)
        PROVE  UNCHANGED Vault!vars
    <2>1. UNCHANGED <<archive_verifier, cached, now, last_use>> /\ UNCHANGED rows
      BY <1>1 DEF SetPassword, Unlock
    <2> QED
      BY <2>1, VaultStutters DEF Live
  <1>2. ASSUME NEW r \in Requests,
               WriteSalt(r) \/ WriteFails(r) \/ ReadSalt(r) \/ Open(r)
        PROVE  UNCHANGED Vault!vars
    <2>1. UNCHANGED <<archive_verifier, cached, now, last_use>> /\ UNCHANGED rows
      BY <1>2 DEF WriteSalt, WriteFails, ReadSalt, Open
    <2> QED
      BY <2>1, VaultStutters DEF Live
  <1>3. ASSUME NEW r \in Requests, WriteVerifier(r)
        PROVE  [Vault!Next]_(Vault!vars)
    <2>1. UNCHANGED <<cached, now, last_use>> /\ UNCHANGED rows
      BY <1>3 DEF WriteVerifier
    <2>2. archive_verifier' # None
      <3>1. archive_verifier' = held[r] /\ pc[r] # "idle" /\ r \in Tasks
        BY <1>3 DEF WriteVerifier, Tasks
      <3>2. held[r] \in Key
        BY <3>1 DEF TypeOK
      <3> QED
        BY <3>1, <3>2, ArchiveKeysAssumption
    <2>3. Live' = Live
      BY <2>1 DEF Live
    <2>4. CASE archive_verifier = None
      <3>1. ~(archive_verifier # None) /\ (archive_verifier' # None) = TRUE
        BY <2>2, <2>4
      <3>2. Vault!SetPassword
        BY <2>1, <2>3, <3>1 DEF Vault!SetPassword, rows
      <3> QED
        BY <3>2 DEF Vault!Next
    <2>5. CASE archive_verifier # None
      <3>1. (archive_verifier' # None) = (archive_verifier # None)
        BY <2>2, <2>5
      <3> QED
        BY <2>1, <2>3, <3>1 DEF rows, Vault!vars
    <2> QED
      BY <2>4, <2>5
  <1>4. ASSUME NEW r \in Requests, CacheKey(r) PROVE Vault!Next
    <2>1. /\ UNCHANGED <<archive_verifier, now>> /\ UNCHANGED rows
          /\ last_use' = now
          /\ cached' = [key |-> held[r], expires_at |-> now + TTL]
      BY <1>4 DEF CacheKey
    <2>2. archive_verifier # None
      BY <1>4 DEF CacheKey, StoredInv, InUse, Derived, Tasks
    <2>3. cached' # None
      <3>1. held[r] \in Key /\ now + TTL \in Nat
        BY <1>0, <1>4, ArchiveKeysAssumption DEF CacheKey, TypeOK, Tasks
      <3>2. cached' \in Cached
        BY <2>1, <3>1 DEF Cached
      <3> QED
        BY <3>2, ArchiveKeysAssumption
    <2>4. Live'
      BY <2>1, <2>3, Renewed
    <2> QED
      BY <1>0, <2>1, <2>2, <2>4, VaultUsed
  <1>5. ASSUME NEW r \in Requests, UserUse(r) PROVE [Vault!Next]_(Vault!vars)
    <2>1. PICK p : UseKey(r, p)
      BY <1>5 DEF UserUse
    <2>2. /\ UNCHANGED <<archive_verifier, now>> /\ UNCHANGED rows
          /\ last_use' = IF Live THEN now ELSE last_use
      BY <1>5 DEF UserUse
    <2>3. Live' = Live
      BY <2>1, <2>2, KeyAsked
    <2>4. CASE Live
      <3>1. archive_verifier # None
        BY <2>4 DEF Live, StoredInv
      <3> QED
        BY <1>0, <2>2, <2>3, <2>4, <3>1, VaultUsed
    <2>5. CASE ~Live
      BY <2>2, <2>3, <2>5, VaultStutters
    <2> QED
      BY <2>4, <2>5
  <1>6. CASE RetentionTick
    <2>1. /\ UseKey("retention", "select") /\ UNCHANGED rows
          /\ UNCHANGED <<archive_verifier, now, last_use>>
      BY <1>6 DEF RetentionTick
    <2>2. Live' = Live
      BY <2>1, KeyAsked
    <2> QED
      BY <2>1, <2>2, VaultStutters
  <1>7. CASE Lock \/ Restart
    BY <1>7, VaultShuts DEF Lock, Restart, Live
  <1>8. CASE is_unlocked
    <2>1. /\ UNCHANGED rows /\ UNCHANGED <<archive_verifier, now, last_use>>
          /\ cached' = IF Live THEN cached ELSE None
      BY <1>8 DEF is_unlocked
    <2>2. Live' = Live
      BY <2>1 DEF Live
    <2> QED
      BY <2>1, <2>2, VaultStutters
  <1>9. ASSUME NEW t \in Tasks, Select(t) \/ SealEnds(t)
        PROVE  UNCHANGED Vault!vars
    <2>1. UNCHANGED <<archive_verifier, cached, now, last_use>> /\ UNCHANGED rows
      BY <1>9 DEF Select, SealEnds
    <2> QED
      BY <2>1, VaultStutters DEF Live
  <1>10. ASSUME NEW t \in Tasks, Seal(t) PROVE Vault!Next
    BY <1>10, VaultStores
  <1>11. CASE Tick
    BY <1>11, VaultWaits
  <1>12. CASE UNCHANGED vars
    BY <1>12, VaultStutters DEF vars, Live
  <1> QED
    BY <1>1, <1>2, <1>3, <1>4, <1>5, <1>6, <1>7, <1>8, <1>9, <1>10, <1>11,
       <1>12 DEF Next

\* The archive of the code is the vault it promises to be: a row leaves the
\* pool only into a blob, in one transaction, nothing but a user's request
\* opens it, and it shuts by itself within two lifetimes of that user's last
\* request, through failed writes, polls, retention ticks and restarts.
THEOREM ImplementsVault == Spec => KeepsVault
  <1>1. Init => LifetimeInv /\ StoredInv
    <2> SUFFICES ASSUME Init PROVE LifetimeInv /\ StoredInv
      OBVIOUS
    <2>1. \A t \in Tasks : pc[t] = "idle"
      BY DEF Init
    <2> QED
      BY <2>1 DEF Init, LifetimeInv, StoredInv, InUse, Derived
  <1>2. Init => Vault!Init
    <2> SUFFICES ASSUME Init PROVE Vault!Init
      OBVIOUS
    <2>1. /\ (archive_verifier # None) = FALSE /\ Live = FALSE
          /\ now - last_use = 0 /\ {b.row : b \in archive_pool} = {}
      BY DEF Init, Live
    <2> QED
      BY <2>1 DEF Init, Vault!Init
  <1>3. Spec => [](TypeOK /\ LifetimeInv /\ StoredInv)
    BY <1>1, LifetimeStep, StoredStep, TypeCorrect, PTL DEF Spec
  <1>4. TypeOK /\ TypeOK' /\ StoredInv /\ LifetimeInv' /\ [Next]_vars
          => [Vault!Next]_(Vault!vars)
    BY VaultStep
  <1> QED
    BY <1>2, <1>3, <1>4, PTL DEF Spec, KeepsVault, Vault!Spec
=============================================================================
