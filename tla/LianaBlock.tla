----------------------------- MODULE LianaBlock -----------------------------
(***************************************************************************)
(* The Liana virtual block and the two things it lives on: the shared      *)
(* configuration with its copy on disk, and the chain health snapshot.     *)
(*                                                                         *)
(* The dashboard arms the block with a future height (api/mod.rs,          *)
(* save_config).  Each Liana transaction takes the height as its target    *)
(* and advances it by two (electrum_server/mod.rs, handle_broadcast).  The *)
(* health poller disarms it once the chain has gone DisarmAfter blocks     *)
(* past the arming (pool/manager.rs, refresh_chain_health and              *)
(* maybe_disarm_virtual_block).                                            *)
(*                                                                         *)
(* A step is one critical section of the config mutex or of the health     *)
(* RwLock, one probe of a backend, or one write of the config file.  Only  *)
(* save_config writes the file while it holds the mutex; the others clone  *)
(* the configuration and write after they have let go of it.               *)
(*                                                                         *)
(* Not modelled here: the other settings, reorganisations, a torn config   *)
(* file, median time past (BroadcastPool has it as a stale read).          *)
(***************************************************************************)
EXTENDS Naturals

CONSTANTS
    Txs,            \* Liana transactions, each broadcast once by the wallet
    NoTx,           \* no transaction
    Wallets,        \* threads serving a wallet's broadcast
    Refreshers,     \* threads that may run refresh_chain_health
    Poller,         \* the one of them that wakes up by itself
    Monitors,       \* threads that may run check_block_height
    Dashboards,     \* threads serving POST /config
    Targets,        \* target heights a user may type in
    NoTarget,       \* a request without a target
    Requests,       \* the configuration requests users make
    Faults,         \* what may go wrong: "crash", "disk", "import", "indexer",
                    \* "core"
    DisarmAfter,    \* blocks from arming to disarming (10)
    MaxGap,         \* MAX_VIRTUAL_BLOCK_GAP
    MaxHeight,      \* bound on the chain's height
    MaxEpoch,       \* bound on the times a user sets the target
    MaxLife         \* bound on restarts

Workers == Wallets \union Refreshers \union Monitors \union Dashboards

\* What a POST /config carries; the client may leave out either field.
\* notify_ok: its notification settings are valid.
Request == [target : Targets \union {NoTarget},
            enable : {"on", "off", "absent"}, notify_ok : BOOLEAN]

ASSUME LianaAssumption ==
    /\ NoTx \notin Txs
    /\ \A A, B \in {Wallets, Refreshers, Monitors, Dashboards} :
          A = B \/ A \intersect B = {}
    /\ Targets \subseteq Nat /\ NoTarget \notin Targets
    /\ Poller \in Refreshers
    /\ Faults \subseteq {"crash", "disk", "import", "indexer", "core"}
    /\ Requests \subseteq Request
    /\ DisarmAfter \in Nat /\ MaxGap \in Nat
    /\ MaxHeight \in Nat \ {0} /\ MaxEpoch \in Nat /\ MaxLife \in Nat

VARIABLES
    \* Outside.
    height,     \* the height of the best chain
    up,         \* which backends answer
    \* On disk.
    disk,       \* the liana_virtual_block section of config.toml
    held,       \* [Txs -> Held]: the row of each transaction in the pool
    \* In the process.
    cfg,        \* the same section in memory, behind the config mutex
    health,     \* the chain health snapshot, behind its RwLock
    in_flight,  \* health_refresh_in_flight
    pc, got,    \* where each worker is and what it has read
    \* History.
    epoch,      \* how often the user has set the target
    life        \* how often the process has been started again

vars == <<height, up, disk, held, cfg, health, in_flight, pc, got, epoch, life>>

NoHeight == 0       \* Option::None, for heights and targets
Heights  == 0 .. MaxHeight

LianaVirtualBlockConfig ==
    [enabled : BOOLEAN, target : Nat, armed_at : Heights]
Default == [enabled |-> FALSE, target |-> 0, armed_at |-> 0]

ChainHealth == [indexer_up : BOOLEAN, core_up : BOOLEAN, core_ibd : BOOLEAN,
                height : Heights, polled : BOOLEAN]

\* A node in initial block download ("ibd") answers with a height of its own.
Backends == [indexer : BOOLEAN, core : {"down", "ibd", "synced"}]

NoRequest == [target |-> NoTarget, enable |-> "absent", notify_ok |-> TRUE]

\* The row of a transaction: "manual", or "by_block" with its target; none
\* yet, or "lost", never stored although its wallet has an answer.
Held == [mode : {"none", "lost", "manual", "by_block"}, target : Nat,
         epoch : Nat, life : Nat]
NotHeld == [mode |-> "none", target |-> 0, epoch |-> 0, life |-> 0]
Lost == [NotHeld EXCEPT !.mode = "lost"]

Data == [core : {"down", "ibd", "synced"}, core_height : Heights,
         height : Heights, snap : LianaVirtualBlockConfig,
         tx : Txs \union {NoTx}, row : Held, req : Request]
NoData == [core |-> "down", core_height |-> NoHeight, height |-> NoHeight,
           snap |-> Default, tx |-> NoTx, row |-> NotHeld, req |-> NoRequest]

PC == {"idle", "core", "indexer", "write", "clear", "disarm", "disarm_cfg",
       "disarm_save", "probe", "note", "config", "capture", "advance_save",
       "store"}

-----------------------------------------------------------------------------
(* Chain health (pool/chain_health.rs).                                    *)

decide_chain_source(h) ==
    IF h.indexer_up THEN "indexer"
    ELSE IF h.core_up /\ ~h.core_ibd THEN "bitcoin_core" ELSE "none"

clock_available(h) == decide_chain_source(h) # "none"

should_try_indexer(h) == h.indexer_up \/ ~h.polled

\* Faulty variant: the number of headers, which run ahead of the blocks.
CoreHeaders(core) ==
    CASE core = "down"   -> {NoHeight}
      [] core = "ibd"    -> {MaxHeight}
      [] core = "synced" -> {height}

\* The height get_chain_status may return, above the genesis block.
get_chain_status(core) ==
    CASE core = "down"   -> {NoHeight}
      [] core = "ibd"    -> 1 .. height
      [] core = "synced" -> {height}

\* The indexer's answer to a height probe.
get_block_height == IF up.indexer THEN height ELSE NoHeight

\* The snapshot a refresh writes from its two probes.
Refreshed(core, core_height, indexer_height) ==
    [indexer_up |-> indexer_height # NoHeight,
     core_up |-> core # "down", core_ibd |-> core = "ibd",
     height |-> IF indexer_height # NoHeight THEN indexer_height
                                             ELSE core_height,
     polled |-> TRUE]

should_disarm(c, real_height) ==
    c.enabled /\ real_height >= c.armed_at + DisarmAfter

\* maybe_disarm_virtual_block when nothing runs beside it.
Disarmed(c, real_height) ==
    IF real_height # NoHeight /\ should_disarm(c, real_height)
    THEN [c EXCEPT !.enabled = FALSE] ELSE c

\* main: the process starts from configuration c; refresh_chain_health has
\* run once before any other thread exists.
Start(c, h, u) ==
    \E ch \in get_chain_status(u.core) :
      LET new == Refreshed(u.core, ch, IF u.indexer THEN h ELSE NoHeight) IN
      /\ health' = new
      /\ cfg' = Disarmed(c, new.height)
      /\ disk' = cfg' \/ ("disk" \in Faults /\ disk' = c)

Init ==
    /\ height = 1
    /\ up = [indexer |-> TRUE, core |-> "synced"]
    /\ disk = Default /\ cfg = Default
    /\ held = [t \in Txs |-> NotHeld]
    /\ health = Refreshed("synced", 1, 1)
    /\ in_flight = FALSE
    /\ pc = [w \in Workers |-> "idle"]
    /\ got = [w \in Workers |-> NoData]
    /\ epoch = 0 /\ life = 0

-----------------------------------------------------------------------------
(* How a worker moves: Learn goes to p knowing d, Finish forgets.          *)

Learn(w, p, d) ==
    pc' = [pc EXCEPT ![w] = p] /\ got' = [got EXCEPT ![w] = d]

Goto(w, p) == pc' = [pc EXCEPT ![w] = p] /\ UNCHANGED got

Finish(w) == Learn(w, "idle", NoData)

world  == <<height, up>>
config == <<disk, held, cfg, epoch>>

-----------------------------------------------------------------------------
(* refresh_chain_health, run by the poller and by the diagnostics request. *)

\* A thread that finds the flag set returns at once.
RefreshStart(w) ==
    /\ w \in Refreshers /\ pc[w] = "idle"
    /\ ~in_flight
    /\ in_flight' = TRUE
    /\ Goto(w, "core")
    /\ UNCHANGED <<health, life>> /\ UNCHANGED world /\ UNCHANGED config

ProbeCore(w) ==
    /\ pc[w] = "core"
    /\ \E ch \in get_chain_status(up.core) :
         Learn(w, "indexer", [got[w] EXCEPT !.core = up.core,
                                            !.core_height = ch])
    /\ UNCHANGED <<health, in_flight, life>>
    /\ UNCHANGED world /\ UNCHANGED config

\* Faulty variant: an indexer that is known to be dead is not asked again.
ProbeIndexerIfLive(w) ==
    /\ pc[w] = "indexer"
    /\ Learn(w, "write",
             [got[w] EXCEPT !.height = IF should_try_indexer(health)
                                       THEN get_block_height ELSE NoHeight])
    /\ UNCHANGED <<health, in_flight, life>>
    /\ UNCHANGED world /\ UNCHANGED config

ProbeIndexer(w) ==
    /\ pc[w] = "indexer"
    /\ Learn(w, "write", [got[w] EXCEPT !.height = get_block_height])
    /\ UNCHANGED <<health, in_flight, life>>
    /\ UNCHANGED world /\ UNCHANGED config

WriteHealth(w) ==
    /\ pc[w] = "write"
    /\ health' = Refreshed(got[w].core, got[w].core_height, got[w].height)
    /\ Learn(w, "clear", NoData)
    /\ UNCHANGED <<in_flight, life>> /\ UNCHANGED world /\ UNCHANGED config

\* Faulty variant: the flag is left set.
RefreshKeepsFlag(w) ==
    /\ pc[w] = "clear"
    /\ Goto(w, "disarm")
    /\ UNCHANGED <<health, in_flight, life>>
    /\ UNCHANGED world /\ UNCHANGED config

RefreshDone(w) ==
    /\ pc[w] = "clear"
    /\ in_flight' = FALSE
    /\ Goto(w, "disarm")
    /\ UNCHANGED <<health, life>> /\ UNCHANGED world /\ UNCHANGED config

\* maybe_disarm_virtual_block: the height is read under one lock ...
DisarmRead(w) ==
    /\ pc[w] = "disarm"
    /\ IF health.height = NoHeight THEN Finish(w)
       ELSE Learn(w, "disarm_cfg", [got[w] EXCEPT !.height = health.height])
    /\ UNCHANGED <<health, in_flight, life>>
    /\ UNCHANGED world /\ UNCHANGED config

\* ... the decision is taken under another, and the file is written later.
DisarmConfig(w) ==
    /\ pc[w] = "disarm_cfg"
    /\ IF should_disarm(cfg, got[w].height)
       THEN /\ cfg' = [cfg EXCEPT !.enabled = FALSE]
            /\ Learn(w, "disarm_save", [NoData EXCEPT !.snap = cfg'])
       ELSE Finish(w) /\ UNCHANGED cfg
    /\ UNCHANGED <<health, in_flight, life, disk, held, epoch>>
    /\ UNCHANGED world

\* save_config_to_disk; an error is logged and dropped.
Write(c) == disk' = c \/ ("disk" \in Faults /\ UNCHANGED disk)

DisarmSave(w) ==
    /\ pc[w] = "disarm_save"
    /\ Write(got[w].snap)
    /\ Finish(w)
    /\ UNCHANGED <<health, in_flight, life, held, cfg, epoch>>
    /\ UNCHANGED world

-----------------------------------------------------------------------------
(* check_block_height with an indexer configured, run by whoever needs a   *)
(* height; get_median_time_past notes a failure in the same way.           *)

CheckHeight(w) ==
    /\ w \in Monitors /\ pc[w] = "idle"
    /\ should_try_indexer(health)
    /\ Goto(w, "probe")
    /\ UNCHANGED <<health, in_flight, life>>
    /\ UNCHANGED world /\ UNCHANGED config

CheckProbe(w) ==
    /\ pc[w] = "probe"
    /\ Learn(w, "note", [got[w] EXCEPT !.height = get_block_height])
    /\ UNCHANGED <<health, in_flight, life>>
    /\ UNCHANGED world /\ UNCHANGED config

note_indexer_failure(h) == [h EXCEPT !.indexer_up = FALSE, !.polled = TRUE]

note_indexer_success(h, x) ==
    [h EXCEPT !.indexer_up = TRUE, !.polled = TRUE, !.height = x]

CheckNote(w) ==
    /\ pc[w] = "note"
    /\ health' = IF got[w].height = NoHeight
                 THEN note_indexer_failure(health)
                 ELSE note_indexer_success(health, got[w].height)
    /\ Finish(w)
    /\ UNCHANGED <<in_flight, life>> /\ UNCHANGED world /\ UNCHANGED config

-----------------------------------------------------------------------------
(* POST /config.                                                           *)

\* The live height is read before the config lock is taken.
SaveConfigRead(w, r) ==
    /\ w \in Dashboards /\ pc[w] = "idle"
    /\ Learn(w, "config", [NoData EXCEPT !.req = r,
                                         !.height = health.height])
    /\ UNCHANGED <<health, in_flight, life>>
    /\ UNCHANGED world /\ UNCHANGED config

validate_virtual_height(target, real_height) ==
    /\ target # 0
    /\ target > real_height
    /\ target <= real_height + MaxGap

\* The target is assigned before anything is validated.
WithTarget(c, r) ==
    IF r.target = NoTarget THEN c ELSE [c EXCEPT !.target = r.target]

\* The checks of an arming request, against the height read earlier.
MayArm(c, real_height) ==
    /\ real_height # NoHeight
    /\ validate_virtual_height(c.target, real_height)

\* Faulty variant: the target is stamped in the place of the live height.
ArmedAtTarget(c, r, real_height) ==
    CASE r.enable = "on"  -> [c EXCEPT !.enabled = TRUE, !.armed_at = c.target]
      [] r.enable = "off" -> [c EXCEPT !.enabled = FALSE]
      [] OTHER            -> c

Switched(c, r, real_height) ==
    CASE r.enable = "on" ->
           [c EXCEPT !.enabled = TRUE, !.armed_at = real_height]
      [] r.enable = "off" -> [c EXCEPT !.enabled = FALSE]
      [] OTHER            -> c

\* The rest of save_config runs under the lock, the write of the file
\* included.  A refused request returns early: what it has assigned by then
\* stays in memory and is not saved.
SaveConfig(w) ==
    /\ pc[w] = "config"
    /\ LET r == got[w].req
           h == got[w].height
           c == WithTarget(cfg, r)
       IN /\ IF r.enable = "on" /\ ~MayArm(c, h)
             THEN cfg' = c /\ UNCHANGED disk
             ELSE /\ cfg' = Switched(c, r, h)
                  /\ IF r.notify_ok THEN Write(cfg') ELSE UNCHANGED disk
          /\ epoch' = IF r.target = NoTarget THEN epoch ELSE epoch + 1
    /\ Finish(w)
    /\ UNCHANGED <<health, in_flight, life, held>> /\ UNCHANGED world

-----------------------------------------------------------------------------
(* handle_broadcast for a Liana transaction.                               *)

Row(mode, target) ==
    [mode |-> mode, target |-> target, epoch |-> epoch, life |-> life]

\* resolve_ingest_plan, under one hold of the config lock ...
IngestPlan(w, t) ==
    /\ w \in Wallets /\ pc[w] = "idle"
    /\ held[t].mode = "none" /\ \A v \in Workers : got[v].tx # t
    /\ IF cfg.enabled
       THEN Learn(w, "capture", [NoData EXCEPT !.tx = t])
       ELSE Learn(w, "store", [NoData EXCEPT !.tx = t,
                                             !.row = Row("manual", 0)])
    /\ UNCHANGED <<health, in_flight, life>>
    /\ UNCHANGED world /\ UNCHANGED config

\* Faulty variant: the height is not advanced.
CaptureWithoutAdvance(w) ==
    /\ pc[w] = "capture"
    /\ Learn(w, "store", [got[w] EXCEPT !.row = Row("by_block", cfg.target)])
    /\ UNCHANGED <<health, in_flight, life>>
    /\ UNCHANGED world /\ UNCHANGED config

\* ... and the capture of the target under another.  Disarmed in between, the
\* row is by_block without a target.
Capture(w) ==
    /\ pc[w] = "capture"
    /\ IF cfg.enabled
       THEN /\ cfg' = [cfg EXCEPT !.target = @ + 2]
            /\ Learn(w, "advance_save",
                     [got[w] EXCEPT !.row = Row("by_block", cfg.target),
                                    !.snap = cfg'])
       ELSE /\ UNCHANGED cfg
            /\ Learn(w, "store",
                     [got[w] EXCEPT !.row = Row("by_block", NoHeight)])
    /\ UNCHANGED <<health, in_flight, life, disk, held, epoch>>
    /\ UNCHANGED world

AdvanceSave(w) ==
    /\ pc[w] = "advance_save"
    /\ Write(got[w].snap)
    /\ Learn(w, "store", [got[w] EXCEPT !.snap = Default])
    /\ UNCHANGED <<health, in_flight, life, held, cfg, epoch>>
    /\ UNCHANGED world

\* import_transaction; after an error the target stays advanced and saved.
Store(w) ==
    /\ pc[w] = "store"
    /\ \/ held' = [held EXCEPT ![got[w].tx] = got[w].row]
       \/ "import" \in Faults /\ held' = [held EXCEPT ![got[w].tx] = Lost]
    /\ Finish(w)
    /\ UNCHANGED <<health, in_flight, life, disk, cfg, epoch>>
    /\ UNCHANGED world

-----------------------------------------------------------------------------
(* The environment.                                                        *)

Block ==
    /\ height < MaxHeight
    /\ height' = height + 1
    /\ UNCHANGED <<up, disk, held, cfg, health, in_flight, pc, got, epoch,
                   life>>

BackendsChange ==
    /\ \/ "indexer" \in Faults /\ up' = [up EXCEPT !.indexer = ~@]
       \/ /\ "core" \in Faults
          /\ \E s \in {"down", "ibd", "synced"} \ {up.core} :
               up' = [up EXCEPT !.core = s]
    /\ UNCHANGED <<height, disk, held, cfg, health, in_flight, pc, got,
                   epoch, life>>

\* The process dies and is started again from the file.
Restart ==
    /\ "crash" \in Faults /\ life < MaxLife
    /\ life' = life + 1
    /\ Start(disk, height, up)
    /\ in_flight' = FALSE
    /\ pc' = [w \in Workers |-> "idle"]
    /\ got' = [w \in Workers |-> NoData]
    /\ UNCHANGED <<height, up, held, epoch>>

-----------------------------------------------------------------------------
Refresh(w) ==
    \/ RefreshStart(w) \/ ProbeCore(w) \/ ProbeIndexer(w) \/ WriteHealth(w)
    \/ RefreshDone(w) \/ DisarmRead(w) \/ DisarmConfig(w) \/ DisarmSave(w)

Check(w) == CheckHeight(w) \/ CheckProbe(w) \/ CheckNote(w)

Ingest(w) ==
    \/ \E t \in Txs : IngestPlan(w, t)
    \/ Capture(w) \/ AdvanceSave(w) \/ Store(w)

\* MaxEpoch bounds how often a user sets the target.
Save(w) ==
    \/ \E r \in Requests :
         (epoch < MaxEpoch \/ r.target = NoTarget) /\ SaveConfigRead(w, r)
    \/ SaveConfig(w)

Step(w) == Refresh(w) \/ Check(w) \/ Ingest(w) \/ Save(w)

Next == (\E w \in Workers : Step(w)) \/ Block \/ BackendsChange \/ Restart

Spec == Init /\ [][Next]_vars

\* The poller wakes up for ever and a thread that is under way runs to its
\* end.  Nothing obliges a user (a diagnostics request refreshes too), a
\* wallet, a backend or the chain to move.
Fairness ==
    /\ WF_vars(Refresh(Poller))
    /\ \A w \in Workers : WF_vars(pc[w] # "idle" /\ Step(w))

FairSpec == Spec /\ Fairness

-----------------------------------------------------------------------------
(* Properties.                                                             *)

\* Every variable holds a value of its kind.
TypeOK ==
    /\ height \in Heights
    /\ up \in Backends
    /\ disk \in LianaVirtualBlockConfig /\ cfg \in LianaVirtualBlockConfig
    /\ held \in [Txs -> Held]
    /\ health \in ChainHealth
    /\ in_flight \in BOOLEAN
    /\ pc \in [Workers -> PC]
    /\ got \in [Workers -> Data]
    /\ epoch \in Nat /\ life \in Nat
    /\ \A w \in Workers : pc[w] \in {"capture", "advance_save", "store"}
                            => got[w].tx \in Txs

\* No reader is told more than the chain has reached, whichever backend and
\* whichever of the snapshot's writers came last, and the height stamped at
\* arming is one the chain had: maybe_disarm_virtual_block can only be late.
ClockNeverAhead ==
    /\ health.height <= height
    /\ cfg.armed_at <= height
    /\ disk.armed_at <= height

\* handle_broadcast advances the target "so the next Liana tx targets a
\* distinct higher block": as long as the user does not type in a target and
\* the process lives, no two transactions are given the same height, however
\* broadcasts, configuration requests and the poller interleave.
DistinctTargets ==
    \A s, t \in Txs :
        /\ s # t
        /\ held[s].mode = "by_block" /\ held[s].target # NoHeight
        /\ held[t].mode = "by_block"
        /\ held[s].epoch = held[t].epoch /\ held[s].life = held[t].life
        => held[s].target # held[t].target

\* should_disarm "bounds the window in which we serve fake heights, even if
\* the user forgets to unset the tick": with a backend that stays up, a block
\* armed DisarmAfter blocks ago does not stay so; it is disarmed, or armed anew
\* at a later height.
Overdue == cfg.enabled /\ height >= cfg.armed_at + DisarmAfter

AutoDisarms ==
    (<>[]up.indexer \/ <>[](up.core = "synced")) => (Overdue ~> ~Overdue)

\* Once a backend stays up the scheduler's clock comes back and stays: a
\* failure seen before by another thread, or a refresh that found the flag
\* set, does not keep it away.
ClockRecovers ==
    (<>[]up.indexer \/ <>[](up.core = "synced")) => <>[]clock_available(health)
=============================================================================
