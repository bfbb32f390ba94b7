--------------------------- MODULE LianaBlockProofs ---------------------------
(***************************************************************************)
(* Theorems of LianaBlock, for every number of transactions and threads,   *)
(* every set of requests and faults and every bound.                       *)
(***************************************************************************)
EXTENDS LianaBlock, TLAPS

-----------------------------------------------------------------------------
(* Types.                                                                  *)

\* What a probe of Bitcoin Core returns is a height of the model.
LEMMA CoreHeight ==
    ASSUME height \in Heights, NEW core \in {"down", "ibd", "synced"},
           NEW ch \in get_chain_status(core)
    PROVE  ch \in Heights /\ ch <= height
  BY LianaAssumption DEF get_chain_status, Heights, NoHeight

\* The snapshot of a refresh is well typed and shows one of its two heights.
LEMMA RefreshedType ==
    ASSUME NEW core \in {"down", "ibd", "synced"}, NEW a \in Heights,
           NEW b \in Heights
    PROVE  /\ Refreshed(core, a, b) \in ChainHealth
           /\ Refreshed(core, a, b).height \in {a, b}
  BY DEF Refreshed, ChainHealth

\* Disarming leaves a configuration with the same target and stamp.
LEMMA DisarmedType ==
    ASSUME NEW c \in LianaVirtualBlockConfig, NEW h \in Heights
    PROVE  /\ Disarmed(c, h) \in LianaVirtualBlockConfig
           /\ Disarmed(c, h).armed_at = c.armed_at
           /\ Disarmed(c, h).target = c.target
  BY DEF Disarmed, LianaVirtualBlockConfig

\* So do the two halves of a configuration request, up to what they assign.
LEMMA SaveConfigType ==
    ASSUME NEW c \in LianaVirtualBlockConfig, NEW r \in Request,
           NEW h \in Heights
    PROVE  /\ WithTarget(c, r) \in LianaVirtualBlockConfig
           /\ WithTarget(c, r).armed_at = c.armed_at
           /\ r.target = NoTarget => WithTarget(c, r).target = c.target
           /\ Switched(c, r, h) \in LianaVirtualBlockConfig
           /\ Switched(c, r, h).armed_at \in {c.armed_at, h}
           /\ Switched(c, r, h).target = c.target
  <1>1. r.target = NoTarget \/ r.target \in Nat
    BY LianaAssumption DEF Request
  <1>2. /\ WithTarget(c, r) \in LianaVirtualBlockConfig
        /\ WithTarget(c, r).armed_at = c.armed_at
        /\ r.target = NoTarget => WithTarget(c, r).target = c.target
    BY <1>1 DEF WithTarget, LianaVirtualBlockConfig
  <1>3. /\ Switched(c, r, h) \in LianaVirtualBlockConfig
        /\ Switched(c, r, h).armed_at \in {c.armed_at, h}
        /\ Switched(c, r, h).target = c.target
    BY DEF Switched, LianaVirtualBlockConfig
  <1> QED
    BY <1>2, <1>3

\* What a worker forgets to is well typed.
LEMMA NoDataType == NoData \in Data /\ NotHeld \in Held
  <1>1. NotHeld \in Held
    BY LianaAssumption DEF NotHeld, Held, Heights
  <1>2. NoRequest \in Request
    BY DEF NoRequest, Request
  <1>3. Default \in LianaVirtualBlockConfig
    BY LianaAssumption DEF Default, LianaVirtualBlockConfig, Heights
  <1> QED
    BY <1>1, <1>2, <1>3, LianaAssumption DEF NoData, Data, NoHeight, Heights

\* A worker that moves to a known point with well-typed data keeps the types
\* of pc and got.
LEMMA LearnType ==
    ASSUME TypeOK, NEW w \in Workers, NEW p \in PC, NEW d \in Data,
           p \in {"capture", "advance_save", "store"} => d.tx \in Txs,
           Learn(w, p, d)
    PROVE  /\ pc' \in [Workers -> PC] /\ got' \in [Workers -> Data]
           /\ \A v \in Workers : pc'[v] \in {"capture", "advance_save", "store"}
                                   => got'[v].tx \in Txs
  BY DEF TypeOK, Learn

\* The same when it keeps its data.
LEMMA GotoType ==
    ASSUME TypeOK, NEW w \in Workers,
           NEW p \in PC \ {"capture", "advance_save", "store"}, Goto(w, p)
    PROVE  /\ pc' \in [Workers -> PC] /\ got' \in [Workers -> Data]
           /\ \A v \in Workers : pc'[v] \in {"capture", "advance_save", "store"}
                                   => got'[v].tx \in Txs
  BY DEF TypeOK, Goto

\* The same when it forgets.
LEMMA FinishType ==
    ASSUME TypeOK, NEW w \in Workers, Finish(w)
    PROVE  /\ pc' \in [Workers -> PC] /\ got' \in [Workers -> Data]
           /\ \A v \in Workers : pc'[v] \in {"capture", "advance_save", "store"}
                                   => got'[v].tx \in Txs
  <1>1. "idle" \in PC
    BY DEF PC
  <1> QED
    BY <1>1, NoDataType, LearnType DEF Finish

\* Initially every variable holds a value of its kind.
LEMMA TypeInit == Init => TypeOK
  <1> SUFFICES ASSUME Init PROVE TypeOK
    OBVIOUS
  <1> USE LianaAssumption
  <1>1. height \in Heights /\ 1 \in Heights
    BY DEF Init, Heights
  <1>2. up \in Backends /\ in_flight \in BOOLEAN /\ epoch \in Nat
        /\ life \in Nat
    BY DEF Init, Backends
  <1>3. disk \in LianaVirtualBlockConfig /\ cfg \in LianaVirtualBlockConfig
    BY DEF Init, Default, LianaVirtualBlockConfig, Heights
  <1>4. health \in ChainHealth
    BY <1>1, RefreshedType DEF Init
  <1>5. held \in [Txs -> Held] /\ got \in [Workers -> Data]
    BY NoDataType DEF Init
  <1>6. /\ pc \in [Workers -> PC]
        /\ \A w \in Workers : pc[w] \in {"capture", "advance_save", "store"}
                                => got[w].tx \in Txs
    BY DEF Init, PC
  <1> QED
    BY <1>1, <1>2, <1>3, <1>4, <1>5, <1>6 DEF TypeOK

\* A refresh keeps the types.
LEMMA RefreshType ==
    ASSUME TypeOK, NEW w \in Workers, Refresh(w)
    PROVE  TypeOK'
  <1> USE DEF world, config
  <1>a. got[w] \in Data
    BY DEF TypeOK
  <1>b. health \in ChainHealth /\ health.height \in Heights
    BY DEF TypeOK, ChainHealth
  <1>c. /\ got[w].core \in {"down", "ibd", "synced"}
        /\ got[w].core_height \in Heights /\ got[w].height \in Heights
        /\ got[w].snap \in LianaVirtualBlockConfig
    BY <1>a DEF Data
  <1>1. CASE RefreshStart(w)
    <2>1. "core" \in PC
      BY DEF PC
    <2> QED
      BY <1>1, <2>1, GotoType DEF RefreshStart, TypeOK
  <1>2. CASE ProbeCore(w)
    <2>1. PICK ch \in get_chain_status(up.core) :
             Learn(w, "indexer", [got[w] EXCEPT !.core = up.core,
                                                !.core_height = ch])
      BY <1>2 DEF ProbeCore
    <2>2. up.core \in {"down", "ibd", "synced"}
      BY DEF TypeOK, Backends
    <2>3. ch \in Heights
      BY <2>2, CoreHeight DEF TypeOK
    <2>4. [got[w] EXCEPT !.core = up.core, !.core_height = ch] \in Data
      BY <1>a, <2>2, <2>3 DEF Data
    <2>5. "indexer" \in PC
      BY DEF PC
    <2> QED
      BY <1>2, <2>1, <2>4, <2>5, LearnType DEF ProbeCore, TypeOK
  <1>3. CASE ProbeIndexer(w)
    <2>1. get_block_height \in Heights
      BY LianaAssumption DEF get_block_height, TypeOK, Heights, NoHeight
    <2>2. [got[w] EXCEPT !.height = get_block_height] \in Data
      BY <1>a, <2>1 DEF Data
    <2>3. "write" \in PC
      BY DEF PC
    <2> QED
      BY <1>3, <2>2, <2>3, LearnType DEF ProbeIndexer, TypeOK
  <1>4. CASE WriteHealth(w)
    <2>1. health' \in ChainHealth
      BY <1>4, <1>c, RefreshedType DEF WriteHealth
    <2>2. "clear" \in PC
      BY DEF PC
    <2> QED
      BY <1>4, <2>1, <2>2, NoDataType, LearnType DEF WriteHealth, TypeOK
  <1>5. CASE RefreshDone(w)
    <2>1. "disarm" \in PC
      BY DEF PC
    <2> QED
      BY <1>5, <2>1, GotoType DEF RefreshDone, TypeOK
  <1>6. CASE DisarmRead(w)
    <2>1. [got[w] EXCEPT !.height = health.height] \in Data
      BY <1>a, <1>b DEF Data
    <2>2. "disarm_cfg" \in PC
      BY DEF PC
    <2> QED
      BY <1>6, <2>1, <2>2, FinishType, LearnType DEF DisarmRead, TypeOK
  <1>7. CASE DisarmConfig(w)
    <2>1. CASE should_disarm(cfg, got[w].height)
      <3>1. /\ cfg' = [cfg EXCEPT !.enabled = FALSE]
            /\ Learn(w, "disarm_save", [NoData EXCEPT !.snap = cfg'])
        BY <1>7, <2>1 DEF DisarmConfig
      <3>2. cfg' \in LianaVirtualBlockConfig
        BY <3>1 DEF TypeOK, LianaVirtualBlockConfig
      <3>3. [NoData EXCEPT !.snap = cfg'] \in Data
        BY <3>2, NoDataType DEF Data
      <3>4. "disarm_save" \in PC
        BY DEF PC
      <3> QED
        BY <1>7, <3>1, <3>2, <3>3, <3>4, LearnType DEF DisarmConfig, TypeOK
    <2>2. CASE ~should_disarm(cfg, got[w].height)
      BY <1>7, <2>2, FinishType DEF DisarmConfig, TypeOK
    <2> QED
      BY <2>1, <2>2
  <1>8. CASE DisarmSave(w)
    <2>1. disk' \in LianaVirtualBlockConfig
      BY <1>8, <1>c DEF DisarmSave, Write, TypeOK
    <2> QED
      BY <1>8, <2>1, FinishType DEF DisarmSave, TypeOK
  <1> QED
    BY <1>1, <1>2, <1>3, <1>4, <1>5, <1>6, <1>7, <1>8 DEF Refresh

\* So do a height check and a configuration request.
LEMMA CheckSaveType ==
    ASSUME TypeOK, NEW w \in Workers, Check(w) \/ Save(w)
    PROVE  TypeOK'
  <1> USE DEF world, config
  <1>a. got[w] \in Data
    BY DEF TypeOK
  <1>b. health \in ChainHealth /\ health.height \in Heights
    BY DEF TypeOK, ChainHealth
  <1>c. got[w].height \in Heights /\ got[w].req \in Request
    BY <1>a DEF Data
  <1>1. CASE CheckHeight(w)
    <2>1. "probe" \in PC
      BY DEF PC
    <2> QED
      BY <1>1, <2>1, GotoType DEF CheckHeight, TypeOK
  <1>2. CASE CheckProbe(w)
    <2>1. get_block_height \in Heights
      BY LianaAssumption DEF get_block_height, TypeOK, Heights, NoHeight
    <2>2. [got[w] EXCEPT !.height = get_block_height] \in Data
      BY <1>a, <2>1 DEF Data
    <2>3. "note" \in PC
      BY DEF PC
    <2> QED
      BY <1>2, <2>2, <2>3, LearnType DEF CheckProbe, TypeOK
  <1>3. CASE CheckNote(w)
    <2>1. health' \in ChainHealth
      BY <1>3, <1>b, <1>c DEF CheckNote, ChainHealth, note_indexer_failure,
                              note_indexer_success
    <2> QED
      BY <1>3, <2>1, FinishType DEF CheckNote, TypeOK
  <1>4. ASSUME NEW r \in Requests, SaveConfigRead(w, r)
        PROVE  TypeOK'
    <2>1. [NoData EXCEPT !.req = r, !.height = health.height] \in Data
      BY <1>4, <1>b, NoDataType, LianaAssumption DEF Data
    <2>2. "config" \in PC
      BY DEF PC
    <2> QED
      BY <1>4, <2>1, <2>2, LearnType DEF SaveConfigRead, TypeOK
  <1>5. CASE SaveConfig(w)
    <2> DEFINE r == got[w].req
               h == got[w].height
               c == WithTarget(cfg, r)
    <2>1. c \in LianaVirtualBlockConfig
      BY <1>c, SaveConfigType DEF TypeOK
    <2>2. Switched(c, r, h) \in LianaVirtualBlockConfig
      BY <2>1, <1>c, SaveConfigType
    <2>3. /\ cfg' \in {c, Switched(c, r, h)}
          /\ disk' \in {disk, cfg'}
          /\ epoch' \in {epoch, epoch + 1}
      BY <1>5 DEF SaveConfig, Write
    <2>4. epoch' \in Nat
      BY <2>3 DEF TypeOK
    <2> QED
      BY <1>5, <2>1, <2>2, <2>3, <2>4, FinishType DEF SaveConfig, TypeOK
  <1> QED
    BY <1>1, <1>2, <1>3, <1>4, <1>5 DEF Check, Save

\* A row is well typed.
LEMMA RowType ==
    ASSUME TypeOK, NEW m \in {"manual", "by_block"}, NEW n \in Nat
    PROVE  Row(m, n) \in Held
  BY DEF Row, Held, TypeOK, LianaVirtualBlockConfig

\* A broadcast keeps the types.
LEMMA IngestType ==
    ASSUME TypeOK, NEW w \in Workers, Ingest(w)
    PROVE  TypeOK'
  <1> USE DEF world, config
  <1>a. got[w] \in Data
    BY DEF TypeOK
  <1>b. cfg \in LianaVirtualBlockConfig /\ cfg.target \in Nat
    BY DEF TypeOK, LianaVirtualBlockConfig
  <1>c. got[w].snap \in LianaVirtualBlockConfig /\ got[w].row \in Held
    BY <1>a DEF Data
  <1>d. {"capture", "advance_save", "store"} \subseteq PC
    BY DEF PC
  <1>1. ASSUME NEW t \in Txs, IngestPlan(w, t)
        PROVE  TypeOK'
    <2>1. [NoData EXCEPT !.tx = t] \in Data
          /\ [NoData EXCEPT !.tx = t].tx = t
      BY NoDataType DEF Data
    <2>2. [NoData EXCEPT !.tx = t, !.row = Row("manual", 0)] \in Data
          /\ [NoData EXCEPT !.tx = t, !.row = Row("manual", 0)].tx = t
      BY NoDataType, RowType DEF Data
    <2> QED
      BY <1>1, <1>d, <2>1, <2>2, LearnType DEF IngestPlan, TypeOK
  <1>2. CASE Capture(w)
    <2>a. got[w].tx \in Txs
      BY <1>2 DEF Capture, TypeOK
    <2>1. CASE cfg.enabled
      <3>1. /\ cfg' = [cfg EXCEPT !.target = @ + 2]
            /\ Learn(w, "advance_save",
                     [got[w] EXCEPT !.row = Row("by_block", cfg.target),
                                    !.snap = cfg'])
        BY <1>2, <2>1 DEF Capture
      <3>2. cfg' \in LianaVirtualBlockConfig
        BY <3>1, <1>b DEF LianaVirtualBlockConfig
      <3>3. Row("by_block", cfg.target) \in Held
        BY <1>b, RowType
      <3>4. /\ [got[w] EXCEPT !.row = Row("by_block", cfg.target),
                              !.snap = cfg'] \in Data
            /\ [got[w] EXCEPT !.row = Row("by_block", cfg.target),
                              !.snap = cfg'].tx = got[w].tx
        BY <1>a, <3>2, <3>3 DEF Data
      <3> QED
        BY <1>2, <1>d, <2>a, <3>1, <3>2, <3>4, LearnType DEF Capture, TypeOK
    <2>2. CASE ~cfg.enabled
      <3>1. Row("by_block", NoHeight) \in Held
        BY RowType DEF NoHeight
      <3>2. /\ [got[w] EXCEPT !.row = Row("by_block", NoHeight)] \in Data
            /\ [got[w] EXCEPT !.row = Row("by_block", NoHeight)].tx
                 = got[w].tx
        BY <1>a, <3>1 DEF Data
      <3> QED
        BY <1>2, <1>d, <2>a, <2>2, <3>2, LearnType DEF Capture, TypeOK
    <2> QED
      BY <2>1, <2>2
  <1>3. CASE AdvanceSave(w)
    <2>a. got[w].tx \in Txs
      BY <1>3 DEF AdvanceSave, TypeOK
    <2>1. disk' \in LianaVirtualBlockConfig
      BY <1>3, <1>c DEF AdvanceSave, Write, TypeOK
    <2>2. /\ [got[w] EXCEPT !.snap = Default] \in Data
          /\ [got[w] EXCEPT !.snap = Default].tx = got[w].tx
      BY <1>a, NoDataType DEF Data, NoData
    <2> QED
      BY <1>3, <1>d, <2>a, <2>1, <2>2, LearnType DEF AdvanceSave, TypeOK
  <1>4. CASE Store(w)
    <2>1. held' \in [Txs -> Held]
      BY <1>4, <1>c DEF Store, TypeOK, Held, Lost, NotHeld
    <2> QED
      BY <1>4, <2>1, FinishType DEF Store, TypeOK
  <1> QED
    BY <1>1, <1>2, <1>3, <1>4 DEF Ingest

\* What a start leaves in memory and on disk.
LEMMA StartType ==
    ASSUME TypeOK, Start(disk, height, up)
    PROVE  /\ health' \in ChainHealth /\ health'.height <= height
           /\ cfg' \in LianaVirtualBlockConfig
           /\ disk' \in LianaVirtualBlockConfig
           /\ cfg'.armed_at = disk.armed_at /\ disk'.armed_at = disk.armed_at
  <1>a. /\ up.core \in {"down", "ibd", "synced"} /\ height \in Heights
        /\ disk \in LianaVirtualBlockConfig
    BY DEF TypeOK, Backends
  <1> DEFINE ih == IF up.indexer THEN height ELSE NoHeight
  <1>b. ih \in Heights /\ ih <= height
    BY <1>a, LianaAssumption DEF Heights, NoHeight
  <1>1. PICK ch \in get_chain_status(up.core) :
           /\ health' = Refreshed(up.core, ch, ih)
           /\ cfg' = Disarmed(disk, Refreshed(up.core, ch, ih).height)
           /\ disk' = cfg' \/ ("disk" \in Faults /\ disk' = disk)
    BY DEF Start
  <1>2. ch \in Heights /\ ch <= height
    BY <1>a, CoreHeight
  <1>3. /\ health' \in ChainHealth
        /\ Refreshed(up.core, ch, ih).height \in {ch, ih}
    BY <1>a, <1>b, <1>1, <1>2, RefreshedType
  <1>4. health'.height <= height
    BY <1>1, <1>2, <1>3, <1>b
  <1>5. Refreshed(up.core, ch, ih).height \in Heights
    BY <1>2, <1>3, <1>b
  <1>6. cfg' \in LianaVirtualBlockConfig /\ cfg'.armed_at = disk.armed_at
    BY <1>a, <1>1, <1>5, DisarmedType
  <1> QED
    BY <1>a, <1>1, <1>3, <1>4, <1>6

\* The environment keeps the types.
LEMMA EnvironmentType ==
    ASSUME TypeOK, Block \/ BackendsChange \/ Restart
    PROVE  TypeOK'
  <1>1. CASE Block
    <2>1. height' \in Heights
      BY <1>1, LianaAssumption DEF Block, TypeOK, Heights
    <2> QED
      BY <1>1, <2>1 DEF Block, TypeOK
  <1>2. CASE BackendsChange
    <2>1. up' \in Backends
      BY <1>2 DEF BackendsChange, TypeOK, Backends
    <2> QED
      BY <1>2, <2>1 DEF BackendsChange, TypeOK
  <1>3. CASE Restart
    <2>1. /\ health' \in ChainHealth
          /\ cfg' \in LianaVirtualBlockConfig
          /\ disk' \in LianaVirtualBlockConfig
      BY <1>3, StartType DEF Restart
    <2>2. /\ pc' \in [Workers -> PC] /\ got' \in [Workers -> Data]
          /\ \A w \in Workers : pc'[w] = "idle"
      BY <1>3, NoDataType DEF Restart, PC
    <2>3. in_flight' \in BOOLEAN
      BY <1>3 DEF Restart
    <2>4. life' \in Nat
      <3>1. life \in Nat /\ life' = life + 1
        BY <1>3 DEF Restart, TypeOK
      <3> QED
        BY <3>1
    <2> QED
      BY <1>3, <2>1, <2>2, <2>3, <2>4 DEF Restart, TypeOK
  <1> QED
    BY <1>1, <1>2, <1>3

\* Every step keeps the types.
LEMMA TypeNext == TypeOK /\ [Next]_vars => TypeOK'
  <1> SUFFICES ASSUME TypeOK, [Next]_vars PROVE TypeOK'
    OBVIOUS
  <1>1. ASSUME NEW w \in Workers, Step(w) PROVE TypeOK'
    BY <1>1, RefreshType, CheckSaveType, IngestType DEF Step
  <1>2. CASE UNCHANGED vars
    BY <1>2 DEF vars, TypeOK
  <1> QED
    BY <1>1, <1>2, EnvironmentType DEF Next

\* Every reachable state of every instance is well typed, and a thread that
\* is storing a transaction has one.
THEOREM TypeCorrect == Spec => []TypeOK
  BY TypeInit, TypeNext, PTL DEF Spec

-----------------------------------------------------------------------------
(* The clock never runs ahead.                                             *)

\* ClockNeverAhead with what the threads have read and not yet written.
ClockInv ==
    /\ ClockNeverAhead
    /\ \A w \in Workers : /\ got[w].core_height <= height
                          /\ got[w].height <= height
                          /\ got[w].snap.armed_at <= height

\* A step that leaves the chain alone keeps ClockInv when everything it
\* writes is bounded by the height.
LEMMA ClockStep ==
    ASSUME TypeOK, ClockInv, height' = height, NEW w \in Workers,
           NEW p, NEW d \in Data,
           \/ Learn(w, p, d) /\ d.core_height <= height
                /\ d.height <= height /\ d.snap.armed_at <= height
           \/ UNCHANGED got,
           health'.height <= height, cfg'.armed_at <= height,
           disk'.armed_at <= height
    PROVE  ClockInv'
  BY DEF ClockInv, ClockNeverAhead, Learn, TypeOK

\* A worker that forgets, likewise.
LEMMA ClockFinish ==
    ASSUME TypeOK, ClockInv, height' = height, NEW w \in Workers, Finish(w),
           health'.height <= height, cfg'.armed_at <= height,
           disk'.armed_at <= height
    PROVE  ClockInv'
  <1>1. /\ NoData.core_height <= height /\ NoData.height <= height
        /\ NoData.snap.armed_at <= height
    BY LianaAssumption DEF NoData, NoHeight, Default, TypeOK, Heights
  <1> QED
    BY <1>1, NoDataType, ClockStep DEF Finish

\* A refresh writes heights it was told.
LEMMA ClockRefresh ==
    ASSUME TypeOK, ClockInv, NEW w \in Workers, Refresh(w)
    PROVE  ClockInv'
  <1> USE DEF world, config
  <1>a. got[w] \in Data
    BY DEF TypeOK
  <1>b. /\ height \in Heights /\ height \in Nat
        /\ health.height \in Heights /\ health.height <= height
        /\ cfg.armed_at <= height /\ disk.armed_at <= height
        /\ cfg \in LianaVirtualBlockConfig
    BY LianaAssumption
       DEF TypeOK, ClockInv, ClockNeverAhead, ChainHealth, Heights
  <1>c. /\ got[w].core \in {"down", "ibd", "synced"}
        /\ got[w].core_height \in Heights /\ got[w].core_height <= height
        /\ got[w].height \in Heights /\ got[w].height <= height
        /\ got[w].snap.armed_at <= height
    BY <1>a DEF Data, ClockInv
  <1>d. /\ NoData \in Data /\ NoData.core_height <= height
        /\ NoData.height <= height /\ NoData.snap.armed_at <= height
    BY <1>b, NoDataType DEF NoData, NoHeight, Default
  <1>1. CASE RefreshStart(w) \/ RefreshDone(w)
    BY <1>1, <1>a, <1>b, ClockStep DEF RefreshStart, RefreshDone, Goto
  <1>2. CASE ProbeCore(w)
    <2>1. PICK ch \in get_chain_status(up.core) :
             Learn(w, "indexer", [got[w] EXCEPT !.core = up.core,
                                                !.core_height = ch])
      BY <1>2 DEF ProbeCore
    <2>2. up.core \in {"down", "ibd", "synced"}
      BY DEF TypeOK, Backends
    <2>3. ch \in Heights /\ ch <= height
      BY <1>b, <2>2, CoreHeight
    <2> DEFINE d == [got[w] EXCEPT !.core = up.core, !.core_height = ch]
    <2>4. /\ d \in Data /\ d.core_height <= height /\ d.height <= height
          /\ d.snap.armed_at <= height
      BY <1>a, <1>c, <2>2, <2>3 DEF Data
    <2>5. Learn(w, "indexer", d)
      BY <2>1
    <2> HIDE DEF d
    <2> QED
      BY <1>2, <1>b, <2>4, <2>5, ClockStep DEF ProbeCore
  <1>3. CASE ProbeIndexer(w)
    <2> DEFINE d == [got[w] EXCEPT !.height = get_block_height]
    <2>1. get_block_height \in Heights /\ get_block_height <= height
      BY <1>b, LianaAssumption DEF get_block_height, Heights, NoHeight
    <2>2. /\ d \in Data /\ d.core_height <= height /\ d.height <= height
          /\ d.snap.armed_at <= height
      BY <1>a, <1>c, <2>1 DEF Data
    <2>3. Learn(w, "write", d)
      BY <1>3 DEF ProbeIndexer
    <2> HIDE DEF d
    <2> QED
      BY <1>3, <1>b, <2>2, <2>3, ClockStep DEF ProbeIndexer
  <1>4. CASE WriteHealth(w)
    <2>1. health'.height \in {got[w].core_height, got[w].height}
      BY <1>4, <1>c, RefreshedType DEF WriteHealth
    <2>2. health'.height <= height
      BY <1>c, <2>1
    <2> QED
      BY <1>4, <1>b, <1>d, <2>2, ClockStep DEF WriteHealth
  <1>5. CASE DisarmRead(w)
    <2> DEFINE d == [got[w] EXCEPT !.height = health.height]
    <2>1. /\ d \in Data /\ d.core_height <= height /\ d.height <= height
          /\ d.snap.armed_at <= height
      BY <1>a, <1>b, <1>c DEF Data
    <2>2. Finish(w) \/ Learn(w, "disarm_cfg", d)
      BY <1>5 DEF DisarmRead
    <2> HIDE DEF d
    <2> QED
      BY <1>5, <1>b, <2>1, <2>2, ClockStep, ClockFinish DEF DisarmRead
  <1>6. CASE DisarmConfig(w)
    <2> DEFINE d == [NoData EXCEPT !.snap = cfg']
    <2>1. /\ cfg' \in LianaVirtualBlockConfig
          /\ cfg'.armed_at = cfg.armed_at
      BY <1>6, <1>b DEF DisarmConfig, LianaVirtualBlockConfig
    <2>2. /\ d \in Data /\ d.core_height <= height /\ d.height <= height
          /\ d.snap.armed_at <= height
      BY <1>b, <1>d, <2>1 DEF Data
    <2>3. Finish(w) \/ Learn(w, "disarm_save", d)
      BY <1>6 DEF DisarmConfig
    <2> HIDE DEF d
    <2> QED
      BY <1>6, <1>b, <2>1, <2>2, <2>3, ClockStep, ClockFinish
         DEF DisarmConfig
  <1>7. CASE DisarmSave(w)
    <2>1. disk'.armed_at <= height
      BY <1>7, <1>b, <1>c DEF DisarmSave, Write
    <2> QED
      BY <1>7, <1>b, <2>1, ClockFinish DEF DisarmSave
  <1> QED
    BY <1>1, <1>2, <1>3, <1>4, <1>5, <1>6, <1>7 DEF Refresh

\* A height check and a configuration request, likewise.
LEMMA ClockCheckSave ==
    ASSUME TypeOK, ClockInv, NEW w \in Workers, Check(w) \/ Save(w)
    PROVE  ClockInv'
  <1> USE DEF world, config
  <1>a. got[w] \in Data
    BY DEF TypeOK
  <1>b. /\ height \in Heights /\ height \in Nat
        /\ health \in ChainHealth
        /\ health.height \in Heights /\ health.height <= height
        /\ cfg.armed_at <= height /\ disk.armed_at <= height
        /\ cfg \in LianaVirtualBlockConfig
    BY LianaAssumption
       DEF TypeOK, ClockInv, ClockNeverAhead, ChainHealth, Heights
  <1>c. /\ got[w].core_height <= height
        /\ got[w].height \in Heights /\ got[w].height <= height
        /\ got[w].snap.armed_at <= height /\ got[w].req \in Request
    BY <1>a DEF Data, ClockInv
  <1>d. /\ NoData \in Data /\ NoData.core_height <= height
        /\ NoData.height <= height /\ NoData.snap.armed_at <= height
    BY <1>b, NoDataType DEF NoData, NoHeight, Default
  <1>1. CASE CheckHeight(w)
    BY <1>1, <1>a, <1>b, ClockStep DEF CheckHeight, Goto
  <1>2. CASE CheckProbe(w)
    <2> DEFINE d == [got[w] EXCEPT !.height = get_block_height]
    <2>1. get_block_height \in Heights /\ get_block_height <= height
      BY <1>b, LianaAssumption DEF get_block_height, Heights, NoHeight
    <2>2. /\ d \in Data /\ d.core_height <= height /\ d.height <= height
          /\ d.snap.armed_at <= height
      BY <1>a, <1>c, <2>1 DEF Data
    <2>3. Learn(w, "note", d)
      BY <1>2 DEF CheckProbe
    <2> HIDE DEF d
    <2> QED
      BY <1>2, <1>b, <2>2, <2>3, ClockStep DEF CheckProbe
  <1>3. CASE CheckNote(w)
    <2>1. health'.height \in {health.height, got[w].height}
      BY <1>3, <1>b DEF CheckNote, ChainHealth, note_indexer_failure,
                        note_indexer_success
    <2>2. health'.height <= height
      BY <2>1, <1>b, <1>c
    <2> QED
      BY <1>3, <1>b, <2>2, ClockFinish DEF CheckNote
  <1>4. ASSUME NEW r \in Requests, SaveConfigRead(w, r)
        PROVE  ClockInv'
    <2> DEFINE d == [NoData EXCEPT !.req = r, !.height = health.height]
    <2>1. /\ d \in Data /\ d.core_height <= height /\ d.height <= height
          /\ d.snap.armed_at <= height
      BY <1>b, <1>d, LianaAssumption DEF Data
    <2>2. Learn(w, "config", d)
      BY <1>4 DEF SaveConfigRead
    <2> HIDE DEF d
    <2> QED
      BY <1>4, <1>b, <2>1, <2>2, ClockStep DEF SaveConfigRead
  <1>5. CASE SaveConfig(w)
    <2> DEFINE r == got[w].req
               h == got[w].height
               c == WithTarget(cfg, r)
    <2>1. c \in LianaVirtualBlockConfig /\ c.armed_at = cfg.armed_at
      BY <1>b, <1>c, SaveConfigType
    <2>2. Switched(c, r, h).armed_at \in {c.armed_at, h}
      BY <2>1, <1>c, SaveConfigType
    <2>3. cfg' \in {c, Switched(c, r, h)} /\ disk' \in {disk, cfg'}
      BY <1>5 DEF SaveConfig, Write
    <2>4. cfg'.armed_at <= height
      BY <2>1, <2>2, <2>3, <1>b, <1>c
    <2>5. disk'.armed_at <= height
      BY <2>3, <2>4, <1>b
    <2> QED
      BY <1>5, <1>b, <2>4, <2>5, ClockFinish DEF SaveConfig
  <1> QED
    BY <1>1, <1>2, <1>3, <1>4, <1>5 DEF Check, Save

\* A broadcast writes no height but the stamp it cloned.
LEMMA ClockIngest ==
    ASSUME TypeOK, ClockInv, NEW w \in Workers, Ingest(w)
    PROVE  ClockInv'
  <1> USE DEF world, config
  <1>b. /\ height \in Nat /\ health.height <= height
        /\ cfg.armed_at <= height /\ disk.armed_at <= height
        /\ cfg \in LianaVirtualBlockConfig /\ got[w] \in Data
    BY LianaAssumption DEF TypeOK, ClockInv, ClockNeverAhead, Heights
  <1>c. /\ got[w].core_height <= height /\ got[w].height <= height
        /\ got[w].snap.armed_at <= height
    BY DEF ClockInv
  <1>d. /\ NoData \in Data /\ NoData.core_height <= height
        /\ NoData.height <= height /\ NoData.snap.armed_at <= height
    BY <1>b, NoDataType DEF NoData, NoHeight, Default
  <1>1. ASSUME NEW t \in Txs, IngestPlan(w, t)
        PROVE  ClockInv'
    <2> DEFINE d == [NoData EXCEPT !.tx = t]
               e == [NoData EXCEPT !.tx = t, !.row = Row("manual", 0)]
    <2>1. /\ d \in Data /\ d.core_height <= height /\ d.height <= height
          /\ d.snap.armed_at <= height
      BY <1>d DEF Data
    <2>2. /\ e \in Data /\ e.core_height <= height /\ e.height <= height
          /\ e.snap.armed_at <= height
      BY <1>d, RowType DEF Data
    <2>3. Learn(w, "capture", d) \/ Learn(w, "store", e)
      BY <1>1 DEF IngestPlan
    <2> HIDE DEF d, e
    <2> QED
      BY <1>1, <1>b, <2>1, <2>2, <2>3, ClockStep DEF IngestPlan
  <1>2. CASE Capture(w)
    <2> DEFINE d == [got[w] EXCEPT !.row = Row("by_block", cfg.target),
                                   !.snap = cfg']
               e == [got[w] EXCEPT !.row = Row("by_block", NoHeight)]
    <2>1. /\ cfg' \in LianaVirtualBlockConfig
          /\ cfg'.armed_at = cfg.armed_at
      BY <1>2, <1>b DEF Capture, LianaVirtualBlockConfig
    <2>2. /\ Row("by_block", cfg.target) \in Held
          /\ Row("by_block", NoHeight) \in Held
      BY <1>b, RowType DEF LianaVirtualBlockConfig, NoHeight
    <2>3. /\ d \in Data /\ d.core_height <= height /\ d.height <= height
          /\ d.snap.armed_at <= height
      BY <1>b, <1>c, <2>1, <2>2 DEF Data
    <2>4. /\ e \in Data /\ e.core_height <= height /\ e.height <= height
          /\ e.snap.armed_at <= height
      BY <1>b, <1>c, <2>2 DEF Data
    <2>5. Learn(w, "advance_save", d) \/ Learn(w, "store", e)
      BY <1>2 DEF Capture
    <2> HIDE DEF d, e
    <2> QED
      BY <1>2, <1>b, <2>1, <2>3, <2>4, <2>5, ClockStep DEF Capture
  <1>3. CASE AdvanceSave(w)
    <2> DEFINE d == [got[w] EXCEPT !.snap = Default]
    <2>a. Default \in LianaVirtualBlockConfig /\ Default.armed_at <= height
      BY <1>b, LianaAssumption DEF Default, LianaVirtualBlockConfig, Heights
    <2>1. /\ d \in Data /\ d.core_height <= height /\ d.height <= height
          /\ d.snap.armed_at <= height
      BY <1>b, <1>c, <2>a DEF Data
    <2>2. disk'.armed_at <= height
      BY <1>3, <1>b, <1>c DEF AdvanceSave, Write
    <2>3. Learn(w, "store", d)
      BY <1>3 DEF AdvanceSave
    <2> HIDE DEF d
    <2> QED
      BY <1>3, <1>b, <2>1, <2>2, <2>3, ClockStep DEF AdvanceSave
  <1>4. CASE Store(w)
    BY <1>4, <1>b, ClockFinish DEF Store
  <1> QED
    BY <1>1, <1>2, <1>3, <1>4 DEF Ingest

\* The chain only grows, and a start reads it afresh.
LEMMA ClockEnvironment ==
    ASSUME TypeOK, ClockInv, Block \/ BackendsChange \/ Restart
    PROVE  ClockInv'
  <1>a. /\ height \in Nat
        /\ \A w \in Workers : got[w] \in Data
    BY LianaAssumption DEF TypeOK, Heights
  <1>b. /\ health.height \in Nat /\ cfg.armed_at \in Nat
        /\ disk.armed_at \in Nat
    BY LianaAssumption
       DEF TypeOK, ChainHealth, LianaVirtualBlockConfig, Heights
  <1>c. \A w \in Workers : /\ got[w].core_height \in Nat
                           /\ got[w].height \in Nat
                           /\ got[w].snap.armed_at \in Nat
    BY <1>a, LianaAssumption DEF Data, LianaVirtualBlockConfig, Heights
  <1>1. CASE Block
    BY <1>1, <1>a, <1>b, <1>c DEF Block, ClockInv, ClockNeverAhead
  <1>2. CASE BackendsChange
    BY <1>2 DEF BackendsChange, ClockInv, ClockNeverAhead
  <1>3. CASE Restart
    <2>1. /\ health'.height <= height /\ height' = height
          /\ cfg'.armed_at <= height /\ disk'.armed_at <= height
      BY <1>3, StartType DEF Restart, ClockInv, ClockNeverAhead
    <2>2. /\ NoData.core_height <= height /\ NoData.height <= height
          /\ NoData.snap.armed_at <= height
      BY <1>a DEF NoData, NoHeight, Default
    <2>3. \A w \in Workers : got'[w] = NoData
      BY <1>3 DEF Restart
    <2> QED
      BY <2>1, <2>2, <2>3 DEF ClockInv, ClockNeverAhead
  <1> QED
    BY <1>1, <1>2, <1>3

\* No thread is ever told, and no configuration ever stamped with, a height
\* the chain has not reached, whichever backend answered and in whatever
\* order the answers are written.
THEOREM ClockSafe == Spec => []ClockNeverAhead
  <1>1. Init => ClockInv
    BY LianaAssumption DEF Init, ClockInv, ClockNeverAhead, NoData, NoHeight,
                           Default, Refreshed
  <1>2. TypeOK /\ ClockInv /\ [Next]_vars => ClockInv'
    <2> SUFFICES ASSUME TypeOK, ClockInv, [Next]_vars PROVE ClockInv'
      OBVIOUS
    <2>1. ASSUME NEW w \in Workers, Step(w) PROVE ClockInv'
      BY <2>1, ClockRefresh, ClockCheckSave, ClockIngest DEF Step
    <2>2. CASE UNCHANGED vars
      BY <2>2 DEF vars, ClockInv, ClockNeverAhead
    <2> QED
      BY <2>1, <2>2, ClockEnvironment DEF Next
  <1>3. ClockInv => ClockNeverAhead
    BY DEF ClockInv
  <1> QED
    BY <1>1, <1>2, <1>3, TypeCorrect, PTL DEF Spec

-----------------------------------------------------------------------------
(* Distinct targets.                                                       *)

\* Two rows given the same height were not given it in the same epoch of the
\* same process.
Apart(r, s) ==
    r.mode = "by_block" /\ r.target # NoHeight /\ s.mode = "by_block"
        /\ r.epoch = s.epoch /\ r.life = s.life
    => r.target # s.target

\* Row r was given its height before now: in the present epoch and process
\* that is a height below the next one.
Given(r) ==
    /\ r.epoch <= epoch /\ r.life <= life
    /\ r.mode = "by_block" /\ r.target # NoHeight
         /\ r.epoch = epoch /\ r.life = life
       => r.target < cfg.target

\* DistinctTargets, with the rows that threads have still to store.
TargetInv ==
    /\ \A t \in Txs : Given(held[t])
    /\ \A w \in Workers : Given(got[w].row)
    /\ \A s, t \in Txs : s # t => Apart(held[s], held[t])
    /\ \A w \in Workers, t \in Txs : /\ Apart(got[w].row, held[t])
                                     /\ Apart(held[t], got[w].row)
    /\ \A v, w \in Workers : v # w => Apart(got[v].row, got[w].row)

\* A row that holds no height is apart from every other and always in order.
LEMMA NoRowApart ==
    ASSUME TypeOK, NEW r \in Held
    PROVE  Apart(NotHeld, r) /\ Apart(r, NotHeld) /\ Given(NotHeld)
  BY DEF Apart, Given, NotHeld, TypeOK

\* Nor does a transaction that was never stored.
LEMMA LostApart ==
    ASSUME TypeOK, NEW r
    PROVE  Apart(Lost, r) /\ Apart(r, Lost) /\ Given(Lost)
  BY DEF Apart, Given, Lost, NotHeld, TypeOK

\* A step in which no thread takes a row but w, which takes one that is apart
\* from all others or the one it has.
LEMMA TargetStep ==
    ASSUME TypeOK, TypeOK', TargetInv, NEW w \in Workers,
           UNCHANGED held, epoch <= epoch', life' = life,
           epoch' = epoch => cfg.target <= cfg'.target,
           \A v \in Workers : v # w => got'[v].row = got[v].row,
           Given(got[w].row)',
           \A t \in Txs : /\ Apart(got'[w].row, held[t])
                          /\ Apart(held[t], got'[w].row),
           \A v \in Workers : v # w => /\ Apart(got'[w].row, got[v].row)
                                       /\ Apart(got[v].row, got'[w].row)
    PROVE  TargetInv'
  <1>a. /\ epoch \in Nat /\ epoch' \in Nat /\ life \in Nat
        /\ cfg.target \in Nat /\ cfg'.target \in Nat
    BY DEF TypeOK, LianaVirtualBlockConfig
  <1>b. \A x \in Held : /\ x.epoch \in Nat /\ x.life \in Nat
                        /\ x.target \in Nat
    BY DEF Held
  <1>c. /\ \A t \in Txs : held[t] \in Held
        /\ \A v \in Workers : got[v].row \in Held
    BY DEF TypeOK, Data
  <1>2. \A t \in Txs : Given(held[t])'
    <2> SUFFICES ASSUME NEW t \in Txs PROVE Given(held[t])'
      OBVIOUS
    <2>1. held[t] \in Held /\ Given(held[t]) /\ held'[t] = held[t]
      BY <1>c DEF TargetInv
    <2> QED
      BY <2>1, <1>a, <1>b DEF Given
  <1>3. \A v \in Workers : Given(got[v].row)'
    <2> SUFFICES ASSUME NEW v \in Workers PROVE Given(got[v].row)'
      OBVIOUS
    <2>1. CASE v = w
      BY <2>1
    <2>2. CASE v # w
      <3>1. got'[v].row = got[v].row /\ Given(got[v].row)
            /\ got[v].row \in Held
        BY <2>2, <1>c DEF TargetInv
      <3> QED
        BY <3>1, <1>a, <1>b DEF Given
    <2> QED
      BY <2>1, <2>2
  <1>4. \A s, t \in Txs : s # t => Apart(held[s], held[t])'
    BY DEF TargetInv, Apart
  <1>5. \A v \in Workers, t \in Txs : /\ Apart(got[v].row, held[t])'
                                      /\ Apart(held[t], got[v].row)'
    BY DEF TargetInv, Apart
  <1>6. \A u, v \in Workers : u # v => Apart(got[u].row, got[v].row)'
    BY DEF TargetInv, Apart
  <1> QED
    BY <1>2, <1>3, <1>4, <1>5, <1>6 DEF TargetInv

\* A step in which no thread takes a row, though w may give up the one it has.
LEMMA TargetQuiet ==
    ASSUME TypeOK, TypeOK', TargetInv, NEW w \in Workers,
           UNCHANGED held, epoch <= epoch', life' = life,
           epoch' = epoch => cfg.target <= cfg'.target,
           \A v \in Workers : v # w => got'[v].row = got[v].row,
           got'[w].row \in {got[w].row, NotHeld}
    PROVE  TargetInv'
  <1>a. /\ epoch \in Nat /\ epoch' \in Nat /\ life \in Nat
        /\ cfg.target \in Nat /\ cfg'.target \in Nat
    BY DEF TypeOK, LianaVirtualBlockConfig
  <1>b. \A x \in Held : /\ x.epoch \in Nat /\ x.life \in Nat
                        /\ x.target \in Nat
    BY DEF Held
  <1>c. /\ \A t \in Txs : held[t] \in Held
        /\ \A v \in Workers : got[v].row \in Held
    BY DEF TypeOK, Data
  <1>1. CASE got'[w].row = got[w].row
    <2>1. Given(got[w].row)'
      <3>1. Given(got[w].row) /\ got[w].row \in Held
        BY <1>c DEF TargetInv
      <3> QED
        BY <3>1, <1>1, <1>a, <1>b DEF Given
    <2>2. /\ \A t \in Txs : /\ Apart(got'[w].row, held[t])
                            /\ Apart(held[t], got'[w].row)
          /\ \A v \in Workers : v # w => /\ Apart(got'[w].row, got[v].row)
                                         /\ Apart(got[v].row, got'[w].row)
      BY <1>1 DEF TargetInv
    <2>3. /\ \A t \in Txs : Given(held[t])'
          /\ \A v \in Workers : Given(got[v].row)'
      <3>1. ASSUME NEW t \in Txs PROVE Given(held[t])'
        <4>1. held[t] \in Held /\ Given(held[t]) /\ held'[t] = held[t]
          BY <1>c DEF TargetInv
        <4> QED
          BY <4>1, <1>a, <1>b DEF Given
      <3>2. ASSUME NEW v \in Workers PROVE Given(got[v].row)'
        <4>1. got'[v].row = got[v].row /\ Given(got[v].row)
              /\ got[v].row \in Held
          BY <1>1, <1>c DEF TargetInv
        <4> QED
          BY <4>1, <1>a, <1>b DEF Given
      <3> QED
        BY <3>1, <3>2
    <2> QED
      BY <1>1, <2>2, <2>3 DEF TargetInv, Apart
  <1>2. CASE got'[w].row = NotHeld
    <2>1. /\ \A t \in Txs : Apart(NotHeld, held[t]) /\ Apart(held[t], NotHeld)
          /\ \A v \in Workers : /\ Apart(NotHeld, got[v].row)
                                /\ Apart(got[v].row, NotHeld)
      BY <1>c, NoRowApart
    <2>2. Given(got[w].row)'
      BY <1>2 DEF Given, NotHeld, TypeOK
    <2> QED
      BY <1>2, <2>1, <2>2, TargetStep
  <1> QED
    BY <1>1, <1>2

\* A refresh takes no row and leaves the target alone.
LEMMA TargetRefresh ==
    ASSUME TypeOK, TypeOK', TargetInv, NEW w \in Workers, Refresh(w)
    PROVE  TargetInv'
  <1> USE DEF world, config
  <1>a. /\ cfg \in LianaVirtualBlockConfig /\ cfg.target \in Nat
        /\ epoch \in Nat /\ got \in [Workers -> Data]
    BY DEF TypeOK, LianaVirtualBlockConfig
  <1>b. NoData.row = NotHeld
    BY DEF NoData
  <1>1. /\ \A v \in Workers : v # w => got'[v].row = got[v].row
        /\ got'[w].row \in {got[w].row, NotHeld}
    <2>1. CASE RefreshStart(w) \/ ProbeCore(w) \/ ProbeIndexer(w)
      BY <2>1, <1>a
         DEF RefreshStart, ProbeCore, ProbeIndexer, Goto, Learn, Data
    <2>2. CASE WriteHealth(w) \/ RefreshDone(w)
      BY <2>2, <1>a, <1>b DEF WriteHealth, RefreshDone, Goto, Learn
    <2>3. CASE DisarmRead(w)
      BY <2>3, <1>a, <1>b DEF DisarmRead, Finish, Learn, Data
    <2>4. CASE DisarmConfig(w) \/ DisarmSave(w)
      BY <2>4, <1>a, <1>b
         DEF DisarmConfig, DisarmSave, Finish, Learn, NoData
    <2> QED
      BY <2>1, <2>2, <2>3, <2>4 DEF Refresh
  <1>2. UNCHANGED <<held, epoch, life>> /\ cfg'.target = cfg.target
    <2>1. CASE DisarmConfig(w)
      BY <2>1, <1>a DEF DisarmConfig, LianaVirtualBlockConfig
    <2>2. CASE ~DisarmConfig(w)
      BY <2>2 DEF Refresh, RefreshStart, ProbeCore, ProbeIndexer, WriteHealth,
                  RefreshDone, DisarmRead, DisarmSave
    <2> QED
      BY <2>1, <2>2
  <1>3. epoch <= epoch' /\ cfg.target <= cfg'.target
    BY <1>a, <1>2
  <1> QED
    BY <1>1, <1>2, <1>3, TargetQuiet

\* A height check takes no row either; a configuration request that sets the
\* target starts a new epoch.
LEMMA TargetCheckSave ==
    ASSUME TypeOK, TypeOK', TargetInv, NEW w \in Workers, Check(w) \/ Save(w)
    PROVE  TargetInv'
  <1> USE DEF world, config
  <1>a. /\ cfg \in LianaVirtualBlockConfig /\ cfg.target \in Nat
        /\ epoch \in Nat /\ got \in [Workers -> Data]
        /\ got[w].req \in Request /\ got[w].height \in Heights
    BY DEF TypeOK, LianaVirtualBlockConfig, Data
  <1>b. NoData.row = NotHeld
    BY DEF NoData
  <1>1. /\ \A v \in Workers : v # w => got'[v].row = got[v].row
        /\ got'[w].row \in {got[w].row, NotHeld}
    <2>1. CASE Check(w)
      BY <2>1, <1>a, <1>b DEF Check, CheckHeight, CheckProbe, CheckNote, Goto,
                              Finish, Learn, Data
    <2>2. CASE Save(w)
      BY <2>2, <1>a, <1>b
         DEF Save, SaveConfigRead, SaveConfig, Finish, Learn, NoData
    <2> QED
      BY <2>1, <2>2
  <1>2. UNCHANGED <<held, life>>
    BY DEF Check, CheckHeight, CheckProbe, CheckNote, Save, SaveConfigRead,
           SaveConfig
  <1>3. epoch <= epoch' /\ (epoch' = epoch => cfg.target <= cfg'.target)
    <2>1. CASE SaveConfig(w)
      <3> DEFINE r == got[w].req
                 h == got[w].height
                 c == WithTarget(cfg, r)
      <3>1. /\ cfg' \in {c, Switched(c, r, h)}
            /\ epoch' = IF r.target = NoTarget THEN epoch ELSE epoch + 1
        BY <2>1 DEF SaveConfig
      <3>2. /\ c \in LianaVirtualBlockConfig
            /\ r.target = NoTarget => c.target = cfg.target
        BY <1>a, SaveConfigType
      <3>3. Switched(c, r, h).target = c.target
        BY <3>2, <1>a, SaveConfigType
      <3>4. cfg'.target = c.target
        BY <3>1, <3>3
      <3> HIDE DEF r, h, c
      <3> QED
        BY <3>1, <3>2, <3>4, <1>a
    <2>2. CASE ~SaveConfig(w)
      <3>1. UNCHANGED <<cfg, epoch>>
        BY <2>2 DEF Check, CheckHeight, CheckProbe, CheckNote, Save,
                    SaveConfigRead
      <3> QED
        BY <3>1, <1>a
    <2> QED
      BY <2>1, <2>2
  <1> QED
    BY <1>1, <1>2, <1>3, TargetQuiet

\* A row without a height of its own is apart from every other.
LEMMA PlainRow ==
    ASSUME TypeOK, NEW m \in {"manual", "by_block"}, NEW r \in Held
    PROVE  /\ Apart(Row("manual", 0), r) /\ Apart(r, Row("manual", 0))
           /\ Apart(Row("by_block", NoHeight), r)
           /\ Apart(r, Row("by_block", NoHeight))
  BY DEF Apart, Row, NoHeight

\* The next target is apart from every target given before.
LEMMA FreshRow ==
    ASSUME TypeOK, NEW r \in Held, Given(r)
    PROVE  /\ Apart(Row("by_block", cfg.target), r)
           /\ Apart(r, Row("by_block", cfg.target))
  <1>1. cfg.target \in Nat /\ r.target \in Nat
    BY DEF TypeOK, LianaVirtualBlockConfig, Held
  <1> QED
    BY <1>1 DEF Apart, Given, Row, NoHeight

\* A broadcast takes the next target and moves it on in one step.
LEMMA TargetIngest ==
    ASSUME TypeOK, TypeOK', TargetInv, NEW w \in Workers, Ingest(w)
    PROVE  TargetInv'
  <1> USE DEF world, config
  <1>a. /\ cfg \in LianaVirtualBlockConfig /\ cfg.target \in Nat
        /\ epoch \in Nat /\ life \in Nat /\ got \in [Workers -> Data]
    BY DEF TypeOK, LianaVirtualBlockConfig
  <1>b. NoData \in Data /\ NoData.row = NotHeld
    BY NoDataType DEF NoData
  <1>c. /\ \A t \in Txs : held[t] \in Held /\ Given(held[t])
        /\ \A v \in Workers : got[v].row \in Held /\ Given(got[v].row)
    BY DEF TypeOK, Data, TargetInv
  <1>1. ASSUME NEW t \in Txs, IngestPlan(w, t)
        PROVE  TargetInv'
    <2>1. CASE cfg.enabled
      <3>1. got' = [got EXCEPT ![w] = [NoData EXCEPT !.tx = t]]
        BY <1>1, <2>1 DEF IngestPlan, Learn
      <3>2. /\ got'[w].row = NotHeld
            /\ \A v \in Workers : v # w => got'[v].row = got[v].row
        BY <3>1, <1>a, <1>b DEF Data
      <3> QED
        BY <1>1, <3>2, <1>a, TargetQuiet DEF IngestPlan
    <2>2. CASE ~cfg.enabled
      <3>1. got' = [got EXCEPT ![w] = [NoData EXCEPT !.tx = t,
                                                  !.row = Row("manual", 0)]]
        BY <1>1, <2>2 DEF IngestPlan, Learn
      <3>2. Row("manual", 0) \in Held
        BY RowType
      <3>3. /\ got'[w].row = Row("manual", 0)
            /\ \A v \in Workers : v # w => got'[v].row = got[v].row
        BY <3>1, <3>2, <1>a, <1>b DEF Data
      <3>4. /\ epoch' = epoch /\ life' = life /\ cfg' = cfg /\ held' = held
            /\ epoch <= epoch' /\ cfg.target <= cfg'.target
        BY <1>1, <1>a DEF IngestPlan
      <3>5. Given(got[w].row)'
        BY <3>3, <3>4, <1>a DEF Given, Row
      <3>6. /\ \A x \in Txs : /\ Apart(got'[w].row, held[x])
                              /\ Apart(held[x], got'[w].row)
            /\ \A v \in Workers : /\ Apart(got'[w].row, got[v].row)
                                  /\ Apart(got[v].row, got'[w].row)
        BY <3>3, <1>c, PlainRow
      <3> QED
        BY <3>3, <3>4, <3>5, <3>6, TargetStep
    <2> QED
      BY <2>1, <2>2
  <1>2. CASE Capture(w)
    <2>0. UNCHANGED <<held, epoch, life>>
      BY <1>2 DEF Capture
    <2>1. CASE cfg.enabled
      <3>1. /\ cfg' = [cfg EXCEPT !.target = @ + 2]
            /\ got' = [got EXCEPT ![w] =
                  [got[w] EXCEPT !.row = Row("by_block", cfg.target),
                                 !.snap = cfg']]
        BY <1>2, <2>1 DEF Capture, Learn
      <3>2. cfg'.target = cfg.target + 2
        BY <3>1, <1>a DEF LianaVirtualBlockConfig
      <3>3. /\ got'[w].row = Row("by_block", cfg.target)
            /\ \A v \in Workers : v # w => got'[v].row = got[v].row
        BY <3>1, <1>a DEF Data
      <3>4. Given(got[w].row)'
        BY <2>0, <3>2, <3>3, <1>a DEF Given, Row
      <3>5. /\ \A x \in Txs : /\ Apart(got'[w].row, held[x])
                              /\ Apart(held[x], got'[w].row)
            /\ \A v \in Workers : /\ Apart(got'[w].row, got[v].row)
                                  /\ Apart(got[v].row, got'[w].row)
        BY <3>3, <1>c, FreshRow
      <3>6. epoch <= epoch' /\ cfg.target <= cfg'.target
        BY <2>0, <3>2, <1>a
      <3> QED
        BY <2>0, <3>3, <3>4, <3>5, <3>6, TargetStep
    <2>2. CASE ~cfg.enabled
      <3>1. /\ cfg' = cfg
            /\ got' = [got EXCEPT ![w] =
                  [got[w] EXCEPT !.row = Row("by_block", NoHeight)]]
        BY <1>2, <2>2 DEF Capture, Learn
      <3>2. /\ got'[w].row = Row("by_block", NoHeight)
            /\ \A v \in Workers : v # w => got'[v].row = got[v].row
        BY <3>1, <1>a DEF Data
      <3>3. Given(got[w].row)'
        BY <2>0, <3>2, <1>a DEF Given, Row
      <3>4. /\ \A x \in Txs : /\ Apart(got'[w].row, held[x])
                              /\ Apart(held[x], got'[w].row)
            /\ \A v \in Workers : /\ Apart(got'[w].row, got[v].row)
                                  /\ Apart(got[v].row, got'[w].row)
        BY <3>2, <1>c, PlainRow
      <3>5. epoch <= epoch' /\ cfg.target <= cfg'.target
        BY <2>0, <3>1, <1>a
      <3> QED
        BY <2>0, <3>2, <3>3, <3>4, <3>5, TargetStep
    <2> QED
      BY <2>1, <2>2
  <1>3. CASE AdvanceSave(w)
    <2>1. /\ got'[w].row = got[w].row
          /\ \A v \in Workers : v # w => got'[v].row = got[v].row
      BY <1>3, <1>a DEF AdvanceSave, Learn, Data
    <2> QED
      BY <1>3, <2>1, <1>a, TargetQuiet DEF AdvanceSave
  <1>4. CASE Store(w)
    <2>0. UNCHANGED <<cfg, epoch, life>>
      BY <1>4 DEF Store
    <2>1. /\ \A t \in Txs : held'[t] \in {held[t], got[w].row, Lost}
          /\ \A t \in Txs : t # got[w].tx => held'[t] = held[t]
      BY <1>4 DEF Store, TypeOK
    <2>2. /\ got'[w].row = NotHeld
          /\ \A v \in Workers : v # w => got'[v].row = got[v].row
      BY <1>4, <1>a, <1>b DEF Store, Finish, Learn
    <2>3. \A x \in Held : /\ Apart(NotHeld, x) /\ Apart(x, NotHeld)
                          /\ Given(NotHeld)
      BY NoRowApart
    <2>4. /\ \A t \in Txs : Given(held'[t])
          /\ \A v \in Workers : Given(got'[v].row)
      BY <2>1, <2>2, <2>3, <1>c, LostApart
    <2>5. /\ \A t \in Txs : Given(held[t])'
          /\ \A v \in Workers : Given(got[v].row)'
      BY <2>0, <2>4 DEF Given
    <2>6. \A x, t \in Txs : x # t => Apart(held'[x], held'[t])
      BY <2>1, LostApart DEF TargetInv
    <2>7. \A v \in Workers, t \in Txs : /\ Apart(got'[v].row, held'[t])
                                        /\ Apart(held'[t], got'[v].row)
      BY <2>1, <2>2, <2>3, <1>c, LostApart DEF TargetInv
    <2>8. \A u, v \in Workers : u # v => Apart(got'[u].row, got'[v].row)
      BY <2>2, <2>3, <1>c DEF TargetInv
    <2> QED
      BY <2>5, <2>6, <2>7, <2>8 DEF TargetInv, Apart
  <1> QED
    BY <1>1, <1>2, <1>3, <1>4 DEF Ingest

\* A restart may bring an old target back; it also starts a new life.
LEMMA TargetEnvironment ==
    ASSUME TypeOK, TypeOK', TargetInv, Block \/ BackendsChange \/ Restart
    PROVE  TargetInv'
  <1>1. CASE Block \/ BackendsChange
    BY <1>1 DEF Block, BackendsChange, TargetInv, Given, Apart
  <1>2. CASE Restart
    <2>1. /\ held' = held /\ epoch' = epoch /\ life' = life + 1
          /\ \A w \in Workers : got'[w].row = NotHeld
      BY <1>2 DEF Restart, NoData
    <2>2. /\ epoch \in Nat /\ life \in Nat
          /\ \A t \in Txs : held[t] \in Held
      BY DEF TypeOK
    <2>3. \A t \in Txs : Given(held[t])'
      <3> SUFFICES ASSUME NEW t \in Txs PROVE Given(held[t])'
        OBVIOUS
      <3>1. /\ held[t].epoch <= epoch /\ held[t].life <= life
            /\ held[t].epoch \in Nat /\ held[t].life \in Nat
        BY <2>2 DEF TargetInv, Given, Held
      <3>2. /\ held[t].epoch <= epoch' /\ held[t].life <= life'
            /\ held[t].life # life'
        BY <3>1, <2>1, <2>2
      <3> QED
        BY <3>2, <2>1 DEF Given
    <2>4. \A w \in Workers : Given(got[w].row)'
      BY <2>1, <2>2 DEF Given, NotHeld
    <2>5. /\ \A w \in Workers, t \in Txs : /\ Apart(got'[w].row, held'[t])
                                           /\ Apart(held'[t], got'[w].row)
          /\ \A v, w \in Workers : Apart(got'[v].row, got'[w].row)
      BY <2>1, <2>2, NoDataType, NoRowApart
    <2>6. \A x, t \in Txs : x # t => Apart(held'[x], held'[t])
      BY <2>1 DEF TargetInv
    <2> QED
      BY <2>3, <2>4, <2>5, <2>6 DEF TargetInv, Apart
  <1> QED
    BY <1>1, <1>2

\* However many wallets broadcast at once, and whatever the dashboard, the
\* poller and the disk do, no two transactions get the same virtual height in
\* one life of the process unless the user sets the height in between.
THEOREM TargetsDistinct == Spec => []DistinctTargets
  <1>1. Init => TargetInv
    <2> SUFFICES ASSUME Init PROVE TargetInv
      OBVIOUS
    <2>1. TypeOK
      BY TypeInit
    <2>2. /\ \A t \in Txs : held[t] = NotHeld
          /\ \A w \in Workers : got[w].row = NotHeld
      BY DEF Init, NoData
    <2>3. Apart(NotHeld, NotHeld) /\ Given(NotHeld)
      BY <2>1, NoDataType, NoRowApart
    <2> QED
      BY <2>2, <2>3 DEF TargetInv
  <1>2. TypeOK /\ TypeOK' /\ TargetInv /\ [Next]_vars => TargetInv'
    <2> SUFFICES ASSUME TypeOK, TypeOK', TargetInv, [Next]_vars
                 PROVE  TargetInv'
      OBVIOUS
    <2>1. ASSUME NEW w \in Workers, Step(w) PROVE TargetInv'
      BY <2>1, TargetRefresh, TargetCheckSave, TargetIngest DEF Step
    <2>2. CASE UNCHANGED vars
      BY <2>2 DEF vars, TargetInv, Given, Apart
    <2> QED
      BY <2>1, <2>2, TargetEnvironment DEF Next
  <1>3. TargetInv => DistinctTargets
    BY DEF TargetInv, DistinctTargets, Apart
  <1> QED
    BY <1>1, <1>2, <1>3, TypeCorrect, PTL DEF Spec
=============================================================================
