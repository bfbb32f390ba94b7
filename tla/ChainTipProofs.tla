---------------------------- MODULE ChainTipProofs ----------------------------
(***************************************************************************)
(* Theorems of ChainTip: its type invariant, that no fabricated height     *)
(* gets out of the Liana sessions it was made for, and that every          *)
(* subscriber ends up with the tip in the cache.                           *)
(***************************************************************************)
EXTENDS ChainTip, TLAPS

\* What cache_chain_tip keeps, whoever calls it with a tip in hand.
LEMMA CacheTyped ==
    ASSUME TypeOK, NEW th \in Threads, pc[th] = "write", cache_chain_tip(th)
    PROVE  /\ cached_chain_tip' \in Height
           /\ pc' \in [Threads -> PC]
           /\ read' \in [Threads -> Height \union {None}]
           /\ \A t \in Threads : pc'[t] \in {"write", "notify"} => read'[t] \in Height
<1>1. read[th] \in Height
  BY DEF TypeOK
<1>2. cached_chain_tip' = read[th]
  BY DEF cache_chain_tip
<1>3. CASE cached_chain_tip # read[th]
  BY <1>1, <1>2, <1>3 DEF TypeOK, cache_chain_tip, Goto, PC
<1>4. CASE cached_chain_tip = read[th]
  BY <1>1, <1>2, <1>4 DEF TypeOK, cache_chain_tip, Goto, PC
<1> QED
  BY <1>3, <1>4

\* What a session may be shown for a real height.
LEMMA ShownTyped ==
    ASSUME TypeOK, NEW s \in Sessions, NEW h \in Height
    PROVE  /\ virtual_tip_height(s) \in {0} \union Virtual
           /\ Shown(s, h) \in Virtual
           /\ virtual_tip_height(s) = 0 => Shown(s, h) = h
  BY ChainTipAssumption DEF TypeOK, Shown, virtual_tip_height, Height, Virtual

\* Telling a session a height keeps the two records of what it was told.
LEMMA TellTyped ==
    ASSUME TypeOK, NEW s \in Sessions, NEW h \in Height, Tell(s, h)
    PROVE  /\ told' \in [Sessions -> Virtual \union {None}]
           /\ armed' \in [Sessions -> {0} \union Virtual]
  BY ShownTyped DEF TypeOK, Tell

\* Waking the spawned refreshers moves nobody who carries a tip.
LEMMA SpawnTyped ==
    ASSUME TypeOK, Spawn \/ UNCHANGED pc, UNCHANGED read
    PROVE  /\ pc' \in [Threads -> PC]
           /\ \A t \in Threads : pc'[t] \in {"write", "notify"}
                                 => pc[t] = pc'[t] /\ read'[t] \in Height
<1>1. CASE Spawn
  BY <1>1 DEF TypeOK, Spawn, PC
<1>2. CASE UNCHANGED pc
  BY <1>2 DEF TypeOK
<1> QED
  BY <1>1, <1>2

LEMMA TypeInit == Init => TypeOK
<1> SUFFICES ASSUME Init PROVE TypeOK
  OBVIOUS
<1>1. \A s \in Sessions : saw_server_version[s] \in BOOLEAN
  BY DEF Init
<1> QED
  BY <1>1, ChainTipAssumption DEF Init, TypeOK, Height, Virtual, PC

\* The chain, the user's target and the refreshers.
LEMMA TypeRefresh ==
    ASSUME TypeOK,
           \/ Block \/ Reorg \/ Arm
           \/ \E r \in Refreshers : RefreshRead(r) \/ RefreshWrite(r)
           \/ \E th \in Threads : Notify(th)
    PROVE  TypeOK'
<1> USE DEF chainv, cachev, wallets, sent
<1>1. CASE Block
  BY <1>1, ChainTipAssumption DEF TypeOK, Block, Height
<1>2. CASE Reorg
  BY <1>2, ChainTipAssumption DEF TypeOK, Reorg, Height
<1>3. CASE Arm
  BY <1>3, ChainTipAssumption DEF TypeOK, Arm, Virtual, Height
<1>4. ASSUME NEW r \in Refreshers, RefreshRead(r) PROVE TypeOK'
  <2>1. PICK h \in parse_headers_subscribe_result({0, tip}) : Goto(r, "write", h)
    BY <1>4 DEF RefreshRead
  <2>2. h = tip /\ h \in Height /\ r \in Threads
    BY <2>1, ChainTipAssumption DEF parse_headers_subscribe_result, TypeOK, Height, Threads
  <2> QED
    BY <1>4, <2>1, <2>2 DEF TypeOK, RefreshRead, Goto, PC
<1>5. ASSUME NEW r \in Refreshers, RefreshWrite(r) PROVE TypeOK'
  <2>1. r \in Threads /\ pc[r] = "write" /\ cache_chain_tip(r)
    BY <1>5 DEF RefreshWrite, Threads
  <2> QED
    BY <1>5, <2>1, CacheTyped DEF TypeOK, RefreshWrite
<1>6. ASSUME NEW th \in Threads, Notify(th) PROVE TypeOK'
  <2>1. read[th] \in Height
    BY <1>6 DEF Notify, TypeOK
  <2>2. queue' \in [Sessions -> Seq(Height)]
    BY <1>6, <2>1 DEF Notify, TypeOK
  <2> QED
    BY <1>6, <2>1, <2>2 DEF TypeOK, Notify, Goto, PC
<1> QED
  BY <1>1, <1>2, <1>3, <1>4, <1>5, <1>6

\* The sessions.
LEMMA TypeSession ==
    ASSUME TypeOK, NEW s \in Sessions,
           \/ Handshake(s) \/ SubscribeWarm(s) \/ SubscribeCold(s)
           \/ Answer(s) \/ Push(s)
    PROVE  TypeOK'
<1> USE DEF chainv, cachev, wallets, sent
<1>s. s \in Threads
  BY DEF Threads
<1>1. CASE Handshake(s)
  BY <1>1 DEF TypeOK, Handshake
<1>2. CASE SubscribeWarm(s)
  <2>1. cached_chain_tip \in Height
    BY <1>2 DEF SubscribeWarm, TypeOK
  <2>2. /\ told' \in [Sessions -> Virtual \union {None}]
        /\ armed' \in [Sessions -> {0} \union Virtual]
    BY <1>2, <2>1, TellTyped DEF SubscribeWarm
  <2>3. /\ pc' \in [Threads -> PC]
        /\ \A t \in Threads : pc'[t] \in {"write", "notify"} => read'[t] \in Height
    BY <1>2, SpawnTyped DEF SubscribeWarm
  <2>4. subscribed_headers' \in [Sessions -> BOOLEAN]
    BY <1>2 DEF SubscribeWarm, TypeOK
  <2> QED
    BY <1>2, <2>2, <2>3, <2>4 DEF TypeOK, SubscribeWarm
<1>3. CASE SubscribeCold(s)
  BY <1>3 DEF TypeOK, SubscribeCold
<1>4. CASE SubscribeRead(s)
  <2>1. PICK h \in parse_headers_subscribe_result({0, tip}) : Goto(s, "write", h)
    BY <1>4 DEF SubscribeRead
  <2>2. h = tip /\ h \in Height
    BY <2>1, ChainTipAssumption DEF parse_headers_subscribe_result, TypeOK, Height
  <2> QED
    BY <1>4, <1>s, <2>1, <2>2 DEF TypeOK, SubscribeRead, Goto, PC
<1>5. CASE SubscribeWrite(s)
  <2>1. read[s] \in Height /\ read[s] \in Virtual
    BY <1>5, <1>s, ChainTipAssumption DEF SubscribeWrite, TypeOK, Height, Virtual
  <2>2. /\ cached_chain_tip' \in Height
        /\ pc' \in [Threads -> PC]
        /\ read' \in [Threads -> Height \union {None}]
        /\ \A t \in Threads : pc'[t] \in {"write", "notify"} => read'[t] \in Height
    BY <1>5, <1>s, CacheTyped DEF SubscribeWrite
  <2> QED
    BY <1>5, <2>1, <2>2 DEF TypeOK, SubscribeWrite
<1>6. CASE SubscribeFails(s)
  <2>1. cached_chain_tip # None => cached_chain_tip \in Virtual
    BY ChainTipAssumption DEF TypeOK, Height, Virtual
  <2>2. CASE cached_chain_tip = None
    BY <1>6, <2>2 DEF TypeOK, SubscribeFails
  <2>3. CASE cached_chain_tip # None
    BY <1>6, <2>1, <2>3 DEF TypeOK, SubscribeFails
  <2> QED
    BY <2>2, <2>3
<1>7. CASE Push(s)
  <2>1. Head(queue[s]) \in Height /\ queue' \in [Sessions -> Seq(Height)]
    BY <1>7 DEF Push, TypeOK
  <2>2. /\ told' \in [Sessions -> Virtual \union {None}]
        /\ armed' \in [Sessions -> {0} \union Virtual]
    <3>1. CASE subscribed_headers[s]
      BY <1>7, <2>1, <3>1, TellTyped DEF Push
    <3>2. CASE ~subscribed_headers[s]
      BY <1>7, <3>2 DEF Push, TypeOK
    <3> QED
      BY <3>1, <3>2
  <2> QED
    BY <1>7, <2>1, <2>2 DEF TypeOK, Push
<1> QED
  BY <1>1, <1>2, <1>3, <1>4, <1>5, <1>6, <1>7 DEF Answer

LEMMA TypeStep == TypeOK /\ [Next]_vars => TypeOK'
<1> SUFFICES ASSUME TypeOK, [Next]_vars PROVE TypeOK'
  OBVIOUS
<1>1. CASE \/ Block \/ Reorg \/ Arm
           \/ \E r \in Refreshers : RefreshRead(r) \/ RefreshWrite(r)
           \/ \E th \in Threads : Notify(th)
  BY <1>1, TypeRefresh
<1>2. CASE \E s \in Sessions :
             \/ Handshake(s) \/ SubscribeWarm(s) \/ SubscribeCold(s)
             \/ Answer(s) \/ Push(s)
  BY <1>2, TypeSession
<1>3. CASE UNCHANGED vars
  BY <1>3 DEF TypeOK, vars, chainv, cachev, wallets, sent
<1> QED
  BY <1>1, <1>2, <1>3 DEF Next, Refresh, Threads

\* Every reachable state of every instance of ChainTip is well typed: a thread
\* past its read carries a tip, and the zero of an indexer that is starting is
\* never cached or served.
THEOREM TypeCorrect == Spec => []TypeOK
<1>1. TypeOK /\ [Next]_vars => TypeOK'
  BY TypeStep
<1> QED
  BY <1>1, TypeInit, PTL DEF Spec

-----------------------------------------------------------------------------
(* No fiction elsewhere.  The chain's own tip and every tip a thread        *)
(* carries towards the cache or the channel were real as well; a wallet     *)
(* that opens with server.version is known before it is told anything.      *)

Introduces(s) == wallet[s] = "sparrow" /\ Label[s] = "sparrow"

RealTips ==
    /\ tip <= peak
    /\ cached_chain_tip # None => cached_chain_tip <= peak
    /\ \A th \in Threads : pc[th] \in {"write", "notify"} => read[th] <= peak
    /\ \A s \in Sessions : \A n \in 1 .. Len(queue[s]) : queue[s][n] <= peak

RealTold ==
    \A s \in Sessions : Introduces(s) =>
        /\ subscribed_headers[s] \/ busy[s] => saw_server_version[s]
        /\ told[s] # None => told[s] <= peak

RealInv == TypeOK /\ RealTips /\ RealTold

LEMMA RealInit == Init => RealInv
<1> SUFFICES ASSUME Init PROVE RealInv
  OBVIOUS
<1>1. TypeOK
  BY TypeInit
<1>2. RealTips
  BY ChainTipAssumption DEF Init, RealTips
<1>3. RealTold
  BY DEF Init, RealTold
<1> QED
  BY <1>1, <1>2, <1>3 DEF RealInv

\* The cache takes the tip of the thread that writes it.
LEMMA CacheReal ==
    ASSUME RealInv, NEW th \in Threads, pc[th] = "write", cache_chain_tip(th)
    PROVE  /\ cached_chain_tip' <= peak
           /\ \A t \in Threads : pc'[t] \in {"write", "notify"} => read'[t] <= peak
<1>1. read[th] <= peak /\ cached_chain_tip' = read[th]
  BY DEF RealInv, RealTips, cache_chain_tip
<1>2. CASE cached_chain_tip # read[th]
  BY <1>1, <1>2 DEF RealInv, RealTips, TypeOK, cache_chain_tip, Goto
<1>3. CASE cached_chain_tip = read[th]
  BY <1>1, <1>3 DEF RealInv, RealTips, TypeOK, cache_chain_tip, Goto
<1> QED
  BY <1>2, <1>3

\* A session that said who it is is shown the real height.
LEMMA ShownReal ==
    ASSUME TypeOK, NEW s \in Sessions, Introduces(s), saw_server_version[s],
           NEW h \in Height
    PROVE  Shown(s, h) = h
<1>1. effective_source(s) = "sparrow"
  BY DEF effective_source, Introduces
<1>2. virtual_tip_height(s) = 0
  BY <1>1 DEF virtual_tip_height
<1> QED
  BY <1>2 DEF Shown

LEMMA TellReal ==
    ASSUME RealInv, NEW s \in Sessions, NEW h \in Height, h <= peak, Tell(s, h),
           Introduces(s) => saw_server_version[s]
    PROVE  \A t \in Sessions : Introduces(t) /\ told'[t] # None => told'[t] <= peak
<1> SUFFICES ASSUME NEW t \in Sessions, Introduces(t), told'[t] # None
             PROVE  told'[t] <= peak
  OBVIOUS
<1>1. CASE t = s
  <2>1. Shown(s, h) = h
    BY <1>1, ShownReal DEF RealInv
  <2> QED
    BY <1>1, <2>1 DEF Tell, RealInv, TypeOK
<1>2. CASE t # s
  BY <1>2 DEF Tell, RealInv, RealTold, TypeOK
<1> QED
  BY <1>1, <1>2

LEMMA TipsStep == RealInv /\ [Next]_vars => RealTips'
<1> SUFFICES ASSUME RealInv, [Next]_vars PROVE RealTips'
  OBVIOUS
<1> USE DEF chainv, cachev, wallets, sent
<1>t. TypeOK
  BY DEF RealInv
<1>1. CASE Block
  <2>1. tip' <= peak' /\ peak <= peak' /\ peak \in Nat /\ peak' \in Nat
    BY <1>1 DEF Block, RealInv, RealTips, TypeOK, Height
  <2>2. \A h \in Nat : h <= peak => h <= peak'
    BY <2>1
  <2>3. \A s \in Sessions : \A n \in 1 .. Len(queue[s]) : queue[s][n] \in Nat
    <3>1. ASSUME NEW s \in Sessions, NEW n \in 1 .. Len(queue[s])
          PROVE  queue[s][n] \in Height
      <4>1. queue[s] \in Seq(Height)
        BY <1>t DEF TypeOK
      <4> QED
        BY <4>1
    <3> QED
      BY <3>1 DEF Height
  <2> QED
    BY <1>1, <2>1, <2>2, <2>3 DEF Block, RealInv, RealTips, TypeOK, Height
<1>2. CASE Reorg
  BY <1>2 DEF Reorg, RealInv, RealTips, TypeOK, Height
<1>3. CASE Arm
  BY <1>3 DEF Arm, RealInv, RealTips
<1>4. ASSUME NEW th \in Threads,
             NEW h \in parse_headers_subscribe_result({0, tip}), Goto(th, "write", h),
             UNCHANGED <<cached_chain_tip, chainv, queue>>
      PROVE  RealTips'
  <2>1. h = tip
    BY DEF parse_headers_subscribe_result
  <2> QED
    BY <1>4, <2>1 DEF Goto, RealInv, RealTips, TypeOK
<1>5. ASSUME NEW th \in Threads, pc[th] = "write", cache_chain_tip(th),
             UNCHANGED <<chainv, queue>>
      PROVE  RealTips'
  BY <1>5, CacheReal DEF RealInv, RealTips
<1>6. ASSUME NEW th \in Threads, Notify(th) PROVE RealTips'
  <2>1. read[th] \in Height /\ read[th] <= peak
    BY <1>6 DEF Notify, RealInv, RealTips, TypeOK
  <2>2. \A s \in Sessions : \A n \in 1 .. Len(queue'[s]) : queue'[s][n] <= peak
    BY <1>6, <2>1 DEF Notify, RealInv, RealTips, TypeOK
  <2> QED
    BY <1>6, <2>1, <2>2 DEF Notify, Goto, RealInv, RealTips, TypeOK
<1>7. ASSUME NEW s \in Sessions, Push(s) PROVE RealTips'
  <2>1. \A t \in Sessions : \A n \in 1 .. Len(queue'[t]) : queue'[t][n] <= peak
    BY <1>7 DEF Push, RealInv, RealTips, TypeOK
  <2> QED
    BY <1>7, <2>1 DEF Push, RealInv, RealTips
<1>8. ASSUME Spawn \/ UNCHANGED pc,
             UNCHANGED <<read, cached_chain_tip, chainv, queue>>
      PROVE  RealTips'
  BY <1>8, SpawnTyped DEF RealInv, RealTips
<1>9. ASSUME NEW r \in Refreshers, Refresh(r) PROVE RealTips'
  <2>1. r \in Threads
    BY DEF Threads
  <2> QED
    BY <1>9, <2>1, <1>4, <1>5, <1>6 DEF Refresh, RefreshRead, RefreshWrite
<1>10. ASSUME NEW s \in Sessions,
              \/ Handshake(s) \/ SubscribeWarm(s) \/ SubscribeCold(s)
              \/ Answer(s) \/ Notify(s) \/ Push(s)
       PROVE  RealTips'
  <2>1. s \in Threads
    BY DEF Threads
  <2>2. CASE Handshake(s) \/ SubscribeCold(s) \/ SubscribeFails(s)
    BY <2>2 DEF Handshake, SubscribeCold, SubscribeFails, RealInv, RealTips
  <2>3. CASE SubscribeWarm(s)
    BY <2>3, <1>8 DEF SubscribeWarm
  <2>4. CASE SubscribeRead(s) \/ SubscribeWrite(s)
    BY <2>1, <2>4, <1>4, <1>5 DEF SubscribeRead, SubscribeWrite
  <2> QED
    BY <1>10, <2>1, <2>2, <2>3, <2>4, <1>6, <1>7 DEF Answer
<1>11. CASE UNCHANGED vars
  BY <1>11 DEF vars, RealInv, RealTips
<1> QED
  BY <1>1, <1>2, <1>3, <1>9, <1>10, <1>11 DEF Next

LEMMA ToldStep == RealInv /\ [Next]_vars => RealTold'
<1> SUFFICES ASSUME RealInv, [Next]_vars PROVE RealTold'
  OBVIOUS
<1> USE DEF chainv, cachev, wallets, sent, Introduces
<1>t. TypeOK /\ RealTips /\ RealTold
  BY DEF RealInv
<1>1. CASE Block
  <2>1. /\ peak \in Nat /\ peak' \in Nat /\ peak <= peak'
        /\ \A s \in Sessions : told[s] # None => told[s] \in Nat
    BY <1>1, <1>t, ChainTipAssumption DEF Block, TypeOK, Height, Virtual
  <2> QED
    BY <1>1, <1>t, <2>1 DEF Block, RealTold
<1>2. CASE Reorg \/ Arm \/ UNCHANGED vars
  BY <1>2, <1>t DEF Reorg, Arm, vars, RealTold
<1>3. CASE \E r \in Refreshers : Refresh(r)
  BY <1>3, <1>t DEF Refresh, RefreshRead, RefreshWrite, Notify, RealTold
<1>4. ASSUME NEW s \in Sessions,
             Handshake(s) \/ SubscribeCold(s) \/ SubscribeRead(s) \/ Notify(s)
      PROVE  RealTold'
  <2>1. CASE Handshake(s)
    BY <1>t, <2>1 DEF Handshake, RealTold, TypeOK
  <2>2. CASE SubscribeCold(s)
    BY <1>t, <2>2 DEF SubscribeCold, Ready, RealTold, TypeOK
  <2>3. CASE SubscribeRead(s) \/ Notify(s)
    BY <1>t, <2>3 DEF SubscribeRead, Notify, RealTold
  <2> QED
    BY <1>4, <2>1, <2>2, <2>3
<1>5. ASSUME NEW s \in Sessions, SubscribeWarm(s) PROVE RealTold'
  <2>1. cached_chain_tip \in Height /\ cached_chain_tip <= peak
    BY <1>5, <1>t DEF SubscribeWarm, RealTips, TypeOK
  <2>2. Introduces(s) => saw_server_version[s]
    BY <1>5 DEF SubscribeWarm, Ready
  <2>3. \A t \in Sessions : Introduces(t) /\ told'[t] # None => told'[t] <= peak
    BY <1>5, <2>1, <2>2, TellReal DEF SubscribeWarm
  <2> QED
    BY <1>5, <1>t, <2>2, <2>3 DEF SubscribeWarm, RealTold, TypeOK
<1>6. ASSUME NEW s \in Sessions, SubscribeWrite(s) PROVE RealTold'
  <2>1. read[s] <= peak
    BY <1>6, <1>t DEF SubscribeWrite, RealTips, Threads
  <2> QED
    BY <1>6, <1>t, <2>1 DEF SubscribeWrite, RealTold, TypeOK
<1>7. ASSUME NEW s \in Sessions, SubscribeFails(s) PROVE RealTold'
  <2>1. CASE cached_chain_tip = None
    BY <1>7, <1>t, <2>1 DEF SubscribeFails, RealTold, TypeOK
  <2>2. CASE cached_chain_tip # None
    BY <1>7, <1>t, <2>2 DEF SubscribeFails, RealTold, RealTips, TypeOK
  <2> QED
    BY <2>1, <2>2
<1>8. ASSUME NEW s \in Sessions, Push(s) PROVE RealTold'
  <2>1. CASE ~subscribed_headers[s]
    BY <1>8, <1>t, <2>1 DEF Push, RealTold
  <2>2. CASE subscribed_headers[s]
    <3>1. Head(queue[s]) \in Height /\ Head(queue[s]) <= peak
      BY <1>8, <1>t DEF Push, RealTips, TypeOK
    <3>2. Introduces(s) => saw_server_version[s]
      BY <1>t, <2>2 DEF RealTold
    <3>3. \A t \in Sessions : Introduces(t) /\ told'[t] # None => told'[t] <= peak
      BY <1>8, <2>2, <3>1, <3>2, TellReal DEF Push
    <3> QED
      BY <1>8, <1>t, <3>3 DEF Push, RealTold
  <2> QED
    BY <2>1, <2>2
<1> QED
  BY <1>1, <1>2, <1>3, <1>4, <1>5, <1>6, <1>7, <1>8 DEF Next, Answer

\* A fabricated height stays with the Liana sessions it was made for, for any
\* number of sessions and refreshers, any chain, reorganisation and target: the
\* cache, the channel and what a wallet that said who it is was told never
\* exceed a height the chain has had.
THEOREM FictionStaysHome == Spec => []NoFictionElsewhere
<1>1. RealInv /\ [Next]_vars => RealInv'
  BY TypeStep, TipsStep, ToldStep DEF RealInv
<1>2. RealInv => NoFictionElsewhere
  BY DEF RealInv, RealTips, RealTold, Introduces, NoFictionElsewhere
<1> QED
  BY <1>1, <1>2, RealInit, PTL DEF Spec

-----------------------------------------------------------------------------
(* What a session was told last comes from the cache, or is the last tip    *)
(* that was sent, or another tip is on its way to everybody.                *)

\* What session s was told is the height h, or the fiction made from it.
MadeFrom(s, h) ==
    told[s] = IF armed[s] = 0 THEN h
              ELSE IF armed[s] > h + 1 THEN armed[s] ELSE h + 1

OnTheWay == \E th \in Threads : pc[th] = "notify"

\* A session that waits for the indexer has subscribed.
Asked == \A s \in Sessions : busy[s] \/ pc[s] = "write" => subscribed_headers[s]

\* A cold cache has never had a tip to send.
Warm ==
    \/ cached_chain_tip # None
    \/ ~OnTheWay /\ \A s \in Sessions : queue[s] = <<>> /\ told[s] = None

LastQueued == \A s \in Sessions : queue[s] # <<>> => queue[s][Len(queue[s])] = last_sent

ToldIsRecent ==
    \A s \in Sessions : told[s] # None =>
        /\ subscribed_headers[s]
        /\ queue[s] = <<>> /\ ~busy[s] =>
             \/ MadeFrom(s, cached_chain_tip)
             \/ MadeFrom(s, last_sent)
             \/ OnTheWay

SettledInv == TypeOK /\ Asked /\ Warm /\ LastQueued /\ ToldIsRecent

\* A session is told the height it is handed, or the fiction made from it.
LEMMA TellMakes ==
    ASSUME TypeOK, NEW s \in Sessions, NEW h, Tell(s, h)
    PROVE  /\ MadeFrom(s, h)'
           /\ \A t \in Sessions \ {s} : told'[t] = told[t] /\ armed'[t] = armed[t]
  BY DEF TypeOK, Tell, Shown, MadeFrom

\* A write to the cache tells nobody; when it changes the cache a tip is on its
\* way, and it stays on its way until it is sent.
LEMMA CacheAnnounces ==
    ASSUME TypeOK, NEW th \in Threads, pc[th] = "write", cache_chain_tip(th)
    PROVE  /\ cached_chain_tip' = cached_chain_tip \/ OnTheWay'
           /\ OnTheWay => OnTheWay'
           /\ cached_chain_tip' \in Height /\ cached_chain_tip' # None
           /\ cached_chain_tip' = read[th]
<1>1. read[th] \in Height /\ cached_chain_tip' = read[th]
  BY DEF TypeOK, cache_chain_tip
<1>2. read[th] # None
  BY <1>1, ChainTipAssumption DEF Height
<1>3. CASE cached_chain_tip # read[th]
  BY <1>1, <1>2, <1>3 DEF TypeOK, cache_chain_tip, Goto, OnTheWay
<1>4. CASE cached_chain_tip = read[th]
  BY <1>1, <1>2, <1>4 DEF TypeOK, cache_chain_tip, Goto, OnTheWay
<1> QED
  BY <1>3, <1>4

LEMMA QueueStep == SettledInv /\ [Next]_vars => LastQueued'
<1> SUFFICES ASSUME SettledInv, [Next]_vars PROVE LastQueued'
  OBVIOUS
<1>1. CASE UNCHANGED sent
  BY <1>1 DEF SettledInv, LastQueued, sent
<1>2. ASSUME NEW th \in Threads, Notify(th) PROVE LastQueued'
  BY <1>2 DEF SettledInv, TypeOK, Notify, LastQueued
<1>3. ASSUME NEW s \in Sessions, Push(s) PROVE LastQueued'
  <2>1. /\ queue[s] \in Seq(Height) /\ queue[s] # <<>>
        /\ last_sent' = last_sent
        /\ \A t \in Sessions : queue'[t] = IF t = s THEN Tail(queue[s]) ELSE queue[t]
    BY <1>3 DEF SettledInv, TypeOK, Push
  <2>2. Tail(queue[s]) # <<>> =>
          Tail(queue[s])[Len(Tail(queue[s]))] = queue[s][Len(queue[s])]
    BY <2>1
  <2> QED
    BY <2>1, <2>2 DEF SettledInv, LastQueued
<1> QED
  BY <1>1, <1>2, <1>3
  DEF Next, Block, Reorg, Arm, Refresh, RefreshRead, RefreshWrite, Handshake,
      SubscribeWarm, SubscribeCold, Answer, SubscribeRead, SubscribeWrite,
      SubscribeFails, Threads, vars

LEMMA AskedStep == SettledInv /\ [Next]_vars => Asked'
<1> SUFFICES ASSUME SettledInv, [Next]_vars PROVE Asked'
  OBVIOUS
<1> USE DEF chainv, cachev, wallets, sent
<1>t. TypeOK /\ Asked
  BY DEF SettledInv
<1>1. CASE UNCHANGED <<pc, wallets>>
  BY <1>1, <1>t DEF Asked
<1>2. ASSUME NEW th \in Threads, NEW p, NEW h, Goto(th, p, h),
             p = "write" => th \notin Sessions \/ busy[th],
             UNCHANGED wallets
      PROVE  Asked'
  BY <1>2, <1>t DEF Goto, Asked, TypeOK, Threads
<1>3. ASSUME NEW th \in Threads, Notify(th) PROVE Asked'
  BY <1>2, <1>3 DEF Notify
<1>4. ASSUME NEW r \in Refreshers, Refresh(r) PROVE Asked'
  <2>1. r \in Threads /\ r \notin Sessions
    BY ChainTipAssumption DEF Threads
  <2>2. CASE RefreshRead(r)
    BY <1>2, <2>1, <2>2 DEF RefreshRead
  <2>3. CASE RefreshWrite(r)
    BY <1>2, <2>1, <2>3 DEF RefreshWrite, cache_chain_tip
  <2> QED
    BY <1>3, <1>4, <2>1, <2>2, <2>3 DEF Refresh
<1>5. ASSUME NEW s \in Sessions,
             Handshake(s) \/ SubscribeCold(s) \/ SubscribeFails(s) \/ Push(s)
      PROVE  Asked'
  BY <1>5, <1>t DEF Handshake, SubscribeCold, SubscribeFails, Push, Asked, TypeOK
<1>6. ASSUME NEW s \in Sessions, SubscribeWarm(s) PROVE Asked'
  <2>1. \A t \in Sessions : pc'[t] = "write" => pc[t] = "write"
    BY <1>6, <1>t DEF SubscribeWarm, Spawn, TypeOK, Threads
  <2> QED
    BY <1>6, <1>t, <2>1 DEF SubscribeWarm, Asked, TypeOK
<1>7. ASSUME NEW s \in Sessions, SubscribeRead(s) PROVE Asked'
  BY <1>2, <1>7 DEF SubscribeRead, Threads
<1>8. ASSUME NEW s \in Sessions, SubscribeWrite(s) PROVE Asked'
  <2>1. \A t \in Sessions : pc'[t] = "write" => pc[t] = "write"
    BY <1>8, <1>t DEF SubscribeWrite, cache_chain_tip, Goto, TypeOK, Threads
  <2> QED
    BY <1>8, <1>t, <2>1 DEF SubscribeWrite, Asked, TypeOK
<1> QED
  BY <1>1, <1>3, <1>4, <1>5, <1>6, <1>7, <1>8
  DEF Next, Block, Reorg, Arm, Answer, Threads, vars

LEMMA WarmStep == SettledInv /\ [Next]_vars => Warm'
<1> SUFFICES ASSUME SettledInv, [Next]_vars PROVE Warm'
  OBVIOUS
<1> USE DEF chainv, cachev, wallets, sent
<1>t. TypeOK /\ Warm
  BY DEF SettledInv
<1>1. ASSUME NEW th \in Threads, pc[th] = "write", cache_chain_tip(th) PROVE Warm'
  BY <1>1, <1>t, CacheAnnounces DEF Warm
<1>2. CASE UNCHANGED cached_chain_tip /\ cached_chain_tip # None
  BY <1>2 DEF Warm
<1>3. CASE UNCHANGED cached_chain_tip /\ cached_chain_tip = None
  <2>1. ~OnTheWay /\ \A s \in Sessions : queue[s] = <<>> /\ told[s] = None
    BY <1>3, <1>t DEF Warm
  <2>2. CASE UNCHANGED <<pc, queue, told>>
    BY <2>1, <2>2 DEF Warm, OnTheWay
  <2>3. ASSUME NEW th \in Threads, NEW h, Goto(th, "write", h), UNCHANGED <<queue, told>>
        PROVE  Warm'
    BY <1>t, <2>1, <2>3 DEF Warm, OnTheWay, Goto, TypeOK
  <2>4. ASSUME NEW r \in Refreshers, Refresh(r) PROVE Warm'
    <3>1. r \in Threads
      BY DEF Threads
    <3>2. CASE RefreshRead(r)
      BY <2>3, <3>1, <3>2 DEF RefreshRead
    <3> QED
      BY <1>1, <2>1, <2>4, <3>1, <3>2 DEF Refresh, RefreshWrite, Notify, OnTheWay
  <2>5. ASSUME NEW s \in Sessions, Answer(s) PROVE Warm'
    <3>1. s \in Threads
      BY DEF Threads
    <3>2. CASE SubscribeRead(s)
      BY <2>3, <3>1, <3>2 DEF SubscribeRead
    <3>3. CASE SubscribeFails(s)
      BY <1>3, <2>2, <3>3 DEF SubscribeFails
    <3> QED
      BY <1>1, <2>5, <3>1, <3>2, <3>3 DEF Answer, SubscribeWrite
  <2>6. ASSUME NEW s \in Sessions,
               \/ Handshake(s) \/ SubscribeWarm(s) \/ SubscribeCold(s)
               \/ Notify(s) \/ Push(s)
        PROVE  Warm'
    BY <1>3, <2>1, <2>2, <2>6
    DEF Handshake, SubscribeWarm, SubscribeCold, Notify, Push, OnTheWay, Threads
  <2> QED
    BY <2>2, <2>4, <2>5, <2>6 DEF Next, Block, Reorg, Arm, vars
<1>4. UNCHANGED cached_chain_tip
      \/ \E th \in Threads : pc[th] = "write" /\ cache_chain_tip(th)
  BY DEF Next, Block, Reorg, Arm, Refresh, RefreshRead, RefreshWrite, Handshake,
         SubscribeWarm, SubscribeCold, Answer, SubscribeRead, SubscribeWrite,
         SubscribeFails, Notify, Push, Goto, Threads, vars
<1> QED
  BY <1>1, <1>2, <1>3, <1>4

LEMMA RecentStep == SettledInv /\ [Next]_vars => ToldIsRecent'
<1> SUFFICES ASSUME SettledInv, [Next]_vars PROVE ToldIsRecent'
  OBVIOUS
<1> USE DEF chainv, cachev, wallets, sent
<1>t. TypeOK /\ Asked /\ Warm /\ LastQueued /\ ToldIsRecent
  BY DEF SettledInv
<1>1. CASE Block \/ Reorg \/ Arm \/ UNCHANGED vars
  BY <1>1, <1>t DEF Block, Reorg, Arm, vars, ToldIsRecent, MadeFrom, OnTheWay
<1>2. ASSUME NEW th \in Threads, pc[th] # "notify", NEW p, NEW h,
             Goto(th, p, h), UNCHANGED <<cached_chain_tip, wallets, sent>>
      PROVE  ToldIsRecent'
  <2>1. OnTheWay => OnTheWay'
    BY <1>2, <1>t DEF Goto, OnTheWay, TypeOK
  <2> QED
    BY <1>2, <1>t, <2>1 DEF ToldIsRecent, MadeFrom
<1>3. ASSUME NEW th \in Threads, Notify(th) PROVE ToldIsRecent'
  <2>1. ASSUME NEW s \in Sessions PROVE queue'[s] # <<>>
    <3>1. queue[s] \in Seq(Height) /\ read[th] \in Height
      BY <1>3, <1>t DEF Notify, TypeOK
    <3>2. queue'[s] = Append(queue[s], read[th])
      BY <1>3 DEF Notify
    <3> QED
      BY <3>1, <3>2
  <2> QED
    BY <1>3, <1>t, <2>1 DEF Notify, ToldIsRecent
<1>4. ASSUME NEW r \in Refreshers, Refresh(r) PROVE ToldIsRecent'
  <2>1. r \in Threads
    BY DEF Threads
  <2>2. CASE RefreshRead(r)
    <3>1. PICK h : Goto(r, "write", h)
      BY <2>2 DEF RefreshRead
    <3>2. pc[r] # "notify"
      BY <2>2 DEF RefreshRead
    <3> QED
      BY <2>1, <2>2, <3>1, <3>2, <1>2 DEF RefreshRead
  <2>3. CASE RefreshWrite(r)
    <3>1. /\ cached_chain_tip' = cached_chain_tip \/ OnTheWay'
          /\ OnTheWay => OnTheWay'
      BY <2>1, <2>3, <1>t, CacheAnnounces DEF RefreshWrite
    <3> QED
      BY <2>3, <1>t, <3>1 DEF RefreshWrite, ToldIsRecent, MadeFrom
  <2> QED
    BY <1>4, <2>1, <2>2, <2>3, <1>3 DEF Refresh
<1>5. ASSUME NEW s \in Sessions, Handshake(s) \/ SubscribeCold(s) PROVE ToldIsRecent'
  BY <1>5, <1>t DEF Handshake, SubscribeCold, ToldIsRecent, MadeFrom, OnTheWay, TypeOK
<1>6. ASSUME NEW s \in Sessions, SubscribeWarm(s) PROVE ToldIsRecent'
  <2>1. /\ MadeFrom(s, cached_chain_tip)'
        /\ \A t \in Sessions \ {s} : told'[t] = told[t] /\ armed'[t] = armed[t]
    BY <1>6, <1>t, TellMakes DEF SubscribeWarm, MadeFrom
  <2>2. OnTheWay => OnTheWay'
    BY <1>6, <1>t DEF SubscribeWarm, Spawn, OnTheWay, TypeOK
  <2>3. subscribed_headers' = [subscribed_headers EXCEPT ![s] = TRUE]
    BY <1>6 DEF SubscribeWarm
  <2> QED
    BY <1>6, <1>t, <2>1, <2>2, <2>3 DEF SubscribeWarm, ToldIsRecent, MadeFrom, TypeOK
<1>7. ASSUME NEW s \in Sessions, SubscribeRead(s) PROVE ToldIsRecent'
  <2>1. PICK h : Goto(s, "write", h)
    BY <1>7 DEF SubscribeRead
  <2> QED
    BY <1>7, <1>2, <2>1 DEF SubscribeRead, Threads
<1>8. ASSUME NEW s \in Sessions, SubscribeWrite(s) PROVE ToldIsRecent'
  <2>1. /\ cached_chain_tip' = cached_chain_tip \/ OnTheWay'
        /\ OnTheWay => OnTheWay'
        /\ cached_chain_tip' # None /\ cached_chain_tip' = read[s]
    BY <1>8, <1>t, CacheAnnounces DEF SubscribeWrite, Threads
  <2>2. told' = [told EXCEPT ![s] = read[s]] /\ armed' = [armed EXCEPT ![s] = 0]
    BY <1>8 DEF SubscribeWrite
  <2>3. MadeFrom(s, cached_chain_tip)'
    BY <1>t, <2>1, <2>2 DEF MadeFrom, TypeOK
  <2>4. \A t \in Sessions \ {s} : told'[t] = told[t] /\ armed'[t] = armed[t]
                                  /\ busy'[t] = busy[t]
    BY <1>8, <1>t, <2>2 DEF SubscribeWrite, TypeOK
  <2>5. subscribed_headers[s]
    BY <1>8, <1>t DEF SubscribeWrite, Asked
  <2> QED
    BY <1>8, <1>t, <2>1, <2>3, <2>4, <2>5 DEF SubscribeWrite, ToldIsRecent, MadeFrom
<1>9. ASSUME NEW s \in Sessions, SubscribeFails(s) PROVE ToldIsRecent'
  <2>1. CASE cached_chain_tip = None
    BY <1>9, <1>t, <2>1 DEF SubscribeFails, Warm, ToldIsRecent
  <2>2. CASE cached_chain_tip # None
    <3>1. /\ told' = [told EXCEPT ![s] = cached_chain_tip]
          /\ armed' = [armed EXCEPT ![s] = 0]
      BY <1>9, <2>2 DEF SubscribeFails
    <3>2. MadeFrom(s, cached_chain_tip)'
      BY <1>9, <1>t, <3>1 DEF SubscribeFails, MadeFrom, TypeOK
    <3>3. \A t \in Sessions \ {s} : told'[t] = told[t] /\ armed'[t] = armed[t]
                                    /\ busy'[t] = busy[t]
      BY <1>9, <1>t, <3>1 DEF SubscribeFails, TypeOK
    <3>4. subscribed_headers[s]
      BY <1>9, <1>t DEF SubscribeFails, Asked
    <3> QED
      BY <1>9, <1>t, <3>2, <3>3, <3>4
      DEF SubscribeFails, ToldIsRecent, MadeFrom, OnTheWay
  <2> QED
    BY <2>1, <2>2
<1>10. ASSUME NEW s \in Sessions, Push(s) PROVE ToldIsRecent'
  <2>1. /\ queue[s] \in Seq(Height) /\ queue[s] # <<>>
        /\ \A t \in Sessions : queue'[t] = IF t = s THEN Tail(queue[s]) ELSE queue[t]
    BY <1>10, <1>t DEF Push, TypeOK
  <2>2. Tail(queue[s]) = <<>> => Head(queue[s]) = last_sent
    <3>1. queue[s][Len(queue[s])] = last_sent
      BY <1>t, <2>1 DEF LastQueued
    <3>2. PICK q \in Seq(Height) : q = queue[s] /\ q # <<>>
      BY <2>1
    <3>3. Len(Tail(q)) = Len(q) - 1 /\ Len(q) \in Nat
      BY <3>2
    <3>4. Head(q) = q[1]
      BY <3>2
    <3>5. ASSUME Tail(q) = <<>> PROVE Len(q) = 1
      <4>1. Len(<<>>) = 0
        OBVIOUS
      <4>2. Len(Tail(q)) = 0
        BY <3>5, <4>1
      <4> QED
        BY <3>3, <4>2
    <3> QED
      BY <3>1, <3>2, <3>4, <3>5
  <2>3. CASE subscribed_headers[s]
    <3>1. PICK h : h = Head(queue[s])
      OBVIOUS
    <3>2. Tell(s, h)
      BY <1>10, <2>3, <3>1 DEF Push
    <3>3. /\ MadeFrom(s, h)'
          /\ \A t \in Sessions \ {s} : told'[t] = told[t] /\ armed'[t] = armed[t]
      BY <1>t, <3>2, TellMakes
    <3> QED
      BY <1>10, <1>t, <2>1, <2>2, <2>3, <3>1, <3>3
      DEF Push, ToldIsRecent, MadeFrom, OnTheWay
  <2>4. CASE ~subscribed_headers[s]
    BY <1>10, <1>t, <2>1, <2>4 DEF Push, ToldIsRecent, MadeFrom, OnTheWay
  <2> QED
    BY <2>3, <2>4
<1> QED
  BY <1>1, <1>3, <1>4, <1>5, <1>6, <1>7, <1>8, <1>9, <1>10
  DEF Next, Answer, Threads

\* The invariant from which TipSettled follows.
LEMMA SettledAlways == Spec => []SettledInv
<1>1. Init => SettledInv
  <2> SUFFICES ASSUME Init PROVE SettledInv
    OBVIOUS
  <2>1. TypeOK
    BY TypeInit
  <2>2. \A s \in Sessions : ~busy[s] /\ told[s] = None /\ queue[s] = <<>>
    BY DEF Init
  <2>3. \A th \in Threads : pc[th] = "idle"
    BY DEF Init
  <2> QED
    BY <2>1, <2>2, <2>3
    DEF SettledInv, Asked, Warm, LastQueued, ToldIsRecent, OnTheWay, Threads
<1>2. SettledInv /\ [Next]_vars => SettledInv'
  BY TypeStep, AskedStep, WarmStep, QueueStep, RecentStep DEF SettledInv
<1> QED
  BY <1>1, <1>2, PTL DEF Spec

\* When no tip is on its way and the senders sent in the order they wrote, every
\* subscriber was last told the tip in the cache or the fiction made from it:
\* for any number of sessions and refreshers, and however the writes of the
\* cache, the sends after the mutex is released and the sessions' own requests
\* interleave.
THEOREM SubscribersSettle == Spec => []TipSettled
<1>1. SettledInv => TipSettled
  BY DEF SettledInv, ToldIsRecent, TipSettled, MadeFrom, OnTheWay
<1> QED
  BY <1>1, SettledAlways, PTL

-----------------------------------------------------------------------------
(* The tips wallets are shown: ChainTip implements TipFeed.                *)

Gullible == {s \in Sessions : effective_source(s) = "liana"}
Askers == {s \in Sessions : subscribed_headers[s]}

\* Nothing a wallet sees, and nothing that decides what it may see.
LEMMA FeedStutters ==
    ASSUME UNCHANGED <<peak, target, saw_server_version, subscribed_headers, told>>
    PROVE  UNCHANGED Feed!vars
<1>1. Gullible' = Gullible /\ Askers' = Askers
  BY DEF Gullible, Askers, effective_source
<1> QED
  BY <1>1 DEF Gullible, Askers, Feed!vars

\* A real tip of the chain, or what a session is told instead of it.
LEMMA FeedShows ==
    ASSUME TypeOK, NEW s \in Sessions, NEW h \in Height, h <= peak,
           told' = [told EXCEPT ![s] = h] \/ Tell(s, h),
           subscribed_headers' = [subscribed_headers EXCEPT ![s] = TRUE],
           UNCHANGED <<peak, target, saw_server_version>>
    PROVE  Feed!Next
<1>1. Gullible' = Gullible
  BY DEF Gullible, effective_source
<1>2. Askers' = Askers \union {s}
  <2>1. \A t \in Sessions : subscribed_headers'[t] = IF t = s THEN TRUE
                                                     ELSE subscribed_headers[t]
    BY DEF TypeOK
  <2> QED
    BY <2>1 DEF Askers
<1>3. h \in 1 .. peak
  BY DEF TypeOK, Height
<1>4. \/ told' = [told EXCEPT ![s] = h]
      \/ Feed!Mislead(s) /\ told' = [told EXCEPT ![s] = Feed!Fiction(h)]
  <2>1. CASE told' = [told EXCEPT ![s] = h]
    BY <2>1
  <2>2. CASE Tell(s, h)
    <3>1. told' = [told EXCEPT ![s] = Shown(s, h)]
      BY <2>2 DEF Tell
    <3>2. CASE virtual_tip_height(s) = 0
      <4>1. Shown(s, h) = h
        BY <3>2 DEF Shown
      <4> QED
        BY <3>1, <4>1
    <3>3. CASE virtual_tip_height(s) # 0
      <4>1. effective_source(s) = "liana" /\ virtual_tip_height(s) = target
        BY <3>3 DEF virtual_tip_height
      <4>2. Feed!Mislead(s)
        BY <3>3, <4>1 DEF Feed!Mislead
      <4>3. Shown(s, h) = Feed!Fiction(h)
        BY <3>3, <4>1 DEF Shown, Feed!Fiction
      <4> QED
        BY <3>1, <4>2, <4>3
    <3> QED
      BY <3>2, <3>3
  <2> QED
    BY <2>1, <2>2
<1>5. Feed!Show(s)
  BY <1>1, <1>2, <1>3, <1>4 DEF Feed!Show, Gullible, Askers
<1> QED
  BY <1>5 DEF Feed!Next

\* A subscription that is answered later.
LEMMA FeedAsked ==
    ASSUME TypeOK, NEW s \in Sessions, SubscribeCold(s)
    PROVE  Feed!Next
<1>1. /\ subscribed_headers' = [subscribed_headers EXCEPT ![s] = TRUE]
      /\ UNCHANGED <<peak, target, saw_server_version, told>>
  BY DEF SubscribeCold, chainv, cachev
<1>2. Gullible' = Gullible
  BY <1>1 DEF Gullible, effective_source
<1>3. \A t \in Sessions : subscribed_headers'[t] = IF t = s THEN TRUE
                                                   ELSE subscribed_headers[t]
  BY <1>1 DEF TypeOK
<1>4. Askers' = Askers \union {s}
  BY <1>3 DEF Askers
<1>5. Feed!Ask(s)
  BY <1>1, <1>2, <1>4 DEF Feed!Ask, Gullible, Askers
<1> QED
  BY <1>5 DEF Feed!Next

\* server.version is what introduces a wallet; on Liana's own port it does not.
LEMMA FeedIntroduced ==
    ASSUME TypeOK, NEW s \in Sessions, Handshake(s)
    PROVE  [Feed!Next]_(Feed!vars)
<1>1. /\ saw_server_version' = [saw_server_version EXCEPT ![s] = TRUE]
      /\ UNCHANGED <<peak, target, subscribed_headers, told>>
  BY DEF Handshake, chainv
<1>2. Askers' = Askers
  BY <1>1 DEF Askers
<1>3. \A t \in Sessions : saw_server_version'[t] = IF t = s THEN TRUE
                                                   ELSE saw_server_version[t]
  BY <1>1 DEF TypeOK
<1>4. CASE Label[s] = "sparrow"
  <2>1. Gullible' = Gullible \ {s}
    BY <1>3, <1>4 DEF Gullible, effective_source
  <2>2. Feed!Introduce(s)
    BY <1>1, <1>2, <2>1 DEF Feed!Introduce, Gullible, Askers
  <2> QED
    BY <2>2 DEF Feed!Next
<1>5. CASE Label[s] # "sparrow"
  <2>1. Gullible' = Gullible
    BY <1>3, <1>5 DEF Gullible, effective_source
  <2> QED
    BY <1>1, <1>2, <2>1 DEF Feed!vars, Gullible, Askers
<1> QED
  BY <1>4, <1>5

\* Each operation is a step of the feed, or none.
LEMMA FeedStep ==
    ASSUME RealInv, Asked, [Next]_vars
    PROVE  [Feed!Next]_(Feed!vars)
<1> USE DEF chainv, cachev, wallets, sent
<1>t. TypeOK /\ RealTips
  BY DEF RealInv
<1>a. ASSUME NEW s \in Sessions, subscribed_headers[s], UNCHANGED subscribed_headers
      PROVE  subscribed_headers' = [subscribed_headers EXCEPT ![s] = TRUE]
  <2>1. subscribed_headers[s] = TRUE
    BY <1>a, <1>t DEF TypeOK
  <2> QED
    BY <1>a, <1>t, <2>1 DEF TypeOK
<1>1. CASE Block
  <2>1. /\ peak' = peak \/ peak' = peak + 1
        /\ UNCHANGED <<target, saw_server_version, subscribed_headers, told>>
    BY <1>1, <1>t DEF Block, RealTips, TypeOK, Height
  <2>2. CASE peak' = peak
    BY <2>1, <2>2, FeedStutters
  <2>3. CASE peak' = peak + 1
    <3>1. Gullible' = Gullible /\ Askers' = Askers
      BY <2>1 DEF Gullible, Askers, effective_source
    <3>2. Feed!Grow
      BY <2>1, <2>3, <3>1 DEF Feed!Grow, Gullible, Askers
    <3> QED
      BY <3>2 DEF Feed!Next
  <2> QED
    BY <2>1, <2>2, <2>3
<1>2. CASE Arm
  <2>1. /\ UNCHANGED <<peak, saw_server_version, subscribed_headers, told>>
        /\ target' \in Nat
    BY <1>2, <1>t, ChainTipAssumption DEF Arm, TypeOK, Virtual
  <2>2. Gullible' = Gullible /\ Askers' = Askers
    BY <2>1 DEF Gullible, Askers, effective_source
  <2>3. Feed!Arm
    BY <2>1, <2>2 DEF Feed!Arm, Gullible, Askers
  <2> QED
    BY <2>3 DEF Feed!Next
<1>3. CASE Reorg \/ UNCHANGED vars
  BY <1>3, FeedStutters DEF Reorg, vars
<1>4. ASSUME NEW r \in Refreshers, Refresh(r) PROVE UNCHANGED Feed!vars
  BY <1>4, FeedStutters DEF Refresh, RefreshRead, RefreshWrite, Notify
<1>5. ASSUME NEW s \in Sessions, SubscribeRead(s) \/ Notify(s)
      PROVE  UNCHANGED Feed!vars
  BY <1>5, FeedStutters DEF SubscribeRead, Notify
<1>6. ASSUME NEW s \in Sessions, SubscribeWarm(s) PROVE Feed!Next
  <2>1. cached_chain_tip \in Height /\ cached_chain_tip <= peak
    BY <1>6, <1>t DEF SubscribeWarm, RealTips, TypeOK
  <2>2. /\ Tell(s, cached_chain_tip)
        /\ subscribed_headers' = [subscribed_headers EXCEPT ![s] = TRUE]
        /\ UNCHANGED <<peak, target, saw_server_version>>
    BY <1>6 DEF SubscribeWarm
  <2> QED
    BY <1>t, <2>1, <2>2, FeedShows
<1>7. ASSUME NEW s \in Sessions, SubscribeWrite(s) PROVE Feed!Next
  <2>1. s \in Threads /\ pc[s] = "write"
    BY <1>7 DEF SubscribeWrite, Threads
  <2>2. read[s] \in Height /\ read[s] <= peak /\ subscribed_headers[s]
    BY <1>t, <2>1 DEF RealTips, TypeOK, Asked
  <2>3. /\ told' = [told EXCEPT ![s] = read[s]]
        /\ UNCHANGED <<peak, target, saw_server_version, subscribed_headers>>
    BY <1>7 DEF SubscribeWrite
  <2> QED
    BY <1>t, <1>a, <2>2, <2>3, FeedShows
<1>8. ASSUME NEW s \in Sessions, SubscribeFails(s)
      PROVE  [Feed!Next]_(Feed!vars)
  <2>1. UNCHANGED <<peak, target, saw_server_version, subscribed_headers>>
    BY <1>8 DEF SubscribeFails
  <2>2. CASE cached_chain_tip = None
    <3>1. UNCHANGED told
      BY <1>8, <2>2 DEF SubscribeFails
    <3> QED
      BY <2>1, <3>1, FeedStutters
  <2>3. CASE cached_chain_tip # None
    <3>1. /\ cached_chain_tip \in Height /\ cached_chain_tip <= peak
          /\ subscribed_headers[s]
      BY <1>8, <1>t, <2>3 DEF SubscribeFails, RealTips, TypeOK, Asked
    <3>2. told' = [told EXCEPT ![s] = cached_chain_tip]
      BY <1>8, <2>3 DEF SubscribeFails
    <3> QED
      BY <1>t, <1>a, <2>1, <3>1, <3>2, FeedShows
  <2> QED
    BY <2>2, <2>3
<1>9. ASSUME NEW s \in Sessions, Push(s) PROVE [Feed!Next]_(Feed!vars)
  <2>1. UNCHANGED <<peak, target, saw_server_version, subscribed_headers>>
    BY <1>9 DEF Push
  <2>2. CASE subscribed_headers[s]
    <3>1. PICK h : h = Head(queue[s])
      OBVIOUS
    <3>2. h \in Height /\ h <= peak
      BY <1>9, <1>t, <3>1 DEF Push, RealTips, TypeOK
    <3>3. Tell(s, h)
      BY <1>9, <2>2, <3>1 DEF Push
    <3> QED
      BY <1>t, <1>a, <2>1, <2>2, <3>2, <3>3, FeedShows
  <2>3. CASE ~subscribed_headers[s]
    <3>1. UNCHANGED told
      BY <1>9, <2>3 DEF Push
    <3> QED
      BY <2>1, <3>1, FeedStutters
  <2> QED
    BY <2>2, <2>3
<1>10. ASSUME NEW s \in Sessions, Handshake(s) \/ SubscribeCold(s)
       PROVE  [Feed!Next]_(Feed!vars)
  BY <1>10, <1>t, FeedIntroduced, FeedAsked
<1> QED
  BY <1>1, <1>2, <1>3, <1>4, <1>5, <1>6, <1>7, <1>8, <1>9, <1>10
  DEF Next, Answer

\* Wallets are shown what they are promised, for any number of sessions and
\* refreshers and any chain: whichever thread wrote the cache and however late
\* a queued tip is pushed, a wallet sees heights the chain has had, after it
\* has asked, or the fiction armed at that moment, and never a fiction once
\* server.version has told the server who it is.
THEOREM ImplementsFeed == Spec => FeedsTips
<1>1. Init => Feed!Init
  <2> SUFFICES ASSUME Init PROVE Feed!Init
    OBVIOUS
  <2>1. \A s \in Sessions : effective_source(s) = "liana" /\ ~subscribed_headers[s]
    BY DEF Init, effective_source
  <2>2. Gullible = Sessions /\ Askers = {}
    BY <2>1 DEF Gullible, Askers
  <2> QED
    BY <2>2 DEF Init, Feed!Init, Gullible, Askers
<1>2. Spec => []RealInv
  <2>1. RealInv /\ [Next]_vars => RealInv'
    BY TypeStep, TipsStep, ToldStep DEF RealInv
  <2> QED
    BY <2>1, RealInit, PTL DEF Spec
<1>3. RealInv /\ Asked /\ [Next]_vars => [Feed!Next]_(Feed!vars)
  BY FeedStep
<1>4. Spec => []Asked
  BY SettledAlways, PTL DEF SettledInv
<1> QED
  BY <1>1, <1>2, <1>3, <1>4, PTL DEF Spec, FeedsTips, Feed!Spec
=============================================================================
