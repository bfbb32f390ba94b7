------------------------------- MODULE ChainTip -------------------------------
(***************************************************************************)
(* The cached chain tip (pool/manager.rs, electrum_server/mod.rs), the     *)
(* header subscriptions served and pushed from it, and the virtual tip an  *)
(* armed Liana session is shown in its place (virtual_headers.rs).         *)
(*                                                                         *)
(* Whoever refreshes the cache reads the indexer, later writes the cache   *)
(* under its mutex and, when the height changed, sends to the sessions     *)
(* after releasing it: three steps that two refreshers may interleave.     *)
(* A header is its height.  The channel keeps 64 tips and a session is     *)
(* assumed never that many blocks behind.                                  *)
(***************************************************************************)
EXTENDS Naturals, Sequences

CONSTANTS
    Sessions,
    Label,        \* [Sessions -> {"sparrow", "liana"}]: the port they use
    Refreshers,   \* threads that refresh the cache
    Poller,       \* the one that never stops
    None,         \* no tip
    Targets,      \* heights a user arms
    MaxHeight,    \* bound on the chain
    MaxReorgs     \* bound on the blocks it loses

ASSUME ChainTipAssumption ==
    /\ Label \in [Sessions -> {"sparrow", "liana"}]
    /\ Poller \in Refreshers
    /\ Refreshers \intersect Sessions = {}
    /\ MaxHeight \in Nat \ {0} /\ MaxReorgs \in Nat
    /\ None \notin Nat
    /\ Targets \subseteq 1 .. MaxHeight + 2

VARIABLES
    tip,                \* the height the indexer reports
    peak,               \* bookkeeping: the highest it has been
    reorgs,             \* bookkeeping for MaxReorgs
    cached_chain_tip,
    pc, read,           \* where each refresher is, and the tip it carries
    target,             \* the armed virtual height; 0 is disarmed
    wallet,             \* [Sessions -> Kind]: what each really is, fixed
    saw_server_version,
    subscribed_headers,
    busy,               \* sessions waiting for the indexer themselves
    told,               \* [Sessions -> Height \cup {None}]: last tip sent
    armed,              \* bookkeeping: the target it was computed with
    queue,              \* [Sessions -> Seq(Height)]: tips not received yet
    last_sent           \* bookkeeping: the last tip sent to the channel

chainv  == <<tip, peak, reorgs>>
cachev  == <<cached_chain_tip, pc, read>>
wallets == <<wallet, saw_server_version, subscribed_headers, busy, told, armed>>
sent    == <<queue, last_sent>>
vars == <<chainv, cachev, target, wallets, sent>>

Height  == 1 .. MaxHeight
Virtual == 1 .. MaxHeight + 2
Kind    == {"sparrow", "liana"}
Threads == Refreshers \union Sessions
PC      == {"idle", "start", "write", "notify"}

Init ==
    /\ tip = 1 /\ peak = 1 /\ reorgs = 0
    /\ cached_chain_tip = None
    /\ pc = [th \in Threads |-> "idle"]
    /\ read = [th \in Threads |-> None]
    /\ target = 0
    /\ wallet \in [Sessions -> Kind]
    /\ saw_server_version = [s \in Sessions |-> FALSE]
    /\ subscribed_headers = [s \in Sessions |-> FALSE]
    /\ busy = [s \in Sessions |-> FALSE]
    /\ told = [s \in Sessions |-> None]
    /\ armed = [s \in Sessions |-> 0]
    /\ queue = [s \in Sessions |-> <<>>]
    /\ last_sent = None

-----------------------------------------------------------------------------
(* The chain and the configuration.                                        *)

Block ==
    /\ tip < MaxHeight
    /\ tip' = tip + 1
    /\ peak' = IF tip' > peak THEN tip' ELSE peak
    /\ UNCHANGED <<reorgs, cachev, target, wallets, sent>>

Reorg ==
    /\ reorgs < MaxReorgs /\ tip > 1
    /\ tip' = tip - 1
    /\ reorgs' = reorgs + 1
    /\ UNCHANGED <<peak, cachev, target, wallets, sent>>

\* The user arms a height above the tip, a capture advances it by two, the
\* user or the poller disarms.
Arm ==
    /\ \/ \E v \in Targets : v > tip /\ target' = v
       \/ target # 0 /\ target + 2 \in Virtual /\ target' = target + 2
       \/ target # 0 /\ target' = 0
    /\ UNCHANGED <<chainv, cachev, wallets, sent>>

-----------------------------------------------------------------------------
(* Refreshing the cache.                                                   *)

Goto(th, p, h) ==
    /\ pc' = [pc EXCEPT ![th] = p]
    /\ read' = [read EXCEPT ![th] = h]

\* Faulty variant: the zero of an indexer that is still starting is taken.
ParseTakesZero(reported) == reported

\* parse_headers_subscribe_result: the heights a reply may be read as; an
\* indexer that is still starting reports zero, which is refused.
parse_headers_subscribe_result(reported) == reported \ {0}

\* refresh_chain_tip_cache: the request.  The poller refreshes every thirty
\* seconds; other refreshers when a session has asked.  A request that fails
\* changes nothing and is not a step.
RefreshRead(r) ==
    /\ pc[r] = IF r = Poller THEN "idle" ELSE "start"
    /\ \E h \in parse_headers_subscribe_result({0, tip}) : Goto(r, "write", h)
    /\ UNCHANGED <<cached_chain_tip, chainv, target, wallets, sent>>

\* Faulty variant: only a higher tip is announced.
CacheTellsHigher(th) ==
    /\ cached_chain_tip' = read[th]
    /\ IF cached_chain_tip = None \/ cached_chain_tip < read[th]
       THEN Goto(th, "notify", read[th]) ELSE Goto(th, "idle", None)

\* cache_chain_tip, by thread th with the tip it carries: only another height
\* is announced.
cache_chain_tip(th) ==
    /\ cached_chain_tip' = read[th]
    /\ IF cached_chain_tip # read[th] THEN Goto(th, "notify", read[th])
                                      ELSE Goto(th, "idle", None)

RefreshWrite(r) ==
    /\ r \in Refreshers /\ pc[r] = "write"
    /\ cache_chain_tip(r)
    /\ UNCHANGED <<chainv, target, wallets, sent>>

\* The send, after the mutex was released.
Notify(th) ==
    /\ pc[th] = "notify"
    /\ queue' = [s \in Sessions |-> Append(queue[s], read[th])]
    /\ last_sent' = read[th]
    /\ Goto(th, "idle", None)
    /\ UNCHANGED <<cached_chain_tip, chainv, target, wallets>>

-----------------------------------------------------------------------------
(* Sessions.                                                               *)

\* A wallet without a name that never sent server.version is Liana.
effective_source(s) ==
    IF Label[s] = "sparrow" /\ saw_server_version[s] THEN "sparrow" ELSE "liana"

\* Sparrow opens with server.version and waits for the answer; Liana never
\* sends it.
Handshake(s) ==
    /\ wallet[s] = "sparrow" /\ ~saw_server_version[s]
    /\ saw_server_version' = [saw_server_version EXCEPT ![s] = TRUE]
    /\ UNCHANGED <<wallet, subscribed_headers, busy, told, armed>>
    /\ UNCHANGED <<chainv, cachev, target, sent>>

\* Faulty variant: the armed height is everybody's.
VirtualForEveryone(s) == target

virtual_tip_height(s) == IF effective_source(s) = "liana" THEN target ELSE 0

\* What session s is shown for the real height h: the header fabricated for
\* max(target, h + 1), or h itself.
Shown(s, h) ==
    LET v == virtual_tip_height(s) IN
    IF v = 0 THEN h ELSE IF v > h + 1 THEN v ELSE h + 1

Tell(s, h) ==
    /\ told' = [told EXCEPT ![s] = Shown(s, h)]
    /\ armed' = [armed EXCEPT ![s] = virtual_tip_height(s)]

\* The spawned refresh; bound: one at a time.
Spawn ==
    LET free == {r \in Refreshers \ {Poller} : pc[r] = "idle"} IN
    pc' = [th \in Threads |-> IF th \in free THEN "start" ELSE pc[th]]

Ready(s) == ~busy[s] /\ pc[s] = "idle"
            /\ (wallet[s] = "sparrow" => saw_server_version[s])

\* Faulty variant: the fabricated tip goes through the cache.
SubscribeWarmCaches(s) ==
    /\ Ready(s)
    /\ cached_chain_tip # None
    /\ subscribed_headers' = [subscribed_headers EXCEPT ![s] = TRUE]
    /\ Tell(s, cached_chain_tip)
    /\ cached_chain_tip' = Shown(s, cached_chain_tip)
    /\ IF virtual_tip_height(s) = 0 THEN Spawn ELSE UNCHANGED pc
    /\ UNCHANGED <<wallet, saw_server_version, busy, read>>
    /\ UNCHANGED <<chainv, target, sent>>

\* Faulty variant: the instant answer does not mark the subscription.
SubscribeWarmUnmarked(s) ==
    /\ Ready(s)
    /\ cached_chain_tip # None
    /\ Tell(s, cached_chain_tip)
    /\ IF virtual_tip_height(s) = 0 THEN Spawn ELSE UNCHANGED pc
    /\ UNCHANGED <<wallet, saw_server_version, busy, cached_chain_tip, read>>
    /\ UNCHANGED <<subscribed_headers, chainv, target, sent>>

\* blockchain.headers.subscribe with a warm cache: the instant answer, or the
\* fabricated one, which asks for no refresh.
SubscribeWarm(s) ==
    /\ Ready(s)
    /\ cached_chain_tip # None
    /\ subscribed_headers' = [subscribed_headers EXCEPT ![s] = TRUE]
    /\ Tell(s, cached_chain_tip)
    /\ IF virtual_tip_height(s) = 0 THEN Spawn ELSE UNCHANGED pc
    /\ UNCHANGED <<wallet, saw_server_version, busy, cached_chain_tip, read>>
    /\ UNCHANGED <<chainv, target, sent>>

\* With a cold cache the session asks the indexer itself ...
SubscribeCold(s) ==
    /\ Ready(s)
    /\ cached_chain_tip = None
    /\ subscribed_headers' = [subscribed_headers EXCEPT ![s] = TRUE]
    /\ busy' = [busy EXCEPT ![s] = TRUE]
    /\ UNCHANGED <<wallet, saw_server_version, told, armed>>
    /\ UNCHANGED <<chainv, cachev, target, sent>>

SubscribeRead(s) ==
    /\ busy[s] /\ pc[s] = "idle"
    /\ \E h \in parse_headers_subscribe_result({0, tip}) : Goto(s, "write", h)
    /\ UNCHANGED <<cached_chain_tip, chainv, target, wallets, sent>>

\* ... and passes the answer on as it is, to an armed Liana session too ...
SubscribeWrite(s) ==
    /\ s \in Sessions /\ pc[s] = "write"
    /\ cache_chain_tip(s)
    /\ busy' = [busy EXCEPT ![s] = FALSE]
    /\ told' = [told EXCEPT ![s] = read[s]]
    /\ armed' = [armed EXCEPT ![s] = 0]
    /\ UNCHANGED <<wallet, saw_server_version, subscribed_headers>>
    /\ UNCHANGED <<chainv, target, sent>>

\* ... or, without an answer, serves what somebody else cached meanwhile, or
\* an error.
SubscribeFails(s) ==
    /\ busy[s] /\ pc[s] = "idle"
    /\ busy' = [busy EXCEPT ![s] = FALSE]
    /\ IF cached_chain_tip = None
       THEN UNCHANGED <<told, armed>>
       ELSE /\ told' = [told EXCEPT ![s] = cached_chain_tip]
            /\ armed' = [armed EXCEPT ![s] = 0]
    /\ UNCHANGED <<wallet, saw_server_version, subscribed_headers>>
    /\ UNCHANGED <<chainv, cachev, target, sent>>

\* A tip is received and pushed, or dropped before the wallet has subscribed.
Push(s) ==
    /\ ~busy[s] /\ pc[s] = "idle"
    /\ queue[s] # <<>>
    /\ queue' = [queue EXCEPT ![s] = Tail(@)]
    /\ IF subscribed_headers[s] THEN Tell(s, Head(queue[s]))
                                ELSE UNCHANGED <<told, armed>>
    /\ UNCHANGED <<last_sent, wallet, saw_server_version, subscribed_headers, busy>>
    /\ UNCHANGED <<chainv, cachev, target>>

-----------------------------------------------------------------------------
Refresh(r) == RefreshRead(r) \/ RefreshWrite(r) \/ Notify(r)

Answer(s) == SubscribeRead(s) \/ SubscribeWrite(s) \/ SubscribeFails(s)

Next ==
    \/ Block \/ Reorg \/ Arm
    \/ \E r \in Refreshers : Refresh(r)
    \/ \E s \in Sessions :
         \/ Handshake(s) \/ SubscribeWarm(s) \/ SubscribeCold(s)
         \/ Answer(s) \/ Notify(s) \/ Push(s)

Spec == Init /\ [][Next]_vars

\* The poller never stops and the indexer answers it; every other task that
\* has something to do gets to it.
Fairness ==
    /\ \A r \in Refreshers : WF_vars(Refresh(r))
    /\ \A s \in Sessions :
         WF_vars(Answer(s)) /\ WF_vars(Notify(s)) /\ WF_vars(Push(s))

FairSpec == Spec /\ Fairness

-----------------------------------------------------------------------------
(* Properties.                                                             *)

\* Every variable holds a value of its kind; a thread past its read carries
\* a tip, and a height of zero is never cached or served.
TypeOK ==
    /\ tip \in Height /\ peak \in Height /\ reorgs \in 0 .. MaxReorgs
    /\ cached_chain_tip \in Height \union {None}
    /\ pc \in [Threads -> PC]
    /\ read \in [Threads -> Height \union {None}]
    /\ target \in {0} \union Virtual
    /\ wallet \in [Sessions -> Kind]
    /\ saw_server_version \in [Sessions -> BOOLEAN]
    /\ subscribed_headers \in [Sessions -> BOOLEAN]
    /\ busy \in [Sessions -> BOOLEAN]
    /\ told \in [Sessions -> Virtual \union {None}]
    /\ armed \in [Sessions -> {0} \union Virtual]
    /\ queue \in [Sessions -> Seq(Height)]
    /\ last_sent \in Height \union {None}
    /\ \A th \in Threads : pc[th] \in {"write", "notify"} => read[th] \in Height

\* A fabricated height stays with the Liana sessions it was made for: the
\* cache, the channel and every session of a wallet that said who it is hold
\* heights the chain has really had ("it can only lie to this one Liana
\* session").
NoFictionElsewhere ==
    /\ cached_chain_tip # None => cached_chain_tip <= peak
    /\ \A s \in Sessions :
         /\ \A n \in 1 .. Len(queue[s]) : queue[s][n] <= peak
         /\ wallet[s] = "sparrow" /\ Label[s] = "sparrow" /\ told[s] # None
            => told[s] <= peak

\* When no tip is on its way, the last one every subscriber was told is the
\* one in the cache, or the fiction made from it, unless two refreshers sent
\* in another order than they wrote.
TipSettled ==
    (/\ \A th \in Threads : pc[th] \notin {"write", "notify"}
     /\ last_sent = cached_chain_tip)
    => \A s \in Sessions :
         (told[s] # None /\ queue[s] = <<>> /\ ~busy[s])
         => told[s] = IF armed[s] = 0 THEN cached_chain_tip
                      ELSE IF armed[s] > cached_chain_tip + 1 THEN armed[s]
                      ELSE cached_chain_tip + 1

\* Wallets are shown what they are promised, whoever refreshed the cache and
\* whatever is still queued: each tip shown is one the chain has had, in answer
\* to a request, or the fiction armed at the moment it is shown, and that to
\* none that has said who it is.
Feed ==
    INSTANCE TipFeed WITH
        Nothing <- None,
        gullible <- {s \in Sessions : effective_source(s) = "liana"},
        asked <- {s \in Sessions : subscribed_headers[s]},
        shown <- told

FeedsTips == Feed!Spec

\* Every wallet that ever asked for headers follows the chain ("the server
\* must push every new tip to header subscribers"): with the tip at h for
\* good it ends up being told h.  The excuse is a pair of sends in the wrong
\* order, which nothing repairs before the next block.
TipReachesWallets ==
    \A s \in Sessions, h \in Height :
        (tip = h /\ told[s] # None /\ effective_source(s) = "sparrow")
        ~> (told[s] = h \/ tip # h \/ last_sent # cached_chain_tip)
=============================================================================
