------------------------------- MODULE PoolHalt -------------------------------
(***************************************************************************)
(* The global broadcast halt against the threads that are already past     *)
(* their look at it.  The flag is an AtomicBool: the tick reads it before  *)
(* each row (pool/manager.rs, broadcast_due_transactions), broadcast_now   *)
(* once, and neither again before its network call, so a halt set by       *)
(* another thread is overtaken.  Two history variables record by whom and  *)
(* with what; BroadcastPool is unchanged.                                  *)
(***************************************************************************)
EXTENDS BroadcastPool

VARIABLES
    overtaking, \* [Workers -> Ids \cup {NoId}]: the row each worker had past
                \* its gate when the last halt was set
    leaked      \* SUBSET Txs: first sent since then, before an acknowledgement

haltVars == <<vars, overtaking, leaked>>

PastGate(w) == pc[w] \in {"send", "now"}

HaltInit ==
    /\ Init
    /\ overtaking = [w \in Workers |-> NoId]
    /\ leaked = {}

\* The halt is set ...
HaltSet ==
    /\ ~safe_mode /\ safe_mode'
    /\ overtaking' = [w \in Workers |-> IF PastGate(w)' THEN cur'[w] ELSE NoId]
    /\ leaked' = {}

\* ... and lasts.
HaltLasts ==
    /\ safe_mode
    /\ leaked' = leaked \union {t \in Txs : net[t] = "unseen" /\ net'[t] # "unseen"}
    /\ UNCHANGED overtaking

NoHalt == ~safe_mode /\ ~safe_mode' /\ UNCHANGED <<overtaking, leaked>>

HaltNext == Next /\ (HaltSet \/ HaltLasts \/ NoHalt)

HaltSpec == HaltInit /\ [][HaltNext]_haltVars

-----------------------------------------------------------------------------
\* A halt is overtaken by one transaction of each thread at most, the one the
\* thread had past its gate at that moment, however long the halt lasts, with
\* whatever batches, requests and rebroadcasts under way.
HaltLeaksWhatOvertookIt ==
    safe_mode => leaked \subseteq {TxOf[overtaking[w]] :
                                     w \in {v \in Workers : overtaking[v] \in Ids}}
=============================================================================
