--------------------------- MODULE ElchiLifecycle ---------------------------
(***************************************************************************)
(* One instance of the plugin in time: setup, the initial fetch, the       *)
(* ticker of backgroundSync, requests that end by their timeout, /health   *)
(* and Shutdown.  What a sync does to the cache is in ElchiSync.           *)
(*                                                                         *)
(* Time passes in units.  Only waiting takes time: for the ticker and for  *)
(* the controller.  A goroutine that can go on does so before the next     *)
(* unit; the delays of the scheduler are neglected.                        *)
(***************************************************************************)
EXTENDS ElchiSetup

CONSTANT Blocks  \* the server blocks the plugin may be started with

ASSUME LifecycleAssumption == Blocks \subseteq ServerBlocks

VARIABLES
    conf,          \* the configuration
    phase,         \* "rejected", "initial", "idle", "syncing" or "ended"
    elapsed,       \* since the request under way began
    untilTick,     \* until the ticker fires
    tick,          \* the channel of the ticker, which holds one tick
    status, age,   \* SyncStatus: lastSyncStatus, and the time since lastSyncTime
    cancelled,     \* shutdownCtx
    (* the controller, and history *)
    up,            \* the controller answers
    steadyFor,     \* since it last went up or down, or the start
    sinceSuccess,  \* since a sync last succeeded, or Never
    sinceShutdown

request == <<phase, elapsed>>
ticker == <<untilTick, tick>>
syncStatus == <<status, age, sinceSuccess>>
controller == <<up, steadyFor>>
shutdown == <<cancelled, sinceShutdown>>
vars == <<conf, request, ticker, syncStatus, controller, shutdown>>

Never == -1

Init ==
    /\ \E block \in Blocks :
          /\ conf = Config(block.directives)
          /\ phase = IF Accepted(block) THEN "initial" ELSE "rejected"
    /\ elapsed = 0
    /\ untilTick = 0 /\ tick = FALSE
    /\ status = "initial" /\ age = 0 /\ sinceSuccess = Never
    /\ up \in BOOLEAN /\ steadyFor = 0
    /\ cancelled = FALSE /\ sinceShutdown = 0

-----------------------------------------------------------------------------
(* Time and the controller                                                 *)

Requesting == phase \in {"initial", "syncing"}
Ticking == phase \in {"idle", "syncing"}

\* Clocks stop at the first value at which no condition can change any more.
Later(clock, limit) == IF clock < limit THEN clock + 1 ELSE clock
HealthLimit == 2 * conf.interval + 1
RecoveryTime == conf.interval + 2 * conf.timeout

\* A request does not outlive its timeout, and the goroutine takes a tick or the
\* cancellation when there is one.  A tick that finds the channel full is dropped.
TimePasses ==
    /\ Requesting => elapsed < conf.timeout
    /\ phase = "idle" => ~tick /\ ~cancelled
    /\ elapsed' = IF Requesting THEN elapsed + 1 ELSE elapsed
    /\ IF Ticking
       THEN /\ tick' = (tick \/ untilTick = 1)
            /\ untilTick' = IF untilTick = 1 THEN conf.interval ELSE untilTick - 1
       ELSE UNCHANGED ticker
    /\ age' = Later(age, HealthLimit)
    /\ sinceSuccess' = IF sinceSuccess = Never THEN Never ELSE Later(sinceSuccess, HealthLimit)
    /\ steadyFor' = Later(steadyFor, IF up THEN RecoveryTime + 1 ELSE HealthLimit)
    /\ sinceShutdown' = IF cancelled THEN Later(sinceShutdown, conf.timeout + 1) ELSE 0
    /\ UNCHANGED <<conf, phase, status, up, cancelled>>

GoDownOrUp ==
    /\ up' = ~up
    /\ steadyFor' = 0
    /\ UNCHANGED <<conf, request, ticker, syncStatus, shutdown>>

-----------------------------------------------------------------------------
(* InitClient and backgroundSync                                           *)

\* Mutant: only a success renews the time.
UpdateOnSuccess(s) ==
    /\ status' = s
    /\ age' = IF s = "success" THEN 0 ELSE age
    /\ sinceSuccess' = IF s = "success" THEN 0 ELSE sinceSuccess

\* SyncStatus.Update.
Update(s) ==
    /\ status' = s
    /\ age' = 0
    /\ sinceSuccess' = IF s = "success" THEN 0 ELSE sinceSuccess

\* A request succeeds if the controller is up, and fails, at once or by its
\* timeout, only if the controller was down at some time while it was under way.
Outcome ==
    \/ up /\ Update("success")
    \/ (~up \/ steadyFor <= elapsed) /\ Update("failed")

\* The rest of InitClient, whatever came of the fetch; the loop starts.
InitialFetchDone ==
    /\ phase = "initial"
    /\ Outcome
    /\ phase' = "idle" /\ elapsed' = 0
    /\ untilTick' = conf.interval /\ tick' = FALSE
    /\ UNCHANGED <<conf, controller, shutdown>>

\* A tick is taken, also if the cancellation is ready as well: select picks at random.
PerformSync ==
    /\ phase = "idle" /\ tick
    /\ phase' = "syncing" /\ elapsed' = 0
    /\ tick' = FALSE
    /\ UNCHANGED <<conf, untilTick, syncStatus, controller, shutdown>>

\* Mutant: a sync that fails ends the loop.
SyncDoneOrDead ==
    /\ phase = "syncing"
    /\ Outcome
    /\ phase' = IF status' = "failed" THEN "ended" ELSE "idle"
    /\ elapsed' = 0
    /\ UNCHANGED <<conf, ticker, controller, shutdown>>

SyncDone ==
    /\ phase = "syncing"
    /\ Outcome
    /\ phase' = "idle" /\ elapsed' = 0
    /\ UNCHANGED <<conf, ticker, controller, shutdown>>

\* Mutant: the cancellation leaves the select, but not the loop.
LeaveSelect ==
    /\ phase = "idle" /\ cancelled
    /\ UNCHANGED vars

LoopReturns ==
    /\ phase = "idle" /\ cancelled
    /\ phase' = "ended"
    /\ UNCHANGED <<conf, elapsed, ticker, syncStatus, controller, shutdown>>

\* The context of a sync under way is not the one that is cancelled.
Shutdown ==
    /\ phase \in {"idle", "syncing"} /\ ~cancelled
    /\ cancelled' = TRUE /\ sinceShutdown' = 0
    /\ UNCHANGED <<conf, request, ticker, syncStatus, controller>>

Loop == PerformSync \/ SyncDone \/ LoopReturns

Next == TimePasses \/ GoDownOrUp \/ InitialFetchDone \/ Loop \/ Shutdown

Spec == Init /\ [][Next]_vars

\* Time does not stop, a request ends, a goroutine that can go on does.
Fairness == WF_vars(TimePasses) /\ WF_vars(InitialFetchDone) /\ WF_vars(Loop)
FairSpec == Spec /\ Fairness

-----------------------------------------------------------------------------
(* handleHealth *)

Health ==
    IF status = "failed" /\ age > 2 * conf.interval THEN "degraded" ELSE "healthy"

TypeOK ==
    /\ conf \in [endpoint : Int, secret : Int, nodeIP : Int, ttl : Int, interval : Int,
                 timeout : Int, webhook : BOOLEAN, addr : Int]
    /\ phase \in {"rejected", "initial", "idle", "syncing", "ended"}
    /\ phase # "rejected" =>
          /\ conf.ttl \in 1 .. MaxTTL
          /\ conf.interval \in MinSyncInterval .. MaxSyncInterval
          /\ conf.timeout \in MinTimeout .. conf.interval - 1
    /\ elapsed \in Nat /\ untilTick \in Nat /\ age \in Nat
    /\ steadyFor \in Nat /\ sinceSuccess \in Nat \cup {Never} /\ sinceShutdown \in Nat
    /\ tick \in BOOLEAN /\ cancelled \in BOOLEAN /\ up \in BOOLEAN
    /\ status \in {"initial", "success", "failed"}

\* No sync is still under way when the next tick comes, so no tick waits or is
\* dropped: what the comparison of setup.go:190 is for.
NoOverrun == phase = "syncing" => ~tick /\ elapsed < conf.interval

\* Until Shutdown, /health never says "degraded", however long the controller is
\* down: a failed sync renews the time too (webhook.go:43), and the next one comes
\* before twice the interval is over (webhook.go:219).
NeverDegraded == ~cancelled => Health = "healthy"

\* Until Shutdown the loop lives: the last outcome of a sync, good or bad, is never
\* older than an interval and a timeout, whatever becomes of the requests.
KeepsSyncing ==
    phase # "rejected" /\ ~cancelled => age <= conf.interval + conf.timeout

\* Once the controller has answered for an interval and two timeouts, the last sync
\* was a success, wherever in the cycle or the startup the controller came back.
RecoversInTime ==
    phase # "rejected" /\ ~cancelled /\ up /\ steadyFor > RecoveryTime => status = "success"

\* The goroutine is gone a timeout after Shutdown, although select may prefer a tick
\* to the cancellation and a sync under way is not cancelled (elchi.go:188-201).
EndsInTime == cancelled /\ sinceShutdown > conf.timeout => phase = "ended"

\* Shutdown ends the goroutine.
ShutdownEnds == cancelled ~> phase = "ended"

\* The controller has been down for more than two intervals without a break.
Outage == ~up /\ steadyFor > 2 * conf.interval

\* The claim of README.md:541 about /health, "degraded: Last sync failed AND it's
\* been > 2x sync_interval since last success", in the case it is made for: an
\* outage of that length after a sync that succeeded.
DegradedWhenStale ==
    ~cancelled /\ status = "failed" /\ Outage /\ sinceSuccess > 2 * conf.interval
        => Health = "degraded"
=============================================================================
