----------------------------- MODULE ControlPlane -----------------------------
(***************************************************************************)
(* The event loop: lifecycle of a run, accounting, the status it reports   *)
(* and the settings it hands to the stages of the pipeline.                *)
(* (src/loadgen/control_state.go, run_state.go, pipeline_runtime.go)       *)
(*                                                                         *)
(* The loop is one goroutine.  A handler is one action, except that a stop *)
(* of the runtime is a wait during which the workers go on and time        *)
(* passes, what follows it is split where the code reads or stores the     *)
(* shared counter, and a start opens its resources before it knows whether *)
(* there is anything to read.  The stages are reduced to what the loop sees of them:  *)
(* the sender pool adds deliveries to the counter until it is joined, the  *)
(* reader pool may report one source error.  A command is a choice of the  *)
(* loop; the clients and their queue are not part of this module.          *)
(***************************************************************************)
EXTENDS Integers

CONSTANTS
    Values,         \* values a setting may take
    InitialValue,   \* the configured initial value of every setting
    MaxDeliveries,  \* bound: deliveries over the life of the service
    MaxNow,         \* bound: the clock
    MaxRuns         \* bound: runs started

ASSUME ValuesAssumption == Values \subseteq Nat /\ InitialValue \in Values
ASSUME BoundsAssumption ==
    MaxDeliveries \in Nat /\ MaxNow \in Nat /\ MaxRuns \in Nat

(* "capacity" stands for the three settings of an idle run: read batch    *)
(* size and both channel capacities; "throttle" for the requested TPS and  *)
(* the installed flag.                                                     *)
Settings == {"capacity", "readers", "throttle", "senders"}
None == -1

VARIABLES
    state,          \* runState
    loop,           \* "select", "starting", "joining", "collect", "clear", "ended"
    cause,          \* of the stop in progress: "reset", "fault", "exit"
    ctxDone,        \* the service context is cancelled
    opened,         \* the run's context, channels and attached telemetry exist
    alive,          \* the stages of a run exist
    applied,        \* the settings as the stages have them
    controls,       \* configuredControls
    report,         \* the reader pool's one source error: "none", "queued", "taken"
    readersEnded,   \* the reader pool has cancelled itself
    sourceError,    \* run.sourceError # nil
    counter,        \* terminallyCompletedTransactionsSinceTick
    total,          \* run.totalTransactions
    prom,           \* the Prometheus counter
    runStartedAt,   \* a time, or None
    elapsedBefore,  \* run.elapsedBeforeRun
    pausedStatus,   \* what Pause froze: [total, elapsed], or NoStatus
    now,            \* the clock
    runs,           \* runs started
    (* history *)
    delivered,      \* deliveries ever
    deliveredRun,   \* deliveries since progress was last reset
    deliveredSpan,  \* deliveries since the rate interval began
    ranFor          \* time spent running since progress was last reset

stageVars == <<opened, alive, applied, report, readersEnded>>
countVars == <<counter, total, prom>>
timeVars == <<runStartedAt, elapsedBefore>>
historyVars == <<delivered, deliveredRun, deliveredSpan, ranFor>>
loopVars == <<state, loop, cause>>
envVars == <<ctxDone, now, runs>>
vars == <<loopVars, envVars, stageVars, controls, sourceError, countVars, timeVars,
          pausedStatus, historyVars>>

NoSettings == [s \in Settings |-> None]
NoStatus == [total |-> None, elapsed |-> None]

-------------------------------------------------------------------------------
(* elapsedMs and runtimeStatusAt: what a client is shown. *)

Elapsed ==
    elapsedBefore + IF state = "running" THEN now - runStartedAt ELSE 0

\* Mutant: a paused run shows its live measurements.
ShownLive == [total |-> total, elapsed |-> Elapsed]

Shown ==
    IF state = "paused" THEN pausedStatus ELSE [total |-> total, elapsed |-> Elapsed]

Init ==
    /\ state = "idle" /\ loop = "select" /\ cause = "exit" /\ ctxDone = FALSE
    /\ opened = FALSE /\ alive = FALSE /\ report = "none" /\ readersEnded = FALSE
    /\ controls = [s \in Settings |-> InitialValue]
    /\ applied = NoSettings
    /\ sourceError = FALSE
    /\ counter = 0 /\ total = 0 /\ prom = 0
    /\ runStartedAt = None /\ elapsedBefore = 0
    /\ pausedStatus = NoStatus
    /\ now = 0 /\ runs = 0
    /\ delivered = 0 /\ deliveredRun = 0 /\ deliveredSpan = 0 /\ ranFor = 0

-------------------------------------------------------------------------------
(* The stages and the environment. *)

\* A sender worker adds a delivered batch, until the pool is joined.  A gate
\* closed by Pause does not hold back the attempts already in flight.
Deliver ==
    /\ alive
    /\ delivered < MaxDeliveries
    /\ counter' = counter + 1
    /\ delivered' = delivered + 1
    /\ deliveredRun' = deliveredRun + 1
    /\ deliveredSpan' = deliveredSpan + 1
    /\ UNCHANGED <<loopVars, envVars, stageVars, controls, sourceError, total, prom,
                   timeVars, pausedStatus, ranFor>>

OnlyStages == UNCHANGED <<loopVars, envVars, controls, sourceError, countVars,
                          timeVars, pausedStatus, historyVars>>

\* reportSourceError, once in the life of the pool: the error goes into the
\* buffered channel,
ReaderReports ==
    /\ alive
    /\ report = "none"
    /\ report' = "queued"
    /\ UNCHANGED <<opened, alive, applied, readersEnded>>
    /\ OnlyStages

\* then the pool cancels itself.
ReadersEnd ==
    /\ report # "none" /\ ~readersEnded
    /\ readersEnded' = TRUE
    /\ UNCHANGED <<opened, alive, applied, report>>
    /\ OnlyStages

OnlyEnvironment == UNCHANGED <<loopVars, stageVars, controls, sourceError, countVars,
                               timeVars, pausedStatus>>

ClockAdvances ==
    /\ now < MaxNow
    /\ now' = now + 1
    /\ ranFor' = IF state = "running" THEN ranFor + 1 ELSE ranFor
    /\ UNCHANGED <<ctxDone, runs, delivered, deliveredRun, deliveredSpan>>
    /\ OnlyEnvironment

ContextEnds ==
    /\ ~ctxDone
    /\ ctxDone' = TRUE
    /\ UNCHANGED <<now, runs, historyVars>>
    /\ OnlyEnvironment

-------------------------------------------------------------------------------
(* Parts of the handlers. *)

CollectCompleted ==
    /\ total' = total + counter
    /\ prom' = prom + counter
    /\ counter' = 0

\* Mutant: runStartedAt is kept.
PauseElapsedKept ==
    IF runStartedAt = None
    THEN UNCHANGED timeVars
    ELSE /\ elapsedBefore' = elapsedBefore + (now - runStartedAt)
         /\ UNCHANGED runStartedAt

PauseElapsed ==
    IF runStartedAt = None
    THEN UNCHANGED timeVars
    ELSE /\ elapsedBefore' = elapsedBefore + (now - runStartedAt)
         /\ runStartedAt' = None

\* runtime.stop() is entered.
BeginStop(why) ==
    /\ loop' = "joining"
    /\ cause' = why

\* Mutant: a fault is accepted from a running run only.
MayFaultRunning == {"running"}

\* runState.fault()
MayFault == {"running", "paused"}

-------------------------------------------------------------------------------
(* Commands. *)

\* cmdRun on an idle run.  runtime.start opens the run's context and channels
\* and attaches their telemetry before it looks for source files.
BeginStart ==
    /\ loop = "select" /\ state = "idle"
    /\ loop' = "starting"
    /\ opened' = TRUE
    /\ UNCHANGED <<state, cause, envVars, alive, applied, report, readersEnded, controls,
                   sourceError, countVars, timeVars, pausedStatus, historyVars>>

\* There are files: the reader pool and the throttler are started, then the
\* senders.
StartRun ==
    /\ loop = "starting"
    /\ runs < MaxRuns
    /\ runs' = runs + 1
    /\ loop' = "select" /\ state' = "running"
    /\ runStartedAt' = now
    /\ alive' = TRUE
    /\ applied' = controls
    /\ deliveredSpan' = 0
    /\ UNCHANGED <<cause, ctxDone, now, opened, report, readersEnded, controls, sourceError,
                   countVars, elapsedBefore, pausedStatus, delivered, deliveredRun, ranFor>>

\* Mutant: a start that fails leaves open what it opened.
StartFailsHalfUndone ==
    /\ loop = "starting"
    /\ loop' = "select" /\ state' = "faulted"
    /\ sourceError' = TRUE
    /\ UNCHANGED <<cause, envVars, stageVars, controls, countVars, timeVars,
                   pausedStatus, historyVars>>

\* There is none: what was opened is closed and detached again.
StartFails ==
    /\ loop = "starting"
    /\ opened' = FALSE
    /\ loop' = "select" /\ state' = "faulted"
    /\ sourceError' = TRUE
    /\ UNCHANGED <<cause, envVars, alive, applied, report, readersEnded, controls, countVars,
                   timeVars, pausedStatus, historyVars>>

\* Mutant: what arrived during the pause is left in the counter.
CollectOnResumeSkipped == UNCHANGED countVars

\* What arrived during the pause is collected before a rate counts it.
CollectOnResume == CollectCompleted

\* cmdRun on a paused run.
Resume ==
    /\ loop = "select" /\ state = "paused"
    /\ state' = "running"
    /\ runStartedAt' = now
    /\ CollectOnResume
    /\ pausedStatus' = NoStatus
    /\ deliveredSpan' = 0
    /\ UNCHANGED <<loop, cause, envVars, stageVars, controls, sourceError, elapsedBefore,
                   delivered, deliveredRun, ranFor>>

\* cmdPause.
Pause ==
    /\ loop = "select" /\ state = "running"
    /\ CollectCompleted
    /\ pausedStatus' = [total |-> total', elapsed |-> Elapsed]
    /\ PauseElapsed
    /\ state' = "paused"
    /\ UNCHANGED <<loop, cause, envVars, stageVars, controls, sourceError, historyVars>>

\* cmdReset: a paused or faulted run is stopped first, an idle one goes
\* straight to resetProgress, a running one is left alone.
Reset ==
    /\ loop = "select"
    /\ \/ /\ state \in {"paused", "faulted"}
          /\ state' = "resetting"
          /\ BeginStop("reset")
       \/ /\ state = "idle"
          /\ loop' = "collect" /\ cause' = "reset"
          /\ UNCHANGED state
    /\ UNCHANGED <<envVars, stageVars, controls, sourceError, countVars, timeVars,
                   pausedStatus, historyVars>>

\* A setting takes value v; its stage takes it as well, if there is one and
\* it still listens.
Set(s, v, listening) ==
    /\ loop = "select"
    /\ controls' = [controls EXCEPT ![s] = v]
    /\ applied' = IF alive /\ listening THEN [applied EXCEPT ![s] = v] ELSE applied
    /\ UNCHANGED <<loopVars, envVars, opened, alive, report, readersEnded, sourceError, countVars,
                   timeVars, pausedStatus, historyVars>>

\* cmdSetReadBatchSize and the two channel capacities: accepted when idle.
SetCapacity(v) == state = "idle" /\ Set("capacity", v, FALSE)

\* cmdSetReaderWorkers; a reader pool that is ending ignores it.
SetReaders(v) == Set("readers", v, ~readersEnded /\ ~ctxDone)

\* cmdSetRequestedTPS and cmdSetThrottlerInstalled: only a change is handed
\* on; a throttler whose context has ended may have left.
SetThrottle(v) ==
    /\ controls["throttle"] # v
    /\ \E gone \in BOOLEAN : (gone => ctxDone) /\ Set("throttle", v, ~gone)

\* cmdSetSenderWorkers.
SetSenders(v) == Set("senders", v, TRUE)

Command ==
    \/ BeginStart \/ Resume \/ Pause \/ Reset
    \/ \E v \in Values : SetCapacity(v) \/ SetReaders(v) \/ SetThrottle(v) \/ SetSenders(v)

-------------------------------------------------------------------------------
(* The other cases of the select. *)

\* A source error of the readers.
Fault ==
    /\ loop = "select" /\ report = "queued"
    /\ report' = "taken"
    /\ IF state \in MayFault
       THEN /\ state' = "faulted"
            /\ PauseElapsed
            /\ sourceError' = TRUE
            /\ BeginStop("fault")
       ELSE UNCHANGED <<state, loop, cause, sourceError, timeVars>>
    /\ UNCHANGED <<envVars, opened, alive, applied, readersEnded, controls, countVars,
                   pausedStatus, historyVars>>

\* The ticker; outside a pause the tick publishes a rate and begins the next
\* interval.
Tick ==
    /\ loop = "select"
    /\ CollectCompleted
    /\ deliveredSpan' = IF state = "paused" THEN deliveredSpan ELSE 0
    /\ UNCHANGED <<loopVars, envVars, stageVars, controls, sourceError, timeVars,
                   pausedStatus, delivered, deliveredRun, ranFor>>

\* ctx.Done().
Exit ==
    /\ loop = "select" /\ ctxDone
    /\ BeginStop("exit")
    /\ UNCHANGED <<state, envVars, stageVars, controls, sourceError, countVars, timeVars,
                   pausedStatus, historyVars>>

-------------------------------------------------------------------------------
(* The end of a stop, and what follows it. *)

\* Mutant: the stages are not waited for.
StagesLeft == UNCHANGED stageVars

\* clearActive, after all goroutines of the stages have ended.
StagesGone ==
    /\ opened' = FALSE /\ alive' = FALSE
    /\ applied' = NoSettings
    /\ report' = "none" /\ readersEnded' = FALSE

Joined ==
    /\ loop = "joining"
    /\ loop' = "collect"
    /\ StagesGone
    /\ UNCHANGED <<state, cause, envVars, controls, sourceError, countVars, timeVars,
                   pausedStatus, historyVars>>

Collect ==
    /\ loop = "collect"
    /\ CollectCompleted
    /\ loop' = IF cause = "exit" THEN "ended" ELSE "clear"
    /\ UNCHANGED <<state, cause, envVars, stageVars, controls, sourceError, timeVars,
                   pausedStatus, historyVars>>

\* resetFaultedMeasurements leaves the progress of the run as it is.
KeepProgress == UNCHANGED <<state, total, timeVars, sourceError, deliveredRun, ranFor>>

\* resetProgress and completeReset clear it.
ResetProgress ==
    /\ state' = "idle"
    /\ total' = 0
    /\ elapsedBefore' = 0 /\ runStartedAt' = None
    /\ deliveredRun' = 0 /\ ranFor' = 0
    /\ sourceError' = FALSE

Clear ==
    /\ loop = "clear"
    /\ loop' = "select"
    /\ counter' = 0
    /\ pausedStatus' = NoStatus
    /\ deliveredSpan' = 0
    /\ IF cause = "fault" THEN KeepProgress ELSE ResetProgress
    /\ UNCHANGED <<cause, envVars, stageVars, controls, prom, delivered>>

Ended ==
    /\ loop = "ended"
    /\ UNCHANGED vars

-------------------------------------------------------------------------------
Next ==
    \/ Deliver \/ ReaderReports \/ ReadersEnd \/ ClockAdvances \/ ContextEnds
    \/ Command \/ StartRun \/ StartFails
    \/ Fault \/ Tick \/ Exit
    \/ Joined \/ Collect \/ Clear
    \/ Ended

Spec == Init /\ [][Next]_vars

(* A select chooses at random among its ready cases, so no case that stays *)
(* or comes back ready is passed over for ever.  That the stages end is    *)
(* CallsReturn of SenderPool and of ReaderStages.                         *)
Fairness ==
    /\ SF_vars(Fault) /\ SF_vars(Exit)
    /\ WF_vars(StartRun \/ StartFails)
    /\ WF_vars(Joined) /\ WF_vars(Collect) /\ WF_vars(Clear)

FairSpec == Spec /\ Fairness

-------------------------------------------------------------------------------
(* Properties *)

TypeOK ==
    /\ state \in {"idle", "running", "paused", "faulted", "resetting"}
    /\ loop \in {"select", "starting", "joining", "collect", "clear", "ended"}
    /\ cause \in {"reset", "fault", "exit"}
    /\ ctxDone \in BOOLEAN /\ opened \in BOOLEAN /\ alive \in BOOLEAN
    /\ readersEnded \in BOOLEAN /\ sourceError \in BOOLEAN
    /\ report \in {"none", "queued", "taken"}
    /\ applied \in [Settings -> Values \union {None}]
    /\ controls \in [Settings -> Values]
    /\ {counter, total, prom, delivered, deliveredRun, deliveredSpan}
         \subseteq 0..MaxDeliveries
    /\ runStartedAt \in 0..MaxNow \union {None}
    /\ elapsedBefore \in 0..MaxNow
    /\ pausedStatus \in [total : 0..MaxDeliveries \union {None},
                         elapsed : 0..MaxNow \union {None}]
    /\ now \in 0..MaxNow /\ ranFor \in 0..now
    /\ runs \in 0..MaxRuns

(* Every delivery reaches the Prometheus counter once, and the total of    *)
(* the run once unless a reset has cleared it, over pauses, faults, resets *)
(* and the exit; nothing is left in the shared counter at the end.         *)
AccountsBalance ==
    /\ prom + counter = delivered
    /\ total + counter = deliveredRun
    /\ loop = "ended" => prom = delivered /\ ~alive

(* The elapsed time is the time spent running, counted once, whatever      *)
(* sequence of pauses, faults and resumes made it up.                      *)
ElapsedExact == Elapsed = ranFor

(* When the loop is back at its select: stages exist exactly for a running *)
(* or paused run, so pause and resumeRun find a sender pool and an idle    *)
(* status shows no workers; the context, the channels and their telemetry  *)
(* are open for those runs only, so that a start that failed half way and  *)
(* a run cut by a fault leave nothing behind that the next start replaces  *)
(* unseen; an error is shown exactly while faulted; a frozen status exists *)
(* exactly while paused; "resetting" is never shown.                       *)
ResourcesMatchState ==
    loop = "select" =>
        /\ state # "resetting"
        /\ alive <=> state \in {"running", "paused"}
        /\ opened <=> alive
        /\ sourceError <=> state = "faulted"
        /\ pausedStatus # NoStatus <=> state = "paused"

(* Stages that still listen have the settings a client sees, in whatever   *)
(* state those were set.                                                   *)
StagesFollowControls ==
    alive /\ ~ctxDone =>
        \A s \in Settings :
            applied[s] = controls[s] \/ (s = "readers" /\ readersEnded)

(* The next tick of a running run publishes a rate made of deliveries of   *)
(* its own interval: none from before the resume, nor of an earlier run.   *)
RateCountsItsInterval ==
    loop = "select" /\ state = "running" => counter <= deliveredSpan

(* The progress a paused run shows does not move, although attempts in     *)
(* flight still end and ticks still collect; and the progress shown never  *)
(* goes back but by a reset, when the frozen status gives way to live      *)
(* measurements or the other way round.                                    *)
ShownProgressHolds ==
    [][/\ state = "paused" /\ state' = "paused" => Shown' = Shown
       /\ state' # "idle" => Shown'.total >= Shown.total /\ Shown'.elapsed >= Shown.elapsed]_vars

(* A source error takes the run to faulted, unless a reset or the exit     *)
(* takes its pool away first.                                              *)
FaultSurfaces == report = "queued" ~> state \in {"faulted", "idle"} \/ loop = "ended"
===============================================================================
