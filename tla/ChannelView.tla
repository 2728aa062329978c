------------------------------ MODULE ChannelView ------------------------------
(***************************************************************************)
(* What the laboratory shows of a channel: telemetry held still while the  *)
(* run is paused, and a pressure that follows the channel's real pressure  *)
(* at a limited speed.                                                     *)
(* (src/frontend/src/hooks/useLoadgenSnapshot.ts, model/channelFlowState.ts) *)
(*                                                                         *)
(* The subscription derives the view within each publication of the        *)
(* adapter, so one action is a publication with the view made of it.       *)
(* Either adapter may publish any state of the run after any other: a poll *)
(* misses what begins and ends between two of them.  Pressures are levels  *)
(* 0..Full, time is counted in ticks.                                      *)
(***************************************************************************)
EXTENDS Integers

CONSTANTS
    Full,           \* the level of pressure 1; half of it is "near-limit"
    Speed,          \* levels a tick, PRESSURE_UNITS_PER_SECOND
    Capacities, Depths,
    Waits,          \* ticks the oldest blocked sender has waited
    Noise, Saturation,  \* BLOCKING_NOISE_MAX_MS, BLOCKING_SATURATION_MS
    MaxElapsed      \* bound: ticks between two publications

ASSUME LevelsAssumption == Full \in Nat \ {0} /\ Speed \in Nat \ {0}
ASSUME TelemetryAssumption ==
    Capacities \subseteq Nat /\ Depths \subseteq Nat /\ Waits \subseteq Nat
ASSUME BlockingAssumption ==
    Noise \in Nat /\ Saturation \in Nat /\ Noise < Saturation /\ MaxElapsed \in Nat \ {0}

Null == -1      \* null, and the waiting time where no sender is blocked
Absent == [depth |-> Null, waiting |-> Null]

\* What adapters publish: [run, connected, observed, capacity].  Without a
\* connection the HTTP adapter knows nothing and says "idle".
Observations == [depth : Depths, waiting : Waits \cup {Null}]
Snapshots ==
    [run : {"idle", "running", "paused", "faulted"}, connected : {TRUE},
     observed : Observations, capacity : Capacities] \cup
    {[run |-> "idle", connected |-> FALSE, observed |-> Absent, capacity |-> Null]}

VARIABLES
    view,           \* the last presentation, with its flow state
    lastRunning,    \* PauseFrozenObservedDeriver.lastRunning, or Absent
    frozen,         \* PauseFrozenObservedDeriver.frozen, or Absent
    displayed,      \* displayedPressure
    active,         \* pressureActive
    elapsed         \* ticks since the last derivation

vars == <<view, lastRunning, frozen, displayed, active, elapsed>>

-------------------------------------------------------------------------------
(* channelFlowState.ts *)

AtMost(a, b) == IF a < b THEN a ELSE b
Clamped(p) == IF p < 0 THEN 0 ELSE AtMost(p, Full)

OccupancyPressure(s) ==
    IF s.capacity <= 0 THEN 0 ELSE Clamped((s.observed.depth * Full) \div s.capacity)

BlockingPressure(s) ==
    IF s.observed.waiting <= Noise THEN 0
    ELSE Clamped(((s.observed.waiting - Noise) * Full) \div (Saturation - Noise))

\* A channel without capacity hands over: a sender that waits fills it.
HasRendezvousWaiter(s) == s.capacity = 0 /\ s.observed.waiting # Null

EffectivePressure(s) ==
    LET occupancy == OccupancyPressure(s)
        blocking == BlockingPressure(s)
    IN  IF HasRendezvousWaiter(s) THEN Full
        ELSE IF occupancy > blocking THEN occupancy ELSE blocking

\* Mutant: a full stride, also past the target.
StridesOver(current, target, ticks) ==
    IF target > current THEN current + Speed * ticks
    ELSE IF target < current THEN current - Speed * ticks ELSE current

\* moveDisplayedPressure
Moved(current, target, ticks) ==
    IF target > current THEN AtMost(target, current + Speed * ticks)
    ELSE IF target < current - Speed * ticks THEN current - Speed * ticks ELSE target

Mode(s) ==
    IF ~s.connected \/ s.observed.depth = Null \/ s.capacity = Null THEN "connection-error"
    ELSE IF s.run # "running" THEN "stopped" ELSE "flowing"

PressureFlowState(p) ==
    IF p = Full THEN "backpressure" ELSE IF 2 * p >= Full THEN "near-limit" ELSE "normal"

\* Mutant: the time of a pause counts.
ElapsedAlways == elapsed

\* The time a flowing channel has had since it was last seen flowing.
ElapsedActive == IF active THEN elapsed ELSE 0

\* deriveChannel
DeriveChannel(s) ==
    /\ displayed' = IF Mode(s) # "flowing" THEN displayed
                    ELSE IF HasRendezvousWaiter(s) THEN Full
                    ELSE Moved(displayed, EffectivePressure(s), ElapsedActive)
    /\ active' = (Mode(s) = "flowing")
    /\ elapsed' = 0

-------------------------------------------------------------------------------
(* PauseFrozenObservedDeriver.derive *)

Frozen(s) ==
    IF s.run \in {"running", "idle"} THEN Absent
    ELSE IF frozen = Absent THEN lastRunning ELSE frozen

\* freezeObservedTelemetry: settings and states stay live.
Presented(s) == IF Frozen(s) = Absent THEN s ELSE [s EXCEPT !.observed = Frozen(s)]

Publish(s) ==
    /\ lastRunning' = IF s.run \in {"paused", "faulted"} THEN lastRunning
                      ELSE IF s.run = "running" /\ s.connected THEN s.observed ELSE Absent
    /\ frozen' = Frozen(s)
    /\ DeriveChannel(Presented(s))
    /\ view' = [shown |-> Presented(s), frozenObserved |-> Frozen(s) # Absent,
                flow |-> IF Mode(Presented(s)) # "flowing" THEN Mode(Presented(s))
                         ELSE PressureFlowState(displayed')]

Tick == elapsed < MaxElapsed /\ elapsed' = elapsed + 1
        /\ UNCHANGED <<view, lastRunning, frozen, displayed, active>>

\* The view of the snapshot an adapter is built with, an idle run.
Init ==
    /\ lastRunning = Absent /\ frozen = Absent
    /\ displayed = 0 /\ active = FALSE /\ elapsed = 0
    /\ view \in {[shown |-> s, frozenObserved |-> FALSE, flow |-> Mode(s)] :
                    s \in {t \in Snapshots : t.run = "idle"}}

Publishes == \E s \in Snapshots : Publish(s)
Next == Publishes \/ Tick
Spec == Init /\ [][Next]_vars

\* Time passes, and both adapters publish in intervals.
FairSpec == Spec /\ WF_vars(Publishes) /\ WF_vars(Tick)

-------------------------------------------------------------------------------
Shown == view.shown.observed
PausedView == view.shown.run \in {"paused", "faulted"}
RunningView == view.shown.run = "running" /\ view.shown.connected

Distance(a, b) == IF a > b THEN a - b ELSE b - a

\* Pausing or failing a run leaves no trace in what is observed of it: the
\* last telemetry seen running stays on show until the run is seen in another
\* state, and the pressure on display then goes on from where it stood,
\* however long that was.  Only a waiter at a channel without capacity, which
\* is shown at once, moves it.
PauseHoldsTheView ==
    [][/\ RunningView /\ PausedView' => Shown' = Shown /\ view'.frozenObserved
       /\ PausedView /\ PausedView' /\ view.frozenObserved => Shown' = Shown
       /\ ~RunningView /\ displayed' # displayed => HasRendezvousWaiter(view'.shown)
       /\ Distance(displayed', displayed) > Speed * elapsed =>
              HasRendezvousWaiter(view'.shown)]_vars

\* A channel whose telemetry settles while the run goes on is in the end shown
\* with the pressure it has: the speed limit delays it, no more.
PressureCatchesUp ==
    \A p \in 0..Full :
        <>[](RunningView /\ EffectivePressure(view.shown) = p) => <>[](displayed = p)
===============================================================================
