--------------------------- MODULE ChannelViewProofs ---------------------------
(***************************************************************************)
(* Proofs about ChannelView for every set of capacities, depths and waits, *)
(* and any scale of pressure and time.                                     *)
(***************************************************************************)
EXTENDS ChannelView, TLAPS

Runs == {"idle", "running", "paused", "faulted"}

\* What is shown: a published snapshot, perhaps with earlier telemetry in it.
Presentations ==
    [run : Runs, connected : BOOLEAN, observed : Observations \cup {Absent},
     capacity : Capacities \cup {Null}]

\* What the pause keeps, what is shown and what the run is shown to be: a run
\* seen running is on show with the telemetry a pause would freeze, and what
\* is frozen is on show.  Only a run seen running lets the pressure move.
ViewInv ==
    /\ view.shown \in Presentations
    /\ {lastRunning, frozen} \subseteq Observations \cup {Absent}
    /\ displayed \in 0..Full /\ elapsed \in Nat
    /\ view.frozenObserved = (frozen # Absent)
    /\ frozen # Absent => PausedView /\ Shown = frozen
    /\ view.shown.run = "running" =>
           RunningView /\ frozen = Absent /\ lastRunning = Shown /\ lastRunning # Absent
    /\ active => RunningView

-------------------------------------------------------------------------------
(* Pressures. *)

LEMMA ClampedFits ==
    ASSUME NEW p \in Int
    PROVE  Clamped(p) \in 0..Full
BY LevelsAssumption DEF Clamped, AtMost

LEMMA PressureFits ==
    ASSUME NEW s \in Presentations, s.observed # Absent, s.capacity # Null
    PROVE  EffectivePressure(s) \in 0..Full
<1>1. /\ s.observed.depth \in Nat /\ s.capacity \in Nat
      /\ s.observed.waiting \in Nat \cup {Null}
  BY TelemetryAssumption DEF Presentations, Observations
<1>2. OccupancyPressure(s) \in 0..Full
  <2>1. CASE s.capacity > 0
    <3>1. s.observed.depth * Full \in Int
      BY <1>1, LevelsAssumption
    <3>2. (s.observed.depth * Full) \div s.capacity \in Int
      BY <1>1, <2>1, <3>1
    <3>. QED  BY <1>1, <2>1, <3>2, ClampedFits DEF OccupancyPressure
  <2>. QED  BY <1>1, <2>1, LevelsAssumption DEF OccupancyPressure
<1>3. BlockingPressure(s) \in 0..Full
  <2>1. CASE s.observed.waiting > Noise
    <3>1. /\ (s.observed.waiting - Noise) * Full \in Int
          /\ Saturation - Noise \in Nat \ {0}
      BY <1>1, LevelsAssumption, BlockingAssumption DEF Null
    <3>2. ((s.observed.waiting - Noise) * Full) \div (Saturation - Noise) \in Int
      BY <3>1
    <3>. QED  BY <1>1, <2>1, <3>2, ClampedFits, BlockingAssumption DEF BlockingPressure, Null
  <2>. QED  BY <1>1, <2>1, LevelsAssumption, BlockingAssumption DEF BlockingPressure, Null
<1>. QED  BY <1>2, <1>3, LevelsAssumption DEF EffectivePressure

\* The pressure on display moves towards its target, no further than that,
\* and at the speed it has.
LEMMA MovedInBounds ==
    ASSUME NEW current \in 0..Full, NEW target \in 0..Full, NEW ticks \in Nat
    PROVE  /\ Moved(current, target, ticks) \in 0..Full
           /\ Distance(Moved(current, target, ticks), current) <= Speed * ticks
           /\ ticks = 0 => Moved(current, target, ticks) = current
<1>. DEFINE most == Speed * ticks
<1>1. most \in Nat /\ (ticks = 0 => most = 0) /\ Full \in Nat
  BY LevelsAssumption
<1>. HIDE DEF most
<1>2. /\ Moved(current, target, ticks) = IF target > current THEN AtMost(target, current + most)
                                         ELSE IF target < current - most THEN current - most
                                         ELSE target
  BY DEF Moved, most
<1>3. /\ Moved(current, target, ticks) \in 0..Full
      /\ Distance(Moved(current, target, ticks), current) <= most
      /\ ticks = 0 => Moved(current, target, ticks) = current
  BY <1>1, <1>2 DEF AtMost, Distance
<1>. QED  BY <1>3 DEF most

-------------------------------------------------------------------------------
(* One publication. *)

LEMMA PublishedIs ==
    ASSUME NEW s \in Snapshots
    PROVE  /\ s \in Presentations
           /\ s.run # "idle" => s.connected /\ s.observed # Absent /\ s.capacity # Null
<1>1. CASE s \in [run : {"idle", "running", "paused", "faulted"}, connected : {TRUE},
                  observed : Observations, capacity : Capacities]
  <2>1. s \in Presentations /\ s.connected
    BY <1>1 DEF Presentations, Runs
  <2>2. s.observed.depth \in Nat /\ s.capacity \in Nat
    BY <1>1, TelemetryAssumption DEF Observations
  <2>3. Absent.depth = Null /\ Null \notin Nat
    BY DEF Absent, Null
  <2>. QED  BY <2>1, <2>2, <2>3
<1>2. CASE s = [run |-> "idle", connected |-> FALSE, observed |-> Absent, capacity |-> Null]
  BY <1>2 DEF Presentations, Runs
<1>. QED  BY <1>1, <1>2 DEF Snapshots

\* What is shown of a snapshot: its own settings and states, and its own
\* telemetry or what the pause keeps.
LEMMA PresentedIs ==
    ASSUME ViewInv, NEW s \in Snapshots
    PROVE  /\ Frozen(s) \in Observations \cup {Absent}
           /\ Presented(s) \in Presentations
           /\ Presented(s).run = s.run /\ Presented(s).connected = s.connected
           /\ Presented(s).capacity = s.capacity
           /\ Presented(s).observed = IF Frozen(s) = Absent THEN s.observed ELSE Frozen(s)
<1>1. s \in Presentations
  BY PublishedIs
<1>2. Frozen(s) \in Observations \cup {Absent}
  BY DEF ViewInv, Frozen
<1>. QED  BY <1>1, <1>2 DEF Presented, Presentations

\* What a publication makes of the pressure on display.
LEMMA PressureMoves ==
    ASSUME ViewInv, NEW s \in Snapshots, Publish(s)
    PROVE  /\ displayed' \in 0..Full
           /\ active' => s.run = "running"
           /\ displayed' # displayed => active \/ HasRendezvousWaiter(Presented(s))
           /\ \/ HasRendezvousWaiter(Presented(s))
              \/ Distance(displayed', displayed) <= Speed * elapsed
<1>. DEFINE p == Presented(s)
<1>1. /\ p \in Presentations /\ p.run = s.run
      /\ displayed \in 0..Full /\ elapsed \in Nat /\ Speed * elapsed \in Nat /\ Full \in Nat
  BY PresentedIs, LevelsAssumption DEF ViewInv
<1>2. /\ displayed' = IF Mode(p) # "flowing" THEN displayed
                      ELSE IF HasRendezvousWaiter(p) THEN Full
                      ELSE Moved(displayed, EffectivePressure(p), ElapsedActive)
      /\ active' = (Mode(p) = "flowing")
  BY DEF Publish, DeriveChannel
<1>. HIDE DEF p
<1>3. Mode(p) = "flowing" => p.run = "running" /\ p.observed # Absent /\ p.capacity # Null
  BY DEF Mode, Absent
<1>4. ElapsedActive \in Nat /\ (active \/ ElapsedActive = 0)
      /\ Speed * ElapsedActive <= Speed * elapsed
  BY <1>1, LevelsAssumption DEF ElapsedActive
<1>. DEFINE Goal == /\ displayed' \in 0..Full
                    /\ active' => p.run = "running"
                    /\ displayed' # displayed => active \/ HasRendezvousWaiter(p)
                    /\ HasRendezvousWaiter(p) \/ Distance(displayed', displayed) <= Speed * elapsed
<1>5. ASSUME Mode(p) = "flowing" /\ ~HasRendezvousWaiter(p)
      PROVE  Goal
  <2>1. EffectivePressure(p) \in 0..Full
    BY <1>1, <1>3, <1>5, PressureFits
  <2>2. /\ displayed' \in 0..Full
        /\ Distance(displayed', displayed) <= Speed * ElapsedActive
        /\ ElapsedActive = 0 => displayed' = displayed
    BY <1>1, <1>2, <1>4, <1>5, <2>1, MovedInBounds
  <2>3. Distance(displayed', displayed) \in Int /\ Speed * ElapsedActive \in Int
    BY <1>1, <1>4, <2>2, LevelsAssumption DEF Distance
  <2>4. Distance(displayed', displayed) <= Speed * elapsed
    BY <1>1, <1>4, <2>2, <2>3
  <2>5. displayed' # displayed => active
    BY <1>4, <2>2
  <2>. QED  BY <1>2, <1>3, <2>2, <2>4, <2>5
<1>6. ASSUME Mode(p) # "flowing"
      PROVE  Goal
  <2>1. Distance(displayed', displayed) = 0
    BY <1>1, <1>2, <1>6 DEF Distance
  <2>2. displayed' = displayed /\ ~active'
    BY <1>2, <1>6
  <2>3. Distance(displayed', displayed) <= Speed * elapsed
    BY <1>1, <2>1
  <2>. QED  BY <1>1, <2>2, <2>3
<1>7. ASSUME Mode(p) = "flowing" /\ HasRendezvousWaiter(p)
      PROVE  Goal
  BY <1>1, <1>2, <1>3, <1>7
<1>8. Goal
  BY <1>5, <1>6, <1>7
<1>. QED  BY <1>1, <1>8 DEF p

LEMMA ViewStart ==
    ASSUME Init
    PROVE  ViewInv
<1>1. PICK s \in Snapshots : /\ s.run = "idle"
                             /\ view = [shown |-> s, frozenObserved |-> FALSE, flow |-> Mode(s)]
  BY DEF Init
<1>2. /\ view.shown \in Presentations /\ view.shown.run = "idle" /\ view.frozenObserved = FALSE
      /\ lastRunning = Absent /\ frozen = Absent /\ displayed = 0 /\ active = FALSE /\ elapsed = 0
  BY <1>1, PublishedIs DEF Init
<1>3. displayed \in 0..Full
  BY <1>2, LevelsAssumption
<1>. QED  BY <1>2, <1>3 DEF ViewInv, Shown, PausedView, RunningView

LEMMA ViewKept ==
    ASSUME ViewInv, [Next]_vars
    PROVE  ViewInv'
<1>1. ASSUME NEW s \in Snapshots, Publish(s)
      PROVE  ViewInv'
  <2>1. /\ view'.shown = Presented(s) /\ view'.frozenObserved = (Frozen(s) # Absent)
        /\ frozen' = Frozen(s) /\ elapsed' = 0
        /\ lastRunning' = IF s.run \in {"paused", "faulted"} THEN lastRunning
                          ELSE IF s.run = "running" /\ s.connected THEN s.observed ELSE Absent
    BY <1>1 DEF Publish, DeriveChannel
  <2>2. s \in Presentations /\ s.run \in Runs
    BY PublishedIs DEF Presentations
  <2>3. lastRunning' \in Observations \cup {Absent}
    BY <2>1, <2>2 DEF ViewInv, Presentations
  <2>4. Frozen(s) # Absent => s.run \in {"paused", "faulted"}
    BY <2>2 DEF Frozen, Runs
  <2>5. s.run = "running" => Frozen(s) = Absent
    BY DEF Frozen
  <2>6. view'.shown.run = s.run /\ view'.shown.connected = s.connected
        /\ view'.shown \in Presentations /\ Frozen(s) \in Observations \cup {Absent}
        /\ view'.shown.observed = IF Frozen(s) = Absent THEN s.observed ELSE Frozen(s)
    BY <2>1, PresentedIs
  <2>7. displayed' \in 0..Full /\ (active' => s.run = "running")
    BY <1>1, PressureMoves
  <2>. QED  BY <2>1, <2>2, <2>3, <2>4, <2>5, <2>6, <2>7, PublishedIs
            DEF ViewInv, Shown, PausedView, RunningView
<1>2. CASE Tick
  BY <1>2 DEF Tick, ViewInv, Shown, PausedView, RunningView
<1>3. CASE UNCHANGED vars
  BY <1>3 DEF vars, ViewInv, Shown, PausedView, RunningView
<1>. QED  BY <1>1, <1>2, <1>3 DEF Next, Publishes

LEMMA ViewAlways == Spec => []ViewInv
BY ViewStart, ViewKept, PTL DEF Spec

-------------------------------------------------------------------------------
\* Pausing or failing a run changes nothing of what is observed of it, however
\* long it lasts, and the pressure on display keeps within its speed unless a
\* sender waits at a channel without capacity.
THEOREM PauseHolds == Spec => PauseHoldsTheView
<1>. DEFINE Holds ==
         /\ RunningView /\ PausedView' => Shown' = Shown /\ view'.frozenObserved
         /\ PausedView /\ PausedView' /\ view.frozenObserved => Shown' = Shown
         /\ ~RunningView /\ displayed' # displayed => HasRendezvousWaiter(view'.shown)
         /\ Distance(displayed', displayed) > Speed * elapsed =>
                HasRendezvousWaiter(view'.shown)
<1>1. ASSUME ViewInv, NEW s \in Snapshots, Publish(s)
      PROVE  Holds
  <2>1. /\ view'.shown = Presented(s) /\ view'.frozenObserved = (Frozen(s) # Absent)
        /\ view'.shown.run = s.run
        /\ Shown' = IF Frozen(s) = Absent THEN s.observed ELSE Frozen(s)
    BY <1>1, PresentedIs DEF Publish, Shown
  <2>2. PausedView' => Frozen(s) = IF frozen = Absent THEN lastRunning ELSE frozen
    BY <2>1 DEF PausedView, Frozen
  <2>3. RunningView => frozen = Absent /\ lastRunning = Shown /\ Shown # Absent
    BY <1>1 DEF ViewInv, RunningView
  <2>4. view.frozenObserved => frozen # Absent /\ Shown = frozen
    BY <1>1 DEF ViewInv
  <2>5. /\ RunningView /\ PausedView' => Shown' = Shown /\ view'.frozenObserved
        /\ PausedView /\ PausedView' /\ view.frozenObserved => Shown' = Shown
    BY <2>1, <2>2, <2>3, <2>4
  <2>6. ~RunningView => ~active
    BY <1>1 DEF ViewInv
  <2>7. /\ displayed' # displayed => active \/ HasRendezvousWaiter(view'.shown)
        /\ \/ HasRendezvousWaiter(view'.shown)
           \/ Distance(displayed', displayed) <= Speed * elapsed
    BY <1>1, <2>1, PressureMoves
  <2>8. Distance(displayed', displayed) \in Int /\ Speed * elapsed \in Int
    BY <1>1, PressureMoves, LevelsAssumption DEF ViewInv, Distance
  <2>. QED  BY <2>5, <2>6, <2>7, <2>8
<1>2. ASSUME ViewInv, Tick
      PROVE  Holds
  <2>1. displayed' = displayed /\ view' = view
    BY <1>2 DEF Tick
  <2>2. Distance(displayed', displayed) = 0 /\ Speed * elapsed \in Nat
    BY <1>2, <2>1, LevelsAssumption DEF ViewInv, Distance
  <2>3. ~(RunningView /\ PausedView')
    BY <2>1 DEF RunningView, PausedView
  <2>. QED  BY <2>1, <2>2, <2>3 DEF Shown
<1>3. ViewInv /\ [Next]_vars => [Holds]_vars
  BY <1>1, <1>2 DEF Next, Publishes
<1>. QED  BY <1>3, ViewAlways, PTL DEF Spec, PauseHoldsTheView
===============================================================================
