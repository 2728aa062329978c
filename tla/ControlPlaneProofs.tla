-------------------------- MODULE ControlPlaneProofs --------------------------
(***************************************************************************)
(* Proofs about ControlPlane for every set of values, any number of        *)
(* deliveries and runs, and a clock without end.                           *)
(***************************************************************************)
EXTENDS ControlPlane, TLAPS

-------------------------------------------------------------------------------
(* Where the loop can be.  After a stop the stages are gone and, once the  *)
(* counter has been collected, nobody is left to increase it.              *)
LoopInv ==
    /\ state \in {"idle", "running", "paused", "faulted", "resetting"}
    /\ loop \in {"select", "starting", "joining", "collect", "clear", "ended"}
    /\ cause \in {"reset", "fault", "exit"}
    /\ loop = "select" => state # "resetting"
    /\ loop = "select" => (alive <=> state \in {"running", "paused"})
    /\ loop = "joining" /\ cause = "reset" => state = "resetting"
    /\ loop = "collect" /\ cause = "reset" => state \in {"resetting", "idle"}
    /\ loop \in {"joining", "collect", "clear"} /\ cause = "fault" => state = "faulted"
    /\ loop = "clear" => cause # "exit"
    /\ loop = "clear" /\ cause = "reset" => state \in {"resetting", "idle"}
    /\ loop \in {"collect", "clear", "ended"} => ~alive /\ ~opened
    /\ loop = "starting" => state = "idle" /\ opened /\ ~alive
    /\ loop = "select" => (opened <=> alive)

\* The loop invariant holds along every behaviour of the event loop.
LEMMA LoopInvHolds == Spec => []LoopInv
<1>1. Init => LoopInv
  BY DEF Init, LoopInv
<1>2. LoopInv /\ [Next]_vars => LoopInv'
  <2> SUFFICES ASSUME LoopInv, [Next]_vars PROVE LoopInv'
    OBVIOUS
  <2>. USE DEF LoopInv, loopVars
  <2>1. CASE UNCHANGED vars
    BY <2>1 DEF vars, stageVars
  <2>2. CASE Deliver
    BY <2>2 DEF Deliver, stageVars
  <2>3. CASE ReaderReports \/ ReadersEnd
    BY <2>3 DEF ReaderReports, ReadersEnd, OnlyStages
  <2>4. CASE ClockAdvances \/ ContextEnds
    BY <2>4 DEF ClockAdvances, ContextEnds, OnlyEnvironment, stageVars
  <2>5. CASE BeginStart \/ StartRun
    BY <2>5 DEF BeginStart, StartRun
  <2>6. CASE StartFails
    BY <2>6 DEF StartFails, stageVars
  <2>7. CASE Resume
    BY <2>7 DEF Resume, stageVars
  <2>8. CASE Pause
    BY <2>8 DEF Pause, stageVars
  <2>9. CASE Reset
    BY <2>9 DEF Reset, BeginStop, stageVars
  <2>10. CASE \E v \in Values : SetCapacity(v) \/ SetReaders(v) \/ SetThrottle(v) \/ SetSenders(v)
    BY <2>10 DEF SetCapacity, SetReaders, SetThrottle, SetSenders, Set
  <2>11. CASE Fault
    BY <2>11 DEF Fault, BeginStop, MayFault
  <2>12. CASE Tick
    BY <2>12 DEF Tick, stageVars
  <2>13. CASE Exit
    BY <2>13 DEF Exit, BeginStop, stageVars
  <2>14. CASE Joined
    BY <2>14 DEF Joined, StagesGone
  <2>15. CASE Collect
    BY <2>15 DEF Collect, stageVars
  <2>16. CASE Clear
    <3>1. CASE cause = "fault"
      BY <2>16, <3>1 DEF Clear, KeepProgress, stageVars
    <3>2. CASE cause = "reset"
      BY <2>16, <3>2 DEF Clear, ResetProgress, stageVars
    <3>. QED  BY <2>16, <3>1, <3>2 DEF Clear
  <2>. QED  BY <2>1, <2>2, <2>3, <2>4, <2>5, <2>6, <2>7, <2>8, <2>9, <2>10, <2>11,
               <2>12, <2>13, <2>14, <2>15, <2>16 DEF Next, Command, Ended
<1>. QED  BY <1>1, <1>2, PTL DEF Spec

-------------------------------------------------------------------------------
(* Accounting. *)

CountInv ==
    /\ counter \in Int /\ total \in Int /\ prom \in Int
    /\ delivered \in Int /\ deliveredRun \in Int
    /\ prom + counter = delivered
    /\ total + counter = deliveredRun
    /\ loop \in {"clear", "ended"} => counter = 0

\* The sums hold along every behaviour, and after the collection that
\* follows a stop the counter stays zero, so that storing zero loses nothing.
LEMMA CountInvHolds == Spec => []CountInv
<1>1. Init => CountInv
  BY DEF Init, CountInv
<1>2. LoopInv /\ CountInv /\ [Next]_vars => CountInv'
  <2> SUFFICES ASSUME LoopInv, CountInv, [Next]_vars PROVE CountInv'
    OBVIOUS
  <2>. USE DEF CountInv, CollectCompleted, countVars, historyVars, loopVars
  <2>1. CASE UNCHANGED vars
    BY <2>1 DEF vars
  <2>2. CASE Deliver
    BY <2>2 DEF Deliver, LoopInv
  <2>3. CASE ReaderReports \/ ReadersEnd
    BY <2>3 DEF ReaderReports, ReadersEnd, OnlyStages
  <2>4. CASE ClockAdvances \/ ContextEnds
    BY <2>4 DEF ClockAdvances, ContextEnds, OnlyEnvironment
  <2>5. CASE BeginStart \/ StartRun \/ StartFails
    BY <2>5 DEF BeginStart, StartRun, StartFails
  <2>6. CASE Resume
    BY <2>6 DEF Resume, CollectOnResume
  <2>7. CASE Pause
    BY <2>7 DEF Pause
  <2>8. CASE Reset
    BY <2>8 DEF Reset, BeginStop
  <2>9. CASE \E v \in Values : SetCapacity(v) \/ SetReaders(v) \/ SetThrottle(v) \/ SetSenders(v)
    BY <2>9 DEF SetCapacity, SetReaders, SetThrottle, SetSenders, Set
  <2>10. CASE Fault
    BY <2>10 DEF Fault, BeginStop
  <2>11. CASE Tick
    BY <2>11 DEF Tick
  <2>12. CASE Exit
    BY <2>12 DEF Exit, BeginStop
  <2>13. CASE Joined
    BY <2>13 DEF Joined
  <2>14. CASE Collect
    BY <2>14 DEF Collect
  <2>15. CASE Clear
    <3>1. CASE cause = "fault"
      BY <2>15, <3>1 DEF Clear, KeepProgress
    <3>2. CASE cause # "fault"
      BY <2>15, <3>2 DEF Clear, ResetProgress
    <3>. QED  BY <3>1, <3>2
  <2>. QED  BY <2>1, <2>2, <2>3, <2>4, <2>5, <2>6, <2>7, <2>8, <2>9, <2>10, <2>11,
               <2>12, <2>13, <2>14, <2>15 DEF Next, Command, Ended
<1>. QED  BY <1>1, <1>2, LoopInvHolds, PTL DEF Spec

\* Prometheus gets every delivery once, the total of the run gets every one
\* since the last reset, and nothing is left over when the loop has ended.
THEOREM AccountsAlwaysBalance == Spec => []AccountsBalance
<1>1. LoopInv /\ CountInv => AccountsBalance
  BY DEF LoopInv, CountInv, AccountsBalance
<1>. QED  BY <1>1, LoopInvHolds, CountInvHolds, PTL

-------------------------------------------------------------------------------
(* Elapsed time. *)

TimeInv ==
    /\ now \in Nat /\ elapsedBefore \in Int /\ ranFor \in Int
    /\ runStartedAt \in Nat \union {None}
    /\ runStartedAt # None <=> state = "running"
    /\ Elapsed = ranFor

\* The start of the running interval is known exactly while running, and the
\* elapsed time is the time spent running.
LEMMA TimeInvHolds == Spec => []TimeInv
<1>1. Init => TimeInv
  BY DEF Init, TimeInv, Elapsed, None
<1>2. LoopInv /\ TimeInv /\ [Next]_vars => TimeInv'
  <2> SUFFICES ASSUME LoopInv, TimeInv, [Next]_vars PROVE TimeInv'
    OBVIOUS
  <2>. USE DEF TimeInv, Elapsed, None, PauseElapsed, timeVars, envVars, historyVars, loopVars
  <2>1. CASE UNCHANGED vars
    BY <2>1 DEF vars
  <2>2. CASE Deliver
    BY <2>2 DEF Deliver
  <2>3. CASE ReaderReports \/ ReadersEnd
    BY <2>3 DEF ReaderReports, ReadersEnd, OnlyStages
  <2>4. CASE ClockAdvances
    BY <2>4 DEF ClockAdvances, OnlyEnvironment
  <2>5. CASE ContextEnds
    BY <2>5 DEF ContextEnds, OnlyEnvironment
  <2>6. CASE BeginStart \/ StartRun \/ StartFails
    BY <2>6 DEF BeginStart, StartRun, StartFails, LoopInv
  <2>7. CASE Resume
    BY <2>7 DEF Resume
  <2>8. CASE Pause
    BY <2>8 DEF Pause
  <2>9. CASE Reset
    BY <2>9 DEF Reset, BeginStop
  <2>10. CASE \E v \in Values : SetCapacity(v) \/ SetReaders(v) \/ SetThrottle(v) \/ SetSenders(v)
    BY <2>10 DEF SetCapacity, SetReaders, SetThrottle, SetSenders, Set
  <2>11. CASE Fault
    BY <2>11 DEF Fault, BeginStop, MayFault, LoopInv
  <2>12. CASE Tick
    BY <2>12 DEF Tick
  <2>13. CASE Exit
    BY <2>13 DEF Exit, BeginStop
  <2>14. CASE Joined
    BY <2>14 DEF Joined
  <2>15. CASE Collect
    BY <2>15 DEF Collect
  <2>16. CASE Clear
    <3>1. CASE cause = "fault"
      BY <2>16, <3>1 DEF Clear, KeepProgress
    <3>2. CASE cause # "fault"
      BY <2>16, <3>2 DEF Clear, ResetProgress
    <3>. QED  BY <3>1, <3>2
  <2>. QED  BY <2>1, <2>2, <2>3, <2>4, <2>5, <2>6, <2>7, <2>8, <2>9, <2>10, <2>11,
               <2>12, <2>13, <2>14, <2>15, <2>16 DEF Next, Command, Ended
<1>. QED  BY <1>1, <1>2, LoopInvHolds, PTL DEF Spec

\* The elapsed time shown is the time spent running since the last reset.
THEOREM ElapsedAlwaysExact == Spec => []ElapsedExact
<1>1. TimeInv => ElapsedExact
  BY DEF TimeInv, ElapsedExact
<1>. QED  BY <1>1, TimeInvHolds, PTL

-------------------------------------------------------------------------------
(* The state against the stages, the error and the frozen status. *)

ResourceInv ==
    /\ counter \in Nat /\ total \in Nat
    /\ loop \in {"select", "starting"} => (sourceError <=> state = "faulted")
    /\ loop \in {"joining", "collect", "clear"} /\ cause = "fault" => sourceError
    /\ loop \in {"select", "starting"} => (pausedStatus # NoStatus <=> state = "paused")

\* What the loop finds at its select agrees with the state.  A stop that is on
\* its way is no exception for the error of a fault, which is there before it.
LEMMA ResourceInvHolds == Spec => []ResourceInv
<1>1. Init => ResourceInv
  BY DEF Init, ResourceInv, NoStatus
<1>2. LoopInv /\ ResourceInv /\ [Next]_vars => ResourceInv'
  <2> SUFFICES ASSUME LoopInv, ResourceInv, [Next]_vars PROVE ResourceInv'
    OBVIOUS
  <2>. USE DEF ResourceInv, CollectCompleted, countVars, loopVars
  <2>1. CASE UNCHANGED vars
    BY <2>1 DEF vars
  <2>2. CASE Deliver \/ ReaderReports \/ ReadersEnd
    BY <2>2 DEF Deliver, ReaderReports, ReadersEnd, OnlyStages
  <2>3. CASE ClockAdvances \/ ContextEnds
    BY <2>3 DEF ClockAdvances, ContextEnds, OnlyEnvironment
  <2>4. CASE BeginStart \/ StartRun \/ StartFails
    BY <2>4 DEF BeginStart, StartRun, StartFails, LoopInv
  <2>5. CASE Resume
    BY <2>5 DEF Resume, CollectOnResume
  <2>6. CASE Pause
    <3>1. total' \in Nat /\ counter' \in Nat
      BY <2>6 DEF Pause
    <3>2. pausedStatus' # NoStatus
      <4>1. pausedStatus'.total = total'
        BY <2>6 DEF Pause
      <4>2. NoStatus.total = -1
        BY DEF NoStatus, None
      <4>. QED  BY <3>1, <4>1, <4>2
    <3>. QED  BY <2>6, <3>1, <3>2 DEF Pause
  <2>7. CASE Reset
    BY <2>7 DEF Reset, BeginStop
  <2>8. CASE \E v \in Values : SetCapacity(v) \/ SetReaders(v) \/ SetThrottle(v) \/ SetSenders(v)
    BY <2>8 DEF SetCapacity, SetReaders, SetThrottle, SetSenders, Set
  <2>9. CASE Fault
    BY <2>9 DEF Fault, BeginStop, MayFault, LoopInv
  <2>10. CASE Tick \/ Exit
    BY <2>10 DEF Tick, Exit, BeginStop
  <2>11. CASE Joined \/ Collect
    BY <2>11 DEF Joined, Collect
  <2>12. CASE Clear
    <3>1. CASE cause = "fault"
      BY <2>12, <3>1 DEF Clear, KeepProgress, LoopInv
    <3>2. CASE cause # "fault"
      BY <2>12, <3>2 DEF Clear, ResetProgress
    <3>. QED  BY <3>1, <3>2
  <2>. QED  BY <2>1, <2>2, <2>3, <2>4, <2>5, <2>6, <2>7, <2>8, <2>9, <2>10, <2>11, <2>12
       DEF Next, Command, Ended
<1>. QED  BY <1>1, <1>2, LoopInvHolds, PTL DEF Spec

\* At its select the loop has stages exactly in a running or paused run, shows
\* an error exactly while faulted and a frozen status exactly while paused.
THEOREM ResourcesAlwaysMatch == Spec => []ResourcesMatchState
<1>1. LoopInv /\ ResourceInv => ResourcesMatchState
  BY DEF LoopInv, ResourceInv, ResourcesMatchState
<1>. QED  BY <1>1, LoopInvHolds, ResourceInvHolds, PTL

-------------------------------------------------------------------------------
(* Settings. *)

SettingsInv ==
    /\ controls \in [Settings -> Values]
    /\ applied \in [Settings -> Values \union {None}]
    /\ StagesFollowControls

\* A setting that is not handed on belongs to a stage that does not listen, or
\* to no stage at all.
LEMMA SettingsInvHolds == Spec => []SettingsInv
<1>1. Init => SettingsInv
  BY ValuesAssumption DEF Init, SettingsInv, NoSettings, StagesFollowControls
<1>2. LoopInv /\ SettingsInv /\ [Next]_vars => SettingsInv'
  <2> SUFFICES ASSUME LoopInv, SettingsInv, [Next]_vars PROVE SettingsInv'
    OBVIOUS
  <2>. USE DEF SettingsInv, StagesFollowControls, stageVars, envVars
  <2>1. CASE UNCHANGED vars
    BY <2>1 DEF vars
  <2>2. CASE Deliver \/ ReaderReports \/ ReadersEnd
    BY <2>2 DEF Deliver, ReaderReports, ReadersEnd, OnlyStages
  <2>3. CASE ClockAdvances \/ ContextEnds
    BY <2>3 DEF ClockAdvances, ContextEnds, OnlyEnvironment
  <2>4. CASE BeginStart \/ StartRun \/ StartFails \/ Resume \/ Pause \/ Reset
    BY <2>4 DEF BeginStart, StartRun, StartFails, Resume, Pause, Reset
  <2>5. ASSUME NEW v \in Values, NEW s \in Settings, NEW listening \in BOOLEAN,
               Set(s, v, listening),
               alive /\ ~ctxDone /\ ~listening => s = "readers" /\ readersEnded
        PROVE  SettingsInv'
    BY <2>5 DEF Set
  <2>6. ASSUME NEW v \in Values, SetCapacity(v)
        PROVE  SettingsInv'
    BY <2>5, <2>6 DEF SetCapacity, Set, LoopInv, Settings
  <2>7. ASSUME NEW v \in Values, SetReaders(v)
        PROVE  SettingsInv'
    <3>1. (~readersEnded /\ ~ctxDone) \in BOOLEAN
      OBVIOUS
    <3>. QED  BY <2>5, <2>7, <3>1 DEF SetReaders, Settings
  <2>8. ASSUME NEW v \in Values, SetThrottle(v) \/ SetSenders(v)
        PROVE  SettingsInv'
    BY <2>5, <2>8 DEF SetThrottle, SetSenders, Settings
  <2>9. CASE Fault \/ Tick \/ Exit
    BY <2>9 DEF Fault, Tick, Exit
  <2>10. CASE Joined
    BY <2>10 DEF Joined, StagesGone, NoSettings
  <2>11. CASE Collect \/ Clear
    BY <2>11 DEF Collect, Clear
  <2>. QED  BY <2>1, <2>2, <2>3, <2>4, <2>6, <2>7, <2>8, <2>9, <2>10, <2>11
       DEF Next, Command, Ended
<1>. QED  BY <1>1, <1>2, LoopInvHolds, PTL DEF Spec

\* Stages that listen have the settings a client sees, set in any state.
THEOREM StagesAlwaysFollow == Spec => []StagesFollowControls
<1>. QED  BY SettingsInvHolds, PTL DEF SettingsInv

-------------------------------------------------------------------------------
(* Rates. *)

RateInv ==
    /\ counter \in Nat /\ deliveredSpan \in Nat
    /\ loop \in {"select", "starting"} /\ ~alive => counter = 0
    /\ RateCountsItsInterval

\* Between runs the counter is empty, so a run begins its first interval with
\* nothing of the last one in it; a resume collects before it begins one.
LEMMA RateInvHolds == Spec => []RateInv
<1>1. Init => RateInv
  BY DEF Init, RateInv, RateCountsItsInterval
<1>2. LoopInv /\ RateInv /\ [Next]_vars => RateInv'
  <2> SUFFICES ASSUME LoopInv, RateInv, [Next]_vars PROVE RateInv'
    OBVIOUS
  <2>. USE DEF RateInv, RateCountsItsInterval, CollectCompleted, countVars, historyVars,
           loopVars, stageVars
  <2>1. CASE UNCHANGED vars
    BY <2>1 DEF vars
  <2>2. CASE Deliver
    BY <2>2 DEF Deliver
  <2>3. CASE ReaderReports \/ ReadersEnd
    BY <2>3 DEF ReaderReports, ReadersEnd, OnlyStages
  <2>4. CASE ClockAdvances \/ ContextEnds
    BY <2>4 DEF ClockAdvances, ContextEnds, OnlyEnvironment
  <2>5. CASE BeginStart \/ StartRun \/ StartFails
    BY <2>5 DEF BeginStart, StartRun, StartFails, LoopInv
  <2>6. CASE Resume \/ Pause
    BY <2>6 DEF Resume, Pause, CollectOnResume
  <2>7. CASE Reset
    BY <2>7 DEF Reset, BeginStop
  <2>8. CASE \E v \in Values : SetCapacity(v) \/ SetReaders(v) \/ SetThrottle(v) \/ SetSenders(v)
    BY <2>8 DEF SetCapacity, SetReaders, SetThrottle, SetSenders, Set
  <2>9. CASE Fault
    BY <2>9 DEF Fault, BeginStop
  <2>10. CASE Tick \/ Exit
    BY <2>10 DEF Tick, Exit, BeginStop
  <2>11. CASE Joined \/ Collect
    BY <2>11 DEF Joined, Collect
  <2>12. CASE Clear
    <3>1. CASE cause = "fault"
      BY <2>12, <3>1 DEF Clear, KeepProgress, LoopInv
    <3>2. CASE cause # "fault"
      BY <2>12, <3>2 DEF Clear, ResetProgress, LoopInv
    <3>. QED  BY <3>1, <3>2
  <2>. QED  BY <2>1, <2>2, <2>3, <2>4, <2>5, <2>6, <2>7, <2>8, <2>9, <2>10, <2>11, <2>12
       DEF Next, Command, Ended
<1>. QED  BY <1>1, <1>2, LoopInvHolds, PTL DEF Spec

\* The rate a tick publishes counts deliveries of its own interval only.
THEOREM RatesCountTheirInterval == Spec => []RateCountsItsInterval
<1>. QED  BY RateInvHolds, PTL DEF RateInv

-------------------------------------------------------------------------------
(* Types. *)

\* The counts and times against each other, which keeps them in their bounds.
BoundInv ==
    /\ counter \in Nat /\ total \in Nat /\ prom \in Nat
    /\ delivered \in 0..MaxDeliveries
    /\ deliveredRun \in 0..delivered /\ deliveredSpan \in 0..delivered
    /\ now \in 0..MaxNow /\ ranFor \in 0..now /\ elapsedBefore \in Nat
    /\ runStartedAt # None => runStartedAt <= now
    /\ runs \in 0..MaxRuns
    /\ pausedStatus \in [total : 0..MaxDeliveries \union {None},
                         elapsed : 0..MaxNow \union {None}]

\* Where the totals and times stand follows from the sums of CountInv and
\* TimeInv.
LEMMA Bounded ==
    ASSUME LoopInv, CountInv, TimeInv, BoundInv
    PROVE  /\ {counter, total, prom, delivered, deliveredRun, deliveredSpan}
                  \subseteq 0..MaxDeliveries
           /\ total + counter \in 0..MaxDeliveries
           /\ runStartedAt \in 0..MaxNow \union {None}
           /\ elapsedBefore \in 0..MaxNow /\ Elapsed \in 0..MaxNow
<1>. USE BoundsAssumption DEF CountInv, TimeInv, BoundInv
<1>1. {counter, total, prom, delivered, deliveredRun, deliveredSpan} \subseteq 0..MaxDeliveries
  OBVIOUS
<1>2. total + counter \in 0..MaxDeliveries
  OBVIOUS
<1>3. runStartedAt \in 0..MaxNow \union {None}
  OBVIOUS
<1>4. elapsedBefore <= ranFor
  BY DEF Elapsed, None
<1>5. elapsedBefore \in 0..MaxNow /\ Elapsed \in 0..MaxNow
  BY <1>4
<1>. QED  BY <1>1, <1>2, <1>3, <1>5

\* Counts and times stay in their bounds.
LEMMA BoundInvHolds == Spec => []BoundInv
<1>1. Init => BoundInv
  BY BoundsAssumption DEF Init, BoundInv, NoStatus, None
<1>2. LoopInv /\ CountInv /\ TimeInv /\ BoundInv /\ [Next]_vars => BoundInv'
  <2> SUFFICES ASSUME LoopInv, CountInv, TimeInv, BoundInv, [Next]_vars PROVE BoundInv'
    OBVIOUS
  <2>. USE BoundsAssumption
       DEF BoundInv, CollectCompleted, PauseElapsed, countVars, timeVars, historyVars, envVars
  <2>1. CASE UNCHANGED vars
    BY <2>1 DEF vars
  <2>2. CASE Deliver
    BY <2>2 DEF Deliver
  <2>3. CASE ReaderReports \/ ReadersEnd
    BY <2>3 DEF ReaderReports, ReadersEnd, OnlyStages
  <2>4. CASE ClockAdvances
    BY <2>4 DEF ClockAdvances, OnlyEnvironment, TimeInv, None
  <2>5. CASE ContextEnds
    BY <2>5 DEF ContextEnds, OnlyEnvironment
  <2>6. CASE BeginStart \/ StartRun \/ StartFails
    BY <2>6 DEF BeginStart, StartRun, StartFails
  <2>7. CASE Resume
    BY <2>7 DEF Resume, CollectOnResume, NoStatus
  <2>8. CASE Pause
    <3>1. pausedStatus' \in [total : 0..MaxDeliveries \union {None},
                             elapsed : 0..MaxNow \union {None}]
      <4>1. total' = total + counter
        BY <2>8 DEF Pause
      <4>. QED  BY <2>8, <4>1, Bounded DEF Pause
    <3>2. counter' \in Nat /\ total' \in Nat /\ prom' \in Nat
      BY <2>8 DEF Pause
    <3>3. elapsedBefore' \in Nat /\ (runStartedAt' # None => runStartedAt' <= now)
      BY <2>8 DEF Pause, TimeInv
    <3>. QED  BY <2>8, <3>1, <3>2, <3>3 DEF Pause
  <2>9. CASE Reset
    BY <2>9 DEF Reset
  <2>10. CASE \E v \in Values : SetCapacity(v) \/ SetReaders(v) \/ SetThrottle(v) \/ SetSenders(v)
    BY <2>10 DEF SetCapacity, SetReaders, SetThrottle, SetSenders, Set
  <2>11. CASE Fault
    BY <2>11 DEF Fault, TimeInv
  <2>12. CASE Tick
    BY <2>12 DEF Tick
  <2>13. CASE Exit \/ Joined
    BY <2>13 DEF Exit, Joined
  <2>14. CASE Collect
    BY <2>14 DEF Collect
  <2>15. CASE Clear
    <3>1. CASE cause = "fault"
      BY <2>15, <3>1 DEF Clear, KeepProgress, NoStatus
    <3>2. CASE cause # "fault"
      BY <2>15, <3>2 DEF Clear, ResetProgress, NoStatus
    <3>. QED  BY <3>1, <3>2
  <2>. QED  BY <2>1, <2>2, <2>3, <2>4, <2>5, <2>6, <2>7, <2>8, <2>9, <2>10, <2>11,
               <2>12, <2>13, <2>14, <2>15 DEF Next, Command, Ended
<1>. QED  BY <1>1, <1>2, LoopInvHolds, CountInvHolds, TimeInvHolds, PTL DEF Spec

\* What Pause froze is what a fault or the exit puts back.
FrozenInv ==
    state = "paused" =>
        /\ pausedStatus.total \in Nat /\ pausedStatus.total <= total
        /\ pausedStatus.elapsed = elapsedBefore

\* While a run is paused its elapsed time stands still and its total grows.
LEMMA FrozenInvHolds == Spec => []FrozenInv
<1>1. Init => FrozenInv
  BY DEF Init, FrozenInv
<1>2. LoopInv /\ TimeInv /\ BoundInv /\ FrozenInv /\ [Next]_vars => FrozenInv'
  <2> SUFFICES ASSUME LoopInv, TimeInv, BoundInv, FrozenInv, [Next]_vars, state' = "paused"
               PROVE  FrozenInv'
    BY DEF FrozenInv
  <2>. USE DEF FrozenInv, BoundInv, CollectCompleted, PauseElapsed, countVars, timeVars, loopVars
  <2>1. CASE UNCHANGED vars \/ Deliver \/ ReaderReports \/ ReadersEnd
    BY <2>1 DEF vars, Deliver, ReaderReports, ReadersEnd, OnlyStages
  <2>2. CASE ClockAdvances \/ ContextEnds
    BY <2>2 DEF ClockAdvances, ContextEnds, OnlyEnvironment
  <2>3. CASE Pause
    BY <2>3 DEF Pause, TimeInv, Elapsed
  <2>4. CASE BeginStart \/ StartRun \/ StartFails \/ Resume \/ Reset
    BY <2>4 DEF BeginStart, StartRun, StartFails, Resume, Reset
  <2>5. CASE \E v \in Values : SetCapacity(v) \/ SetReaders(v) \/ SetThrottle(v) \/ SetSenders(v)
    BY <2>5 DEF SetCapacity, SetReaders, SetThrottle, SetSenders, Set
  <2>6. CASE Fault \/ Tick \/ Exit
    BY <2>6 DEF Fault, Tick, Exit, MayFault
  <2>7. CASE Joined \/ Collect
    BY <2>7 DEF Joined, Collect
  <2>8. CASE Clear
    BY <2>8 DEF Clear, KeepProgress, ResetProgress, LoopInv
  <2>. QED  BY <2>1, <2>2, <2>3, <2>4, <2>5, <2>6, <2>7, <2>8 DEF Next, Command, Ended
<1>. QED  BY <1>1, <1>2, LoopInvHolds, TimeInvHolds, BoundInvHolds, PTL DEF Spec

\* A paused run shows the same progress from Pause to the end of the pause,
\* and no step but a reset takes shown progress back.
THEOREM ShownProgressAlwaysHolds == Spec => ShownProgressHolds
<1>1. LoopInv /\ [Next]_vars =>
        [state = "paused" /\ state' = "paused" => Shown' = Shown]_vars
  <2> SUFFICES ASSUME LoopInv, Next, state = "paused", state' = "paused"
               PROVE  pausedStatus' = pausedStatus
    BY DEF Shown
  <2>1. CASE Clear
    BY <2>1 DEF Clear, LoopInv
  <2>2. CASE Command \/ StartRun \/ StartFails
    BY <2>2 DEF Command, BeginStart, StartRun, StartFails, Resume, Pause, Reset, BeginStop,
         SetCapacity, SetReaders, SetThrottle, SetSenders, Set
  <2>3. CASE Deliver \/ ReaderReports \/ ReadersEnd \/ ClockAdvances \/ ContextEnds
    BY <2>3 DEF Deliver, ReaderReports, ReadersEnd, ClockAdvances, ContextEnds,
         OnlyStages, OnlyEnvironment
  <2>4. CASE Fault \/ Tick \/ Exit \/ Joined \/ Collect \/ Ended
    BY <2>4 DEF Fault, Tick, Exit, Joined, Collect, Ended, vars
  <2>. QED  BY <2>1, <2>2, <2>3, <2>4 DEF Next
<1>2. ASSUME LoopInv, TimeInv, TimeInv', BoundInv, BoundInv', FrozenInv, FrozenInv', Next,
             state' # "idle"
      PROVE  Shown'.total >= Shown.total /\ Shown'.elapsed >= Shown.elapsed
  <2>1. Shown.total \in Nat /\ Shown.total <= total /\ Shown.elapsed = ranFor
    <3>1. CASE state = "paused"
      BY <1>2, <3>1 DEF Shown, FrozenInv, TimeInv, Elapsed, BoundInv
    <3>2. CASE state # "paused"
      BY <1>2, <3>2 DEF Shown, TimeInv, BoundInv
    <3>. QED  BY <3>1, <3>2
  <2>2. total' >= total /\ ranFor' >= ranFor
    <3>. USE <1>2 DEF BoundInv, CollectCompleted, countVars, historyVars
    <3>1. CASE Command \/ StartRun \/ StartFails
      BY <3>1 DEF Command, BeginStart, StartRun, StartFails, Resume, CollectOnResume, Pause, Reset,
                  SetCapacity, SetReaders, SetThrottle, SetSenders, Set
    <3>2. CASE Deliver \/ ReaderReports \/ ReadersEnd \/ ClockAdvances \/ ContextEnds
      BY <3>2 DEF Deliver, ReaderReports, ReadersEnd, ClockAdvances, ContextEnds,
                  OnlyStages, OnlyEnvironment
    <3>3. CASE Fault \/ Tick \/ Exit
      BY <3>3 DEF Fault, Tick, Exit
    <3>4. CASE Joined \/ Collect \/ Ended
      BY <3>4 DEF Joined, Collect, Ended, vars
    <3>5. CASE Clear
      BY <3>5 DEF Clear, KeepProgress, ResetProgress
    <3>. QED  BY <3>1, <3>2, <3>3, <3>4, <3>5 DEF Next
  <2>. total \in Nat /\ total' \in Nat /\ ranFor \in Int /\ ranFor' \in Int
    BY <1>2 DEF BoundInv, TimeInv
  <2>3. CASE state' # "paused"
    <3>1. Shown' = [total |-> total', elapsed |-> ranFor']
      BY <1>2, <2>3 DEF Shown, TimeInv
    <3>2. Shown'.total = total' /\ Shown'.elapsed = ranFor'
      BY <3>1
    <3>. QED  BY <2>1, <2>2, <3>2
  <2>4. CASE state = "paused" /\ state' = "paused"
    <3>1. Shown' = Shown
      BY <1>1, <1>2, <2>4 DEF Shown, vars
    <3>2. Shown.elapsed \in Int
      BY <1>2, <2>1 DEF TimeInv
    <3>. QED  BY <3>1, <3>2, <2>1
  <2>5. CASE state # "paused" /\ state' = "paused"
    <3>1. Pause
      BY <1>2, <2>5 DEF LoopInv, Next, Command, BeginStart, StartRun, StartFails, Resume, Reset, SetCapacity,
           SetReaders, SetThrottle, SetSenders, Set, Deliver, ReaderReports, ReadersEnd,
           ClockAdvances, ContextEnds, OnlyStages, OnlyEnvironment, Fault, Tick, Exit, Joined,
           Collect, Ended, Clear, KeepProgress, ResetProgress, BeginStop, loopVars, vars
    <3>2. Shown' = [total |-> total', elapsed |-> Elapsed]
      BY <2>5, <3>1 DEF Shown, Pause
    <3>3. Shown'.total = total' /\ Shown'.elapsed = ranFor
      BY <1>2, <3>2 DEF TimeInv
    <3>. QED  BY <2>1, <2>2, <3>3
  <2>. QED  BY <2>3, <2>4, <2>5
<1>3. LoopInv /\ TimeInv /\ TimeInv' /\ BoundInv /\ BoundInv' /\ FrozenInv /\ FrozenInv' /\ [Next]_vars =>
        [/\ state = "paused" /\ state' = "paused" => Shown' = Shown
         /\ state' # "idle" => Shown'.total >= Shown.total /\ Shown'.elapsed >= Shown.elapsed]_vars
  BY <1>1, <1>2
<1>. QED  BY <1>3, LoopInvHolds, TimeInvHolds, BoundInvHolds, FrozenInvHolds,
             PTL DEF Spec, ShownProgressHolds

\* The switches of the service, its error and its pool.
FlagInv ==
    /\ ctxDone \in BOOLEAN /\ opened \in BOOLEAN /\ alive \in BOOLEAN
    /\ readersEnded \in BOOLEAN /\ sourceError \in BOOLEAN
    /\ report \in {"none", "queued", "taken"}

\* Each switch keeps to its values.
LEMMA FlagInvHolds == Spec => []FlagInv
<1>1. Init => FlagInv
  BY DEF Init, FlagInv
<1>2. FlagInv /\ [Next]_vars => FlagInv'
  <2> SUFFICES ASSUME FlagInv, [Next]_vars PROVE FlagInv'
    OBVIOUS
  <2>. USE DEF FlagInv, stageVars, envVars
  <2>1. CASE UNCHANGED vars \/ Deliver \/ ReaderReports \/ ReadersEnd
    BY <2>1 DEF vars, Deliver, ReaderReports, ReadersEnd, OnlyStages
  <2>2. CASE ClockAdvances \/ ContextEnds
    BY <2>2 DEF ClockAdvances, ContextEnds, OnlyEnvironment
  <2>3. CASE Command \/ StartRun \/ StartFails
    BY <2>3 DEF Command, BeginStart, StartRun, StartFails, Resume, Pause, Reset, SetCapacity, SetReaders,
                SetThrottle, SetSenders, Set
  <2>4. CASE Fault \/ Tick \/ Exit
    BY <2>4 DEF Fault, Tick, Exit
  <2>5. CASE Joined \/ Collect \/ Clear
    BY <2>5 DEF Joined, StagesGone, Collect, Clear, KeepProgress, ResetProgress
  <2>. QED  BY <2>1, <2>2, <2>3, <2>4, <2>5 DEF Next, Ended
<1>. QED  BY <1>1, <1>2, PTL DEF Spec

\* Every variable has the values its comment gives it.
THEOREM TypeCorrect == Spec => []TypeOK
<1>1. LoopInv /\ CountInv /\ TimeInv /\ BoundInv /\ FlagInv /\ SettingsInv => TypeOK
  BY Bounded DEF LoopInv, BoundInv, FlagInv, SettingsInv, TypeOK
<1>. QED  BY <1>1, LoopInvHolds, CountInvHolds, TimeInvHolds, BoundInvHolds, FlagInvHolds,
             SettingsInvHolds, PTL
===============================================================================
