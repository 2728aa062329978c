----------------------------- MODULE ControlScales ----------------------------
(***************************************************************************)
(* The arithmetic between a gesture and a value: the cable of a channel    *)
(* that is dragged or moved by keys to a capacity, the valve whose twelve  *)
(* positions stand for rates, and the buttons that step a number of        *)
(* workers or a batch size.  What comes out is sent to the server, which   *)
(* accepts a value of its list or a step of its range and nothing else.    *)
(* (src/frontend/src/components/pipeline/channelCableGeometry.ts,          *)
(* throttlerValve.ts, ThrottlerActor.tsx, WorkerActor.tsx,                 *)
(* PipelineBatchControl.tsx)                                               *)
(*                                                                         *)
(* There is no state here.  A range is a record with min, max and step,    *)
(* a control is a range with the values applied, preview and pending.      *)
(* Values are integers below 10^12, where toFixed and toPrecision(12)      *)
(* change nothing; a position on the screen is an exact fraction, where    *)
(* the code has a double.  A list `values` is <<>> when the channel has a  *)
(* range: the server gives lists, the simulation gives ranges.             *)
(***************************************************************************)
EXTENDS SnapshotWire

None == -1                      \* null: no value is negative

\* Math.min(high, Math.max(low, v))
Bounded(v, low, high) ==
    LET raised == IF v < low THEN low ELSE v IN IF raised > high THEN high ELSE raised

\* Math.round(num / den) for den > 0: a half is rounded up.
Round(num, den) == (2 * num + den) \div (2 * den)

Distance(v, w) == IF v < w THEN w - v ELSE v - w

\* The positions of the values that are nearest to v, and the first of them.
Nearest(v, values) ==
    {i \in DOMAIN values :
        \A j \in DOMAIN values : Distance(v, values[i]) <= Distance(v, values[j])}
ClosestIndex(v, values) ==
    CHOOSE i \in Nearest(v, values) : \A j \in Nearest(v, values) : i <= j

StepOf(r) == IF r.step > 0 THEN r.step ELSE 1

\* The step of r nearest to the fraction num / den, inside r.
SteppedRatio(num, den, r) ==
    LET over == Bounded(num, den * r.min, den * r.max) - den * r.min
    IN  Bounded(r.min + Round(over, den * StepOf(r)) * StepOf(r), r.min, r.max)
Stepped(v, r) == SteppedRatio(v, 1, r)

-------------------------------------------------------------------------------
(* The cable of a channel. *)

\* normalizeCapacity
Normalized(v, r, values) ==
    IF values = <<>> THEN Stepped(v, r)
    ELSE values[ClosestIndex(Bounded(v, r.min, r.max), values)]

CapacityIndex(v, r, values) ==
    CHOOSE i \in DOMAIN values :
        /\ values[i] = Normalized(v, r, values)
        /\ \A j \in 1..(i - 1) : values[j] # values[i]

\* getChannelCapacityPresentation: the value in force, the value the handle
\* shows, and what the handle says of the difference.
FirstSet(seq) == seq[CHOOSE i \in DOMAIN seq : seq[i] # None /\ \A j \in 1..(i - 1) : seq[j] = None]

Presentation(c, local, values) ==
    LET applied == Normalized(FirstSet(<<c.applied, c.min>>), c, values)
        candidate == Normalized(FirstSet(<<local, c.preview, c.pending, applied>>), c, values)
        awaited == c.pending # None /\ Normalized(c.pending, c, values) = candidate
    IN  [applied |-> applied, candidate |-> candidate,
         state |-> IF candidate = applied THEN "none"
                   ELSE IF local = None /\ awaited THEN "pending" ELSE "preview"]

\* capacityToCableY: how far the handle is lifted, as the fraction num / den.
CableLift(v, r, values, maxLift) ==
    IF Len(values) > 1 /\ maxLift > 0
    THEN [num |-> (CapacityIndex(v, r, values) - 1) * maxLift, den |-> Len(values) - 1]
    ELSE IF r.max <= r.min \/ maxLift <= 0 THEN [num |-> 0, den |-> 1]
    ELSE [num |-> (Normalized(v, r, values) - r.min) * maxLift, den |-> r.max - r.min]

\* capacityFromVerticalDrag: a handle that showed `start` was moved up by `up`.
DragResult(start, up, r, values, maxLift) ==
    IF Len(values) > 1 /\ maxLift > 0
    THEN values[Bounded(CapacityIndex(start, r, values) + Round(up * (Len(values) - 1), maxLift),
                        1, Len(values))]
    ELSE IF maxLift <= 0 \/ r.max <= r.min \/ values # <<>> THEN Normalized(start, r, values)
    ELSE SteppedRatio(start * maxLift + up * (r.max - r.min), maxLift, r)

KeySteps == [ArrowUp |-> 1, ArrowRight |-> 1, ArrowDown |-> -1, ArrowLeft |-> -1,
             PageUp |-> 5, PageDown |-> -5]
ChannelKeys == DOMAIN KeySteps \cup {"Home", "End"}

\* capacityFromKeyboard
KeyIndex(key, index, last) ==
    IF key = "Home" THEN 1 ELSE IF key = "End" THEN last
    ELSE Bounded(index + KeySteps[key], 1, last)

KeyResult(key, current, r, values) ==
    IF values # <<>>
    THEN values[KeyIndex(key, CapacityIndex(current, r, values), Len(values))]
    ELSE IF key = "Home" THEN Stepped(r.min, r) ELSE IF key = "End" THEN Stepped(r.max, r)
    ELSE Stepped(current + KeySteps[key] * r.step, r)

\* A drag that ends, and a key: the value is sent when it is another one.
DragSends(shown, up, r, values, maxLift) ==
    {DragResult(shown, up, r, values, maxLift)} \ {shown}
KeySends(key, shown, r, values) == {KeyResult(key, shown, r, values)} \ {shown}

\* getCapacityTicks: the values marked at the scale, at most some twenty of
\* them, and those with a long mark.
TickCount(r) ==
    LET count == Round(r.max - r.min, StepOf(r)) IN IF count < 1 THEN 1 ELSE count
TickAt(r, i) == Stepped(r.min + i * StepOf(r), r)
MiddleTick(r) == TickAt(r, Round(TickCount(r), 2))

Ticks(r, values) ==
    IF values # <<>> THEN Members(values)
    ELSE LET stride == (TickCount(r) + 19) \div 20
             marked == {i \in 1..(TickCount(r) - 1) : i % stride = 0}
         IN  {r.min, r.max, MiddleTick(r)} \cup {TickAt(r, i) : i \in marked}

MajorTicks(r, values) ==
    IF values = <<>> THEN {r.min, r.max, MiddleTick(r)}
    ELSE {values[i] : i \in {1, Len(values) \div 2 + 1, Len(values)}}

-------------------------------------------------------------------------------
(* The valve of the throttler. *)

Positions == 0..11

CapabilityIsFinite(r) == r.max > r.min /\ r.step > 0

\* getValveTargets: the rate of each position.  There is no valve to turn when
\* two positions have the same rate.
ValveTarget(r, i) ==
    Bounded(r.min + Round((r.max - r.min) * i, 11 * r.step) * r.step, r.min, r.max)
ValveTargets(r) == [i \in Positions |-> ValveTarget(r, i)]
HasValve(r) ==
    CapabilityIsFinite(r) /\ \A i, j \in Positions : i # j => ValveTarget(r, i) # ValveTarget(r, j)

\* valueToOpeningIndex
OpeningIndex(v, r) ==
    IF v = None THEN 0
    ELSE IF HasValve(r) THEN ClosestIndex(v, ValveTargets(r))
    ELSE IF r.max <= r.min THEN 0
    ELSE Round(Bounded(v - r.min, 0, r.max - r.min) * 11, r.max - r.min)

\* effectiveValveOpeningIndex: a throttler that is not installed lets all pass.
EffectiveOpening(installed, c) == IF ~installed THEN 11 ELSE OpeningIndex(c.applied, c)

ValveIsAdjustable(available, c) == available /\ c.applied # None /\ HasValve(c)

\* handleValveKeyDown: by how many positions a key turns.
ValveKeyDelta(key) ==
    IF key = "Home" THEN -11 ELSE IF key = "End" THEN 11 ELSE KeySteps[key]

\* requestDelta, from the position the valve shows: the new position, and the
\* rate it asks for; none at the end of the way.
TurnedTo(index, delta) == Bounded(index + delta, 0, 11)
TurnSends(index, delta, r) ==
    {ValveTarget(r, i) : i \in {TurnedTo(index, delta)} \ {index}}

\* nextWheelPhase; the remainder of the language has the sign of the dividend.
Remainder(a, n) == IF a >= 0 THEN a % n ELSE -((-a) % n)
NextWheelPhase(phase, delta) ==
    LET next == Remainder(phase + delta, 6) IN IF next < 0 THEN next + 6 ELSE next

-------------------------------------------------------------------------------
(* The buttons. *)

\* step of the batch size: one step up or down from the value in force
StepSends(applied, direction, r) ==
    {Bounded(applied + direction * r.step, r.min, r.max)} \ {applied}

\* stepWorkers: one worker more or less than desired
WorkerSends(desired, delta, r) == {Bounded(desired + delta, r.min, r.max)} \ {desired}

-------------------------------------------------------------------------------
(* What the theorems speak of. *)

\* A range whose numbers the browser was given, and a list of capacities with
\* the range the adapter makes of it (readerChannelCapacityControl).
ProperRange(r) == r.min \in Nat /\ r.max \in Nat /\ r.step \in Nat \ {0} /\ r.min <= r.max
ProperList(r, values) ==
    /\ values \in Seq(Nat) /\ values # <<>> /\ Increasing(values)
    /\ r.min = values[1] /\ r.max = values[Len(values)]

\* A range whose upper end is one of its steps.
Aligned(r) == (r.max - r.min) % r.step = 0

\* A value inside the range, on a step or at its end.
Fits(r, v) == v \in r.min..r.max /\ (Contains(r, v) \/ v = r.max)

\* A value the control can have in force, on a list or on a range.
OnScale(v, c, values) ==
    IF values = <<>> THEN ProperRange(c) /\ v \in Nat /\ Contains(c, v)
    ELSE ProperList(c, values) /\ v \in Members(values)
===============================================================================
