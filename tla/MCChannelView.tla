---------------------------- MODULE MCChannelView ----------------------------
(* A small instance of the channel's view for TLC, and what the scales of   *)
(* the controls compute, compared with what they are for on small ranges    *)
(* and lists.                                                               *)
EXTENDS ChannelView, Sequences

ZeroAndFour == {0, 4}
SomeDepths == {0, 1, 5}
SomeWaits == {0, 3, 6}

Scales == INSTANCE ControlScales

SmallRanges == [min : 0..2, max : 3..8, step : 1..3]
SmallLists == {<<0, 1, 3, 7>>, <<2, 4, 5>>, <<0, 2>>}
RangeOf(values) == [min |-> values[1], max |-> values[Len(values)], step |-> 1]
Lift == 12                      \* divided by the places of every small list

\* No step of a range is nearer to a value than the one it is set to.
ASSUME SteppedIsNearest ==
    \A r \in SmallRanges : \A v \in -1..9 : \A w \in r.min..r.max :
        Scales!Contains(r, w) =>
            LET inside == Scales!Bounded(v, r.min, r.max)
            IN  Scales!Distance(inside, Scales!Stepped(v, r)) <= Scales!Distance(inside, w)

\* The handle moved by the distance between the cables of two capacities
\* goes from the one to the other.
ASSUME DragFollowsTheCable ==
    \A values \in SmallLists : \A i, j \in DOMAIN values :
        LET r == RangeOf(values)
            from == Scales!CableLift(values[i], r, values, Lift)
            to == Scales!CableLift(values[j], r, values, Lift)
        IN  Scales!DragResult(values[i], (to.num - from.num) \div to.den, r, values, Lift)
                = values[j]

\* Every mark of a scale is a value the control can take, its ends included.
ASSUME TicksAreValues ==
    \A r \in SmallRanges :
        /\ {r.min, r.max} \subseteq Scales!MajorTicks(r, <<>>)
        /\ Scales!MajorTicks(r, <<>>) \subseteq Scales!Ticks(r, <<>>)
        /\ \A v \in Scales!Ticks(r, <<>>) : Scales!Fits(r, v)

-------------------------------------------------------------------------------
(* The picture.  Legs on an axis of ten, with up to two forbidden ranges    *)
(* that may stick out of it.                                                *)
Layout == INSTANCE PipelineLayout

SomeRanges == {r \in [start : -2..10, end : {1, 4, 7, 12}] : r.start < r.end}
PairsOfRanges == {{a, b} : a, b \in SomeRanges}
LegCounts == {2, 4, 6}

\* No leg runs inside a forbidden range; legs rise, and lie on the axis.
ASSUME LegsKeepClear ==
    \A pair \in PairsOfRanges : \A n \in LegCounts :
        LET legs == Layout!LegsAroundRanges(0, 10, n, pair)
            unit == n - 1
        IN  /\ \A i \in DOMAIN legs :
                   /\ legs[i] \in 0..(10 * unit)
                   /\ \A r \in pair :
                          ~(AtMost(10, r.end) * unit > legs[i]
                            /\ legs[i] > (IF r.start < 0 THEN 0 ELSE r.start) * unit)
            /\ \A i \in 2..Len(legs) : legs[i - 1] < legs[i]

\* The way around many ranges is the way around one when there is one inside.
ASSUME OneRangeIsManyOfOne ==
    \A r \in SomeRanges : \A n \in LegCounts :
        r.start >= 0 /\ r.end <= 10 =>
            Layout!LegsAroundRange(0, 10, n, r) = Layout!LegsAroundRanges(0, 10, n, {r})

\* More capacity never has fewer legs; the least has two, the largest fourteen.
Channel(applied) == [applied |-> applied, min |-> 0, max |-> 12, step |-> 1]
ASSUME LegsGrowWithCapacity ==
    LET legs(applied) == Layout!LegCount(Channel(applied), <<>>)
    IN  /\ legs(0) = 0 /\ legs(1) = 2 /\ legs(12) = 14
        /\ \A applied \in 1..12 : legs(applied - 1) <= legs(applied)
        /\ \A n \in {2, 4, 6, 8, 10, 12, 14} : \A span \in 0..60 :
               LET fitted == Layout!FittedLegCount(n, span)
               IN  fitted <= n /\ fitted % 2 = 0 /\ (fitted > 1 => (fitted - 1) * 4 <= span)

\* However many workers there are, their chips do not overlap and stay inside
\* the frame.
ClearOf(grid, chips, i, j) ==
    Scales!Distance(chips[i].x, chips[j].x) >= grid.width
    \/ Scales!Distance(chips[i].y, chips[j].y) >= grid.height
FitsIn(grid, chips, count, height) ==
    /\ \A i, j \in 0..(count - 1) : i # j => ClearOf(grid, chips, i, j)
    /\ chips[count - 1].y + grid.height <= height
ASSUME ChipsKeepApart ==
    \A count \in 1..32 :
        LET portrait == Layout!PortraitGrid(count)
            landscape == Layout!LandscapeGrid(count, 39)
        IN  /\ FitsIn(portrait, Layout!Chips(portrait, count), count,
                      Layout!PortraitHeight(count) - 108000)
            /\ FitsIn(landscape, Layout!Chips(landscape, count), count,
                      Layout!LandscapeHeight(count, 39, 16) - 16000)
===============================================================================
