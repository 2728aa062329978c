---------------------------- MODULE PipelineLayout ----------------------------
(***************************************************************************)
(* Where the picture of the pipeline puts what moves: the legs of the hose *)
(* that stands for a channel, which have to keep clear of its scale and of *)
(* other hoses, and the chips of an actor's workers.                       *)
(* (src/frontend/src/components/pipeline/channelCableGeometry.ts,          *)
(* workerActorLayout.ts)                                                   *)
(*                                                                         *)
(* Lengths along one axis are integers.  Legs are given in fractions of    *)
(* (count - 1), so that they are integers too, chips in thousandths.       *)
(***************************************************************************)
EXTENDS Integers, Sequences, SequencesExt

MinLegGap == 4                  \* SERPENTINE_MIN_LEG_GAP
AtLeast(low, v) == IF v < low THEN low ELSE v
AtMost(high, v) == IF v > high THEN high ELSE v

-------------------------------------------------------------------------------
(* The legs of a hose. *)

\* getCapacityLegCount: two legs more for each sixth of the way, on a
\* logarithmic scale, from the least positive capacity to the largest.
PositiveSpan(c, values) ==
    LET positive == {v \in ToSet(values) : v > 0 /\ v <= c.max}
    IN  IF positive # {} THEN [least |-> Min(positive), most |-> Max(positive)]
        ELSE [least |-> IF c.min > 0 THEN c.min
                        ELSE IF c.step > 0 THEN c.min + c.step ELSE c.max,
              most |-> c.max]

LegCount(c, values) ==
    LET span == PositiveSpan(c, values)
        shown == AtMost(span.most, AtLeast(span.least, c.applied))
        sixths == {b \in 0..6 : span.most ^ b * span.least ^ (6 - b) <= shown ^ 6}
    IN  IF c.applied <= 0 \/ c.max <= 0 \/ span.least <= 0 THEN 0
        ELSE IF span.most <= span.least THEN 2
        ELSE 2 * (1 + Max(sixths))

\* fittedLegCount
FittedLegCount(desired, span) ==
    Max({0} \cup {n \in 2..desired : (desired - n) % 2 = 0 /\ span >= (n - 1) * MinLegGap})

\* mergeAxisRanges: the forbidden ranges, cut to [start, end], in order and
\* merged where they meet.
Merge(merged, r) ==
    IF merged = <<>> \/ r.start > Last(merged).end THEN Append(merged, r)
    ELSE [merged EXCEPT ![Len(merged)].end = AtLeast(@, r.end)]

MergeAxisRanges(start, end, ranges) ==
    LET cut == {[start |-> AtLeast(start, r.start), end |-> AtMost(end, r.end)] : r \in ranges}
        left == {r \in cut : r.end > r.start}
    IN  FoldLeft(Merge, <<>>,
                 SetToSortSeq(left, LAMBDA a, b : a.start < b.start
                                                  \/ (a.start = b.start /\ a.end < b.end)))

Forbidden(merged) == FoldLeft(LAMBDA total, r : total + r.end - r.start, 0, merged)

\* spacedCoordinatesAroundForbiddenRanges, for count > 1: count places at even
\* distances on what is left of [start, end], each moved past the ranges it
\* does not come before.  All numbers are multiplied by count - 1.
LegsAroundRanges(start, end, count, forbidden) ==
    LET merged == MergeAxisRanges(start, end, forbidden)
        available == end - start - Forbidden(merged)
        unit == count - 1
        Past(place, r) ==
            IF place <= r.start * unit THEN place ELSE place + (r.end - r.start) * unit
    IN  IF available <= 0 THEN <<>>
        ELSE [i \in 1..count |-> FoldLeft(Past, start * unit + (i - 1) * available, merged)]

\* spacedCoordinatesAroundForbiddenRange: the same for one range.
LegsAroundRange(start, end, count, r) ==
    LET before == AtLeast(0, r.start - start)
        available == before + AtLeast(0, end - r.end)
        unit == count - 1
    IN  IF available <= 0 THEN <<>>
        ELSE [i \in 1..count |->
                LET offset == (i - 1) * available
                IN  IF offset <= before * unit THEN start * unit + offset
                    ELSE (r.end - before) * unit + offset]

-------------------------------------------------------------------------------
(* The chips of the workers. *)

DetailedLimit == 7              \* DETAILED_WORKER_LIMIT

\* getPortraitWorkerGridMetrics
PortraitGrid(count) ==
    IF count > DetailedLimit
    THEN [columns |-> AtMost(5, count), width |-> 22610, height |-> 13260,
          columnPitch |-> 26500, rowPitch |-> 15200]
    ELSE [columns |-> AtMost(4, count), width |-> 57190, height |-> 33540,
          columnPitch |-> 82000, rowPitch |-> 45000]

\* getWorkerActorLayout in landscape, with the rows of the actor's frame.
LandscapeGrid(count, rowHeight) ==
    IF count > DetailedLimit
    THEN [columns |-> 4, width |-> 28595, height |-> 16770,
          columnPitch |-> 29000, rowPitch |-> 22000]
    ELSE [columns |-> 1, width |-> 66500, height |-> 39000,
          columnPitch |-> 0, rowPitch |-> rowHeight * 1000]

\* The places of the chips, from the corner of the grid.
Chips(grid, count) ==
    [i \in 0..(count - 1) |-> [x |-> (i % grid.columns) * grid.columnPitch,
                               y |-> (i \div grid.columns) * grid.rowPitch]]

\* The height an actor's frame has for its chips.
PortraitHeight(count) ==
    LET grid == PortraitGrid(count)
        rows == (count + grid.columns - 1) \div grid.columns
        gridBottom == 18000 + (rows - 1) * grid.rowPitch + grid.height
    IN  ((gridBottom + 999) \div 1000 + 90) * 1000

LandscapeHeight(count, rowHeight, padding) ==
    (AtMost(DetailedLimit, count) * rowHeight + padding * 2) * 1000
===============================================================================
