-------------------------- MODULE ControlScalesProofs -------------------------
(***************************************************************************)
(* The server and the browser agree on the status: whatever the server     *)
(* accepts as configuration and as settings, and whatever its pools count, *)
(* the decoder accepts, as long as its numbers are safe integers.  And     *)
(* what the arithmetic of the controls guarantees for every range, every   *)
(* list and every gesture.                                                 *)
(***************************************************************************)
EXTENDS ControlScales, FiniteSetTheorems, WellFoundedInduction, NaturalsInduction,
        SequenceTheorems, TLAPS

-------------------------------------------------------------------------------
(* SnapshotWire. *)

\* The test of a value is the same on both sides for values in range.
LEMMA RangeValuesAgree ==
    ASSUME NEW r \in Ranges, NEW v \in Int, r.min >= 0, r.max <= MaxSafe, Contains(r, v)
    PROVE  IsRangeValue(v, r)
<1>1. v >= 0 /\ v <= MaxSafe BY DEF Contains, Ranges, MaxSafe
<1>. QED BY <1>1 DEF IsRangeValue, IsWireInteger

LEMMA ExactRangesDecode ==
    ASSUME NEW r \in Ranges, NEW top \in 1..32, Exactly(r, 1, 1, top, 1)
    PROVE  DecodesPositiveRange(r)
<1>1. Contains(r, 1) BY DEF Contains, Exactly, Ranges
<1>. QED BY <1>1 DEF Exactly, DecodesPositiveRange, IsWireRange, IsRangeValue, IsWireInteger,
                     MaxSafe, Ranges

\* Ranges: decoder and validator demand the same of each.
LEMMA RangesDecode ==
    ASSUME NEW c, ValidConfig(c), SafeConfig(c)
    PROVE  /\ DecodesPositiveRange(c.readBatchSize)
           /\ DecodesMetricsWindow(c.metricsWindow)
           /\ DecodesRequestedTps(c.requestedTps)
<1>. USE DEF Ranges
<1>1. /\ c.readBatchSize \in Ranges /\ c.metricsWindow \in Ranges
      /\ c.requestedTps \in Ranges
  BY DEF ValidConfig, Configs
<1>2. DecodesPositiveRange(c.readBatchSize)
  <2>. DEFINE r == c.readBatchSize
  <2>1. ValidBatchSize(r) /\ r.max <= MaxSafe /\ r.step <= MaxSafe
    BY DEF ValidConfig, SafeConfig
  <2>2. IsRangeValue(r.initial, r)
    BY <1>1, <2>1, RangeValuesAgree DEF ValidBatchSize
  <2>. QED BY <1>1, <2>1, <2>2 DEF ValidBatchSize, DecodesPositiveRange, IsWireRange,
                                   IsWireInteger, IsRangeValue, MaxSafe
<1>3. DecodesMetricsWindow(c.metricsWindow)
  <2>. DEFINE r == c.metricsWindow
  <2>1. ValidMetricsWindow(r) /\ r.step <= MaxSafe BY DEF ValidConfig, SafeConfig
  <2>2. r.max <= MaxSafe BY <1>1, <2>1 DEF ValidMetricsWindow, MaxSafe
  <2>3. IsRangeValue(r.initial, r)
    BY <1>1, <2>1, <2>2, RangeValuesAgree DEF ValidMetricsWindow
  <2>. QED BY <1>1, <2>1, <2>2, <2>3 DEF ValidMetricsWindow, DecodesMetricsWindow,
                                         IsWireRange, IsWireInteger, IsRangeValue, MaxSafe
<1>4. DecodesRequestedTps(c.requestedTps)
  <2>. DEFINE r == c.requestedTps
  <2>1. ValidRequestedTps(r) /\ r.max <= MaxSafe /\ r.step <= MaxSafe
    BY DEF ValidConfig, SafeConfig
  <2>2. IsRangeValue(r.initial, r)
    BY <1>1, <2>1, RangeValuesAgree DEF ValidRequestedTps
  <2>. QED BY <1>1, <2>1, <2>2 DEF ValidRequestedTps, DecodesRequestedTps, IsWireRange,
                                   IsWireInteger, IsRangeValue, MaxSafe
<1>. QED BY <1>2, <1>3, <1>4

LEMMA ListsDecode ==
    ASSUME NEW l \in Lists, ValidList(l), \A i \in DOMAIN l.allowed : l.allowed[i] <= MaxSafe
    PROVE  DecodesList(l)
<1>1. \A i \in DOMAIN l.allowed : IsWireInteger(l.allowed[i])
  BY DEF Lists, ValidList, IsWireInteger
<1>2. IsWireInteger(l.initial) BY <1>1 DEF ValidList, Members
<1>3. l.allowed # <<>> BY DEF ValidList
<1>. QED BY <1>1, <1>2, <1>3 DEF DecodesList, ValidList

\* Every configuration the server starts with decodes, if its numbers are
\* safe integers: validate and decodeConfig are two lists of conditions, in
\* two languages, kept in step by hand.
THEOREM ServedConfigDecodes ==
    ASSUME NEW c, ValidConfig(c), SafeConfig(c)
    PROVE  DecodesConfig(c)
<1>1. /\ c.readerWorkers \in Ranges /\ c.readerCapacity \in Lists
      /\ c.senderCapacity \in Lists /\ c.installed \in Flags
  BY DEF ValidConfig, Configs
<1>2. DecodesPositiveRange(c.readerWorkers)
  BY <1>1, ExactRangesDecode DEF ValidConfig
<1>3. DecodesList(c.readerCapacity) /\ DecodesList(c.senderCapacity)
  BY <1>1, ListsDecode DEF ValidConfig, SafeConfig
<1>4. DecodesFlag(c.installed)
  <2>1. ValidFlag(c.installed) BY DEF ValidConfig
  <2>. DEFINE allowed == c.installed.allowed
  <2>2. allowed \in Seq(BOOLEAN) BY <1>1 DEF Flags
  <2>4. \A i \in DOMAIN allowed : allowed[i] \in BOOLEAN BY <2>2, ElementOfSeq
  <2>5. Members(allowed) \subseteq BOOLEAN BY <2>4, Zenon DEF Members
  <2>6. {TRUE, FALSE} \subseteq Members(allowed) BY <2>1, Zenon DEF ValidFlag
  <2>7. Members(c.installed.allowed) = BOOLEAN BY <2>5, <2>6, Zenon
  <2>3. c.installed.initial \in BOOLEAN BY <1>1 DEF Flags
  <2>. QED BY <2>1, <2>7, <2>3 DEF ValidFlag, DecodesFlag
<1>. QED BY <1>2, <1>3, <1>4, RangesDecode DEF ValidConfig, DecodesConfig, DecodesLevel

-------------------------------------------------------------------------------
\* What a set of workers does splits it into three.
LEMMA Split ==
    ASSUME NEW W, IsFiniteSet(W), NEW does, \A w \in W : does[w] \in {"idle", "busy", "held"}
    PROVE  /\ \A what \in {"idle", "busy", "held"} :
                  /\ IsFiniteSet(Doing(W, does, what))
                  /\ Cardinality(Doing(W, does, what)) \in Nat
           /\ Cardinality(W) = Cardinality(Doing(W, does, "idle"))
                  + Cardinality(Doing(W, does, "busy")) + Cardinality(Doing(W, does, "held"))
<1>. DEFINE I == Doing(W, does, "idle")
            B == Doing(W, does, "busy")
            H == Doing(W, does, "held")
<1>1. I \subseteq W /\ B \subseteq W /\ H \subseteq W BY DEF Doing
<1>2. IsFiniteSet(I) /\ IsFiniteSet(B) /\ IsFiniteSet(H) BY <1>1, FS_Subset
<1>3. Cardinality(I) \in Nat /\ Cardinality(B) \in Nat /\ Cardinality(H) \in Nat
  BY <1>2, FS_CardinalityType
<1>4. W = (I \cup B) \cup H BY DEF Doing
<1>5. I \cap B = {} /\ (I \cup B) \cap H = {} BY DEF Doing
<1>6. IsFiniteSet(I \cup B)
      /\ Cardinality(I \cup B) = Cardinality(I) + Cardinality(B) - Cardinality({})
  BY <1>2, <1>5, FS_Union
<1>7. Cardinality((I \cup B) \cup H)
      = Cardinality(I \cup B) + Cardinality(H) - Cardinality({})
  BY <1>2, <1>5, <1>6, FS_Union
<1>8. Cardinality({}) = 0 BY FS_EmptySet
<1>. HIDE DEF I, B, H
<1>9. Cardinality(W) = Cardinality(I) + Cardinality(B) + Cardinality(H)
  BY <1>3, <1>4, <1>6, <1>7, <1>8
<1>. QED BY <1>2, <1>3, <1>9 DEF I, B, H

\* The worker counts the server makes under the pool's lock add up the way
\* the decoder wants them, for any workers doing and draining anything.
LEMMA PoolsDecode ==
    ASSUME NEW run, NEW p, PoolStatus(run, p), p.live <= MaxSafe
    PROVE  DecodesPool(run, p)
<1>1. PICK W, D, does :
          /\ IsFiniteSet(W) /\ D \subseteq W
          /\ does \in [W -> {"idle", "busy", "held"}]
          /\ run \in NoPipeline => W = {}
          /\ p = Counted(W, does, D)
  BY DEF PoolStatus
<1>2. IsFiniteSet(D) /\ Cardinality(D) \in Nat /\ Cardinality(W) \in Nat
      /\ Cardinality(D) <= Cardinality(W)
  BY <1>1, FS_Subset, FS_CardinalityType
<1>3. \A what \in {"idle", "busy", "held"} :
          Cardinality(Doing(D, does, what)) <= Cardinality(Doing(W, does, what))
  <2>1. SUFFICES ASSUME NEW what \in {"idle", "busy", "held"}
        PROVE Cardinality(Doing(D, does, what)) <= Cardinality(Doing(W, does, what))
    OBVIOUS
  <2>2. IsFiniteSet(Doing(W, does, what)) BY <1>1, FS_Subset DEF Doing
  <2>3. Doing(D, does, what) \subseteq Doing(W, does, what) BY <1>1 DEF Doing
  <2>. QED BY <2>2, <2>3, FS_Subset
<1>4. /\ \A w \in W : does[w] \in {"idle", "busy", "held"}
      /\ \A w \in D : does[w] \in {"idle", "busy", "held"}
  BY <1>1
<1>5. /\ Cardinality(Doing(W, does, "idle")) \in Nat
      /\ Cardinality(Doing(W, does, "busy")) \in Nat
      /\ Cardinality(Doing(W, does, "held")) \in Nat
      /\ Cardinality(W) = Cardinality(Doing(W, does, "idle"))
             + Cardinality(Doing(W, does, "busy")) + Cardinality(Doing(W, does, "held"))
  BY <1>1, <1>4, Split
<1>6. /\ Cardinality(Doing(D, does, "idle")) \in Nat
      /\ Cardinality(Doing(D, does, "busy")) \in Nat
      /\ Cardinality(Doing(D, does, "held")) \in Nat
      /\ Cardinality(D) = Cardinality(Doing(D, does, "idle"))
             + Cardinality(Doing(D, does, "busy")) + Cardinality(Doing(D, does, "held"))
  BY <1>2, <1>4, Split
<1>7. run \in NoPipeline => Cardinality(W) = 0 /\ Cardinality(D) = 0
  <2>1. run \in NoPipeline => W = {} /\ D = {} BY <1>1
  <2>. QED BY <2>1, FS_EmptySet
<1>8. p = Counted(W, does, D) BY <1>1
<1>9. \A f \in PoolFields : IsWireInteger(p[f])
  BY <1>2, <1>3, <1>5, <1>6, <1>8 DEF PoolFields, Counted, IsWireInteger, MaxSafe
<1>. QED BY <1>3, <1>5, <1>6, <1>7, <1>8, <1>9 DEF DecodesPool, Counted

\* The capacity of a channel in a status is one of the configured ones.
LEMMA CapacitiesDecode ==
    ASSUME NEW l, DecodesList(l), NEW v \in Members(l.allowed)
    PROVE  DecodesCapacity(v, l)
BY DEF DecodesList, DecodesCapacity, Members

\* No status the server can make of accepted settings and of its pools is
\* refused: the browser loses its connection to a fault of the link, or to a
\* number that is no safe integer, and to nothing else.
THEOREM ServedStatusDecodes ==
    ASSUME NEW c, NEW s, ValidConfig(c), SafeConfig(c), ServerStatus(c, s), SafeStatus(s)
    PROVE  Decodes(c, s)
<1>1. DecodesConfig(c) BY ServedConfigDecodes
<1>2. /\ c.readerWorkers \in Ranges /\ c.readBatchSize \in Ranges
      /\ c.requestedTps \in Ranges /\ c.senderWorkers \in Ranges
  BY DEF ValidConfig, Configs
<1>3. /\ c.readerWorkers.min >= 0 /\ c.readerWorkers.max <= MaxSafe
      /\ c.senderWorkers.min >= 0 /\ c.senderWorkers.max <= MaxSafe
      /\ c.readBatchSize.min >= 0 /\ c.readBatchSize.max <= MaxSafe
      /\ c.requestedTps.min >= 0 /\ c.requestedTps.max <= MaxSafe
  BY <1>2 DEF ValidConfig, SafeConfig, Exactly, ValidBatchSize, ValidRequestedTps, MaxSafe,
              Ranges
<1>4. /\ IsRangeValue(s.readerWorkers, c.readerWorkers)
      /\ IsRangeValue(s.readBatchSize, c.readBatchSize)
      /\ IsRangeValue(s.requestedTps, c.requestedTps)
      /\ IsRangeValue(s.senderWorkers, c.senderWorkers)
  BY <1>2, <1>3, RangeValuesAgree DEF ServerStatus
<1>5. DecodesPool(s.run, s.readerPool) /\ DecodesPool(s.run, s.senderPool)
  BY PoolsDecode DEF ServerStatus, SafeStatus
<1>6. /\ DecodesCapacity(s.readerCapacity, c.readerCapacity)
      /\ DecodesCapacity(s.senderCapacity, c.senderCapacity)
  BY <1>1, CapacitiesDecode DEF DecodesConfig, ServerStatus
<1>7. \A n \in s.figures : IsWireInteger(n)
  BY DEF ServerStatus, SafeStatus, IsWireInteger
<1>8. s.installed \in Members(c.installed.allowed)
  BY <1>1 DEF DecodesConfig, DecodesFlag, ServerStatus
<1>. QED BY <1>1, <1>4, <1>5, <1>6, <1>7, <1>8 DEF Decodes, ServerStatus

\* The safe integers are needed: the server starts with a requested TPS range
\* past them, and no status of it ever decodes.
THEOREM UnsafeRangeNeverDecodes ==
    ASSUME NEW c, NEW s, ValidConfig(c), c.requestedTps.max > MaxSafe
    PROVE  ~Decodes(c, s)
<1>1. c.requestedTps.max \in Int BY DEF ValidConfig, Configs, Ranges
<1>. QED BY <1>1 DEF Decodes, DecodesConfig, DecodesRequestedTps, IsWireRange, IsWireInteger,
                     MaxSafe

-------------------------------------------------------------------------------
(* ControlScales. *)

(* Every non-empty set of natural numbers has a least element. *)
LEMMA LeastElement ==
    ASSUME NEW T \in SUBSET Nat, T # {}
    PROVE  \E x \in T : \A y \in T : x <= y
<1>1. \E x \in T : \A y \in T : ~ (<<y, x>> \in OpToRel(<, Nat))
  BY NatLessThanWellFounded, WFMin
<1>2. PICK x \in T : \A y \in T : ~ (<<y, x>> \in OpToRel(<, Nat))
  BY <1>1
<1>3. ASSUME NEW y \in T PROVE x <= y
  <2>1. x \in Nat /\ y \in Nat
    OBVIOUS
  <2>2. <<y, x>> \notin OpToRel(<, Nat)
    BY <1>2
  <2>3. ~(y < x)
    BY <2>1, <2>2 DEF OpToRel
  <2> QED
    BY <2>1, <2>3
<1> QED
  BY <1>3

(* Math.round: between the numbers it stands between. *)
LEMMA MultipleMonotone ==
    ASSUME NEW a \in Int, NEW b \in Int, NEW c \in Nat, a <= b
    PROVE  a * c <= b * c
  OBVIOUS

LEMMA RoundOfMultiple ==
    ASSUME NEW k \in Nat, NEW d \in Nat \ {0}
    PROVE  Round(k * d, d) = k
<1> DEFINE q == (2 * (k * d) + d) \div (2 * d)
<1>1. /\ k * d \in Nat /\ q \in Int
      /\ q * (2 * d) <= 2 * (k * d) + d
      /\ 2 * (k * d) + d < (q + 1) * (2 * d)
  OBVIOUS
<1> HIDE DEF q
<1>2. q <= k
  <2> SUFFICES ASSUME q >= k + 1 PROVE FALSE
    BY <1>1
  <2>1. (k + 1) * (2 * d) <= q * (2 * d)
    BY <1>1, MultipleMonotone
  <2>2. (k + 1) * (2 * d) = 2 * (k * d) + 2 * d
    OBVIOUS
  <2> QED
    BY <1>1, <2>1, <2>2
<1>3. q >= k
  <2> SUFFICES ASSUME q + 1 <= k PROVE FALSE
    BY <1>1
  <2>1. (q + 1) * (2 * d) <= k * (2 * d)
    BY <1>1, MultipleMonotone
  <2>2. k * (2 * d) = 2 * (k * d)
    OBVIOUS
  <2> QED
    BY <1>1, <2>1, <2>2
<1> QED
  BY <1>1, <1>2, <1>3 DEF Round, q

LEMMA RoundNat ==
    ASSUME NEW n \in Nat, NEW d \in Nat \ {0}
    PROVE  Round(n, d) \in Nat
  BY DEF Round

LEMMA MultipleRemainder ==
    ASSUME NEW k \in Nat, NEW d \in Nat \ {0}
    PROVE  (k * d) % d = 0
  OBVIOUS

LEMMA ExactQuotient ==
    ASSUME NEW n \in Nat, NEW d \in Nat \ {0}, n % d = 0
    PROVE  n \div d \in Nat /\ n = (n \div d) * d
  OBVIOUS

-------------------------------------------------------------------------------
(* A value kept between two ends stays between them, and moves only when it *)
(* was outside.                                                             *)
LEMMA BoundedBetween ==
    ASSUME NEW v \in Int, NEW low \in Int, NEW high \in Int, low <= high
    PROVE  /\ Bounded(v, low, high) \in low..high
           /\ v \in low..high => Bounded(v, low, high) = v
           /\ Bounded(v, low, high) \in {v, low, high}
  BY DEF Bounded

(* Among values at natural positions there is a first of the nearest ones. *)
LEMMA ClosestExists ==
    ASSUME NEW D \in SUBSET Nat, D # {}, NEW values \in [D -> Int], NEW v \in Int
    PROVE  /\ ClosestIndex(v, values) \in D
           /\ \A j \in D : Distance(v, values[ClosestIndex(v, values)])
                                <= Distance(v, values[j])
<1> DEFINE gap(i) == Distance(v, values[i])
<1>1. \A i \in D : gap(i) \in Nat
  BY DEF Distance
<1>2. PICK i \in D : \A j \in D : gap(i) <= gap(j)
  <2> DEFINE T == {gap(i) : i \in D}
  <2>1. T \in SUBSET Nat /\ T # {}
    BY <1>1
  <2>2. PICK x \in T : \A y \in T : x <= y
    BY <2>1, LeastElement
  <2> QED
    BY <2>2
<1>3. i \in Nearest(v, values)
  BY <1>2 DEF Nearest
<1>4. Nearest(v, values) \in SUBSET Nat
  BY DEF Nearest
<1>5. PICK k \in Nearest(v, values) : \A j \in Nearest(v, values) : k <= j
  BY <1>3, <1>4, LeastElement
<1>6. ClosestIndex(v, values) \in Nearest(v, values)
  BY <1>5 DEF ClosestIndex
<1> QED
  BY <1>6 DEF Nearest

(* The nearest of several different values to one of them is that value.   *)
LEMMA ClosestToItself ==
    ASSUME NEW D \in SUBSET Nat, NEW values \in [D -> Int], NEW i \in D,
           \A j \in D : j # i => values[j] # values[i]
    PROVE  ClosestIndex(values[i], values) = i
<1>1. ClosestIndex(values[i], values) \in D
      /\ Distance(values[i], values[ClosestIndex(values[i], values)])
             <= Distance(values[i], values[i])
  BY ClosestExists
<1>2. Distance(values[i], values[i]) = 0
  BY DEF Distance
<1>3. values[ClosestIndex(values[i], values)] = values[i]
  <2>1. values[i] \in Int /\ values[ClosestIndex(values[i], values)] \in Int
    BY <1>1
  <2> QED
    BY <1>1, <1>2, <2>1 DEF Distance
<1> QED
  BY <1>1, <1>3

(* A stepped value lies in its range, on a step or at the upper end.        *)
LEMMA SteppedRatioFits ==
    ASSUME NEW r, ProperRange(r), NEW num \in Int, NEW den \in Nat \ {0}
    PROVE  Fits(r, SteppedRatio(num, den, r))
<1> DEFINE over == Bounded(num, den * r.min, den * r.max) - den * r.min
           k == Round(over, den * r.step)
           v == r.min + k * r.step
<1>1. r.min \in Nat /\ r.max \in Nat /\ r.step \in Nat \ {0} /\ r.min <= r.max
  BY DEF ProperRange
<1>2. over \in Nat
  <2>1. den * r.min \in Int /\ den * r.max \in Int /\ den * r.min <= den * r.max
    BY <1>1
  <2>2. Bounded(num, den * r.min, den * r.max) \in (den * r.min)..(den * r.max)
    BY <2>1, BoundedBetween
  <2> QED
    BY <2>1, <2>2
<1>3. k \in Nat
  <2>1. den * r.step \in Nat \ {0}
    BY <1>1
  <2> QED
    BY <1>2, <2>1, RoundNat
<1>4. SteppedRatio(num, den, r) = Bounded(v, r.min, r.max)
  BY <1>1 DEF SteppedRatio, StepOf
<1> HIDE DEF k
<1>5. v \in Nat /\ v >= r.min /\ (v - r.min) % r.step = 0
  <2>1. k * r.step \in Nat /\ (k * r.step) % r.step = 0
    BY <1>1, <1>3, MultipleRemainder
  <2> QED
    BY <1>1, <2>1
<1> HIDE DEF v
<1>6. Bounded(v, r.min, r.max) \in r.min..r.max
      /\ Bounded(v, r.min, r.max) \in {v, r.max}
  BY <1>1, <1>5 DEF Bounded
<1> QED
  BY <1>1, <1>4, <1>5, <1>6 DEF Contains, Fits

(* A value on a step of the range is left alone, however it is written as a *)
(* fraction.                                                                *)
LEMMA RatioFixes ==
    ASSUME NEW r, ProperRange(r), NEW v \in Int, Contains(r, v), NEW den \in Nat \ {0}
    PROVE  SteppedRatio(v * den, den, r) = v
<1>1. r.min \in Nat /\ r.max \in Nat /\ r.step \in Nat \ {0} /\ v \in r.min..r.max
      /\ (v - r.min) % r.step = 0
  BY DEF ProperRange, Contains
<1>2. PICK k \in Nat : v - r.min = k * r.step
  BY <1>1, v - r.min \in Nat, ExactQuotient
<1>3. /\ v * den \in Int /\ den * r.min \in Int /\ den * r.max \in Int
      /\ den * r.min <= v * den /\ v * den <= den * r.max
  BY <1>1, MultipleMonotone
<1>4. Bounded(v * den, den * r.min, den * r.max) = v * den
  BY <1>3 DEF Bounded
<1>5. v * den - den * r.min = k * (den * r.step)
  <2>1. v * den - den * r.min = den * (v - r.min)
    BY <1>1
  <2>2. \A a, b \in Nat : den * (a * b) = a * (den * b)
    OBVIOUS
  <2>3. den * (v - r.min) = den * (k * r.step)
    BY <1>2
  <2> QED
    BY <1>1, <2>1, <2>2, <2>3
<1>6. den * r.step \in Nat \ {0} /\ StepOf(r) = r.step
  BY <1>1 DEF StepOf
<1>7. Round(k * (den * r.step), den * r.step) = k
  BY <1>6, RoundOfMultiple
<1>8. SteppedRatio(v * den, den, r) = Bounded(r.min + k * r.step, r.min, r.max)
  BY <1>4, <1>5, <1>6, <1>7 DEF SteppedRatio
<1> QED
  BY <1>1, <1>2, <1>8 DEF Bounded

LEMMA SteppedFixes ==
    ASSUME NEW r, ProperRange(r), NEW v \in Int, Contains(r, v)
    PROVE  Stepped(v, r) = v
<1>1. SteppedRatio(v * 1, 1, r) = v
  BY RatioFixes
<1> QED
  BY <1>1 DEF Stepped

(* A list that rises from each place to the next rises between any two.     *)
LEMMA RisesThroughout ==
    ASSUME NEW values \in Seq(Nat), Increasing(values)
    PROVE  \A i, j \in DOMAIN values : i < j => values[i] < values[j]
<1> SUFFICES ASSUME NEW i \in DOMAIN values, NEW b \in DOMAIN values, i < b,
                    ~(values[i] < values[b])
             PROVE  FALSE
  OBVIOUS
<1> DEFINE T == {j \in DOMAIN values : i < j /\ ~(values[i] < values[j])}
<1>1. DOMAIN values = 1..Len(values) /\ Len(values) \in Nat
      /\ \A j \in DOMAIN values : values[j] \in Nat
  OBVIOUS
<1>2. T \in SUBSET Nat /\ T # {}
  BY <1>1
<1>3. PICK j \in T : \A k \in T : j <= k
  BY <1>2, LeastElement
<1>4. j \in 2..Len(values) /\ i \in Nat /\ i < j /\ ~(values[i] < values[j])
  BY <1>1
<1>5. values[j - 1] < values[j]
  BY <1>4 DEF Increasing
<1>6. j - 1 \in DOMAIN values /\ j - 1 \notin T
  BY <1>1, <1>3, <1>4
<1>7. i = j - 1 \/ values[i] < values[j - 1]
  BY <1>4, <1>6
<1> QED
  BY <1>1, <1>4, <1>5, <1>6, <1>7

(* What a list of capacities is made of. *)
LEMMA ListFacts ==
    ASSUME NEW r, NEW values, ProperList(r, values)
    PROVE  /\ Len(values) \in Nat \ {0} /\ DOMAIN values = 1..Len(values)
           /\ values \in [1..Len(values) -> Nat]
           /\ \A i, j \in 1..Len(values) : i # j => values[i] # values[j]
           /\ r.min \in Nat /\ r.max \in Nat /\ r.min <= r.max
           /\ \A i \in 1..Len(values) : values[i] \in r.min..r.max
<1>1. values \in Seq(Nat) /\ values # <<>> /\ r.min = values[1] /\ r.max = values[Len(values)]
  BY DEF ProperList
<1>2. \A i, j \in DOMAIN values : i < j => values[i] < values[j]
  BY RisesThroughout DEF ProperList
<1>3. Len(values) \in Nat \ {0} /\ DOMAIN values = 1..Len(values)
      /\ values \in [1..Len(values) -> Nat]
  BY <1>1
<1> QED
  BY <1>1, <1>2, <1>3

(* On a list, the value shown for any value is a value of the list, and a   *)
(* value of the list is shown as itself, at its own place.                  *)
LEMMA NormalizedOnList ==
    ASSUME NEW r, NEW values, ProperList(r, values), NEW v \in Int
    PROVE  /\ Normalized(v, r, values) \in Members(values)
           /\ v \in Members(values) => Normalized(v, r, values) = v
<1> DEFINE b == Bounded(v, r.min, r.max)
<1>1. values # <<>> /\ b \in Int
  <2>1. r.min \in Nat /\ r.max \in Nat
    BY ListFacts
  <2> QED
    BY <2>1 DEF Bounded, ProperList
<1>2. 1..Len(values) \in SUBSET Nat /\ 1..Len(values) # {}
  BY ListFacts
<1>3. values \in [1..Len(values) -> Int]
  BY ListFacts
<1>4. ClosestIndex(b, values) \in 1..Len(values)
  BY <1>1, <1>2, <1>3, ClosestExists
<1>5. Normalized(v, r, values) = values[ClosestIndex(b, values)]
  BY <1>1 DEF Normalized
<1>6. ASSUME NEW i \in 1..Len(values), v = values[i]
      PROVE  Normalized(v, r, values) = v
  <2>1. b = values[i]
    <3>1. r.min \in Nat /\ r.max \in Nat /\ values[i] \in r.min..r.max
      BY ListFacts
    <3> QED
      BY <1>6, <3>1 DEF Bounded
  <2>2. ClosestIndex(values[i], values) = i
    BY <1>2, <1>3, ListFacts, ClosestToItself
  <2> QED
    BY <1>5, <1>6, <2>1, <2>2
<1> QED
  BY <1>4, <1>5, <1>6, ListFacts DEF Members

LEMMA CapacityIndexOnList ==
    ASSUME NEW r, NEW values, ProperList(r, values), NEW v \in Int
    PROVE  /\ CapacityIndex(v, r, values) \in 1..Len(values)
           /\ v \in Members(values) => values[CapacityIndex(v, r, values)] = v
<1>1. PICK i \in 1..Len(values) : values[i] = Normalized(v, r, values)
  <2>1. Normalized(v, r, values) \in Members(values) /\ DOMAIN values = 1..Len(values)
    BY NormalizedOnList, ListFacts
  <2> QED
    BY <2>1 DEF Members
<1>2. \A j \in 1..(i - 1) : values[j] # values[i]
  BY ListFacts
<1>3. /\ CapacityIndex(v, r, values) \in DOMAIN values
      /\ values[CapacityIndex(v, r, values)] = Normalized(v, r, values)
  BY <1>1, <1>2, ListFacts DEF CapacityIndex
<1> QED
  BY <1>3, NormalizedOnList, ListFacts

-------------------------------------------------------------------------------
(* The cable: whatever it is dragged or moved to by keys, what is sent is a *)
(* capacity of the list, which is what the server accepts; and a cable that *)
(* is taken and put back where it was sends nothing.                        *)
(* (channelCableGeometry.ts:557-649, ChannelCable.tsx:308-323, 353-368)     *)
THEOREM CableSendsListed ==
    ASSUME NEW r, NEW values, ProperList(r, values), NEW shown \in Members(values),
           NEW maxLift \in Nat \ {0}
    PROVE  /\ \A up \in Int : DragSends(shown, up, r, values, maxLift) \subseteq Members(values)
           /\ \A key \in ChannelKeys : KeySends(key, shown, r, values) \subseteq Members(values)
           /\ DragSends(shown, 0, r, values, maxLift) = {}
<1> DEFINE n == Len(values)
           at == CapacityIndex(shown, r, values)
<1>1. /\ n \in Nat \ {0} /\ values # <<>> /\ DOMAIN values = 1..n
      /\ \A i \in 1..n : values[i] \in Members(values)
      /\ shown \in Int
  BY ListFacts DEF Members, ProperList
<1>2. at \in 1..n /\ values[at] = shown
  BY <1>1, CapacityIndexOnList
<1>3. Normalized(shown, r, values) = shown
  BY <1>1, NormalizedOnList
<1>4. ASSUME NEW up \in Int
      PROVE  DragResult(shown, up, r, values, maxLift) \in Members(values)
  <2>1. CASE n > 1
    <3> DEFINE moved == Round(up * (n - 1), maxLift)
    <3>1. moved \in Int
      BY <1>1 DEF Round
    <3> HIDE DEF moved
    <3>2. Bounded(at + moved, 1, n) \in 1..n
      BY <1>1, <1>2, <3>1 DEF Bounded
    <3> QED
      BY <1>1, <2>1, <3>2 DEF DragResult, moved
  <2>2. CASE ~(n > 1)
    BY <1>1, <1>3, <2>2 DEF DragResult
  <2> QED
    BY <2>1, <2>2
<1>5. DragResult(shown, 0, r, values, maxLift) = shown
  <2>1. CASE n > 1
    <3>1. Round(0 * (n - 1), maxLift) = 0
      <4>1. 0 * (n - 1) = 0 * maxLift
        BY <1>1
      <4> QED
        BY <4>1, RoundOfMultiple
    <3>2. Bounded(at + 0, 1, n) = at
      BY <1>1, <1>2, BoundedBetween
    <3> QED
      BY <1>1, <1>2, <2>1, <3>1, <3>2 DEF DragResult
  <2>2. CASE ~(n > 1)
    BY <1>1, <1>3, <2>2 DEF DragResult
  <2> QED
    BY <2>1, <2>2
<1>6. ASSUME NEW key \in ChannelKeys
      PROVE  KeyResult(key, shown, r, values) \in Members(values)
  <2>1. key \in {"Home", "End"} \/ KeySteps[key] \in Int
    BY DEF ChannelKeys, KeySteps
  <2>2. KeyIndex(key, at, n) \in 1..n
    BY <1>1, <1>2, <2>1 DEF KeyIndex, Bounded
  <2> QED
    BY <1>1, <2>2 DEF KeyResult
<1> QED
  BY <1>4, <1>5, <1>6 DEF DragSends, KeySends

(* A cable on a range: what is sent lies in the range on a step or is its   *)
(* upper end; and a cable put back where it was sends nothing.              *)
(* (channelCableGeometry.ts:557-649, ChannelCable.tsx:308-323, 353-368)     *)
THEOREM CableSendsFit ==
    ASSUME NEW r, ProperRange(r), NEW shown \in Int, Contains(r, shown), NEW maxLift \in Nat \ {0}
    PROVE  /\ \A up \in Int : \A v \in DragSends(shown, up, r, <<>>, maxLift) : Fits(r, v)
           /\ \A key \in ChannelKeys : \A v \in KeySends(key, shown, r, <<>>) : Fits(r, v)
           /\ DragSends(shown, 0, r, <<>>, maxLift) = {}
<1>1. /\ r.min \in Nat /\ r.max \in Nat /\ r.step \in Nat \ {0} /\ shown \in r.min..r.max
      /\ r.min <= r.max
  BY DEF ProperRange, Contains
<1>2. \A w \in Int : Fits(r, Stepped(w, r))
  BY SteppedRatioFits DEF Stepped
<1>3. Stepped(shown, r) = shown
  BY SteppedFixes
<1>4. Len(<<>>) = 0
  OBVIOUS
<1>5. ASSUME NEW up \in Int PROVE Fits(r, DragResult(shown, up, r, <<>>, maxLift))
  <2>1. CASE r.max <= r.min
    BY <1>2, <1>4, <2>1 DEF DragResult, Normalized
  <2>2. CASE ~(r.max <= r.min)
    <3>1. shown * maxLift + up * (r.max - r.min) \in Int
      BY <1>1
    <3> QED
      BY <1>4, <2>2, <3>1, SteppedRatioFits DEF DragResult
  <2> QED
    BY <2>1, <2>2
<1>6. DragResult(shown, 0, r, <<>>, maxLift) = shown
  <2>1. CASE r.max <= r.min
    BY <1>3, <1>4, <2>1 DEF DragResult, Normalized
  <2>2. CASE ~(r.max <= r.min)
    <3>1. DragResult(shown, 0, r, <<>>, maxLift) = SteppedRatio(shown * maxLift, maxLift, r)
      BY <1>1, <1>4, <2>2 DEF DragResult
    <3> QED
      BY <1>1, <3>1, RatioFixes
  <2> QED
    BY <2>1, <2>2
<1>7. ASSUME NEW key \in ChannelKeys PROVE Fits(r, KeyResult(key, shown, r, <<>>))
  <2>1. key \in {"Home", "End"} \/ KeySteps[key] \in Int
    BY DEF ChannelKeys, KeySteps
  <2>2. CASE key \in {"Home", "End"}
    BY <1>1, <1>2, <2>2 DEF KeyResult
  <2>3. CASE key \notin {"Home", "End"}
    <3>1. shown + KeySteps[key] * r.step \in Int
      BY <1>1, <2>1, <2>3
    <3> QED
      BY <1>2, <2>3, <3>1 DEF KeyResult
  <2> QED
    BY <2>2, <2>3
<1> QED
  BY <1>5, <1>6, <1>7 DEF DragSends, KeySends

(* The buttons of the batch size and of the workers send what fits.         *)
(* (PipelineBatchControl.tsx:39-46, WorkerActor.tsx:220-229)                *)
THEOREM ButtonsSendFitting ==
    ASSUME NEW r, ProperRange(r), NEW shown \in Int, Contains(r, shown), NEW d \in {-1, 1}
    PROVE  /\ \A v \in StepSends(shown, d, r) : Fits(r, v)
           /\ r.step = 1 => \A v \in WorkerSends(shown, d, r) : Contains(r, v)
<1>1. /\ r.min \in Nat /\ r.max \in Nat /\ r.step \in Nat \ {0} /\ shown \in r.min..r.max
      /\ r.min <= r.max /\ (shown - r.min) % r.step = 0
  BY DEF ProperRange, Contains
<1>2. PICK k \in Nat : shown - r.min = k * r.step
  BY <1>1, shown - r.min \in Nat, ExactQuotient
<1>3. shown + d * r.step = r.min + (k + d) * r.step
  BY <1>1, <1>2
<1>4. ASSUME shown + d * r.step >= r.min
      PROVE  (shown + d * r.step - r.min) % r.step = 0
  <2>1. k + d \in Nat
    BY <1>1, <1>2, <1>4
  <2>2. shown + d * r.step - r.min = (k + d) * r.step
    BY <1>1, <1>3
  <2> QED
    BY <1>1, <2>1, <2>2, MultipleRemainder
<1>5. (r.min - r.min) % r.step = 0
  BY <1>1
<1>6. Fits(r, Bounded(shown + d * r.step, r.min, r.max))
  BY <1>1, <1>4, <1>5 DEF Fits, Contains, Bounded
<1>7. r.step = 1 => Contains(r, Bounded(shown + d, r.min, r.max))
  BY <1>1 DEF Contains, Bounded
<1> QED
  BY <1>6, <1>7 DEF StepSends, WorkerSends

(* A larger fraction is never rounded to less. *)
LEMMA RoundMonotone ==
    ASSUME NEW m \in Nat, NEW n \in Nat, m <= n, NEW d \in Nat \ {0}
    PROVE  Round(m, d) <= Round(n, d)
<1> DEFINE p == (2 * m + d) \div (2 * d)
           q == (2 * n + d) \div (2 * d)
<1>1. /\ p \in Int /\ p * (2 * d) <= 2 * m + d
      /\ q \in Int /\ 2 * n + d < (q + 1) * (2 * d)
  OBVIOUS
<1> HIDE DEF p, q
<1>2. SUFFICES ASSUME q + 1 <= p PROVE FALSE
  BY <1>1 DEF Round, p, q
<1>3. (q + 1) * (2 * d) <= p * (2 * d)
  BY <1>1, <1>2, MultipleMonotone
<1> QED
  BY <1>1, <1>3

-------------------------------------------------------------------------------
(* Each position of the valve stands for a rate that fits the range, the     *)
(* lowest for the lower end; a higher position never stands for less.       *)
LEMMA TargetsFit ==
    ASSUME NEW r, ProperRange(r)
    PROVE  /\ \A i \in Positions : Fits(r, ValveTarget(r, i))
           /\ \A i, j \in Positions : i <= j => ValveTarget(r, i) <= ValveTarget(r, j)
<1>1. r.min \in Nat /\ r.max \in Nat /\ r.step \in Nat \ {0} /\ r.min <= r.max
  BY DEF ProperRange
<1> DEFINE span(i) == (r.max - r.min) * i
           k(i) == Round(span(i), 11 * r.step)
<1>2. \A i \in Positions : span(i) \in Nat
  BY <1>1 DEF Positions
<1>3. 11 * r.step \in Nat \ {0}
  BY <1>1
<1>4. \A i \in Positions : k(i) \in Nat
  BY <1>2, <1>3, RoundNat
<1>5. \A i, j \in Positions : i <= j => k(i) <= k(j)
  <2> SUFFICES ASSUME NEW i \in Positions, NEW j \in Positions, i <= j PROVE k(i) <= k(j)
    OBVIOUS
  <2>1. span(i) <= span(j)
    <3>1. i * (r.max - r.min) <= j * (r.max - r.min)
      BY <1>1, MultipleMonotone DEF Positions
    <3> QED
      BY <1>1, <3>1 DEF Positions
  <2> HIDE DEF span
  <2> QED
    BY <1>2, <1>3, <2>1, RoundMonotone
<1>6. \A i \in Positions : ValveTarget(r, i) = Bounded(r.min + k(i) * r.step, r.min, r.max)
  BY DEF ValveTarget
<1> HIDE DEF k
<1>7. \A i \in Positions : k(i) * r.step \in Nat /\ (k(i) * r.step) % r.step = 0
  BY <1>1, <1>4, MultipleRemainder
<1>8. ASSUME NEW i \in Positions PROVE Fits(r, ValveTarget(r, i))
  <2> DEFINE steps == k(i) * r.step
  <2>1. steps \in Nat /\ steps % r.step = 0 /\ ValveTarget(r, i) = Bounded(r.min + steps, r.min, r.max)
    BY <1>6, <1>7
  <2> HIDE DEF steps
  <2>2. r.min + steps - r.min = steps
    BY <1>1, <2>1
  <2> QED
    BY <1>1, <2>1, <2>2 DEF Fits, Contains, Bounded
<1>9. ASSUME NEW i \in Positions, NEW j \in Positions, i <= j
      PROVE  ValveTarget(r, i) <= ValveTarget(r, j)
  <2>1. k(i) * r.step <= k(j) * r.step
    BY <1>1, <1>4, <1>5, <1>9, MultipleMonotone
  <2> DEFINE a == k(i) * r.step
             b == k(j) * r.step
  <2>2. a \in Nat /\ b \in Nat /\ a <= b
    BY <1>7, <2>1
  <2>3. /\ ValveTarget(r, i) = Bounded(r.min + a, r.min, r.max)
        /\ ValveTarget(r, j) = Bounded(r.min + b, r.min, r.max)
    BY <1>6
  <2> HIDE DEF a, b
  <2> QED
    BY <1>1, <2>2, <2>3 DEF Bounded
<1> QED
  BY <1>8, <1>9

(* The valve: every rate it asks for fits its range, which is a step the    *)
(* server accepts whenever the upper end is a step; when the rate it asked  *)
(* for is in force it shows the position it was turned to; and turning it   *)
(* up asks for more.  (throttlerValve.ts:95-149, ThrottlerActor.tsx:184-203) *)
THEOREM ValveShowsWhatItAsks ==
    ASSUME NEW r, ProperRange(r), HasValve(r), NEW i \in Positions
    PROVE  /\ \A d \in Int : \A v \in TurnSends(i, d, r) :
                  /\ Fits(r, v) /\ (Aligned(r) => Contains(r, v))
                  /\ OpeningIndex(v, r) = TurnedTo(i, d)
                  /\ IF d > 0 THEN v > ValveTarget(r, i) ELSE v < ValveTarget(r, i)
           /\ OpeningIndex(ValveTarget(r, i), r) = i
<1>1. r.min \in Nat /\ r.max \in Nat /\ r.step \in Nat \ {0} /\ r.min <= r.max
  BY DEF ProperRange
<1>2. \A j \in Positions : ValveTarget(r, j) \in r.min..r.max /\ Fits(r, ValveTarget(r, j))
  BY TargetsFit DEF Fits
<1>3. \A j \in Positions : ValveTarget(r, j) \in Int /\ ValveTarget(r, j) # None
  BY <1>1, <1>2 DEF None
<1>4. /\ ValveTargets(r) \in [Positions -> Int]
      /\ \A j \in Positions : ValveTargets(r)[j] = ValveTarget(r, j)
  BY <1>3 DEF ValveTargets
<1>5. \A j, l \in Positions : l # j => ValveTarget(r, l) # ValveTarget(r, j)
  BY DEF HasValve
<1>6. ASSUME NEW j \in Positions PROVE OpeningIndex(ValveTarget(r, j), r) = j
  <2>1. Positions \in SUBSET Nat
    BY DEF Positions
  <2>2. ClosestIndex(ValveTargets(r)[j], ValveTargets(r)) = j
    BY <1>4, <1>5, <2>1, ClosestToItself
  <2> QED
    BY <1>3, <1>4, <2>2 DEF OpeningIndex
<1>7. ASSUME NEW d \in Int, NEW v \in TurnSends(i, d, r)
      PROVE  /\ Fits(r, v) /\ (Aligned(r) => Contains(r, v))
             /\ OpeningIndex(v, r) = TurnedTo(i, d)
             /\ IF d > 0 THEN v > ValveTarget(r, i) ELSE v < ValveTarget(r, i)
  <2> DEFINE j == TurnedTo(i, d)
  <2>1. j # i /\ v = ValveTarget(r, j)
    BY <1>7 DEF TurnSends
  <2>2. j \in Positions /\ (IF d > 0 THEN i <= j ELSE j <= i)
    BY <2>1 DEF TurnedTo, Bounded, Positions
  <2> HIDE DEF j
  <2>3. Fits(r, v)
    BY <1>2, <2>1, <2>2
  <2>4. Aligned(r) => Contains(r, v)
    BY <1>1, <2>3 DEF Aligned, Fits, Contains
  <2>5. OpeningIndex(v, r) = j
    BY <1>6, <2>1, <2>2
  <2>6. IF d > 0 THEN v > ValveTarget(r, i) ELSE v < ValveTarget(r, i)
    BY <1>3, <1>5, <2>1, <2>2, TargetsFit
  <2> QED
    BY <2>3, <2>4, <2>5, <2>6 DEF j
<1> QED
  BY <1>6, <1>7

(* The wheel of the valve has six phases, and stands where the whole turn   *)
(* puts it whether it was turned at once or in parts.                       *)
(* (throttlerValve.ts:166-169, ThrottlerActor.tsx:120-148)                  *)
THEOREM WheelTurnsAlike ==
    ASSUME NEW phase \in 0..5, NEW a \in Int, NEW b \in Int
    PROVE  /\ NextWheelPhase(phase, a) \in 0..5
           /\ NextWheelPhase(NextWheelPhase(phase, a), b) = NextWheelPhase(phase, a + b)
<1>1. \A p \in 0..5, d \in Int : NextWheelPhase(p, d) = (p + d) % 6
  BY DEF NextWheelPhase, Remainder
<1>2. (phase + a) % 6 \in 0..5
  OBVIOUS
<1>3. (((phase + a) % 6) + b) % 6 = (phase + (a + b)) % 6
  OBVIOUS
<1> QED
  BY <1>1, <1>2, <1>3

-------------------------------------------------------------------------------
(* Once a capacity is in force and nothing is asked for, the handle shows   *)
(* it and says nothing; while the simulation keeps a change waiting, the    *)
(* handle shows the change as pending and the old value as the one in       *)
(* force.  (channelCableGeometry.ts:485-513)                                *)
THEOREM HandleShowsTheControl ==
    ASSUME NEW c, NEW values, NEW v, OnScale(v, c, values),
           OnScale(c.applied, c, values), c.preview = None
    PROVE  /\ c.pending = None =>
                  /\ Presentation(c, None, values).candidate = c.applied
                  /\ Presentation(c, None, values).state = "none"
           /\ c.pending = v /\ v # c.applied =>
                  Presentation(c, None, values)
                      = [applied |-> c.applied, candidate |-> v, state |-> "pending"]
<1>1. ASSUME NEW x, OnScale(x, c, values)
      PROVE  x \in Nat /\ x # None /\ Normalized(x, c, values) = x
  <2>1. CASE values = <<>>
    <3>1. ProperRange(c) /\ x \in Nat /\ Contains(c, x)
      BY <1>1, <2>1 DEF OnScale
    <3> QED
      BY <2>1, <3>1, SteppedFixes DEF Normalized, None
  <2>2. CASE values # <<>>
    <3>1. ProperList(c, values) /\ x \in Members(values)
      BY <1>1, <2>2 DEF OnScale
    <3>2. x \in Nat
      BY <3>1, ListFacts DEF Members
    <3> QED
      BY <3>1, <3>2, NormalizedOnList DEF None
  <2> QED
    BY <2>1, <2>2
<1>3. FirstSet(<<c.applied, c.min>>) = c.applied
  BY <1>1 DEF FirstSet
<1>4. c.pending = None => FirstSet(<<None, c.preview, c.pending, c.applied>>) = c.applied
  BY <1>1 DEF FirstSet
<1>5. c.pending = v => FirstSet(<<None, c.preview, c.pending, c.applied>>) = v
  BY <1>1 DEF FirstSet
<1> QED
  BY <1>1, <1>3, <1>4, <1>5 DEF Presentation

-------------------------------------------------------------------------------
(* What is rounded comes out at most half a unit away, and no multiple is   *)
(* nearer.                                                                  *)
LEMMA RoundIs ==
    ASSUME NEW n \in Int, NEW d \in Nat \ {0}, NEW k \in Int,
           2 * (k * d) <= 2 * n + d, 2 * n < 2 * (k * d) + d
    PROVE  Round(n, d) = k
<1> DEFINE q == (2 * n + d) \div (2 * d)
<1>1. /\ q \in Int /\ k * d \in Int
      /\ q * (2 * d) <= 2 * n + d
      /\ 2 * n + d < (q + 1) * (2 * d)
  OBVIOUS
<1>2. /\ k * (2 * d) = 2 * (k * d) /\ (k + 1) * (2 * d) = 2 * (k * d) + 2 * d
  OBVIOUS
<1> HIDE DEF q
<1>3. q <= k
  <2> SUFFICES ASSUME k + 1 <= q PROVE FALSE
    BY <1>1
  <2>1. (k + 1) * (2 * d) <= q * (2 * d)
    BY <1>1, MultipleMonotone
  <2> QED
    BY <1>1, <1>2, <2>1
<1>4. q >= k
  <2> SUFFICES ASSUME q + 1 <= k PROVE FALSE
    BY <1>1
  <2>1. (q + 1) * (2 * d) <= k * (2 * d)
    BY <1>1, MultipleMonotone
  <2> QED
    BY <1>1, <1>2, <2>1
<1> QED
  BY <1>1, <1>3, <1>4 DEF Round, q

LEMMA RoundIsNearest ==
    ASSUME NEW n \in Nat, NEW d \in Nat \ {0}, NEW j \in Int
    PROVE  Distance(n, Round(n, d) * d) <= Distance(n, j * d)
<1> DEFINE k == Round(n, d)
           kd == k * d
           jd == j * d
<1>1. /\ k \in Int /\ kd \in Int /\ jd \in Int
      /\ 2 * kd <= 2 * n + d /\ 2 * n < 2 * kd + d
  <2> DEFINE q == (2 * n + d) \div (2 * d)
  <2>1. /\ q \in Int /\ q * (2 * d) <= 2 * n + d /\ 2 * n + d < (q + 1) * (2 * d)
    OBVIOUS
  <2>2. k = q
    BY DEF Round
  <2> HIDE DEF k, q
  <2>3. q * (2 * d) = 2 * (q * d) /\ (q + 1) * (2 * d) = 2 * (q * d) + 2 * d /\ q * d \in Int
    BY <2>1
  <2> QED
    BY <2>1, <2>2, <2>3
<1> HIDE DEF k
<1>2. jd = kd \/ jd >= kd + d \/ jd <= kd - d
  <2>1. CASE j = k
    BY <2>1
  <2>2. CASE j >= k + 1
    <3>1. (k + 1) * d <= j * d /\ (k + 1) * d = k * d + d
      BY <1>1, <2>2, MultipleMonotone
    <3> QED
      BY <3>1
  <2>3. CASE j + 1 <= k
    <3>1. (j + 1) * d <= k * d /\ (j + 1) * d = j * d + d
      BY <1>1, <2>3, MultipleMonotone
    <3>2. jd + d <= kd
      BY <3>1
    <3> HIDE DEF jd, kd
    <3> QED
      BY <1>1, <3>2
  <2> QED
    BY <1>1, <2>1, <2>2, <2>3
<1> HIDE DEF kd, jd
<1>3. Distance(n, kd) <= Distance(n, jd)
  BY <1>1, <1>2 DEF Distance
<1> QED
  BY <1>3 DEF kd, jd, k

(* A control takes the value nearest to the one that was asked for: on a    *)
(* range no step is nearer, on a list no value of it.                       *)
(* (channelCableGeometry.ts:447-476, normalizeCapacity)                     *)
THEOREM NearestIsTaken ==
    ASSUME NEW r, NEW values, NEW v \in Int
    PROVE  LET asked == Bounded(v, r.min, r.max)
               taken == Normalized(v, r, values)
           IN  /\ values = <<>> /\ ProperRange(r) =>
                      \A w \in Int : Contains(r, w) => Distance(asked, taken) <= Distance(asked, w)
               /\ ProperList(r, values) =>
                      \A w \in Members(values) : Distance(asked, taken) <= Distance(asked, w)
<1> DEFINE asked == Bounded(v, r.min, r.max)
           taken == Normalized(v, r, values)
<1>1. ASSUME values = <<>>, ProperRange(r), NEW w \in Int, Contains(r, w)
      PROVE  Distance(asked, taken) <= Distance(asked, w)
  <2> DEFINE over == asked - r.min
             k == Round(over, r.step)
             q == r.min + k * r.step
  <2>1. /\ r.min \in Nat /\ r.max \in Nat /\ r.step \in Nat \ {0} /\ r.min <= r.max
        /\ w \in r.min..r.max /\ (w - r.min) % r.step = 0
    BY <1>1 DEF ProperRange, Contains
  <2>2. asked \in r.min..r.max /\ over \in Nat
    <3>1. r.min \in Int /\ r.max \in Int /\ r.min <= r.max
      BY <2>1
    <3>2. Bounded(v, r.min, r.max) \in r.min..r.max
      BY <3>1, BoundedBetween
    <3> QED
      BY <2>1, <3>2
  <2>3. PICK j \in Nat : w - r.min = j * r.step
    BY <2>1, w - r.min \in Nat, ExactQuotient
  <2>4. k \in Nat /\ k * r.step \in Nat
    <3>1. k \in Nat
      BY <2>1, <2>2, RoundNat
    <3> HIDE DEF k
    <3> QED
      BY <2>1, <3>1
  <2>5. Distance(over, k * r.step) <= Distance(over, w - r.min)
    BY <2>1, <2>2, <2>3, RoundIsNearest
  <2>6. taken = Bounded(q, r.min, r.max)
    <3>1. /\ 1 * r.min = r.min /\ 1 * r.max = r.max /\ 1 * r.step = r.step
          /\ StepOf(r) = r.step
      BY <2>1 DEF StepOf
    <3>2. taken = SteppedRatio(v, 1, r)
      BY <1>1 DEF Normalized, Stepped
    <3> QED
      BY <3>1, <3>2 DEF SteppedRatio
  <2>7. q \in Int /\ Distance(asked, q) <= Distance(asked, w)
    <3> DEFINE ks == k * r.step
    <3>1. ks \in Nat /\ Distance(over, ks) <= Distance(over, w - r.min) /\ q = r.min + ks
      BY <2>4, <2>5
    <3> HIDE DEF ks, k, q, asked
    <3> QED
      BY <2>1, <2>2, <3>1 DEF Distance
  <2> HIDE DEF asked, q, taken
  <2> QED
    BY <2>1, <2>2, <2>6, <2>7 DEF Distance, Bounded
<1>2. ASSUME ProperList(r, values), NEW w \in Members(values)
      PROVE  Distance(asked, taken) <= Distance(asked, w)
  <2>1. /\ DOMAIN values = 1..Len(values) /\ values \in [1..Len(values) -> Int]
        /\ 1..Len(values) \in SUBSET Nat /\ 1..Len(values) # {}
        /\ r.min \in Nat /\ r.max \in Nat /\ values # <<>>
    BY <1>2, ListFacts DEF ProperList
  <2>2. asked \in Int
    BY <2>1 DEF Bounded
  <2>3. taken = values[ClosestIndex(asked, values)]
    BY <2>1 DEF Normalized
  <2>4. PICK i \in 1..Len(values) : w = values[i]
    BY <1>2, <2>1 DEF Members
  <2> HIDE DEF asked, taken
  <2>5. Distance(asked, values[ClosestIndex(asked, values)]) <= Distance(asked, values[i])
    BY <2>1, <2>2, ClosestExists
  <2> QED
    BY <2>3, <2>4, <2>5
<1> QED
  BY <1>1, <1>2

(* The cable follows the hand: a handle that shows one capacity of a list   *)
(* and is moved up by the way to the place of another, or by less than half *)
(* the way between two places more or less, takes that other one, wherever  *)
(* the two are.  (channelCableGeometry.ts:515-533, 557-583)                  *)
THEOREM CableFollowsTheHand ==
    ASSUME NEW r, NEW values, ProperList(r, values), Len(values) > 1,
           NEW maxLift \in Nat \ {0}, NEW up \in Int,
           NEW i \in DOMAIN values, NEW j \in DOMAIN values,
           LET from == CableLift(values[i], r, values, maxLift)
               to == CableLift(values[j], r, values, maxLift)
               off == up * to.den - (to.num - from.num)
           IN  -maxLift <= 2 * off /\ 2 * off < maxLift
    PROVE  DragResult(values[i], up, r, values, maxLift) = values[j]
<1> DEFINE n == Len(values)
<1>1. /\ n \in Nat \ {0} /\ DOMAIN values = 1..n /\ values # <<>>
      /\ \A a, b \in 1..n : a # b => values[a] # values[b]
      /\ \A a \in 1..n : values[a] \in Int /\ values[a] \in Members(values)
  BY ListFacts DEF Members, ProperList
<1>2. ASSUME NEW a \in 1..n
      PROVE  CapacityIndex(values[a], r, values) = a
  <2>1. /\ CapacityIndex(values[a], r, values) \in 1..n
        /\ values[CapacityIndex(values[a], r, values)] = values[a]
    BY <1>1, <1>2, CapacityIndexOnList
  <2> QED
    BY <1>1, <1>2, <2>1
<1>3. ASSUME NEW a \in 1..n
      PROVE  /\ CableLift(values[a], r, values, maxLift).num = (a - 1) * maxLift
             /\ CableLift(values[a], r, values, maxLift).den = n - 1
  BY <1>2, <1>3 DEF CableLift
<1> DEFINE moved == up * (n - 1)
           way == (j - i) * maxLift
<1>4. moved \in Int /\ way \in Int /\ i \in 1..n /\ j \in 1..n
  BY <1>1
<1>5. (j - 1) * maxLift - (i - 1) * maxLift = way
  BY <1>1
<1>6. -maxLift <= 2 * (moved - way) /\ 2 * (moved - way) < maxLift
  BY <1>3, <1>4, <1>5
<1> HIDE DEF moved
<1>7. Round(moved, maxLift) = j - i
  <2>1. 2 * way <= 2 * moved + maxLift /\ 2 * moved < 2 * way + maxLift
    <3> HIDE DEF way
    <3> QED
      BY <1>4, <1>6
  <2>2. j - i \in Int
    BY <1>4
  <2> QED
    BY <1>4, <2>1, <2>2, RoundIs
<1>8. DragResult(values[i], up, r, values, maxLift)
          = values[Bounded(i + Round(moved, maxLift), 1, n)]
  BY <1>2, <1>4 DEF DragResult, moved
<1>9. Bounded(i + (j - i), 1, n) = j
  BY <1>1, <1>4 DEF Bounded
<1> QED
  BY <1>7, <1>8, <1>9

(* Every mark on the scale of a range, long or short, stands at a value the *)
(* control can take, and the long ones are marks.                           *)
(* (channelCableGeometry.ts:806-843)                                        *)
THEOREM TicksFit ==
    ASSUME NEW r, ProperRange(r)
    PROVE  /\ \A v \in Ticks(r, <<>>) : Fits(r, v)
           /\ MajorTicks(r, <<>>) \subseteq Ticks(r, <<>>)
<1>1. /\ r.min \in Nat /\ r.max \in Nat /\ r.step \in Nat \ {0} /\ r.min <= r.max
      /\ StepOf(r) = r.step
  BY DEF ProperRange, StepOf
<1>2. ASSUME NEW i \in Nat PROVE Fits(r, TickAt(r, i))
  <2>1. r.min + i * r.step \in Int
    BY <1>1
  <2> QED
    BY <1>1, <2>1, SteppedRatioFits DEF TickAt, Stepped
<1>3. Fits(r, r.min) /\ Fits(r, r.max)
  BY <1>1 DEF Fits, Contains
<1>4. TickCount(r) \in Nat /\ TickCount(r) >= 1
  <2>1. Round(r.max - r.min, r.step) \in Nat
    BY <1>1, RoundNat
  <2> QED
    BY <1>1, <2>1 DEF TickCount
<1>5. Fits(r, MiddleTick(r))
  BY <1>2, <1>4, RoundNat DEF MiddleTick
<1>6. \A i \in 1..(TickCount(r) - 1) : Fits(r, TickAt(r, i))
  BY <1>2, <1>4
<1> QED
  BY <1>3, <1>5, <1>6 DEF Ticks, MajorTicks

===============================================================================
