----------------------------- MODULE SnapshotWire -----------------------------
(***************************************************************************)
(* The contract of the status on the wire: what the server lets into its   *)
(* configuration, its settings and its status, and what the browser's      *)
(* decoder demands before it believes any of it.  One field the decoder    *)
(* refuses makes it refuse the whole status, and the adapter disconnects.  *)
(* (src/frontend/src/adapters/HttpAdapter.ts; server: config.go,           *)
(* http_commands.go, control_state.go, sender_pool.go, reader_pool.go)     *)
(*                                                                         *)
(* There is no state here.  A range is [initial, min, max, step], a list   *)
(* of values [initial, allowed].  Units, mutabilities and key sets are the *)
(* same constants on both sides and are left out.                          *)
(***************************************************************************)
EXTENDS Integers, Sequences, FiniteSets

MaxSafe == 8388608 * 1073741824 - 1     \* Number.MAX_SAFE_INTEGER, 2^53 - 1

Ranges == [initial : Int, min : Int, max : Int, step : Int]
Lists == [initial : Int, allowed : Seq(Int)]
Flags == [initial : BOOLEAN, allowed : Seq(BOOLEAN)]
Levels == {"debug", "info", "warn", "error"}
Configs ==
    [readBatchSize : Ranges, readerWorkers : Ranges, metricsWindow : Ranges,
     readerCapacity : Lists, senderCapacity : Lists, requestedTps : Ranges,
     installed : Flags, senderWorkers : Ranges, level : STRING]

RunStates == {"idle", "running", "paused", "faulted"}
NoPipeline == {"idle", "faulted"}

Members(seq) == {seq[i] : i \in DOMAIN seq}
Increasing(seq) == \A i \in 2..Len(seq) : seq[i - 1] < seq[i]

-------------------------------------------------------------------------------
(* The server.  Contains is the test of the configured initial value and of *)
(* every value a command brings.                                            *)

Contains(r, v) == v >= r.min /\ v <= r.max /\ (v - r.min) % r.step = 0

Exactly(r, initial, min, max, step) ==
    r.initial = initial /\ r.min = min /\ r.max = max /\ r.step = step

ValidBatchSize(r) == r.min > 0 /\ r.max >= r.min /\ r.step > 0 /\ Contains(r, r.initial)

ValidMetricsWindow(r) ==
    /\ r.min >= 100 /\ r.max <= 10000 /\ r.max >= r.min /\ r.step > 0
    /\ Contains(r, r.initial)

ValidRequestedTps(r) == r.min >= 0 /\ r.max > r.min /\ r.step > 0 /\ Contains(r, r.initial)

ValidList(l) ==
    /\ Len(l.allowed) > 0 /\ Increasing(l.allowed)
    /\ \A i \in DOMAIN l.allowed : l.allowed[i] >= 0
    /\ l.initial \in Members(l.allowed)

ValidFlag(f) == Len(f.allowed) = 2 /\ {TRUE, FALSE} \subseteq Members(f.allowed)

ValidConfig(c) ==
    /\ c \in Configs
    /\ ValidBatchSize(c.readBatchSize)
    /\ Exactly(c.readerWorkers, 1, 1, 7, 1)
    /\ ValidList(c.readerCapacity) /\ ValidList(c.senderCapacity)
    /\ ValidRequestedTps(c.requestedTps)
    /\ ValidFlag(c.installed)
    /\ Exactly(c.senderWorkers, 32, 1, 32, 1)
    /\ ValidMetricsWindow(c.metricsWindow)
    /\ c.level \in Levels

\* aggregateSnapshot of either pool: its workers, what each is doing ("held"
\* is blocked on the channel for a reader, in backoff for a sender), and the
\* ones that drain.
Doing(workers, does, what) == {w \in workers : does[w] = what}

Counted(workers, does, draining) ==
    [live |-> Cardinality(workers),
     idle |-> Cardinality(Doing(workers, does, "idle")),
     busy |-> Cardinality(Doing(workers, does, "busy")),
     held |-> Cardinality(Doing(workers, does, "held")),
     draining |-> Cardinality(draining),
     drainingIdle |-> Cardinality(Doing(draining, does, "idle")),
     drainingBusy |-> Cardinality(Doing(draining, does, "busy")),
     drainingHeld |-> Cardinality(Doing(draining, does, "held"))]

\* Without a pipeline there is no pool.
PoolStatus(run, p) ==
    \E workers, draining, does :
        /\ IsFiniteSet(workers) /\ draining \subseteq workers
        /\ does \in [workers -> {"idle", "busy", "held"}]
        /\ run \in NoPipeline => workers = {}
        /\ p = Counted(workers, does, draining)

\* runtimeStatusAt, with the values of the settings the loop has accepted.
\* `figures` are its totals, times and depths.
ServerStatus(c, s) ==
    /\ s.run \in RunStates
    /\ s.figures \subseteq Nat
    /\ Contains(c.readerWorkers, s.readerWorkers) /\ s.readerWorkers \in Int
    /\ Contains(c.readBatchSize, s.readBatchSize) /\ s.readBatchSize \in Int
    /\ Contains(c.requestedTps, s.requestedTps) /\ s.requestedTps \in Int
    /\ Contains(c.senderWorkers, s.senderWorkers) /\ s.senderWorkers \in Int
    /\ s.installed \in BOOLEAN
    /\ s.readerCapacity \in Members(c.readerCapacity.allowed)
    /\ s.senderCapacity \in Members(c.senderCapacity.allowed)
    /\ PoolStatus(s.run, s.readerPool) /\ PoolStatus(s.run, s.senderPool)

-------------------------------------------------------------------------------
(* The decoder. *)

IsWireInteger(v) == v \in Nat /\ v <= MaxSafe
IsRangeValue(v, r) == IsWireInteger(v) /\ Contains(r, v)
IsWireRange(r) ==
    IsWireInteger(r.initial) /\ IsWireInteger(r.min) /\ IsWireInteger(r.max)
    /\ IsWireInteger(r.step)

DecodesPositiveRange(r) ==
    IsWireRange(r) /\ r.min > 0 /\ r.max >= r.min /\ r.step > 0 /\ IsRangeValue(r.initial, r)

DecodesMetricsWindow(r) ==
    /\ IsWireRange(r) /\ r.min >= 100 /\ r.max <= 10000 /\ r.max >= r.min /\ r.step > 0
    /\ IsRangeValue(r.initial, r)

DecodesRequestedTps(r) ==
    IsWireRange(r) /\ r.max > r.min /\ r.step > 0 /\ IsRangeValue(r.initial, r)

DecodesList(l) ==
    /\ l.allowed # <<>> /\ Increasing(l.allowed)
    /\ \A i \in DOMAIN l.allowed : IsWireInteger(l.allowed[i])
    /\ IsWireInteger(l.initial) /\ l.initial \in Members(l.allowed)

DecodesFlag(f) ==
    /\ Len(f.allowed) = 2 /\ Members(f.allowed) = BOOLEAN
    /\ f.initial \in Members(f.allowed)

DecodesLevel(level) == level \in Levels

DecodesConfig(c) ==
    /\ DecodesPositiveRange(c.readBatchSize)
    /\ DecodesPositiveRange(c.readerWorkers)
    /\ DecodesMetricsWindow(c.metricsWindow)
    /\ DecodesList(c.readerCapacity) /\ DecodesList(c.senderCapacity)
    /\ DecodesRequestedTps(c.requestedTps)
    /\ DecodesFlag(c.installed)
    /\ Exactly(c.senderWorkers, 32, 1, 32, 1)
    /\ DecodesLevel(c.level)

PoolFields ==
    {"live", "idle", "busy", "held", "draining", "drainingIdle", "drainingBusy",
     "drainingHeld"}

\* The worker counts of a reader or a sender section have to add up.
DecodesPool(run, p) ==
    /\ \A f \in PoolFields : IsWireInteger(p[f])
    /\ p.live = p.idle + p.busy + p.held
    /\ p.draining = p.drainingIdle + p.drainingBusy + p.drainingHeld
    /\ p.drainingIdle <= p.idle /\ p.drainingBusy <= p.busy /\ p.drainingHeld <= p.held
    /\ run \in NoPipeline => p.live = 0 /\ p.draining = 0

DecodesCapacity(v, l) == IsWireInteger(v) /\ v \in Members(l.allowed)

\* decodeWireSnapshot
Decodes(c, s) ==
    /\ DecodesConfig(c)
    /\ s.run \in RunStates
    /\ \A n \in s.figures : IsWireInteger(n)
    /\ IsRangeValue(s.readerWorkers, c.readerWorkers)
    /\ IsRangeValue(s.readBatchSize, c.readBatchSize)
    /\ IsRangeValue(s.requestedTps, c.requestedTps)
    /\ IsRangeValue(s.senderWorkers, c.senderWorkers)
    /\ s.installed \in Members(c.installed.allowed)
    /\ DecodesPool(s.run, s.readerPool) /\ DecodesPool(s.run, s.senderPool)
    /\ DecodesCapacity(s.readerCapacity, c.readerCapacity)
    /\ DecodesCapacity(s.senderCapacity, c.senderCapacity)

-------------------------------------------------------------------------------
\* The numbers a browser can hold exactly: what the theorems take from a
\* configuration and a status beyond what the server makes sure of.
SafeConfig(c) ==
    /\ c.readBatchSize.max <= MaxSafe /\ c.readBatchSize.step <= MaxSafe
    /\ c.requestedTps.max <= MaxSafe /\ c.requestedTps.step <= MaxSafe
    /\ c.metricsWindow.step <= MaxSafe
    /\ \A l \in {c.readerCapacity, c.senderCapacity} :
           \A i \in DOMAIN l.allowed : l.allowed[i] <= MaxSafe

SafeStatus(s) ==
    /\ \A n \in s.figures : n <= MaxSafe
    /\ s.readerPool.live <= MaxSafe /\ s.senderPool.live <= MaxSafe
===============================================================================
