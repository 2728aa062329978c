-------------------------- MODULE PipelineSimulation --------------------------
(***************************************************************************)
(* The simulation behind the laboratory when no server is used: a fixed-   *)
(* step pipeline of readers, a throttler and sender workers joined by two  *)
(* channels, and the adapter that steps it and takes the user's commands.  *)
(* (src/frontend/src/model/simulation.ts, adapters/SimulationAdapter.ts)   *)
(*                                                                         *)
(* A step of the simulation is one call and commands come between steps.   *)
(* Its stages are actions here, in the order of the call; `stage` is       *)
(* "rest" between steps.  The loops that move batches are greedy: first    *)
(* idle workers are fed, then the batch in the throttler's hand goes on,   *)
(* then the next batch is taken or produced.  Times are counted in steps   *)
(* still to go; latencies, backoffs and outcomes are any the outcome       *)
(* source may give.  A batch is its sequence number and weighs `Cost`      *)
(* units of reader credit and throttler tokens.                            *)
(***************************************************************************)
EXTENDS Integers, Sequences, FiniteSets

CONSTANTS
    Cost,               \* units of a batch
    ReaderRate,         \* units a reader earns in a step
    Rates,              \* requested throttler rates, in units a step
    ReaderCounts, SenderCounts, Capacities,     \* values of the other settings
    MaxAttempts,        \* RETRY_MAX_ATTEMPTS, which is 3
    MaxDelay,           \* bound: steps an attempt or a backoff takes
    MaxBatches          \* bound: batches produced in a run

ASSUME CostAssumption == Cost \in Nat \ {0} /\ ReaderRate \in Nat
ASSUME SettingsAssumption ==
    /\ Rates \subseteq Nat /\ Capacities \subseteq Nat
    /\ ReaderCounts \subseteq Nat \ {0} /\ SenderCounts \subseteq Nat \ {0}
ASSUME BoundsAssumption ==
    {MaxAttempts, MaxDelay} \subseteq Nat \ {0} /\ MaxBatches \in Nat

None == -1
Channels == {"reader", "sender"}

VARIABLES
    run,        \* AdapterState.runState
    stage,      \* "rest", "retry", "receive", "produce"
    config,     \* [readers, senders, rate, installed]
    items,      \* what each channel holds
    capacity,   \* of each channel: [applied, pending]
    hand,       \* pendingThrottledBatch, or None
    workers,    \* the sender workers, in order
    next,       \* nextWorkerIndex, from 1
    credit,     \* readerTransactionCredit
    tokens,     \* throttlerTokens
    sequence,   \* nextBatchSequence
    traffic,    \* of each channel: batches [sent, received]
    started, retried, succeeded, failed,    \* totals of attempts
    terminal    \* batches given up

flowVars == <<items, capacity, hand, traffic>>
countVars == <<started, retried, succeeded, failed, terminal>>
vars == <<run, stage, config, flowVars, workers, next, credit, tokens, sequence, countVars>>

-------------------------------------------------------------------------------
(* StatefulChannel *)

Depth(ch) == Len(items[ch])

\* requestCapacity: a capacity below the depth waits.
Requested(ch, c) ==
    IF c >= Depth(ch) THEN [applied |-> c, pending |-> None]
    ELSE [capacity[ch] EXCEPT !.pending = c]

Accepts(ch) == capacity[ch].applied # 0 /\ Depth(ch) < capacity[ch].applied

RecordInput(totals, ch) == [totals EXCEPT ![ch].sent = @ + 1]
RecordOutput(totals, ch) == [totals EXCEPT ![ch].received = @ + 1]

\* applyPendingCapacity in a channel that holds `depth` batches
PendingApplied(c, depth) ==
    IF c.pending # None /\ depth <= c.pending
    THEN [applied |-> c.pending, pending |-> None] ELSE c

\* send, and handoff, which is a batch sent and received at once.
Sent(ch, item) ==
    /\ items' = [items EXCEPT ![ch] = Append(@, item)]
    /\ traffic' = RecordInput(traffic, ch)

HandedOver(ch) ==
    /\ traffic' = RecordOutput(RecordInput(traffic, ch), ch)
    /\ UNCHANGED items

\* receive: the head leaves, and a waiting capacity is applied once it fits.
Shift(ch) ==
    /\ traffic' = RecordOutput(traffic, ch)
    /\ items' = [items EXCEPT ![ch] = Tail(@)]
    /\ capacity' = [capacity EXCEPT ![ch] = PendingApplied(@, Depth(ch) - 1)]

\* resetRuntime: the channel is empty and a waiting capacity is in force.
ResetRuntime ==
    /\ items' = [ch \in Channels |-> <<>>]
    /\ capacity' = [ch \in Channels |-> PendingApplied(capacity[ch], 0)]
    /\ traffic' = [ch \in Channels |-> [sent |-> 0, received |-> 0]]

-------------------------------------------------------------------------------
(* Sender workers *)

IdleWorker == [state |-> "idle", batch |-> None, attempt |-> 0, due |-> 0, retiring |-> FALSE]

Idle(w) == workers[w].state = "idle"
Busy == {w \in DOMAIN workers : ~Idle(w)}
Retiring == {w \in DOMAIN workers : workers[w].retiring}
Free == {w \in DOMAIN workers : Idle(w) /\ ~workers[w].retiring}

\* nextIdleWorker: the first free one from nextWorkerIndex on, around.
Turn(w) == IF w >= next THEN w - next ELSE w - next + Len(workers)
NextFree == CHOOSE w \in Free : \A other \in Free : Turn(w) <= Turn(other)
NextIndex(w) == (w % Len(workers)) + 1

\* Mutant: the last workers leave when one of them rests.
StaffHasty(ws, index) ==
    LET retiring == {w \in DOMAIN ws : ws[w].retiring}
        kept == SubSeq(ws, 1, Len(ws) - Cardinality(retiring))
    IN  IF retiring = {} \/ \A w \in retiring : ws[w].state # "idle"
        THEN <<ws, index>>
        ELSE <<kept, ((index - 1) % Len(kept)) + 1>>

\* Mutant: retiring workers never leave.
StaffForever(ws, index) == <<ws, index>>

\* finalizeSenderScaleDown: retiring workers leave together, when all rest.
Staff(ws, index) ==
    LET retiring == {w \in DOMAIN ws : ws[w].retiring}
        kept == SubSeq(ws, 1, Len(ws) - Cardinality(retiring))
    IN  IF retiring = {} \/ \E w \in retiring : ws[w].state # "idle"
        THEN <<ws, index>>
        ELSE <<kept, ((index - 1) % Len(kept)) + 1>>

\* requestSenderWorkerCount: the last workers retire, earlier plans are off.
Planned(n) ==
    LET size == IF n > Len(workers) THEN n ELSE Len(workers)
    IN  [w \in 1..size |->
            IF w > Len(workers) THEN IdleWorker
            ELSE [workers[w] EXCEPT !.retiring = w > n]]

\* drainSenderChannel and flushThrottledBatch: a first attempt.
Hire(batch) ==
    \E delay \in 1..MaxDelay :
        /\ workers' = [workers EXCEPT ![NextFree] =
                           [@ EXCEPT !.state = "in-flight", !.batch = batch,
                                     !.attempt = 1, !.due = delay]]
        /\ next' = NextIndex(NextFree)
        /\ started' = started + 1
        /\ UNCHANGED <<retried, succeeded, failed, terminal>>

-------------------------------------------------------------------------------
Init ==
    /\ run = "idle" /\ stage = "rest"
    /\ config \in [readers : ReaderCounts, senders : SenderCounts, rate : Rates,
                   installed : {TRUE}]
    /\ items = [ch \in Channels |-> <<>>]
    /\ capacity \in [Channels -> [applied : Capacities, pending : {None}]]
    /\ hand = None
    /\ workers = [w \in 1..config.senders |-> IdleWorker]
    /\ next = 1
    /\ credit = 0 /\ tokens = 0 /\ sequence = 0
    /\ traffic = [ch \in Channels |-> [sent |-> 0, received |-> 0]]
    /\ started = 0 /\ retried = 0 /\ succeeded = 0 /\ failed = 0 /\ terminal = 0

(* advanceStep *)

\* How a worker leaves an attempt: free with its batch delivered or given up,
\* or waiting for the next try, which only a last attempt does not get.
Released(w) == [IdleWorker EXCEPT !.retiring = workers[w].retiring]
Outcomes(w) ==
    {<<"succeeded", Released(w)>>, <<"terminal", Released(w)>>} \cup
    {<<"backoff", [workers[w] EXCEPT !.state = "backoff", !.due = delay]>> :
        delay \in IF workers[w].attempt < MaxAttempts THEN 1..MaxDelay ELSE {}}

Sooner(w) == [workers[w] EXCEPT !.due = IF @ > 0 THEN @ - 1 ELSE 0]

\* tick and advanceToNow: a step comes when time has passed in a running
\* simulation.
Ticks == stage = "rest" /\ run = "running"

\* The clock advances and completeDueAttempts runs.
Complete ==
    LET due == {w \in Busy : workers[w].state = "in-flight" /\ workers[w].due = 1}
        all == UNION {Outcomes(w) : w \in due}
    IN
    /\ Ticks
    /\ \E outcome \in [due -> all] :
           /\ \A w \in due : outcome[w] \in Outcomes(w)
           /\ workers' = [w \in DOMAIN workers |->
                              IF w \in due THEN outcome[w][2] ELSE Sooner(w)]
           /\ succeeded' = succeeded +
                  Cardinality({w \in due : outcome[w][1] = "succeeded"})
           /\ failed' = failed + Cardinality({w \in due : outcome[w][1] # "succeeded"})
           /\ terminal' = terminal + Cardinality({w \in due : outcome[w][1] = "terminal"})
    /\ stage' = "retry"
    /\ UNCHANGED <<run, config, flowVars, next, credit, tokens, sequence, started, retried>>

\* startDueRetries, finalizeSenderScaleDown and refillThrottlerTokens.
Retry ==
    LET due == {w \in Busy : workers[w].state = "backoff" /\ workers[w].due = 0}
    IN
    /\ stage = "retry"
    /\ \E delay \in [due -> 1..MaxDelay] :
           LET busy == [w \in DOMAIN workers |->
                           IF w \notin due THEN workers[w]
                           ELSE [workers[w] EXCEPT !.state = "in-flight", !.due = delay[w],
                                                   !.attempt = @ + 1]]
           IN  workers' = Staff(busy, next)[1] /\ next' = Staff(busy, next)[2]
    /\ started' = started + Cardinality(due)
    /\ retried' = retried + Cardinality(due)
    /\ tokens' = IF ~config.installed THEN 0
                 ELSE LET most == Cost + config.rate
                      IN  IF tokens + config.rate > most THEN most ELSE tokens + config.rate
    /\ stage' = "receive"
    /\ UNCHANGED <<run, config, flowVars, credit, sequence, succeeded, failed, terminal>>

CanDrain == items["sender"] # <<>> /\ Free # {}
CanFlush ==
    hand # None /\ IF capacity["sender"].applied = 0 THEN Free # {} ELSE Accepts("sender")

Drain ==
    /\ stage \in {"receive", "produce"} /\ CanDrain
    /\ Hire(Head(items["sender"]))
    /\ Shift("sender")
    /\ UNCHANGED <<run, stage, config, hand, credit, tokens, sequence>>

\* Mutant: the batch in hand passes the ones waiting in the channel.
FlushAhead ==
    /\ stage \in {"receive", "produce"} /\ ~CanDrain /\ CanFlush
    /\ hand' = None
    /\ \/ capacity["sender"].applied = 0 /\ Hire(hand) /\ HandedOver("sender")
       \/ /\ capacity["sender"].applied # 0
          /\ items' = [items EXCEPT !["sender"] = <<hand>> \o @]
          /\ traffic' = [traffic EXCEPT !["sender"].sent = @ + 1]
          /\ UNCHANGED <<workers, next, countVars>>
    /\ UNCHANGED <<run, stage, config, capacity, credit, tokens, sequence>>

\* flushThrottledBatch: handed over to a worker, or sent.
Flush ==
    /\ stage \in {"receive", "produce"} /\ ~CanDrain /\ CanFlush
    /\ hand' = None
    /\ \/ capacity["sender"].applied = 0 /\ Hire(hand) /\ HandedOver("sender")
       \/ /\ capacity["sender"].applied # 0
          /\ Sent("sender", hand)
          /\ UNCHANGED <<workers, next, countVars>>
    /\ UNCHANGED <<run, stage, config, capacity, credit, tokens, sequence>>

Settled == ~CanDrain /\ ~CanFlush
Affordable == config.installed => tokens >= Cost
Paid == IF config.installed THEN tokens - Cost ELSE tokens

CanReceive == hand = None /\ items["reader"] # <<>> /\ Affordable

\* receiveReaderChannel
Receive ==
    /\ stage = "receive" /\ Settled /\ CanReceive
    /\ hand' = Head(items["reader"])
    /\ tokens' = Paid
    /\ Shift("reader")
    /\ UNCHANGED <<run, stage, config, workers, next, credit, sequence, countVars>>

Earned ==
    LET most == config.readers * Cost
        sum == credit + config.readers * ReaderRate
    IN  IF sum > most THEN most ELSE sum

ReceiveEnds ==
    /\ stage = "receive" /\ Settled /\ ~CanReceive
    /\ stage' = "produce"
    /\ credit' = Earned
    /\ UNCHANGED <<run, config, flowVars, workers, next, tokens, sequence, countVars>>

\* produceReaderBatches: into the channel, or handed over when it has no room
\* at all and the throttler has nothing in hand.
CanHandOver == capacity["reader"].applied = 0 /\ hand = None /\ Affordable
CanProduce == credit >= Cost /\ (CanHandOver \/ Accepts("reader"))

\* Mutant: a batch handed over is not paid for with credit.
ProduceOnCredit ==
    /\ stage = "produce" /\ Settled /\ CanProduce /\ sequence < MaxBatches
    /\ sequence' = sequence + 1
    /\ \/ CanHandOver /\ hand' = sequence /\ tokens' = Paid /\ HandedOver("reader")
          /\ UNCHANGED credit
       \/ /\ Accepts("reader") /\ Sent("reader", sequence)
          /\ credit' = credit - Cost /\ UNCHANGED <<hand, tokens>>
    /\ UNCHANGED <<run, stage, config, capacity, workers, next, countVars>>

Produce ==
    /\ stage = "produce" /\ Settled /\ CanProduce /\ sequence < MaxBatches
    /\ sequence' = sequence + 1
    /\ credit' = credit - Cost
    /\ \/ CanHandOver /\ hand' = sequence /\ tokens' = Paid /\ HandedOver("reader")
       \/ Accepts("reader") /\ Sent("reader", sequence) /\ UNCHANGED <<hand, tokens>>
    /\ UNCHANGED <<run, stage, config, capacity, workers, next, countVars>>

StepEnds ==
    /\ stage = "produce" /\ Settled /\ ~(CanProduce /\ sequence < MaxBatches)
    /\ stage' = "rest"
    /\ UNCHANGED <<run, config, flowVars, workers, next, credit, tokens, sequence, countVars>>

Step ==
    \/ Complete \/ Retry \/ Drain \/ Flush \/ Receive \/ ReceiveEnds \/ Produce \/ StepEnds

-------------------------------------------------------------------------------
(* Commands of the adapter.  Each first brings the simulation up to now,   *)
(* which is to say that steps come before it.                              *)

Run ==
    /\ stage = "rest" /\ run # "running"
    /\ run' = "running"
    /\ UNCHANGED <<stage, config, flowVars, workers, next, credit, tokens, sequence, countVars>>

Pause ==
    /\ stage = "rest" /\ run # "paused"
    /\ run' = "paused"
    /\ UNCHANGED <<stage, config, flowVars, workers, next, credit, tokens, sequence, countVars>>

ResetSimulation ==
    /\ ResetRuntime
    /\ hand' = None
    /\ workers' = [w \in 1..config.senders |-> IdleWorker]
    /\ next' = 1 /\ credit' = 0 /\ tokens' = 0 /\ sequence' = 0
    /\ started' = 0 /\ retried' = 0 /\ succeeded' = 0 /\ failed' = 0 /\ terminal' = 0

\* Mutant: a running simulation is reset as well, and runs on.
ResetAnyway ==
    /\ stage = "rest"
    /\ ResetSimulation
    /\ UNCHANGED <<run, stage, config>>

\* resetRunState: refused while running.
Reset ==
    /\ stage = "rest" /\ run # "running"
    /\ run' = "idle"
    /\ ResetSimulation
    /\ UNCHANGED <<stage, config>>

\* updateConfig of the sender worker count.
SetSenders(n) ==
    /\ stage = "rest" /\ n # config.senders
    /\ config' = [config EXCEPT !.senders = n]
    /\ workers' = Staff(Planned(n), next)[1] /\ next' = Staff(Planned(n), next)[2]
    /\ UNCHANGED <<run, stage, flowVars, credit, tokens, sequence, countVars>>

SetReaders(n) ==
    /\ stage = "rest" /\ n # config.readers
    /\ config' = [config EXCEPT !.readers = n]
    /\ credit' = IF credit > n * Cost THEN n * Cost ELSE credit
    /\ UNCHANGED <<run, stage, flowVars, workers, next, tokens, sequence, countVars>>

\* A rate of zero, and a throttler put in or taken out, empty the bucket.
SetRate(rate) ==
    /\ stage = "rest" /\ rate # config.rate
    /\ config' = [config EXCEPT !.rate = rate]
    /\ tokens' = IF rate = 0 THEN 0 ELSE tokens
    /\ UNCHANGED <<run, stage, flowVars, workers, next, credit, sequence, countVars>>

SetInstalled ==
    /\ stage = "rest"
    /\ config' = [config EXCEPT !.installed = ~@]
    /\ tokens' = 0
    /\ UNCHANGED <<run, stage, flowVars, workers, next, credit, sequence, countVars>>

SetCapacity(ch, c) ==
    /\ stage = "rest"
    /\ capacity' = [capacity EXCEPT ![ch] = Requested(ch, c)]
    /\ UNCHANGED <<run, stage, config, items, hand, traffic, workers, next, credit, tokens,
                   sequence, countVars>>

Command ==
    \/ Run \/ Pause \/ Reset \/ SetInstalled
    \/ \E n \in SenderCounts : SetSenders(n)
    \/ \E n \in ReaderCounts : SetReaders(n)
    \/ \E rate \in Rates : SetRate(rate)
    \/ \E ch \in Channels, c \in Capacities : SetCapacity(ch, c)

Next == Step \/ Command
Spec == Init /\ [][Next]_vars

\* While the simulation runs its timer keeps stepping it.
FairSpec == Spec /\ WF_vars(Step)

-------------------------------------------------------------------------------
Worker ==
    [state : {"idle", "in-flight", "backoff"}, batch : Nat \cup {None},
     attempt : 0..MaxAttempts, due : 0..MaxDelay, retiring : BOOLEAN]

\* Every variable has the values the code can give it: a bucket is never
\* overdrawn or overfull, a channel never holds more than its applied
\* capacity, and the turn of the workers names a worker.
TypeOK ==
    /\ run \in {"idle", "running", "paused"}
    /\ stage \in {"rest", "retry", "receive", "produce"}
    /\ config \in [readers : ReaderCounts, senders : SenderCounts, rate : Nat,
                   installed : BOOLEAN]
    /\ items \in [Channels -> Seq(Nat)]
    /\ capacity \in [Channels -> [applied : Nat, pending : Nat \cup {None}]]
    /\ \A ch \in Channels : Depth(ch) <= capacity[ch].applied
    /\ hand \in Nat \cup {None}
    /\ workers \in Seq(Worker) /\ next \in DOMAIN workers
    /\ credit \in 0..(config.readers * Cost) /\ tokens \in Nat
    /\ traffic \in [Channels -> [sent : Nat, received : Nat]]
    /\ {sequence, started, retried, succeeded, failed, terminal} \subseteq Nat

InHand == IF hand = None THEN <<>> ELSE <<hand>>
Waiting == items["sender"] \o InHand \o items["reader"]
FirstAttempts == started - retried

\* No batch is lost, doubled or overtaken on its way to its first attempt,
\* whatever is reconfigured: what waits in the two channels and in the
\* throttler's hand is the run of sequence numbers from the first batch not
\* yet attempted to the last one produced.
PipelineInOrder ==
    /\ sequence - FirstAttempts = Len(Waiting)
    /\ \A i \in 1..Len(Waiting) : Waiting[i] = FirstAttempts + i - 1

\* What the loops of a step can still move: credit to produce from, and batches
\* with one, two or three moves before them.
Effort == 4 * credit + 3 * Len(items["reader"]) + 2 * Len(InHand) + Len(items["sender"])

\* A step of the simulation ends, for the loops of drainSenderChannel,
\* receiveReaderChannel and produceReaderBatches use up credit or move a batch
\* on each time round, whatever the capacities and whoever is free: the browser
\* is never caught in advanceStep.
StepsEnd == [][stage # "rest" /\ stage' = stage => Effort' < Effort]_vars

\* What the snapshot of a running simulation shows of channel ch and of the
\* sender: freezeSnapshot of what telemetry collects.
ChannelFigures(ch) ==
    [applied |-> capacity[ch].applied, pending |-> capacity[ch].pending,
     sent |-> traffic[ch].sent, received |-> traffic[ch].received, depth |-> Depth(ch)]

In(state) == {w \in DOMAIN workers : workers[w].state = state}

SenderFigures ==
    [desired |-> config.senders, live |-> Len(workers), draining |-> Cardinality(Retiring),
     idle |-> Cardinality(In("idle")), inFlight |-> Cardinality(In("in-flight")),
     backoff |-> Cardinality(In("backoff"))]

HttpFigures ==
    [requestsStarted |-> started, requestsSucceeded |-> succeeded, requestsFailed |-> failed,
     inFlightRequests |-> Cardinality(In("in-flight"))]

\* Every batch attempted is with exactly one worker, delivered, or given up,
\* and however often the number of senders is changed the workers that are not
\* on their way out are as many as was asked for last: scaling down and up
\* again loses no batch and no worker, and the figures shown agree with it.
WorkersAccounted ==
    /\ \A v, w \in Busy : v # w => workers[v].batch # workers[w].batch
    /\ \A w \in Busy : workers[w].batch \in 0..(FirstAttempts - 1)
    /\ LET sender == SenderFigures
           http == HttpFigures
       IN  /\ sender.live - sender.draining = sender.desired
           /\ sender.inFlight + sender.backoff = FirstAttempts - succeeded - terminal
           /\ http.requestsStarted =
                  http.requestsSucceeded + http.requestsFailed + http.inFlightRequests
    /\ \A ch \in Channels :
           LET shown == ChannelFigures(ch) IN shown.sent - shown.received = shown.depth

\* The simulation keeps what SimulatedRun promises: whatever is set meanwhile,
\* each batch has its first attempt in its turn and ends once, a scaling or a
\* retry touches none that is open, a paused run stands still, and only a
\* reset of one that does not run takes something back.
Promise == INSTANCE SimulatedRun WITH
    running <- (run = "running"), made <- sequence, begun <- FirstAttempts,
    open <- {workers[w].batch : w \in Busy}, delivered <- succeeded, givenUp <- terminal
ImplementsRun == Promise!Spec

\* While the simulation runs, workers on their way out are gone in the end
\* (or asked to stay): a retry is no way to stay for ever.
ScaleDownFinishes == <>[](run = "running") => (Retiring # {} ~> Retiring = {})
===============================================================================
