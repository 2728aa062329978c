# Verification of ingestion-lab-loadgen

`loadgen` reads transactions from Parquet files and posts them in batches to an
HTTP target; a browser UI watches and steers it. One run is a pipeline

    reader pool -> reader channel -> throttler -> sender channel -> sender pool -> HTTP target

owned by a single goroutine, the event loop, which takes commands from the HTTP
API, ticks from a timer and source errors from the readers. The browser polls a
status and sends commands over HTTP, or steps a simulation of the pipeline of its
own.

This directory holds TLA+ models of that program, the TLC runs that check them
and TLAPS proofs about them. `PROJECT.json` lists the runs, the source lines of
every definition, the mutated definitions that each property rejects, the
hazards and the theorems.

    tlc -config SenderPool.cfg MCSenderPool          # one run
    tlapm ReaderStagesProofs.tla                     # the proofs of one module

## Inventory

| Component | State | Operations | Interacts by | What makes it correct | Modelled in |
|---|---|---|---|---|---|
| sender pool (`sender_pool.go`, `sender_http.go`) | workers with draining/busy/backoff flags, a work and a wake channel each; desired, stopping, resume channel, context | intake loop, worker loop, reconcile, pause, resumeRun, stop | `mu`, `intakeMu`, a condition variable, channels; calls of the event loop | no accepted batch lost or served twice; size follows desired; pause silences it; stop ends it with nothing open or uncounted | `SenderPool`, `SenderDelivery` |
| event loop (`control_state.go`, `run_state.go`, `runtime_command.go`) | run state, totals, elapsed time, source error, status frozen by Pause, settings | run, pause, reset, seven settings, tick, source error, exit | request channel (capacity 10) with reply channels, ticks, source errors, an atomic counter | totals count each delivery once over pause, fault and reset; live stages follow the settings; the status is consistent in each state | `ControlPlane` |
| pipeline runtime (`pipeline_runtime.go`) | channels, run context, the three stages | start, startSender, stop, reconcile | owns the stages | no send on a closed channel; nothing survives a stop; a failed start leaves nothing behind | `ReaderStages`, `SenderPool`, `ControlPlane` |
| reader pool (`reader_pool.go`) | workers, open files, round-robin position, first error | claim, read, send, release, reconcile, replacement, error report | `mu`, condition variable, context, reader channel | a file is read by one worker at a time; the number of workers follows desired; a source error ends the run | `ReaderStages` |
| throttler (`throttler.go`) | settings, batch in hand, start of its wait | receive, wait, send, update | both channels, unbuffered update channel | order and number of batches kept; updates accepted at every wait | `ReaderStages` |
| telemetry (`reader_channel_telemetry.go`, `reader_telemetry.go`) | totals, rates, blocked writers | record, sample, snapshot, reset | own mutex | totals match the channels | `ReaderStages` (totals) |
| service (`service.go`, `main.go`, `cli_*.go`) | goroutines, contexts | start, optional first run, shutdown with timeout | signals, HTTP server, event loop | a stopped service ends, and its result says what it left behind | `Service` |
| HTTP API (`http_*.go`) | none | decode, enqueue, wait for the reply | request channel | every accepted request is answered | `Service`, `HttpAdapter` (as its server) |
| configuration (`config.go`, `control_values.go`) | ranges and lists | validate | read once | what it admits, the browser can decode | `SnapshotWire` |
| receiver (`receiver/`) | server, configuration | ingest, health, shutdown | HTTP | answers as configured, and only valid batches | - |
| frontend adapter (`adapters/HttpAdapter.ts`) | last snapshot, request in flight, chain of commands | poll, dispatch, dispose | fetch, promises | commands in order; snapshots in order; nothing after dispose | `HttpAdapter`, `SnapshotWire` |
| frontend controls (`useDesiredControl.ts`, `NumericControl.tsx`, `WorkerActor.tsx`, `ThrottlerActor.tsx`, cables) | desired value, phase, token; press or edit in progress | preview, commit, cancel, confirm; press, repeat, release | React effects and callbacks, window listeners | a pending change is resolved, a preview ends with its gesture; only values the server accepts are sent | `LiveControl`, `ControlScales` |
| frontend simulation (`model/simulation.ts`, `SimulationAdapter.ts`) | simulated channels, workers, buckets | step, run, pause, reset, settings | in process | loses, doubles and overtakes nothing; keeps its counts | `PipelineSimulation`, `SimulatedRun` |
| channel flow (`channelFlowState.ts`, `useLoadgenSnapshot.ts`) | frozen observation, pressure on display | present, derive | subscription | a pause holds the view, the pressure catches up | `ChannelView` |
| frontend views | none that matters | layout | - | legs and chips do not overlap | `PipelineLayout` |
| logging, Prometheus, scripts, dashboards | - | output | - | not protocol code | - |

Hard behaviours: the races of reconcile, pause and stop with workers that are
leaving, backing off or being handed a batch; the wake-ups (condition variable,
wake channels of capacity one, resume channel); calls in which the event loop
waits for workers or for the throttler; deliveries that end after Pause or during
Reset; source errors that arrive with another event; in the browser, polls that
cross commands, fetches that fail while their request goes on, receipts that
come after the change they were for has been given up, listeners that outlive
or do not outlive a gesture. `PROJECT.json` lists them line by line under
"hazards".

## Modules

| Module | Content |
|---|---|
| `SenderDelivery` | what a sender pool promises to a run, without workers, locks or gates |
| `SenderPool` | the sender pool as written; INSTANCEs `SenderDelivery` with a refinement mapping |
| `ControlPlane` | the event loop: lifecycle, accounts, elapsed time, shown status, settings and the stages they reach |
| `ReaderStages` | readers, reader channel, throttler, and the event loop's calls on them |
| `Service` | `runServe`, the HTTP handlers and the channel of requests around the event loop |
| `HttpAdapter` | the browser's polls and commands, and the server as they see it |
| `LiveControl` | extends `HttpAdapter` with one control: hook, stepper, field |
| `SimulatedRun` | what the simulation promises of a run, without channels, stages or workers |
| `PipelineSimulation` | the simulation the browser can use in place of a server; INSTANCEs `SimulatedRun` with a refinement mapping |
| `ChannelView` | what is shown of a channel over pauses and lost connections |
| `SnapshotWire` | validation on the server against decoding in the browser, no state |
| `ControlScales` | the arithmetic between a gesture and a value, no state |
| `PipelineLayout` | the arithmetic of hoses and worker chips, no state |
| `MC...` | values of the constants for TLC; `MCChannelView` also evaluates what is checked of the modules without state |
| `...Proofs` | theorems about the module named; `HttpAdapterProofs` also has those about `LiveControl`, `ControlScalesProofs` those about `SnapshotWire` |

The models meet in these places.

* `ControlPlane` calls a stop of the runtime a wait that ends (`Joined`).
  `CallsReturn` of `SenderPool` and `CallsReturn` of `ReaderStages` are the
  reasons: `pipelineRuntime.stop` stops the sender first and then what
  `ReaderStages` has from `CancelRun` on.
* `ControlPlane` lets the pool add deliveries to the shared counter at any time
  until it is joined; `ServedAndCountedOnce` of `SenderPool` says that each
  delivery is added once.
* `SenderPool` and `ReaderStages` let their caller act at any time between start
  and stop; `ResourcesMatchState` of `ControlPlane` says that the loop does so
  only while there is a pipeline.
* `SenderPool` offers batches in order; `BatchesInOrder` of `ReaderStages` says
  what those batches are. `ReaderStages` does not assume that a sender takes one.
* `HttpAdapter` has the event loop as a server that takes requests from a FIFO
  one by one; what it answers to a command in each run state is read from
  `control_state.go`.
* `Service` does a request in one action because the calls in it return:
  `CallsReturn` of `SenderPool` and of `ReaderStages`. `HttpAdapter` assumes that
  the event loop answers what its channel holds: `RequestsAnswered` of `Service`.
* `HttpAdapter` takes a status as something that decodes: `ServedStatusDecodes`
  of `ControlScalesProofs`. `LiveControl` sends values in range:
  the theorems of `ControlScalesProofs`.

### SenderPool

The grain of atomicity is the critical section. Each section under `pool.mu`,
each `select` and each unlocked step that matters is one action. `intakeMu`
is not a variable: it is held exactly while the intake goroutine is in
`IntakeHolds` (between the lock of line 242 and the hand-over of line 266) or
within the section of `stop` that is the single action `StopBoundary`.

Goroutines are program counters. The intake goes `check` (wait for a free
worker), `asleep` (in `available.Wait`), `lock` (about to take `intakeMu`),
`recv` (the select), `assign`, `starved` (second `Wait`, with `intakeMu`
held), `done`. A worker goes `top` (head of the loop under `mu`), `select`,
then through `begin`, `gate` (waitUntilRunnable), `gated` (waiting for the
resume channel), `ready` (permission obtained, request not yet sent), `flight`
(the request), `success`, `sleep` (backoff), `finish`, and leaves through
`exit` (decided to leave, still in `pool.workers`), `leave` and `gone`.

The points where the code can go wrong are kept apart on purpose: the decision
to leave (299) from workerExited (325), the permission to send (209) from the
request (363), the delivery (365) from its count (316), the hand-over (264) from
the receive of the batch by the worker.

Abstracted: contents and sizes of batches (a batch counts as one unit), delays
(a deadline may pass at any time), HTTP (an attempt succeeds, fails or, under an
ended context, is cancelled), logging. The branch of the intake for a closed
channel (252) is left out: `pipelineRuntime.stop` closes the channel only after
the pool has been joined. `pool.workers` is in starting order, which is the
order of worker identities, so "last active worker" is the largest identity.

Bounds: `MaxBatches` ends `Offer`; `MaxStarts` bounds the identities, and
`RoomFor` makes a reconcile wait until there is room for the workers it starts
and for every replacement still possible, so that no replacement is ever
suppressed. Both only cut behaviours short.

### ControlPlane

The loop is one goroutine, so a case of its select is one action. The exception
is a stop of the runtime (`runtime.stop`): workers go on delivering, the clock
goes on and the readers may still report while the loop waits. A handler that
stops is therefore split: it enters `joining`; `Joined` is the end of the wait and
`clearActive`; `Collect` is the swap of the shared counter; `Clear` is the rest,
with the second write to the counter (363, 381). Exit follows the same path
(the deferred calls of line 76) and ends after `Collect`. A start is split as well:
`BeginStart` opens the context, the channels and their telemetry (`opened`) before it
is known whether a file matches, `StartRun` goes on to the stages, and `StartFails`
undoes what was opened (`pipeline_runtime.go:48-60`).

Seven settings are reduced to four that cover the distinct ways in which the loop
treats them: accepted when idle (`capacity`), handed to a pool that
may have ended itself (`readers`), handed on only when changed (`throttle`),
handed on always (`senders`). Out-of-range values are rejected
before anything changes and leave no trace; they are left out. The pipeline is
`alive` or not, with the settings it has taken in `applied`. The accounts count
batches; rates are represented by `deliveredSpan`, the deliveries that the rate
of the interval in progress may contain. The history variables `delivered`,
`deliveredRun`, `deliveredSpan` and `ranFor` are read by properties only.

Bounds: `MaxDeliveries`, `MaxNow` and `MaxRuns` end `Deliver`, `ClockAdvances` and
`StartRun`. Two runs show what one leaves to the next; two deliveries can fall
on the two sides of any step; two units of time separate a run from a pause.

### ReaderStages

Goroutines are program counters again: a worker in each slot (`at`), the
goroutine that closes `done` (`closer`), the throttler, the event loop. A
section under a mutex is one action, and so is an operation on a channel: a send
into the buffer or, when the throttler is at its receive, straight into its hand.
The recording of a send or a receipt is a later action than the send itself, as
in the code, which is why the totals may differ for a while. A source error
takes the worker through `report` (the error into its channel, once), `cancel`
(of the pool's context) and `raise` (`stopping` under `mu`), in the code's order; a
second one waits at `report` while `once` is running, as in `sync.Once`, and goes on
without an error of its own.

The throttler waits at `select` (for a batch), in one of the waits of a rate
(`held` for rate zero, a timer for a positive one) or at the send; an update is
heard at each of these, and the event loop's hand-over is a rendezvous with it
(`TakeUpdate`) or with the end of the context (`UpdateUnheard`). The settings
are of three kinds: `off` (not installed), `zero` (a rate of zero: wait for other
settings) and `timed` (a timer, which may fire at any time).

A worker that has left frees its slot, so that any number of scale changes fits a
bounded number of slots. The order of `p.workers`, which only decides which of
several workers a scale-down picks, is left open. The cancellation of the run
context reaches the pool's context at once. The capacity of the reader channel is a
variable that never changes, so that one run has a buffered and an unbuffered channel. A run that is started under a
context that has ended already, and `readerPool.stop`, which has no caller
outside the tests, are left out. The senders are outside: they take a batch or
do not. Rates, blocked times and the reader's own counts are not modelled.

Bounds: `MaxBatches` is the length of every file; `Slots` the room for workers,
and a reconcile asks for no more than there are slots.

### Service

`main` is the place of `runServe`, `handler` that of each HTTP handler, `requests`
the channel between them and the event loop, `reply` the reply channels (capacity
1, so that the loop never waits for who asked). A handler takes a request while
the server serves, puts it into the channel (`HandlerSends`, which waits when the
channel is full) and waits for the answer (`HandlerAnswered`), but not after a
pause. The loop takes, does and answers a request in one action: nobody sees the
run's state in between. Of that state only `run` is kept; seven settings and the
status are one kind of request, `ask`, whose answer changes nothing here.

The two contexts are `signalled` and `stopped`, the deadline of the shutdown is
`late`. `Shutdown` waits for the handlers until the deadline (`ServerShut`); the
wait for the event loop knows the deadline after a signal and none after a start
that failed (`Joined`). The process ends with `runServe`, whatever else still runs.

The start-up run waits at `service.go:46` for an answer without looking at its
context. If a signal comes first, the event loop may take the end of its context
before the request; the request is then never read, `runServe` waits for ever, and
`SIGTERM`, which `signal.NotifyContext` has taken over, does nothing more.
`docs/batch-pipeline-decisions.md:28` and `:42` allow a hard exit after a short timeout and
never a wait without end, and `docs/plans/archive/backend-architecture.md:60-62` has the
end of the process stop the control plane and the HTTP server in order.
`StoppedServiceEnds` names this state (`StartUnread`) as its only exception, so there is
no other way for a stopped service not to end; `RequestsAnswered` says that without a
stop the start-up run, too, is answered.

### HttpAdapter

Script code runs to completion, so one callback is one action: the poll timer,
the continuation of a fetch, `dispatch`, the next link of the command chain.
Between them a request crosses the network, waits in its handler and in the
event loop's channel; each leg is an action of its own, and a fetch that fails
leaves its request wherever it is: a command may still be enqueued after
`CommandFails`, a poll nobody waits for stays in the channel as 0. "pause" is answered
before the loop takes it, the other commands after. A poll that would overlap
is skipped by `requestInFlight`; there are two poll slots so that the overlap can
be expressed (and a mutant makes it happen), and the second stays free.

`set-live` stands for the settings accepted in every run state, `set-idle-only`
for the three accepted when idle only, `set-http-timeout` for the command this
adapter refuses. The telemetry of a status is `version`, the number of changes of
the server's state before it was taken. `ForeignChange` is another client, a
source error or the start-up run.

### LiveControl

One `useDesiredControl` with a press-and-hold stepper (`WorkerActor` or the
throttler's valve) and a number field (`NumericControl`) that share a value. A
token of the hook is the number of the command it was taken for, which is what
`tokenRef` tells apart. A render copies the adapter's snapshot and runs the
hook's effect; until then callbacks see the snapshot of the last render. A
receipt is awaited and looked at in the task that settles it. The text typed into
the field is not kept: it is a value, or something that is not one (`LeaveWithout`).
The hook's comparison of revisions always comes out true here, since every render
after the commit shows a later revision, and is left out.

### PipelineSimulation

A call of `advance` is a sequence of loops over workers and channels; they are
actions in the order of the call, with `stage` "rest" between two calls and
commands possible only there. The loops are greedy, which the guards say:
idle workers are fed first, then the throttler's batch goes on, then the next is
taken or produced. Latencies, backoffs and outcomes are any the outcome source
may give; a time is the number of steps left. A batch is its sequence number
and weighs `Cost` units of reader credit and of throttler tokens.

`SimulatedRun` has of all this the batches made, begun and open and the two counts of
ends. The mapping takes `begun` to `FirstAttempts` and `open` to the batches of the busy
workers, so that a worker's first attempt is `Begin`, all attempts that end in a step are
one `Settle`, and retries, scalings and settings are stutters.

### ChannelView

An adapter publishes and the subscription derives the view in the same call: one
action. The publications may have any run state after any other, because a
poll can miss what lies between two of them. Pressures are levels `0..Full`;
time is counted in ticks; the constants stand for `PRESSURE_UNITS_PER_SECOND`,
`BLOCKING_NOISE_MAX_MS` and `BLOCKING_SATURATION_MS`.

### SnapshotWire, ControlScales, PipelineLayout

These have no state. `SnapshotWire` has the two lists of conditions that have to
agree, `validate` in Go and `decodeConfig`/`decodeStatus` in TypeScript.
`ControlScales` has the way from a drag, a key, a press or a turn to the value
that is sent, on exact fractions where the code has doubles and on values below
10^12, where `toFixed` and `toPrecision(12)` change nothing. `PipelineLayout` has
the legs of a hose around forbidden ranges and the grid of worker chips, with
integer lengths.

## Runs

| Run | Specification, bounds | Shows |
|---|---|---|
| `sender_pool` | `FairSpec`; up to 3 workers started, 2 batches, sizes 1..2 | a free worker holds nothing, so the hand-over under `mu` cannot block; a batch has one server and is counted once; the pool never has too few active workers, and never more workers in all than the largest count; nothing is taken after stop's boundary; stop ends (also after a cancellation from outside) and reconcile returns, each with a target that may never answer; no deadlock |
| `sender_patient` | `PatientFairSpec`; 2 workers started, the rest the same | no accepted batch is lost, a pause silences it once the attempts in flight have ended, every offered batch is delivered, draining workers leave, and the pool implements `SenderDelivery` |
| `sender_lost` | `Spec`; expects a violation | an accepted batch can be lost |
| `control_plane` | `FairSpec`; 2 deliveries, 2 ticks of the clock, 2 runs, 2 values per setting | the totals have each delivery once over pause, fault, reset and exit; elapsed time is the time spent running; at its select the loop has stages exactly in a running or paused run and nothing opened without them, also after a start that failed; an error exactly when faulted, a frozen status exactly when paused; a rate counts its own interval; shown progress stands still in a pause and falls only on reset; a source error surfaces |
| `reader_stages` | `FairSpec`; 2 slots, sizes 1..2, 1 file of 2 batches, capacity 0 or 1, all kinds of settings | a file has one reader; batches stay in order, none lost or repeated; totals agree with the channel; nobody is left to send when the channels are closed; update and stop return although senders may take nothing; a pool left alone has the workers asked for, and the throttler passes on what it took; an uninstalled throttler does so under updates that never cease; no deadlock |
| `reader_errors` | `FairSpec`; 2 slots, sizes 1..2, 2 files of 1 batch, capacity 0, not throttled | of two errors one is reported and one discarded, nobody waits for good in the report, and the run ends |
| `service` | `FairSpec`; 2 handlers, a channel of 1, with and without a start-up run | every request is answered unless the service is stopped; a stopped service ends, with handlers still waiting, but for the state above; the result says what was stopped |
| `http_adapter` | `FairSpec`; run, pause and an idle-only setting, 2 commands, 1 failure, 1 foreign change | commands reach the loop in order; a status asked for after a receipt shows the command's effect; snapshots never go back; each command is answered; the view converges |
| `live_control` | `FairLiveSpec`; 2 values, 2 commands, 1 failure, 1 foreign change, the workers' stepper | a control nobody changes shows what is applied; a preview has its gesture; a pending change is resolved |
| `valve_hold_limit` | `LiveSpec`; 3 values, the valve, no failures; expects a violation | a press held to the end of the way leaves its preview behind |
| `pipeline_simulation` | `FairSpec`; 3 batches of cost 2, senders 1 or 3, readers 1 or 2, capacities 0 or 2, rates 0 or 2, 2 attempts | batches stay in order between reader and first attempt; every batch attempted is with one worker, delivered or given up; the workers that stay are as many as asked for; it implements `SimulatedRun`; the loops of a step end; a scale-down finishes |
| `channel_view` | `FairSpec`; pressures 0..4, capacities 0 and 4, up to 3 ticks between publications | a pause holds the view and what was shown before; the pressure on display moves at its speed and catches up |

Why the bounds are enough. *Sender pool*: two workers race for the intake, one of
them draining; a third start is a replacement or a second scale-up; with two
batches on one worker the intake starves, on two workers the batches are in
every pair of stages at once. That `PatientSpec` forbids a scale-up over draining workers
takes away steps but no state of that size: with two starts it reaches as many states as
`Spec`, so a pause meets the pool in every one of them. The capacity is 0, the default of `config.toml`:
the throttler holds the offered batch, and a larger capacity only lets it run
ahead. *Readers*: one file makes two
workers compete for it, sleep for it and take it over from each other in the
middle; two batches follow each other through one buffered place, the hand of the
throttler and a reader that offers; the unbuffered channel has a reader block on a
throttler that blocks on the senders. Two files multiply the states beyond a run of
minutes, so `reader_errors` takes them with one batch each, one capacity and one kind
of settings: a worker that reports an error keeps its file until the pool is stopping, so that
only a second file lets a second error meet the report of the first. Otherwise more files
add the choice among them and a second reader that sends:
`ReadersAlwaysAccounted`, `BatchesStayInOrder` and `ReportsNeverBlock` are proved for any
number of files, the round robin in `NextFileIsUnclaimed`. *Service*: with the channel full one
handler waits to send while another waits for its answer and the start-up run
competes with both. *Link*: two commands are a command and its successor in the chain, one
of them lost; one failure hits any leg of any fetch; one foreign change makes the
server differ from what was asked. *Control*: the second command overtakes the
receipt of the first. *Simulation*: three workers, of which two leave, and three
batches fill both channels and the hand. *View*: an interval longer than it takes
to cross half the scale, and shorter ones.

The run of `MCChannelView` also evaluates its ASSUMEs, the bounded checks of the
modules without state: rounding to the nearest step (`SteppedIsNearest`), a
handle that follows the cable (`DragFollowsTheCable`), the marks of a scale
(`TicksAreValues`), legs that keep clear of forbidden ranges and grow with the
capacity (`LegsKeepClear`, `OneRangeIsManyOfOne`, `LegsGrowWithCapacity`) and chips
that do not overlap (`ChipsKeepApart`).

`CHECK_DEADLOCK FALSE` is set where the system may stop: a disposed adapter with
its commands answered, a simulation that is paused with its batches used up, a
process that has ended or a start-up run that is never read.

The type invariants of `SenderPool`, `ControlPlane`, `ReaderStages`, `HttpAdapter`,
`PipelineSimulation` and `Service` are in no run: they are proved (below).

### What the violations show

* *Lost batch* (`sender_lost`). Worker decides to leave (`sender_pool.go:299`) ->
  the event loop scales up and clears its draining flag (126) -> the intake hands
  it a batch (264) -> the worker leaves with the batch in its work channel (338).
  The delivery of that batch is never attempted.
  `docs/plans/archive/simulated-sender-pool.md:58` promises the opposite for
  exactly this situation; `docs/plans/current/product-refactoring.md:710` repeats
  it for scaling during Pause. `PatientSpec`, `Spec` restricted to steps that make
  no draining worker active again, is what a user gets who lets a scale-down finish
  before scaling up.
* *Valve held at its limit* (`valve_hold_limit`). When a repeat of a held press
  finds the valve at its end, `stopHold` drops the press and its listeners
  (`ThrottlerActor.tsx:191-194`); the release is then not heard, and the preview is
  neither committed nor taken back. `ThrottlerActor.test.tsx:511` expects of a press held long
  enough to repeat that its release commits the last preview, at a value that is
  not the end. The workers' stepper
  commits in the same situation (`WorkerActor.tsx:258`).

Three observations have no run.

* With three busy workers, reconcile(1) makes two of them drain; reconcile(2) finds one
  active, and its loop (`sender_pool.go:122-128`) makes both draining ones active again
  instead of one. Desired is 2, three workers stay, and nothing but another reconcile or
  the end of the run changes that, although
  `docs/plans/archive/simulated-sender-pool.md:5` has the pool bring the actual number of
  workers gradually to the desired one. This is why `ConvergesToDesired` is
  a theorem about `PatientSpec`; `NeverOverstaffed`, under `Spec`, bounds the surplus.
* The start-up run left unread, as described under Service.
* A failed poll blanks what is shown until the next one succeeds.

## Fairness

`SchedulerFairness` of `SenderPool` is weak fairness of every goroutine that can
run (Go's scheduler and mutexes do not starve), of a deadline that passes, and of
the end of an attempt whose context has ended (`http.Client` returns then). It is
not assumed that a target answers: `http.DefaultClient` has no timeout. Strong
fairness is used once, for the event loop seeing the end of its context: the
`select` chooses at random among the ready cases, so commands that keep
arriving cannot hide it for ever. `AttemptsEnd` and `TargetAccepts` are premises
of the properties that need a target: `PauseQuiesces` has the first,
`OfferedIsDelivered` both.

In `ControlPlane`, `Fault` and `Exit` are strongly fair for the same reason: they
are cases of the select, and a loop that keeps coming back to its select chooses
each of them in the end. A start that has begun and the steps of a stop are weakly fair: `Joined` stands for
the end of joins, which the two `CallsReturn` show, the others are straight-line
code. Nothing is assumed of clients, deliveries, ticks or the clock.

`ReaderStages` has weak fairness per goroutine (each worker, the closer, the
throttler) and for the rest of a call the event loop has begun, and strong
fairness of the loop's case for a source error or the end of its context, the random
select again. No sender is assumed to take a batch. The subscript of each condition is
a variable that every such step changes. `Settles` has as premises
what it needs: the operator leaves the run alone, the rate is not zero, the senders
take what is offered. `UninstalledPassesOn` has only the last of these, and the throttler
uninstalled from some time on, while updates go on for ever; with a rate in force the
same updates can indeed postpone a batch for ever, since each restarts its wait
(`throttler.go:77`), and no document promises otherwise.

In `Service` every goroutine that can run does, the deadline passes, and the calls of
the event loop return (weak fairness). Strong fairness stands for the random select
of the loop (a request or the end of the context) and for the order in which Go
serves those who wait for room in a channel: handlers and the start-up run each get
their turn. That a client waits for its answer, or that requests stop, is not assumed.

In `HttpAdapter` the timer ticks, the event loop works through its channel, and
each command's fetch makes progress; failures, foreign changes, dispatches and
the disposal are free. That an answered fetch settles is the platform's promise; a
fetch that hangs for ever in the network is not covered, and the code has no timeout
against it. `LiveControl` adds that React renders after a publication; a press
may be held for ever. `PipelineSimulation` is stepped while it runs
(its interval timer). `ChannelView` assumes that time passes and that adapters
publish in intervals.

## Theorems

TLAPS proves these for every value of the constants that the named ASSUMEs of
each module allow. An invariant that is not inductive is proved from a
strengthening, which carries the argument.

`SenderPoolProofs`:

| Theorem | Statement | Argument |
|---|---|---|
| `TypeCorrect` | `Spec => []TypeOK` | `TypeOK` is inductive; `RoomBounds` keeps the starts of a reconcile in bounds |
| `SlotsFree` | `Spec => []FreeSlotIsEmpty` | `FreeSlotIsEmpty` is not inductive: a worker could become free while it serves. `SlotInv` adds that whoever serves, or has work in its channel, is busy, and that an unborn worker is untouched |
| `BoundaryHolds` | `Spec => NothingAdmittedAfterBoundary` | `BoundaryInv`: once stopping, the context has ended and the intake is outside its section; both re-checks of the context (238, 243) keep it there |
| `NothingLost` | `PatientSpec => []NoAcceptedBatchLost` | `KeptInv`: in a patient behaviour a worker past its decision to leave stays draining, or the pool is stopping and the intake out of its section, so no batch can be handed to it. `KeptStep` reduces each action to "what was served is served or settled" |
| `ServedOnce` | `Spec => []ServedAndCountedOnce` | `HeldInv`: a batch is before the intake, in its hand, or with exactly one worker, and has no fate before its server gives it one. `CountedInv`: the counter and the workers about to add to it make up the delivered batches |
| `AlwaysStaffed` | `Spec => []NeverUnderstaffed` | `StaffInv` adds that an unborn worker does not drain. `StaffReplaced` counts a worker out and its replacement in, `StaffReconciled` counts what a reconcile starts, revives and retires, `StaffKept` covers every other step |
| `NoWorkersPileUp` | `Spec => []NeverOverstaffed` | with `StaffInv`: a replacement comes for a worker that leaves (`StaffReplaced`); a reconcile starts workers only when it has revived all that drain, and up to the count asked for (`StaffReconciled`) |
| `ConvergesToDesired` | `PatientSpec => []ConvergedToDesired` | `ExactInv`: where nothing is revived, the active workers are exactly as many as desired until stop |
| `DeliveryImplemented` | `PatientSpec => ImplementsDelivery` | `StepImplements` maps each action to a step of `SenderDelivery` or to a stutter, from `SealInv` (the joins of stop come after its boundary), `BoundaryInv`, `KeptInv`, `HeldInv` and `CountedInv` |

`ControlPlaneProofs`:

| Theorem | Statement | Argument |
|---|---|---|
| `AccountsAlwaysBalance` | `Spec => []AccountsBalance` | `CountInv` adds that the counter is empty in `clear` and `ended`: the second write to the counter then loses nothing. It rests on `LoopInv`, which ties `loop`, `cause`, `state` and `alive` together: no stage is alive in `collect`, `clear` and `ended` |
| `ElapsedAlwaysExact` | `Spec => []ElapsedExact` | `TimeInv` adds that the start time is set exactly in a running run and lies in the past |
| `ResourcesAlwaysMatch` | `Spec => []ResourcesMatchState` | `LoopInv`: what a start opens is open while it decides and then exactly as long as the stages are alive; `ResourceInv`: the error of a fault is there before its stop, the frozen status goes before any other state is reached |
| `StagesAlwaysFollow` | `Spec => []StagesFollowControls` | `SettingsInv`, inductive with `LoopInv`: a setting not handed on belongs to a stage that does not listen |
| `RatesCountTheirInterval` | `Spec => []RateCountsItsInterval` | `RateInv` adds that between runs the counter is empty, so a run's first interval begins with nothing of the last |
| `ShownProgressAlwaysHolds` | `Spec => ShownProgressHolds` | `FrozenInv`: what Pause froze is at most the total and exactly the elapsed time, so what a fault or the exit puts back in its place is no less |
| `TypeCorrect` | `Spec => []TypeOK` | `BoundInv` (counts and times against each other, which keeps them in bounds) and `FlagInv` |

`ReaderStagesProofs`:

| Theorem | Statement | Argument |
|---|---|---|
| `TypeCorrect` | `Spec => []TypeOK` | `HoldInv`: a busy worker holds a file, a sending one a batch, the throttler a batch exactly between a receipt and its end. `NextFileIsUnclaimed`: the round robin finds a file whenever one is left |
| `ReadersAlwaysAccounted` | `Spec => []ReadersAccounted` | `ClaimInv`, inductive with `HoldInv`; `EndInv` gives the order of a stop: nobody stops but under an ended context, `done` is closed when the workers are gone, the channels after both |
| `BatchesStayInOrder` | `Spec => []BatchesInOrder` | `FileInv` per file: the numbers under way are those from the last passed on to the last read, each place in line below the next, the one being sent above them all. `TotalsStep` follows the totals through each step |
| `ReportsNeverBlock` | `Spec => []ErrorsNeverBlock` | `ErrorsNeverBlock` is inductive with `HoldInv`, `EndInv` and `RestInv`: `ErrorsStep` has the steps of a report, `ErrorsKept` the rest |

`HttpAdapterProofs`. The first four follow from `LinkInv`, one inductive invariant:
`PlaceInv` relates what the browser thinks of a command to where its request is,
`QueueInv` says what waits in the event loop's channel, `PollInv` that an answer
on its way is no older than what is shown, `FreshInv` that the commands accepted
before a poll was sent are done or before it in the channel, `OrderInv` that the
numbers in the channel and those handled rise but for lost ones.

| Theorem | Statement |
|---|---|
| `TypeCorrect` | `Spec => []TypeOK` |
| `CommandsStayInOrder` | `Spec => []CommandsInOrder` |
| `ReceiptsAreFresh` | `Spec => []FreshAfterReceipt` |
| `NeverShownOlder` | `Spec => SnapshotsInServerOrder` |
| `ControlKeepsToTheLink` | `LiveSpec => Spec` |
| `ControlShowsItsOwn` | `LiveSpec => []ShowsItsOwnState` |
| `WorkerPreviewHasGesture` | `LiveSpec => []PreviewHasGesture` where `Stepper = "worker"` |

The last three are about `LiveControl` and rest on `LiveInv`, which is `LinkInv` and
`HookInv`. `ShowsItsOwnState` alone is not inductive: a receipt that is refused puts an
error on display, and it has to be the latest command's. `HookInv` adds that a
pending change is the latest command, that no error stands beside a pending change
or a preview, and that a change needs a connection. `ControlKeepsToTheLink` needs
it as well, since a commit must dispatch a value of the setting for the step to be one of
`HttpAdapter`'s; with it, every theorem about `Spec` above holds of `LiveSpec`. The third
theorem is for the workers' stepper only: for the valve the formula is false
(`valve_hold_limit`). `LiveAssumption` says what the module always meant: the control's
own command is among the commands the adapter may send.

`ChannelViewProofs`: `PauseHolds`, `Spec => PauseHoldsTheView`. `ViewInv` is
needed for the states a pause is entered from: a view of a running run shows exactly the
observation a pause would freeze, what is frozen is what is shown, and pressure
moves (`active`) only under a running view. `PressureMoves` bounds one move of the pressure for any
speed and time. How long a sender may wait before it counts as blocked plays no
part, so the theorem holds for any `Noise` below `Saturation`.

`PipelineSimulationProofs`. `SimInv` is the inductive invariant, in six parts.
`StaffInv`: the senders on their way out are the last ones. `FlowInv`:
a channel holds what its totals say and fits its capacity. `BucketInv`: credit and
tokens are not overdrawn. `LineInv`: sender channel, hand, reader channel continue one
another, from the first batch not yet attempted (`FirstAttempts`) to the last
produced; this is `PipelineInOrder` split up by place, which is what an action that
moves a batch from one place to the next preserves. `BatchInv`: busy senders have different
batches, all of them attempted. `CountInv`: the counters against those sets of senders.

| Theorem | Statement | Argument |
|---|---|---|
| `TypeCorrect` | `Spec => []TypeOK` | `StaffInv`, `FlowInv`, `BucketInv` |
| `BatchesInOrder` | `Spec => []PipelineInOrder` | `LineInv`; a batch handed over past a channel without room goes behind an empty channel, because `CanHandOver` wants the hand free |
| `WorkersAlwaysAccounted` | `Spec => []WorkersAccounted` | `CountInv`, in which each change of a sender moves one element between the sets counted; `StaffInv` for the scalings |
| `RunImplemented` | `Spec => ImplementsRun` | `StepKeepsPromise`, one case per action. `HireBegins` needs `LineInv` (the batch hired is number `FirstAttempts`, and one is waiting), `CompleteSettles` needs `BatchInv` (as many batches end as workers are released), the others that no busy worker is dropped; `RunInv` that a step begun is a running simulation's |
| `StepsAlwaysEnd` | `Spec => StepsEnd` | `Effort` weighs credit 4 and a batch by the moves before it, so each time round takes at least 1: production turns credit into something lighter, a move loses weight, a first attempt leaves the sum |

`ServiceProofs`: `ReturnAlwaysExplained`, `Spec => []ReturnExplained`, from an
inductive invariant with `TypeOK` and two more parts. `ResultInv`: the result is
set exactly when the shutdown begins, and the service was stopped by a signal or by
that result. `StartInv`: the start-up run is at most one request, in the channel or
answered, and the run has left "idle" only by a client's request or by this one, so
a refusal follows a client's run. The proof about the channel is for any capacity.

`ControlScalesProofs`, about `SnapshotWire`: `ServedConfigDecodes` (what `validate` admits, `decodeConfig`
accepts) and `ServedStatusDecodes` (so is every status made of accepted settings
and of the pools' counts), for configurations and counts that are safe integers
(`SafeConfig`, `SafeStatus`); `UnsafeRangeNeverDecodes` shows that the
condition is needed, since the server has no such bound.

About `ControlScales`, for ranges and lists the server can have (`ProperRange`,
`ProperList`): `CableSendsListed`, `CableSendsFit` and `ButtonsSendFitting` (only
values that fit are sent, and none by a cable put back), `ValveShowsWhatItAsks`
(what a turned valve asks for fits, is shown at the same position once it is in
force, and grows with the turn), `WheelTurnsAlike` (the phase does not depend on
how a turn was cut up), `HandleShowsTheControl`, `NearestIsTaken` (no step of the
range, no value of the list, is nearer to what was asked for than the one taken),
`CableFollowsTheHand` (a cable over a list takes the capacity its handle was moved
to, up to half a place beside it) and `TicksFit` (every mark of a scale is at a value
the control can take). The last three are for all ranges and lists what the ASSUMEs
of `MCChannelView` evaluate on small ones. They rest on two lemmas about rounding,
`RoundIs` and `RoundIsNearest`.

### What is only model-checked

* Liveness, since the prover has no rules for ENABLED and fairness: `CallsReturn`,
  `PauseQuiesces` and `OfferedIsDelivered` of the sender pool, `FaultSurfaces` of the
  event loop, `CallsReturn`, `SourceErrorEndsRun`, `Settles` and `UninstalledPassesOn` of the stages,
  `RequestsAnswered` and `StoppedServiceEnds` of the service, `EveryCommandAnswered`,
  `Converges`, `PendingResolves`, `ScaleDownFinishes` and `PressureCatchesUp`.
* `PipelineLayout` and the ASSUMEs about it in `MCChannelView`: its legs and grids are
  built by recursion over a list of ranges, and induction over data is out of reach.

Every invariant and every action property that a passing run checks is also proved. Three
more are proved without a run of their own: `ConvergesToDesired`, `StagesAlwaysFollow` and
`ReportsNeverBlock`.

## What remains

* `ReaderStages` and `SenderPool` composed, the sender channel shared: so far each
  has the other side of that channel as something that may act at any time, which
  admits more behaviours than the composition, not fewer.
* The receiver, with which at-least-once delivery could be stated.
* Proofs: `NothingAdmittedAfterBoundary` and the accounts of `ControlPlane` meet only in
  prose; a theorem that the composition of the two keeps `AccountsBalance` needs the pool's
  `Spec` in place of `ControlPlane`'s `Deliver`. `ChipsKeepApart` for any number of workers
  is arithmetic without recursion and within the prover's reach.

## Not modelled

* Flags, the loading of the configuration and the remote commands of the CLI;
  routing and decoding of the HTTP API; receiver, developer endpoints, dashboards and
  scripts.
* A batch the target accepted but whose response was lost: the models record the
  sender's view, and the batch counts as delivered once.
* Of the telemetry, rates and their windows, blocked times, the sums of
  transactions and the reader's own counts; of the status on the wire, its rates
  and its source error.
* The source of a configuration, its target and retry policy, and its parsing; the
  lengths of backoffs and the hash behind their jitter.
* Of the simulation, the commands for the read batch size and the timeout, which
  change a number read later, and the choice of outcomes.
* Of the controls, the session of a drag (pointer capture, coalesced moves) and
  the drag of the throttler's installation; `cableYToCapacity`, which only tests
  call.
* SVG paths, styles, formatting, tooltips, viewport handling.
