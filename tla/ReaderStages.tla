----------------------------- MODULE ReaderStages -----------------------------
(***************************************************************************)
(* The stages of one run in front of the sender pool: the reader workers   *)
(* that claim files and send their batches into the reader channel, the    *)
(* throttler that takes them out and passes them on, and the event loop's  *)
(* calls reconcile, update and stop.  (src/loadgen/reader_pool.go,         *)
(* throttler.go, pipeline_runtime.go, reader_channel_telemetry.go)         *)
(*                                                                         *)
(* A section under a mutex and an operation on a channel are one action    *)
(* each.  A worker that has left the list frees its slot for another; the  *)
(* order of the list, which only says whom of several idle (or busy)       *)
(* workers a scale-down picks, is left open.  The cancellation of the run  *)
(* context reaches the pool's at once.  The sender's side of the sender    *)
(* channel is not part of this module: it takes a batch, or not, as it     *)
(* likes.                                                                  *)
(***************************************************************************)
EXTENDS Naturals, Sequences, FiniteSets

CONSTANTS
    Slots,          \* room for workers
    Targets,        \* worker counts a reconcile may ask for
    Initial,        \* worker count at startReaderPool
    NumFiles,       \* source files found
    Capacities,     \* capacities the reader channel may have
    Settings,       \* throttler settings, see below
    MaxBatches      \* bound: batches read of one file

ASSUME SlotsAssumption ==
    /\ IsFiniteSet(Slots)
    /\ Initial \in Targets
    /\ Targets \subseteq 1..Cardinality(Slots)
ASSUME BoundsAssumption ==
    /\ NumFiles \in Nat \ {0}
    /\ Capacities \subseteq Nat /\ MaxBatches \in Nat
    /\ Settings \subseteq {"off", "zero", "timed"} /\ "off" \in Settings

Files == 0..(NumFiles - 1)
NoFile == NumFiles
NoBatch == <<>>

VARIABLES
    (* readerWorker *)
    at,             \* where the goroutine in each slot stands
    file,           \* the file it has claimed
    batch,          \* the number of the batch it is sending
    draining,       \* the workers marked to leave
    (* readerPool *)
    active, nextFile, desired, stopping,
    poolEnded,      \* p.cancel() has been called
    once,           \* sourceErrorOnce: "open", "running", "done"
    errors,         \* the channel sourceErrors (capacity 1) holds the error
    closer,         \* the goroutine that closes done
    (* batches, as <<file, number>> *)
    capacity,       \* of the reader channel of this run
    channel,        \* its buffer
    read,           \* batches read of each file
    passed,         \* the last batch of each file passed on to the senders
    sent, received, \* totals of the reader channel's telemetry
    (* throttler *)
    throttler,      \* where its goroutine stands
    hand,           \* the batch it is forwarding
    settings,
    (* event loop and run context *)
    loop, wanted, runEnded

placeVars == <<at, file, batch>>
poolVars == <<active, nextFile, desired, stopping, poolEnded, once, errors, closer>>
totalVars == <<sent, received>>
flowVars == <<channel, read, passed, totalVars>>
throttlerVars == <<throttler, hand, settings, capacity>>
loopVars == <<loop, wanted, runEnded>>
vars == <<placeVars, draining, poolVars, flowVars, throttlerVars, loopVars>>

Sending == {"send", "blocked"}
Busy == Sending \union {"read", "record", "report", "cancel", "raise", "release"}
WorkerPCs == Busy \union {"free", "claim", "asleep", "leave"}
Waits == {"select", "held", "timed", "try", "blocked"}
ThrottlerPCs == Waits \union {"receive", "done"}

-------------------------------------------------------------------------------
(* ctx.Err() # nil for the pool, and len(p.workers). *)
CtxEnded == runEnded \/ poolEnded
Live == {w \in Slots : at[w] # "free"}
BusyWorkers == {w \in Slots : at[w] \in Busy}

\* available.Broadcast()
Awake(a) == IF a = "asleep" THEN "claim" ELSE a

Init ==
    /\ \E first \in SUBSET Slots :
        /\ Cardinality(first) = Initial
        /\ at = [w \in Slots |-> IF w \in first THEN "claim" ELSE "free"]
    /\ file = [w \in Slots |-> NoFile]
    /\ batch = [w \in Slots |-> 0]
    /\ draining = {}
    /\ active = {} /\ nextFile = 0
    /\ desired = Initial
    /\ stopping = FALSE /\ poolEnded = FALSE
    /\ once = "open" /\ errors = FALSE
    /\ closer = "waiting"
    /\ capacity \in Capacities /\ channel = <<>>
    /\ read = [f \in Files |-> 0] /\ passed = [f \in Files |-> 0]
    /\ sent = 0 /\ received = 0
    /\ throttler = "select" /\ hand = NoBatch
    /\ settings \in Settings /\ wanted = settings
    /\ loop = "idle" /\ runEnded = FALSE

-------------------------------------------------------------------------------
(* runWorker *)

\* Mutant: the search does not look at the claims.
AnyFile == Files

Unclaimed == Files \ active

\* The first file from the cursor on that nobody has claimed.
NextFile ==
    (nextFile + CHOOSE k \in Files :
        /\ (nextFile + k) % NumFiles \in Unclaimed
        /\ \A j \in 0..(k - 1) : (nextFile + j) % NumFiles \notin Unclaimed) % NumFiles

Dismissed(w) == stopping \/ CtxEnded \/ w \in draining

\* claimNextFile, from one Wait to the next: every wake-up looks again.
ClaimNothing(w) ==
    /\ at[w] = "claim"
    /\ Dismissed(w) \/ Unclaimed = {}
    /\ at' = [at EXCEPT ![w] = IF Dismissed(w) THEN "leave" ELSE "asleep"]
    /\ UNCHANGED <<file, batch, draining, poolVars, flowVars, throttlerVars, loopVars>>

Claim(w) ==
    /\ at[w] = "claim"
    /\ ~Dismissed(w) /\ Unclaimed # {}
    /\ at' = [at EXCEPT ![w] = "read"]
    /\ file' = [file EXCEPT ![w] = NextFile]
    /\ active' = active \union {NextFile}
    /\ nextFile' = (NextFile + 1) % NumFiles
    /\ UNCHANGED <<batch, draining, desired, stopping, poolEnded, once, errors, closer,
                   flowVars, throttlerVars, loopVars>>

\* readFile, up to the next batch, the end of the file or an error.  A file
\* that cannot be opened is an error, whatever the context.
Read(w) ==
    /\ at[w] = "read"
    /\ \/ /\ read[file[w]] < MaxBatches
          /\ read' = [read EXCEPT ![file[w]] = @ + 1]
          /\ batch' = [batch EXCEPT ![w] = read[file[w]] + 1]
          /\ at' = [at EXCEPT ![w] = "send"]
       \/ /\ \E next \in {"release", "report"} : at' = [at EXCEPT ![w] = next]
          /\ UNCHANGED <<read, batch>>
    /\ UNCHANGED <<file, draining, poolVars, channel, passed, totalVars, throttlerVars,
                   loopVars>>

\* The batch enters the buffer, or the hands of a throttler that waits for it.
Enters(b) ==
    \/ /\ Len(channel) < capacity
       /\ channel' = Append(channel, b)
       /\ UNCHANGED throttlerVars
    \/ /\ capacity = 0 /\ throttler = "select"
       /\ throttler' = "receive" /\ hand' = b
       /\ UNCHANGED <<channel, settings, capacity>>

Sent(w) ==
    /\ at[w] \in Sending
    /\ at[w] = "send" => ~CtxEnded
    /\ Enters(<<file[w], batch[w]>>)
    /\ at' = [at EXCEPT ![w] = "record"]
    /\ batch' = [batch EXCEPT ![w] = 0]
    /\ UNCHANGED <<file, draining, poolVars, read, passed, totalVars, loopVars>>

\* trySend finds neither room nor a throttler that waits already.
SendBlocks(w) ==
    /\ at[w] = "send" /\ ~CtxEnded
    /\ Len(channel) = capacity
    /\ at' = [at EXCEPT ![w] = "blocked"]
    /\ UNCHANGED <<file, batch, draining, poolVars, flowVars, throttlerVars, loopVars>>

\* The pool's context has ended before the batch was sent.
SendGivenUp(w) ==
    /\ at[w] \in Sending /\ CtxEnded
    /\ at' = [at EXCEPT ![w] = "release"]
    /\ batch' = [batch EXCEPT ![w] = 0]
    /\ UNCHANGED <<file, draining, poolVars, flowVars, throttlerVars, loopVars>>

\* recordSend comes after the send; the throttler may have recorded by then.
RecordSend(w) ==
    /\ at[w] = "record"
    /\ sent' = sent + 1
    /\ at' = [at EXCEPT ![w] = IF CtxEnded THEN "release" ELSE "read"]
    /\ UNCHANGED <<file, batch, draining, poolVars, channel, read, passed, received,
                   throttlerVars, loopVars>>

\* Mutant: no Once, every worker that meets an error sends it.
ReportEach(w) ==
    /\ at[w] = "report" /\ ~errors
    /\ errors' = TRUE
    /\ at' = [at EXCEPT ![w] = "cancel"]
    /\ UNCHANGED <<file, batch, draining, active, nextFile, desired, stopping, poolEnded, once,
                   closer, flowVars, throttlerVars, loopVars>>

\* reportSourceError: Once.Do runs for the first, the others wait for its end.
Report(w) ==
    /\ at[w] = "report" /\ once # "running"
    /\ IF once = "open"
       THEN /\ once' = "running" /\ errors' = TRUE
            /\ at' = [at EXCEPT ![w] = "cancel"]
       ELSE /\ at' = [at EXCEPT ![w] = "release"]
            /\ UNCHANGED <<once, errors>>
    /\ UNCHANGED <<file, batch, draining, active, nextFile, desired, stopping, poolEnded,
                   closer, flowVars, throttlerVars, loopVars>>

CancelPool(w) ==
    /\ at[w] = "cancel"
    /\ poolEnded' = TRUE
    /\ at' = [at EXCEPT ![w] = "raise"]
    /\ UNCHANGED <<file, batch, draining, active, nextFile, desired, stopping, once, errors,
                   closer, flowVars, throttlerVars, loopVars>>

RaiseStopping(w) ==
    /\ at[w] = "raise"
    /\ stopping' = TRUE /\ once' = "done"
    /\ at' = [v \in Slots |-> IF v = w THEN "release" ELSE Awake(at[v])]
    /\ UNCHANGED <<file, batch, draining, active, nextFile, desired, poolEnded, errors,
                   closer, flowVars, throttlerVars, loopVars>>

ReleaseFile(w) ==
    /\ at[w] = "release"
    /\ active' = active \ {file[w]}
    /\ file' = [file EXCEPT ![w] = NoFile]
    /\ at' = [v \in Slots |->
                 IF v = w THEN IF CtxEnded THEN "leave" ELSE "claim" ELSE Awake(at[v])]
    /\ UNCHANGED <<batch, draining, nextFile, desired, stopping, poolEnded, once, errors,
                   closer, flowVars, throttlerVars, loopVars>>

\* Mutant: a worker that was asked to leave is never replaced.
ReplacedUnlessDraining(w) ==
    /\ ~stopping /\ ~CtxEnded /\ w \notin draining
    /\ Cardinality(Live \ {w}) < desired

Replaced(w) == ~stopping /\ ~CtxEnded /\ Cardinality(Live \ {w}) < desired

\* The deferred section: the worker leaves the list, and another takes its
\* place when a reconcile has come to want it meanwhile.
Leave(w) ==
    /\ at[w] = "leave"
    /\ at' = [at EXCEPT ![w] = IF Replaced(w) THEN "claim" ELSE "free"]
    /\ draining' = draining \ {w}
    /\ UNCHANGED <<file, batch, poolVars, flowVars, throttlerVars, loopVars>>

WorkerStep(w) ==
    \/ ClaimNothing(w) \/ Claim(w) \/ Read(w)
    \/ Sent(w) \/ SendBlocks(w) \/ SendGivenUp(w) \/ RecordSend(w)
    \/ Report(w) \/ CancelPool(w) \/ RaiseStopping(w)
    \/ ReleaseFile(w) \/ Leave(w)

-------------------------------------------------------------------------------
(* The goroutine started with the pool: wakes everybody, waits for all. *)

CloserRaises ==
    /\ closer = "waiting" /\ CtxEnded
    /\ closer' = "joining" /\ stopping' = TRUE
    /\ at' = [w \in Slots |-> Awake(at[w])]
    /\ UNCHANGED <<file, batch, draining, active, nextFile, desired, poolEnded, once, errors,
                   flowVars, throttlerVars, loopVars>>

CloserJoins ==
    /\ closer = "joining" /\ Live = {}
    /\ closer' = "done"
    /\ UNCHANGED <<placeVars, draining, active, nextFile, desired, stopping, poolEnded, once,
                   errors, flowVars, throttlerVars, loopVars>>

CloserStep == CloserRaises \/ CloserJoins

-------------------------------------------------------------------------------
(* The throttler *)

Receive ==
    /\ throttler = "select" /\ channel # <<>>
    /\ throttler' = "receive"
    /\ hand' = Head(channel) /\ channel' = Tail(channel)
    /\ UNCHANGED <<placeVars, draining, poolVars, read, passed, totalVars, settings, capacity,
                   loopVars>>

\* Mutant: an uninstalled throttler waits for the interval as well.
TopUninstalledTimed(setting) ==
    IF setting = "zero" THEN {"held"} ELSE {"timed", "try"}

\* The top of forwardBatch's loop.  At a high rate or after a long wait for
\* the processor the interval may have passed already.
Top(setting) ==
    CASE setting = "zero" -> {"held"}
      [] setting = "timed" -> {"timed", "try"}
      [] OTHER -> {"try"}

RecordReceive ==
    /\ throttler = "receive"
    /\ throttler' \in Top(settings) /\ received' = received + 1
    /\ UNCHANGED <<placeVars, draining, poolVars, channel, read, passed, sent, hand, settings,
                   capacity, loopVars>>

TimerFires ==
    /\ throttler = "timed"
    /\ throttler' = "try"
    /\ UNCHANGED <<placeVars, draining, poolVars, flowVars, hand, settings, capacity, loopVars>>

\* Neither room nor a sender that waits already.
ForwardBlocks ==
    /\ throttler = "try" /\ ~runEnded
    /\ throttler' = "blocked"
    /\ UNCHANGED <<placeVars, draining, poolVars, flowVars, hand, settings, capacity, loopVars>>

PassOn ==
    /\ throttler \in {"try", "blocked"}
    /\ throttler' = "select"
    /\ passed' = [passed EXCEPT ![hand[1]] = hand[2]]
    /\ hand' = NoBatch
    /\ UNCHANGED <<placeVars, draining, poolVars, channel, read, totalVars, settings, capacity,
                   loopVars>>

\* Mutant: an update taken while a batch waits goes back to the outer select.
AfterUpdateForgets == {"select"}

\* Where an update leaves the throttler: the batch in hand waits afresh.
AfterUpdate == IF throttler = "select" THEN {"select"} ELSE Top(wanted)

\* Mutant: a throttler held at rate zero waits for the end of the run only.
HearsUnlessHeld == throttler \in Waits \ {"held"}

Hears == throttler \in Waits

TakeUpdate ==
    /\ loop = "update" /\ Hears
    /\ settings' = wanted /\ loop' = "idle"
    /\ throttler' \in AfterUpdate
    /\ UNCHANGED <<placeVars, draining, poolVars, flowVars, hand, capacity, wanted, runEnded>>

ThrottlerEnds ==
    /\ throttler \in Waits /\ runEnded
    /\ throttler' = "done" /\ hand' = NoBatch
    /\ UNCHANGED <<placeVars, draining, poolVars, flowVars, settings, capacity, loopVars>>

ThrottlerStep ==
    Receive \/ RecordReceive \/ TimerFires \/ ForwardBlocks \/ TakeUpdate \/ ThrottlerEnds

-------------------------------------------------------------------------------
(* The event loop *)

\* Workers left over are marked to leave, idle ones first; missing ones start.
Reconcile(n) ==
    /\ loop = "idle" /\ ~stopping /\ ~CtxEnded
    /\ desired' = n
    /\ \E surplus \in SUBSET Live, new \in SUBSET (Slots \ Live) :
        /\ IF Cardinality(Live) > n
           THEN Cardinality(Live \ surplus) = n /\ new = {}
           ELSE surplus = {} /\ Cardinality(Live \union new) = n
        /\ surplus \intersect BusyWorkers = {} \/ Live \ surplus \subseteq BusyWorkers
        /\ draining' = surplus
        /\ at' = [w \in Slots |-> IF w \in new THEN "claim" ELSE Awake(at[w])]
    /\ UNCHANGED <<file, batch, active, nextFile, stopping, poolEnded, once, errors, closer,
                   flowVars, throttlerVars, loopVars>>

\* A new rate or mode: update waits for the throttler to take it ...
SetThrottle(s) ==
    /\ loop = "idle"
    /\ s = "zero" => wanted # s
    /\ wanted' = s /\ loop' = "update"
    /\ UNCHANGED <<placeVars, draining, poolVars, flowVars, throttlerVars, runEnded>>

\* ... or to have ended.
UpdateUnheard ==
    /\ loop = "update" /\ throttler = "done"
    /\ loop' = "idle"
    /\ UNCHANGED <<placeVars, draining, poolVars, flowVars, throttlerVars, wanted, runEnded>>

\* The first source error, or a reset or the exit, stops the runtime.
TakeError ==
    /\ loop = "idle" /\ errors
    /\ errors' = FALSE /\ loop' = "stopping"
    /\ UNCHANGED <<placeVars, draining, active, nextFile, desired, stopping, poolEnded, once,
                   closer, flowVars, throttlerVars, wanted, runEnded>>

StopRun ==
    /\ loop = "idle"
    /\ loop' = "stopping"
    /\ UNCHANGED <<placeVars, draining, poolVars, flowVars, throttlerVars, wanted, runEnded>>

\* stopSender has returned: cancelRun, and the waits for the two stages.
CancelRun ==
    /\ loop = "stopping"
    /\ loop' = "joinReaders" /\ runEnded' = TRUE
    /\ UNCHANGED <<placeVars, draining, poolVars, flowVars, throttlerVars, wanted>>

JoinReaders ==
    /\ loop = "joinReaders" /\ closer = "done"
    /\ loop' = "joinThrottler"
    /\ UNCHANGED <<placeVars, draining, poolVars, flowVars, throttlerVars, wanted, runEnded>>

\* closeAndDrain, and detach of the telemetry.
CloseChannels ==
    /\ loop = "joinThrottler" /\ throttler = "done"
    /\ loop' = "closed" /\ channel' = <<>>
    /\ sent' = 0 /\ received' = 0
    /\ UNCHANGED <<placeVars, draining, poolVars, read, passed, throttlerVars,
                   wanted, runEnded>>

\* The service's own context, parent of the run's, is cancelled.
ContextEnds ==
    /\ ~runEnded
    /\ runEnded' = TRUE
    /\ UNCHANGED <<placeVars, draining, poolVars, flowVars, throttlerVars, loop, wanted>>

Closed == loop = "closed" /\ UNCHANGED vars

Operator == (\E n \in Targets : Reconcile(n)) \/ (\E s \in Settings : SetThrottle(s))
LoopStep == UpdateUnheard \/ CancelRun \/ JoinReaders \/ CloseChannels

Next ==
    \/ \E w \in Slots : WorkerStep(w)
    \/ CloserStep
    \/ ThrottlerStep \/ PassOn
    \/ Operator \/ TakeError \/ StopRun \/ LoopStep
    \/ ContextEnds \/ Closed

Spec == Init /\ [][Next]_vars

(* Go runs every runnable goroutine and a timer fires; the event loop's    *)
(* select picks at random, so a case that stays ready or comes back is not *)
(* passed over for ever, however many commands come.  That a sender takes  *)
(* a batch is not assumed.  Each subscript is what every such step         *)
(* changes.                                                               *)
Fairness ==
    /\ \A w \in Slots : WF_at(WorkerStep(w))
    /\ WF_closer(CloserStep) /\ WF_<<throttler, loop>>(ThrottlerStep) /\ WF_loop(LoopStep)
    /\ SF_loop(TakeError \/ (runEnded /\ StopRun))

FairSpec == Spec /\ Fairness

-------------------------------------------------------------------------------
(* Properties *)

Batches == Files \X (1..MaxBatches)

TypeOK ==
    /\ at \in [Slots -> WorkerPCs]
    /\ file \in [Slots -> Files \union {NoFile}]
    /\ batch \in [Slots -> 0..MaxBatches]
    /\ draining \subseteq Live
    /\ active \subseteq Files /\ nextFile \in 0..NumFiles
    /\ desired \in Targets
    /\ stopping \in BOOLEAN /\ poolEnded \in BOOLEAN /\ runEnded \in BOOLEAN
    /\ once \in {"open", "running", "done"} /\ errors \in BOOLEAN
    /\ closer \in {"waiting", "joining", "done"}
    /\ capacity \in Capacities
    /\ channel \in Seq(Batches) /\ Len(channel) <= capacity
    /\ read \in [Files -> 0..MaxBatches] /\ passed \in [Files -> 0..MaxBatches]
    /\ sent \in Nat /\ received \in Nat
    /\ throttler \in ThrottlerPCs /\ hand \in Batches \union {NoBatch}
    /\ settings \in Settings /\ wanted \in Settings
    /\ loop \in {"idle", "update", "stopping", "joinReaders", "joinThrottler", "closed"}

(* A file is read by one worker at a time, and p.active names exactly the  *)
(* files being read; when the channels are closed, no worker and no        *)
(* throttler is left to send into them, nor can one start.                 *)
ReadersAccounted ==
    /\ active = {file[w] : w \in BusyWorkers}
    /\ \A v, w \in BusyWorkers : file[v] = file[w] => v = w
    /\ loop = "closed" => Live = {} /\ throttler = "done" /\ stopping

(* The batches between the readers and the senders, the oldest first, and  *)
(* the workers that are about to send one more.                            *)
Line == (IF hand = NoBatch THEN <<>> ELSE <<hand>>) \o channel
Offering(f) == {w \in Slots : at[w] \in Sending /\ file[w] = f}

Number(i) == Line[i][2]
Of(f) == {i \in DOMAIN Line : Line[i][1] = f}
Underway(f) == {Number(i) : i \in Of(f)} \union {batch[w] : w \in Offering(f)}

\* Batches of one file are in line in the order they were read, ...
OrderKept ==
    \A f \in Files : \A i \in Of(f) :
        /\ \A j \in Of(f) : i < j => Number(i) < Number(j)
        /\ \A w \in Offering(f) : Number(i) < batch[w]

\* ... none is missing and none there twice before the context ends, ...
NoneMissing == ~CtxEnded => \A f \in Files : Underway(f) = (passed[f] + 1)..read[f]

\* ... and the totals of the channel differ by what is in it and by the sends
\* and receipts that are not recorded yet.
TotalsAgree ==
    sent + Cardinality({w \in Slots : at[w] = "record"})
        = received + Len(channel) + (IF throttler = "receive" THEN 1 ELSE 0)

(* However often workers and settings change, batches of one file reach    *)
(* the senders in the order they were read, none lost or repeated before   *)
(* the end of the context; what the telemetry shows of the channel may run *)
(* ahead on the receiver's side by no more than the workers still to       *)
(* record.                                                                 *)
BatchesInOrder == OrderKept /\ NoneMissing /\ TotalsAgree

(* The event loop always comes back from handing over settings and from    *)
(* stopping a run, also with senders that take nothing more.               *)
Calling == loop \in {"update", "stopping", "joinReaders", "joinThrottler"}
CallsReturn == Calling ~> ~Calling

(* reportSourceError blocks nobody for good: the one worker whose error is  *)
(* sent finds the channel empty, and whoever waits in Do waits for a worker *)
(* that is at work inside it; when that one is out, the pool has ended and  *)
(* everybody has been told.                                                 *)
Inside == {w \in Slots : at[w] \in {"cancel", "raise"}}
ErrorsNeverBlock ==
    /\ once = "open" => ~errors /\ ~poolEnded /\ Inside = {}
    /\ once = "running" => \E w \in Slots : Inside = {w}
    /\ once = "done" => poolEnded /\ stopping /\ Inside = {}

(* An error of a source ends the run, whoever meets it: the first, or one   *)
(* whose error is discarded while another's is reported, or while the run   *)
(* is scaled down or stopped.                                               *)
SourceErrorEndsRun == (\E w \in Slots : at[w] = "report") ~> loop = "closed"

(* An uninstalled throttler limits nothing: with senders that take what is  *)
(* offered for ever, no batch stays in its hands, however many updates it   *)
(* is given meanwhile.                                                      *)
UninstalledPassesOn ==
    WF_vars(PassOn) /\ <>[](settings = "off" /\ ~runEnded) => []<>(hand = NoBatch)

(* Once the operator leaves a run alone that has a rate and senders that   *)
(* take batches, it has the workers asked for and none that still drains,  *)
(* and every batch the throttler takes is passed on.                       *)
Settles ==
    /\ <>[][~Operator]_vars
    /\ <>[](settings # "zero" /\ ~CtxEnded)
    /\ []<>(throttler # "blocked")
    => /\ <>[](Cardinality(Live) = desired /\ draining = {})
       /\ []<>(hand = NoBatch)
===============================================================================
