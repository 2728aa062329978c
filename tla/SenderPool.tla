------------------------------ MODULE SenderPool ------------------------------
(***************************************************************************)
(* The sender pool of one pipeline run: the intake goroutine that takes    *)
(* batches from the sender channel, the sender workers that deliver them   *)
(* over HTTP, and the event loop's calls reconcile, pause, resumeRun and   *)
(* stop.  (src/loadgen/sender_pool.go, sender_http.go)                     *)
(*                                                                         *)
(* Every section under pool.mu is one action.  A sync.Cond wait is a state *)
(* of its own ("asleep", "starved") left only by a Broadcast, so a missing *)
(* wake-up shows.  intakeMu is held exactly while intake is in IntakeHolds *)
(* or within StopBoundary.  Worker identities are 1, 2, ... in the order   *)
(* of startWorkerLocked, so the order of pool.workers is the order of      *)
(* identities.  Batches are 1, 2, ... in channel order.                    *)
(***************************************************************************)
EXTENDS Integers, FiniteSets

CONSTANTS
    Targets,        \* worker counts a reconcile may ask for
    Initial,        \* worker count at startSenderPool
    Capacity,       \* capacity of the sender channel
    MaxBatches,     \* bound: batches the throttler offers
    MaxStarts       \* bound: workers started over the life of the pool

ASSUME TargetsAssumption == Targets \subseteq (Nat \ {0}) /\ Initial \in Targets
ASSUME BoundsAssumption ==
    /\ Capacity \in Nat
    /\ MaxBatches \in Nat
    /\ MaxStarts \in Nat /\ Initial <= MaxStarts

Workers == 1..MaxStarts
Batches == 1..MaxBatches
NoBatch == 0

VARIABLES
    (* senderWorker, one entry per worker identity *)
    pc,             \* where the goroutine of the worker stands
    work,           \* content of the work channel (capacity 1), or NoBatch
    batch,          \* the batch the goroutine is serving, or NoBatch
    busy, backoff, draining,
    wake,           \* a token in the wake channel (capacity 1)
    due,            \* the backoff deadline has passed
    (* senderPool *)
    started,        \* workers started so far
    intake,         \* where the intake goroutine stands
    desired, stopping,
    paused,         \* pool.resume # nil
    cancelled,      \* ctx.Err() # nil
    (* sender channel and its blocked sender: the batches received+1 .. offered *)
    offered, received,
    (* the event loop inside a call of the pool *)
    control,        \* "idle", "joining", "cancelled", "boundary", "joined"
    joinSet,        \* idleDraining of the reconcile in progress
    (* accounting *)
    completed,      \* terminallyCompletedTransactionsSinceTick, never swapped
    settled         \* history: how the service of each batch ended

placeVars == <<pc, work, batch>>
flagVars == <<busy, backoff, draining>>
wakeVars == <<wake, due>>
workerVars == <<placeVars, flagVars, wakeVars, started>>
runVars == <<desired, stopping, paused, cancelled>>
poolVars == <<intake, runVars>>
channelVars == <<offered, received>>
controlVars == <<control, joinSet>>
accountVars == <<completed, settled>>
outerVars == <<channelVars, controlVars, accountVars>>
vars == <<workerVars, poolVars, outerVars>>

Serving == {"begin", "gate", "gated", "ready", "flight", "sleep", "success", "finish"}
Running == Serving \union {"top", "select"}
WorkerPCs == Running \union {"unborn", "exit", "leave", "gone"}
IntakePCs == {"check", "asleep", "lock", "recv", "assign", "starved", "done"}
IntakeHolds == {"recv", "assign", "starved"}

-------------------------------------------------------------------------------
(* pool.workers, and the counts the code takes over it. *)
Live == {w \in Workers : pc[w] \in Running \union {"exit"}}
Active == {w \in Live : ~draining[w]}
Available == {w \in Active : ~busy[w]}

\* availableWorkerLocked: the first one in list order.
FirstAvailable(w) == w \in Available /\ \A v \in Available : w <= v

\* available.Broadcast(): the intake goroutine re-evaluates its condition.
Roused(i) == CASE i = "asleep" -> "check"
               [] i = "starved" -> "assign"
               [] OTHER -> i

\* The non-blocking sends to the wake channels of every listed worker.
AllWoken == [w \in Workers |-> wake[w] \/ w \in Live]

InHand(b) == intake \in {"assign", "starved"} /\ b = received

-------------------------------------------------------------------------------
(* The pool as startSenderPool leaves it: reconcile(workers) has started   *)
(* the first workers and the intake goroutine runs.                        *)
Init ==
    /\ pc = [w \in Workers |-> IF w <= Initial THEN "top" ELSE "unborn"]
    /\ work = [w \in Workers |-> NoBatch]
    /\ batch = [w \in Workers |-> NoBatch]
    /\ busy = [w \in Workers |-> FALSE]
    /\ backoff = [w \in Workers |-> FALSE]
    /\ draining = [w \in Workers |-> FALSE]
    /\ wake = [w \in Workers |-> FALSE]
    /\ due = [w \in Workers |-> FALSE]
    /\ started = Initial
    /\ intake = "check"
    /\ desired = Initial
    /\ stopping = FALSE
    /\ paused = FALSE
    /\ cancelled = FALSE
    /\ offered = 0
    /\ received = 0
    /\ control = "idle"
    /\ joinSet = {}
    /\ completed = 0
    /\ settled = [b \in Batches |-> "open"]

(* The throttler begins to send one more batch: the channel buffers up to   *)
(* Capacity of them and the throttler itself holds the next, blocked.       *)
Offer ==
    /\ offered < MaxBatches
    /\ offered - received <= Capacity
    /\ offered' = offered + 1
    /\ UNCHANGED <<workerVars, poolVars, received, controlVars, accountVars>>

(* The run context, parent of the pool's, is cancelled from outside. *)
ParentCancel ==
    /\ ~cancelled
    /\ cancelled' = TRUE
    /\ UNCHANGED <<workerVars, intake, desired, stopping, paused, outerVars>>

-------------------------------------------------------------------------------
(* runIntake *)

\* Under mu: wait for an available worker or for the end of the context.
IntakeCheck ==
    /\ intake = "check"
    /\ intake' = IF Available # {} \/ cancelled THEN "lock" ELSE "asleep"
    /\ UNCHANGED <<workerVars, runVars, outerVars>>

\* Take intakeMu, and re-check the context behind it.
IntakeAdmit ==
    /\ intake = "lock"
    /\ intake' = IF cancelled THEN "done" ELSE "recv"
    /\ UNCHANGED <<workerVars, runVars, outerVars>>

\* The select, when the context ended: release intakeMu and return.
IntakeCancelled ==
    /\ intake = "recv"
    /\ cancelled
    /\ intake' = "done"
    /\ UNCHANGED <<workerVars, runVars, outerVars>>

\* A batch in the channel, or in the hand of its blocked sender.
BatchReady == received < offered

\* The select, when a batch is ready; it may win against an ended context.
IntakeReceive ==
    /\ intake = "recv"
    /\ BatchReady
    /\ received' = received + 1
    /\ intake' = "assign"
    /\ UNCHANGED <<workerVars, runVars, offered, controlVars, accountVars>>

\* Mutant: the loop over workers goes on after the hand-over.
IntakeAssignTwice ==
    /\ intake = "assign"
    /\ \E w \in Workers :
         /\ FirstAvailable(w)
         /\ busy' = [busy EXCEPT ![w] = TRUE]
         /\ work' = [work EXCEPT ![w] = received]
    /\ intake' = IF Cardinality(Available) = 1 THEN "check" ELSE "assign"
    /\ UNCHANGED <<pc, batch, backoff, draining, wakeVars, started, runVars, outerVars>>

\* Under mu: hand the batch to the first available worker, release intakeMu.
IntakeAssign ==
    /\ intake = "assign"
    /\ \E w \in Workers :
         /\ FirstAvailable(w)
         /\ busy' = [busy EXCEPT ![w] = TRUE]
         /\ work' = [work EXCEPT ![w] = received]
    /\ intake' = "check"
    /\ UNCHANGED <<pc, batch, backoff, draining, wakeVars, started, runVars, outerVars>>

\* Under mu: no worker is available, wait for a Broadcast with intakeMu held.
IntakeStarve ==
    /\ intake = "assign"
    /\ Available = {}
    /\ intake' = "starved"
    /\ UNCHANGED <<workerVars, runVars, outerVars>>

IntakeStep == IntakeCheck \/ IntakeAdmit \/ IntakeCancelled \/ IntakeReceive
                 \/ IntakeAssign \/ IntakeStarve

-------------------------------------------------------------------------------
(* runWorker *)

Goto(w, to) == pc' = [pc EXCEPT ![w] = to]

TakeBatch(w) ==
    /\ work[w] # NoBatch
    /\ batch' = [batch EXCEPT ![w] = work[w]]
    /\ work' = [work EXCEPT ![w] = NoBatch]
    /\ Goto(w, "begin")

\* Mutant: the flags are looked at before the work channel.
WorkerTopFlagsFirst(w) ==
    /\ pc[w] = "top"
    /\ IF stopping \/ draining[w]
       THEN Goto(w, "exit") /\ UNCHANGED <<work, batch>>
       ELSE \/ TakeBatch(w)
            \/ /\ work[w] = NoBatch
               /\ Goto(w, "select")
               /\ UNCHANGED <<work, batch>>
    /\ UNCHANGED <<flagVars, wakeVars, started, poolVars, outerVars>>

\* Under mu, at the head of the loop: an accepted batch first, whatever the
\* flags say; otherwise decide to leave or to wait.
WorkerTop(w) ==
    /\ pc[w] = "top"
    /\ \/ /\ TakeBatch(w)
       \/ /\ work[w] = NoBatch
          /\ Goto(w, IF stopping \/ draining[w] THEN "exit" ELSE "select")
          /\ UNCHANGED <<work, batch>>
    /\ UNCHANGED <<flagVars, wakeVars, started, poolVars, outerVars>>

\* The select on wake and work, without mu.
WorkerSelect(w) ==
    /\ pc[w] = "select"
    /\ \/ /\ TakeBatch(w)
          /\ UNCHANGED wake
       \/ /\ wake[w]
          /\ wake' = [wake EXCEPT ![w] = FALSE]
          /\ Goto(w, "top")
          /\ UNCHANGED <<work, batch>>
    /\ UNCHANGED <<flagVars, due, started, poolVars, outerVars>>

\* processBatch, the head of the loop over attempts.
BeginAttempt(w) ==
    /\ pc[w] = "begin"
    /\ backoff' = [backoff EXCEPT ![w] = FALSE]
    /\ Goto(w, "gate")
    /\ UNCHANGED <<work, batch, busy, draining, wakeVars, started, poolVars, outerVars>>

\* Mutant: the end of the context is taken for a failed attempt.
DropRetried(w) ==
    /\ cancelled
    /\ Goto(w, "begin")
    /\ UNCHANGED settled

\* processBatch returns false: the batch ends unsent, because of ctx.
Drop(w) ==
    /\ cancelled
    /\ settled' = [settled EXCEPT ![batch[w]] = "dropped"]
    /\ Goto(w, "finish")

\* waitUntilRunnable under mu, called before an attempt (~backoff) and in
\* waitBackoff (backoff), where the deadline is read right after it.
GateCheck(w) ==
    /\ pc[w] = "gate"
    /\ \/ /\ Drop(w)
          /\ UNCHANGED due
       \/ /\ ~cancelled /\ paused
          /\ Goto(w, "gated")
          /\ UNCHANGED <<due, settled>>
       \/ /\ ~cancelled /\ ~paused /\ ~backoff[w]
          /\ Goto(w, "ready")
          /\ UNCHANGED <<due, settled>>
       \/ /\ ~cancelled /\ ~paused /\ backoff[w]
          /\ Goto(w, IF due[w] THEN "begin" ELSE "sleep")
          /\ due' = [due EXCEPT ![w] = FALSE]
          /\ UNCHANGED settled
    /\ UNCHANGED <<work, batch, flagVars, wake, started, poolVars, channelVars, controlVars,
                   completed>>

\* The select on ctx.Done and on the resume channel read under mu; the close
\* of that channel is ResumeRun, which moves the worker back to the gate.
GateCancelled(w) ==
    /\ pc[w] = "gated"
    /\ Drop(w)
    /\ UNCHANGED <<work, batch, flagVars, wakeVars, started, poolVars, channelVars,
                   controlVars, completed>>

\* waitBackoff's select: ctx.Done, the wake channel, or the timer.
BackoffSelect(w) ==
    /\ pc[w] = "sleep"
    /\ \/ /\ Drop(w)
          /\ UNCHANGED wake
       \/ /\ wake[w]
          /\ wake' = [wake EXCEPT ![w] = FALSE]
          /\ Goto(w, "gate")
          /\ UNCHANGED settled
       \/ /\ due[w]
          /\ Goto(w, "gate")
          /\ UNCHANGED <<wake, settled>>
    /\ UNCHANGED <<work, batch, flagVars, due, started, poolVars, channelVars, controlVars,
                   completed>>

\* The retry deadline passes, also while the gate holds the worker.
DeadlinePasses(w) ==
    /\ backoff[w] /\ pc[w] \in {"gate", "gated", "sleep"}
    /\ ~due[w]
    /\ due' = [due EXCEPT ![w] = TRUE]
    /\ UNCHANGED <<placeVars, flagVars, wake, started, poolVars, outerVars>>

\* The HTTP request leaves; no lock is held and nothing is re-checked.
AttemptStarts(w) ==
    /\ pc[w] = "ready"
    /\ Goto(w, "flight")
    /\ UNCHANGED <<work, batch, flagVars, wakeVars, started, poolVars, outerVars>>

\* senderHTTPAttempt.deliver: 204 with its body read.
AttemptSucceeds(w) ==
    /\ pc[w] = "flight"
    /\ settled' = [settled EXCEPT ![batch[w]] = "delivered"]
    /\ Goto(w, "success")
    /\ UNCHANGED <<work, batch, flagVars, wakeVars, started, poolVars, channelVars,
                   controlVars, completed>>

\* Mutant: the slot is free while its batch backs off.
AttemptFailsFreeing(w) ==
    /\ pc[w] = "flight"
    /\ backoff' = [backoff EXCEPT ![w] = TRUE]
    /\ busy' = [busy EXCEPT ![w] = FALSE]
    /\ Goto(w, "gate")
    /\ UNCHANGED <<work, batch, draining, wakeVars, started, poolVars, outerVars>>

\* Mutant: a failed attempt is repeated at once.
AttemptFailsRepeating(w) ==
    /\ pc[w] = "flight"
    /\ Goto(w, "ready")
    /\ UNCHANGED <<work, batch, flagVars, wakeVars, started, poolVars, outerVars>>

\* Any other status, a transport error, an unread body; then, under mu, the
\* worker is marked as backing off and its deadline is set.
AttemptFails(w) ==
    /\ pc[w] = "flight"
    /\ backoff' = [backoff EXCEPT ![w] = TRUE]
    /\ Goto(w, "gate")
    /\ UNCHANGED <<work, batch, busy, draining, wakeVars, started, poolVars, outerVars>>

\* A transport error with the context ended.
AttemptCancelled(w) ==
    /\ pc[w] = "flight"
    /\ Drop(w)
    /\ UNCHANGED <<work, batch, flagVars, wakeVars, started, poolVars, channelVars,
                   controlVars, completed>>

\* The atomic add of finishAcceptedBatch, outside mu; one unit per batch.
CountCompleted(w) ==
    /\ pc[w] = "success"
    /\ completed' = completed + 1
    /\ Goto(w, "finish")
    /\ UNCHANGED <<work, batch, flagVars, wakeVars, started, poolVars, channelVars,
                   controlVars, settled>>

\* The rest of finishAcceptedBatch, under mu.
FinishAcceptedBatch(w) ==
    /\ pc[w] = "finish"
    /\ busy' = [busy EXCEPT ![w] = FALSE]
    /\ backoff' = [backoff EXCEPT ![w] = FALSE]
    /\ batch' = [batch EXCEPT ![w] = NoBatch]
    /\ due' = [due EXCEPT ![w] = FALSE]
    /\ Goto(w, "top")
    /\ intake' = Roused(intake)
    /\ UNCHANGED <<work, draining, wake, started, runVars, outerVars>>

\* Mutant: the leaving worker is counted as well.
NeedsReplacementSelfCounted(w) ==
    /\ ~stopping
    /\ ~draining[w]
    /\ Cardinality(Active) < desired

\* workerExited leaves the list this short of desired.
NeedsReplacement(w) ==
    /\ ~stopping
    /\ ~draining[w]
    /\ Cardinality(Active \ {w}) < desired

\* workerExited, under mu: leave pool.workers, start a replacement if a
\* worker that had decided to leave has been made active again meanwhile.
WorkerExited(w) ==
    /\ pc[w] = "exit"
    /\ \/ /\ NeedsReplacement(w)
          /\ started < MaxStarts
          /\ started' = started + 1
          /\ pc' = [pc EXCEPT ![w] = "leave", ![started + 1] = "top"]
       \/ /\ ~NeedsReplacement(w)
          /\ Goto(w, "leave")
          /\ UNCHANGED started
    /\ intake' = Roused(intake)
    /\ UNCHANGED <<work, batch, flagVars, wakeVars, runVars, outerVars>>

\* close(worker.done), wg.Done().
WorkerDone(w) ==
    /\ pc[w] = "leave"
    /\ Goto(w, "gone")
    /\ UNCHANGED <<work, batch, flagVars, wakeVars, started, poolVars, outerVars>>

AttemptEnds(w) == AttemptSucceeds(w) \/ AttemptFails(w) \/ AttemptCancelled(w)

\* What the worker does on its own; the end of an attempt is the target's and
\* the end of a delay the clock's.
WorkerStep(w) ==
    \/ WorkerTop(w) \/ WorkerSelect(w) \/ BeginAttempt(w) \/ GateCheck(w)
    \/ GateCancelled(w) \/ BackoffSelect(w) \/ AttemptStarts(w)
    \/ CountCompleted(w) \/ FinishAcceptedBatch(w)
    \/ WorkerExited(w) \/ WorkerDone(w)

-------------------------------------------------------------------------------
(* The calls of the event loop, one at a time: it is one goroutine. *)

\* Scale down: the last active workers of the list retire.
Retired(retire, d) ==
    /\ retire \subseteq Active
    /\ \A v \in retire : \A w \in Active \ retire : w < v
    /\ IF Cardinality(Active) > d
       THEN Cardinality(Active) - Cardinality(retire) = d
       ELSE retire = {}

\* Scale up: every draining worker is made active again, whatever d is.
Revived(d) == IF Cardinality(Active) < d THEN Live \ Active ELSE {}

\* Mutant: the workers made active again are not counted.
MissingUnrevived(d) ==
    LET active == Cardinality(Active)
    IN  IF active < d THEN d - active ELSE 0

\* The workers the last loop of reconcile starts.
Missing(d) ==
    LET active == Cardinality(Active) + Cardinality(Revived(d))
    IN  IF active < d THEN d - active ELSE 0

\* Bound: room for the starts of this call, and for the replacements of the
\* workers that already decided to leave.
RoomFor(d) ==
    started + Missing(d) + Cardinality({w \in Workers : pc[w] = "exit"}) <= MaxStarts

\* The workers reconcile waits for, once the flags are set: the busy ones
\* leave in their own time.
IdleDraining == {w \in Live : draining'[w] /\ ~busy[w]}

Reconcile(d) ==
    /\ control = "idle"
    /\ ~stopping
    /\ RoomFor(d)
    /\ desired' = d
    /\ \E retire \in SUBSET Active :
         /\ Retired(retire, d)
         /\ draining' = [w \in Workers |-> \/ w \in retire
                                           \/ draining[w] /\ w \notin Revived(d)]
    /\ joinSet' = IdleDraining
    /\ wake' = AllWoken
    /\ started' = started + Missing(d)
    /\ pc' = [w \in Workers |-> IF w \in (started + 1)..(started + Missing(d))
                                THEN "top" ELSE pc[w]]
    /\ intake' = Roused(intake)
    /\ control' = "joining"
    /\ UNCHANGED <<work, batch, busy, backoff, due, stopping, paused, cancelled,
                   channelVars, accountVars>>

\* The end of reconcile: the done channels of idleDraining are all closed.
ReconcileReturns ==
    /\ control = "joining"
    /\ \A w \in joinSet : pc[w] = "gone"
    /\ control' = "idle"
    /\ joinSet' = {}
    /\ UNCHANGED <<workerVars, poolVars, channelVars, accountVars>>

Pause ==
    /\ control = "idle"
    /\ ~paused /\ ~stopping
    /\ paused' = TRUE
    /\ wake' = AllWoken
    /\ UNCHANGED <<placeVars, flagVars, due, started, intake, desired, stopping, cancelled,
                   outerVars>>

\* Mutant: the resume channel is dropped without being closed.
ResumeRunUnclosed ==
    /\ control = "idle"
    /\ paused
    /\ paused' = FALSE
    /\ UNCHANGED <<workerVars, intake, desired, stopping, cancelled, outerVars>>

\* Closing the resume channel releases every worker that waits on it.
ResumeRun ==
    /\ control = "idle"
    /\ paused
    /\ paused' = FALSE
    /\ pc' = [w \in Workers |-> IF pc[w] = "gated" THEN "gate" ELSE pc[w]]
    /\ UNCHANGED <<work, batch, flagVars, wakeVars, started, intake, desired, stopping,
                   cancelled, outerVars>>

\* stop(): first p.cancel() ...
StopCancel ==
    /\ control = "idle"
    /\ cancelled' = TRUE
    /\ control' = "cancelled"
    /\ UNCHANGED <<workerVars, intake, desired, stopping, paused, channelVars, joinSet,
                   accountVars>>

\* Mutant: the boundary is set without intakeMu.
IntakeMuIgnored == TRUE

\* intakeMu, by where the intake goroutine stands.
IntakeMuFree == intake \notin IntakeHolds

\* ... then, with intakeMu and mu, the boundary after which nothing is accepted,
StopBoundary ==
    /\ control = "cancelled"
    /\ IntakeMuFree
    /\ stopping' = TRUE
    /\ wake' = AllWoken
    /\ intake' = Roused(intake)
    /\ control' = "boundary"
    /\ UNCHANGED <<placeVars, flagVars, due, started, desired, paused, cancelled,
                   channelVars, joinSet, accountVars>>

\* Mutant: stop waits for the intake alone.
IntakeJoined == intake = "done"

\* ... then the wait for intakeDone and the wait group.
AllJoined ==
    /\ intake = "done"
    /\ \A w \in Workers : pc[w] \in {"unborn", "gone"}

StopJoined ==
    /\ control = "boundary"
    /\ AllJoined
    /\ control' = "joined"
    /\ UNCHANGED <<workerVars, poolVars, channelVars, joinSet, accountVars>>

\* The pool is thrown away after stop.
Discarded ==
    /\ control = "joined"
    /\ UNCHANGED vars

-------------------------------------------------------------------------------
Next ==
    \/ Offer
    \/ ParentCancel
    \/ IntakeStep
    \/ \E w \in Workers : WorkerStep(w) \/ AttemptEnds(w) \/ DeadlinePasses(w)
    \/ \E d \in Targets : Reconcile(d)
    \/ ReconcileReturns
    \/ Pause
    \/ ResumeRun
    \/ StopCancel \/ StopBoundary \/ StopJoined
    \/ Discarded

Spec == Init /\ [][Next]_vars

(* An operator who lets a scale-down finish before scaling up again: no    *)
(* reconcile makes a draining worker active.                               *)
NoRevival == \A w \in Live : draining[w] => draining'[w]
PatientSpec == Init /\ [][Next /\ NoRevival]_vars

-------------------------------------------------------------------------------
(* Fairness.  Go runs every runnable goroutine, a sync.Mutex is starvation *)
(* free, and a select picks at random among its ready cases, so that the *)
(* event loop sees ctx.Done however many commands keep arriving.  http.Client   *)
(* has no timeout, so an attempt is only sure to end once the context has; *)
(* a target that answers, or that accepts in the end, is an assumption.    *)
EventLoopStops == cancelled /\ StopCancel

SchedulerFairness ==
    /\ WF_vars(IntakeStep)
    /\ \A w \in Workers : WF_vars(WorkerStep(w)) /\ WF_vars(DeadlinePasses(w))
    /\ \A w \in Workers : WF_vars(cancelled /\ AttemptEnds(w))
    /\ WF_vars(ReconcileReturns)
    /\ SF_vars(EventLoopStops)
    /\ WF_vars(StopBoundary)
    /\ WF_vars(StopJoined)

FairSpec == Spec /\ SchedulerFairness
PatientFairSpec == PatientSpec /\ SchedulerFairness

(* Assumptions on the target, stated where a property needs them.          *)
AttemptsEnd == \A w \in Workers : []<>(pc[w] # "flight")
TargetAccepts ==
    \A w \in Workers : []<>(pc[w] = "flight") => []<>(pc[w] = "success")

-------------------------------------------------------------------------------
(* Properties *)

TypeOK ==
    /\ pc \in [Workers -> WorkerPCs]
    /\ work \in [Workers -> Batches \union {NoBatch}]
    /\ batch \in [Workers -> Batches \union {NoBatch}]
    /\ busy \in [Workers -> BOOLEAN]
    /\ backoff \in [Workers -> BOOLEAN]
    /\ draining \in [Workers -> BOOLEAN]
    /\ wake \in [Workers -> BOOLEAN]
    /\ due \in [Workers -> BOOLEAN]
    /\ started \in 0..MaxStarts
    /\ intake \in IntakePCs
    /\ desired \in Targets
    /\ stopping \in BOOLEAN /\ paused \in BOOLEAN /\ cancelled \in BOOLEAN
    /\ offered \in 0..MaxBatches
    /\ received \in 0..offered
    /\ control \in {"idle", "joining", "cancelled", "boundary", "joined"}
    /\ joinSet \subseteq Workers
    /\ completed \in Nat
    /\ settled \in [Batches -> {"open", "delivered", "dropped"}]

(* A worker the intake may choose has an empty work channel and serves     *)
(* nothing, so "worker.work <- batch" under mu neither blocks the whole    *)
(* pool nor overwrites accepted work.                                      *)
FreeSlotIsEmpty ==
    \A w \in Available : work[w] = NoBatch /\ batch[w] = NoBatch

(* The places a received batch can be in on its way to the target. *)
Serves(w, b) == pc[w] \in Running /\ (work[w] = b \/ batch[w] = b)

(* Every batch the pool took from the channel is delivered, dropped by the *)
(* end of the context, or still in the hands of a goroutine that will      *)
(* serve it.                                                               *)
NoAcceptedBatchLost ==
    \A b \in 1..received :
        settled[b] # "open" \/ InHand(b) \/ \E w \in Workers : Serves(w, b)

(* No batch is served by two workers, nor by a worker and the intake; and  *)
(* the counter of completed transactions has each delivered batch exactly  *)
(* once, but for those whose worker is about to add them.                  *)
ServedAndCountedOnce ==
    /\ \A b \in Batches : \A v, w \in Workers :
        /\ Serves(v, b) /\ Serves(w, b) => v = w
        /\ Serves(v, b) => ~InHand(b)
    /\ completed + Cardinality({w \in Workers : pc[w] = "success"})
            = Cardinality({b \in Batches : settled[b] = "delivered"})

(* A pool that is not stopping never has fewer active workers than the     *)
(* last reconcile asked for, whatever exits race with it.                  *)
NeverUnderstaffed == ~stopping => Cardinality(Active) >= desired

(* Draining workers, revived ones, replacements and new ones together never *)
(* outnumber the largest count that may be asked for, however fast the      *)
(* counts follow each other: no sequence of them piles workers up.          *)
NeverOverstaffed == \E d \in Targets : Cardinality(Live) <= d

(* Once no worker is on its way out, as many workers live as were asked.   *)
Converged ==
    /\ control = "idle" /\ ~stopping
    /\ \A w \in Live : ~draining[w] /\ pc[w] # "exit"
ConvergedToDesired == Converged => Cardinality(Live) = desired

(* After stop's boundary nothing is taken from the channel and nothing is  *)
(* in the intake's hand: what the channel holds stays there to be drained. *)
NothingAdmittedAfterBoundary ==
    [][stopping => received' = received /\ intake \notin IntakeHolds]_vars

(* stop() always ends, at any moment and in any state of the workers, and  *)
(* so does the pool when the run context is cancelled from outside: an     *)
(* ended context and a joined pool stay so.  reconcile always returns to   *)
(* the event loop, with attempts that hang.                                *)
CallsReturn ==
    /\ <>[](cancelled => control = "joined")
    /\ []<>(control # "joining")

(* A gate that stays closed ends all HTTP traffic once the requests in     *)
(* flight have ended: no stored permission outlives it, no retry and no    *)
(* newly assigned batch slips past it.                                     *)
InTraffic == \E w \in Workers : pc[w] \in {"ready", "flight"}
PauseQuiesces == AttemptsEnd /\ <>[]paused => <>[]~InTraffic

(* If the target accepts in the end, the operator stops pausing and the    *)
(* run is not cancelled, a batch the throttler offers is taken and         *)
(* delivered, and a draining worker leaves, batch and retries finished     *)
(* first: in the end no offered batch is left undelivered and no worker    *)
(* draining, and neither an offer nor a departure is ever taken back.      *)
OfferedIsDelivered ==
    AttemptsEnd /\ TargetAccepts /\ <>[]~paused =>
        <>[](/\ \A b \in Batches : offered >= b => settled[b] = "delivered" \/ cancelled
             /\ \A w \in Live : draining[w] => cancelled)

(* The pool keeps what SenderDelivery promises: order of the intake, no    *)
(* batch dropped before the end of the context, every delivery counted     *)
(* once, nothing taken past the boundary, and at the end of stop nothing   *)
(* left open or uncounted.                                                 *)
Delivery == INSTANCE SenderDelivery WITH
    taken <- received, fate <- settled, counted <- completed,
    ended <- cancelled, sealed <- stopping, closed <- (control = "joined")
ImplementsDelivery == Delivery!Spec
===============================================================================
