--------------------------- MODULE SenderPoolProofs ---------------------------
(***************************************************************************)
(* Proofs about SenderPool for every number of workers, batches and starts.*)
(***************************************************************************)
EXTENDS SenderPool, FiniteSetTheorems, TLAPS

-------------------------------------------------------------------------------
(* Counting. *)

\* The workers are finitely many, and so is every set of them.
LEMMA WorkersFinite ==
    /\ IsFiniteSet(Workers)
    /\ \A S \in SUBSET Workers : IsFiniteSet(S) /\ Cardinality(S) \in Nat
<1>1. IsFiniteSet(Workers)
  BY FS_Interval, BoundsAssumption DEF Workers
<1>. QED  BY <1>1, FS_Subset, FS_CardinalityType

\* The number of starts a reconcile asks for is a number.
LEMMA MissingIsNat == ASSUME NEW d \in Nat PROVE Missing(d) \in Nat
<1>1. Cardinality(Active) \in Nat
  BY WorkersFinite DEF Active, Live
<1>2. Cardinality(Revived(d)) \in Nat
  <2>1. Revived(d) \in SUBSET Workers
    BY DEF Revived, Active, Live
  <2>. QED  BY <2>1, WorkersFinite
<1>. QED  BY <1>1, <1>2 DEF Missing

\* RoomFor keeps the starts of a reconcile within the bound.
LEMMA RoomBounds ==
    ASSUME NEW d \in Nat, started \in Nat, RoomFor(d)
    PROVE  started + Missing(d) \in started..MaxStarts
<1>1. Cardinality({w \in Workers : pc[w] = "exit"}) \in Nat
  BY WorkersFinite
<1>. QED  BY <1>1, MissingIsNat, BoundsAssumption DEF RoomFor

-------------------------------------------------------------------------------
(* Type correctness. *)

\* A Broadcast leaves the intake goroutine at one of its program points.
LEMMA RousedIsPC == ASSUME NEW i \in IntakePCs PROVE Roused(i) \in IntakePCs
BY DEF IntakePCs, Roused

\* Every variable of the pool keeps its type, whatever the number of workers,
\* batches and reconciles.
THEOREM TypeCorrect == Spec => []TypeOK
<1>. USE DEF TypeOK, WorkerPCs, Running, Serving, IntakePCs, Goto,
             workerVars, poolVars, channelVars, controlVars, accountVars,
         placeVars, flagVars, wakeVars, runVars, outerVars
<1>1. Init => TypeOK
  <2> SUFFICES ASSUME Init PROVE TypeOK
    OBVIOUS
  <2>1. /\ started \in 0..MaxStarts /\ offered \in 0..MaxBatches
        /\ received \in 0..offered /\ desired \in Targets /\ completed \in Nat
    BY TargetsAssumption, BoundsAssumption DEF Init
  <2>2. /\ pc \in [Workers -> WorkerPCs]
        /\ settled \in [Batches -> {"open", "delivered", "dropped"}]
    BY DEF Init
  <2>. QED  BY <2>1, <2>2 DEF Init
<1>2. TypeOK /\ [Next]_vars => TypeOK'
  <2> SUFFICES ASSUME TypeOK, [Next]_vars PROVE TypeOK'
    OBVIOUS
  <2>1. CASE Offer
    BY <2>1, BoundsAssumption DEF Offer
  <2>2. CASE ParentCancel
    BY <2>2 DEF ParentCancel
  <2>3. CASE IntakeStep
    <3>1. CASE IntakeCheck  BY <3>1 DEF IntakeCheck
    <3>2. CASE IntakeAdmit  BY <3>2 DEF IntakeAdmit
    <3>3. CASE IntakeCancelled  BY <3>3 DEF IntakeCancelled
    <3>4. CASE IntakeReceive  BY <3>4, BoundsAssumption DEF IntakeReceive, BatchReady
    <3>5. CASE IntakeAssign
      <4>1. received \in Batches \union {NoBatch}
        BY BoundsAssumption DEF Batches, NoBatch
      <4>. QED  BY <3>5, <4>1 DEF IntakeAssign
    <3>6. CASE IntakeStarve  BY <3>6 DEF IntakeStarve
    <3>. QED  BY <2>3, <3>1, <3>2, <3>3, <3>4, <3>5, <3>6 DEF IntakeStep
  <2>4. ASSUME NEW w \in Workers, WorkerStep(w) PROVE TypeOK'
    <3>1. CASE WorkerTop(w)  BY <3>1 DEF WorkerTop, TakeBatch
    <3>2. CASE WorkerSelect(w)  BY <3>2 DEF WorkerSelect, TakeBatch
    <3>3. CASE BeginAttempt(w)  BY <3>3 DEF BeginAttempt
    <3>4. CASE GateCheck(w)  BY <3>4 DEF GateCheck, Drop
    <3>5. CASE GateCancelled(w)  BY <3>5 DEF GateCancelled, Drop
    <3>6. CASE BackoffSelect(w)  BY <3>6 DEF BackoffSelect, Drop
    <3>7. CASE AttemptStarts(w)  BY <3>7 DEF AttemptStarts
    <3>8. CASE CountCompleted(w)  BY <3>8 DEF CountCompleted
    <3>9. CASE FinishAcceptedBatch(w)
      BY <3>9, RousedIsPC DEF FinishAcceptedBatch
    <3>10. CASE WorkerExited(w)
      <4>1. pc' \in [Workers -> WorkerPCs] /\ started' \in 0..MaxStarts
        BY <3>10, BoundsAssumption DEF WorkerExited
      <4>. QED  BY <3>10, <4>1, RousedIsPC DEF WorkerExited
    <3>11. CASE WorkerDone(w)  BY <3>11 DEF WorkerDone
    <3>. QED  BY <2>4, <3>1, <3>2, <3>3, <3>4, <3>5, <3>6, <3>7, <3>8, <3>9,
                 <3>10, <3>11 DEF WorkerStep
  <2>5. ASSUME NEW w \in Workers, AttemptEnds(w) PROVE TypeOK'
    <3>1. CASE AttemptSucceeds(w)  BY <3>1 DEF AttemptSucceeds
    <3>2. CASE AttemptFails(w)  BY <3>2 DEF AttemptFails
    <3>3. CASE AttemptCancelled(w)  BY <3>3 DEF AttemptCancelled, Drop
    <3>. QED  BY <2>5, <3>1, <3>2, <3>3 DEF AttemptEnds
  <2>6. ASSUME NEW w \in Workers, DeadlinePasses(w) PROVE TypeOK'
    BY <2>6 DEF DeadlinePasses
  <2>7. ASSUME NEW d \in Targets, Reconcile(d) PROVE TypeOK'
    <3>1. d \in Nat /\ started \in Nat
      BY TargetsAssumption, BoundsAssumption
    <3>2. started' \in 0..MaxStarts
      BY <2>7, <3>1, RoomBounds, MissingIsNat, BoundsAssumption DEF Reconcile
    <3>3. pc' \in [Workers -> WorkerPCs]
      BY <2>7 DEF Reconcile
    <3>4. draining' \in [Workers -> BOOLEAN] /\ wake' \in [Workers -> BOOLEAN]
      BY <2>7 DEF Reconcile, AllWoken
    <3>5. joinSet' \subseteq Workers
      BY <2>7 DEF Reconcile, IdleDraining, Live
    <3>. QED  BY <2>7, <3>2, <3>3, <3>4, <3>5, RousedIsPC DEF Reconcile
  <2>8. CASE ReconcileReturns  BY <2>8 DEF ReconcileReturns
  <2>9. CASE Pause  BY <2>9 DEF Pause, AllWoken
  <2>10. CASE ResumeRun  BY <2>10 DEF ResumeRun
  <2>11. CASE StopCancel  BY <2>11 DEF StopCancel
  <2>12. CASE StopBoundary  BY <2>12, RousedIsPC DEF StopBoundary, IntakeMuFree, AllWoken
  <2>13. CASE StopJoined  BY <2>13 DEF StopJoined
  <2>14. CASE UNCHANGED vars  BY <2>14 DEF vars
  <2>. QED  BY <2>1, <2>2, <2>3, <2>4, <2>5, <2>6, <2>7, <2>8, <2>9, <2>10,
               <2>11, <2>12, <2>13, <2>14 DEF Next, Discarded
<1>. QED  BY <1>1, <1>2, PTL DEF Spec

-------------------------------------------------------------------------------
(* A worker the intake may choose is empty-handed.  The invariant is       *)
(* inductive with two facts about the others: whoever serves a batch is    *)
(* busy and has nothing more in its channel, and identities are used once. *)

SlotInv ==
    \A w \in Workers :
        /\ pc[w] \in Serving => busy[w] /\ work[w] = NoBatch
        /\ pc[w] \notin Serving => batch[w] = NoBatch
        /\ work[w] # NoBatch => busy[w]
        /\ w > started => pc[w] = "unborn"

\* The slot invariant holds along every behaviour of the pool.
LEMMA SlotInvHolds == Spec => []SlotInv
<1>. USE DEF Serving, Goto, workerVars, poolVars, channelVars, controlVars, accountVars,
         placeVars, flagVars, wakeVars, runVars, outerVars
<1>1. Init => SlotInv
  BY TargetsAssumption, BoundsAssumption DEF Init, SlotInv, Workers
<1>2. TypeOK /\ SlotInv /\ [Next]_vars => SlotInv'
  <2> SUFFICES ASSUME TypeOK, SlotInv, [Next]_vars PROVE SlotInv'
    OBVIOUS
  <2>. USE DEF SlotInv
  <2>0. /\ pc \in [Workers -> WorkerPCs] /\ started \in Nat
        /\ work \in [Workers -> Batches \union {NoBatch}]
        /\ batch \in [Workers -> Batches \union {NoBatch}]
        /\ busy \in [Workers -> BOOLEAN]
    BY BoundsAssumption DEF TypeOK
  <2>1. CASE Offer  BY <2>1 DEF Offer
  <2>2. CASE ParentCancel  BY <2>2 DEF ParentCancel
  <2>3. CASE IntakeStep
    <3>1. CASE IntakeAssign
      BY <2>0, <3>1 DEF IntakeAssign, FirstAvailable, Available
    <3>2. CASE ~IntakeAssign
      BY <2>3, <3>2 DEF IntakeStep, IntakeCheck, IntakeAdmit, IntakeCancelled,
                        IntakeReceive, BatchReady, IntakeStarve
    <3>. QED  BY <3>1, <3>2
  <2>4. ASSUME NEW w \in Workers, WorkerStep(w) PROVE SlotInv'
    <3>1. CASE WorkerTop(w)  BY <2>0, <3>1 DEF WorkerTop, TakeBatch
    <3>2. CASE WorkerSelect(w)  BY <2>0, <3>2 DEF WorkerSelect, TakeBatch
    <3>3. CASE BeginAttempt(w)  BY <2>0, <3>3 DEF BeginAttempt
    <3>4. CASE GateCheck(w)
      <4>1. pc[w] \in Serving /\ \E to \in Serving : pc' = [pc EXCEPT ![w] = to]
        BY <3>4 DEF GateCheck, Drop
      <4>2. UNCHANGED <<work, batch, busy, started>>
        BY <3>4 DEF GateCheck
      <4>. QED  BY <2>0, <4>1, <4>2
    <3>5. CASE GateCancelled(w)  BY <2>0, <3>5 DEF GateCancelled, Drop
    <3>6. CASE BackoffSelect(w)  BY <2>0, <3>6 DEF BackoffSelect, Drop
    <3>7. CASE AttemptStarts(w)  BY <2>0, <3>7 DEF AttemptStarts
    <3>8. CASE CountCompleted(w)  BY <2>0, <3>8 DEF CountCompleted
    <3>9. CASE FinishAcceptedBatch(w)  BY <2>0, <3>9 DEF FinishAcceptedBatch
    <3>10. CASE WorkerExited(w)
      <4>1. UNCHANGED <<work, batch, busy>> /\ pc[w] = "exit"
        BY <3>10 DEF WorkerExited
      <4>2. CASE NeedsReplacement(w)
        <5>1. /\ started' = started + 1
              /\ pc' = [pc EXCEPT ![w] = "leave", ![started + 1] = "top"]
          BY <3>10, <4>2 DEF WorkerExited
        <5>2. \A v \in Workers : v = started + 1 => pc[v] = "unborn"
          BY <2>0
        <5>3. \A v \in Workers : v # w /\ v # started + 1 => pc'[v] = pc[v]
          BY <2>0, <5>1
        <5>4. pc'[w] \in {"leave", "top"}
          BY <2>0, <5>1
        <5>5. \A v \in Workers : v = started + 1 => pc'[v] = "top"
          BY <2>0, <5>1
        <5>6. \A v \in Workers : v > started' => pc'[v] = "unborn"
          BY <2>0, <4>1, <5>1, <5>3, BoundsAssumption DEF Workers
        <5>7. \A v \in Workers : pc'[v] \in Serving => pc[v] \in Serving
          BY <5>3, <5>4, <5>5
        <5>8. \A v \in Workers : pc'[v] \notin Serving => pc[v] \notin Serving
          BY <4>1, <5>2, <5>3
        <5>. QED  BY <4>1, <5>6, <5>7, <5>8
      <4>3. CASE ~NeedsReplacement(w)
        BY <2>0, <3>10, <4>3 DEF WorkerExited
      <4>. QED  BY <4>2, <4>3
    <3>11. CASE WorkerDone(w)  BY <2>0, <3>11 DEF WorkerDone
    <3>. QED  BY <2>4, <3>1, <3>2, <3>3, <3>4, <3>5, <3>6, <3>7, <3>8, <3>9,
                 <3>10, <3>11 DEF WorkerStep
  <2>5. ASSUME NEW w \in Workers, AttemptEnds(w) PROVE SlotInv'
    BY <2>0, <2>5 DEF AttemptEnds, AttemptSucceeds, AttemptFails,
                      AttemptCancelled, Drop
  <2>6. ASSUME NEW w \in Workers, DeadlinePasses(w) PROVE SlotInv'
    BY <2>6 DEF DeadlinePasses
  <2>7. ASSUME NEW d \in Targets, Reconcile(d) PROVE SlotInv'
    <3>1. Missing(d) \in Nat
      BY MissingIsNat, TargetsAssumption
    <3>. QED  BY <2>0, <2>7, <3>1 DEF Reconcile, Workers
  <2>8. CASE ReconcileReturns  BY <2>8 DEF ReconcileReturns
  <2>9. CASE Pause  BY <2>9 DEF Pause
  <2>10. CASE ResumeRun  BY <2>0, <2>10 DEF ResumeRun
  <2>11. CASE StopCancel  BY <2>11 DEF StopCancel
  <2>12. CASE StopBoundary  BY <2>12 DEF StopBoundary, IntakeMuFree
  <2>13. CASE StopJoined  BY <2>13 DEF StopJoined
  <2>14. CASE UNCHANGED vars  BY <2>14 DEF vars
  <2>. QED  BY <2>1, <2>2, <2>3, <2>4, <2>5, <2>6, <2>7, <2>8, <2>9, <2>10,
               <2>11, <2>12, <2>13, <2>14 DEF Next, Discarded
<1>. QED  BY <1>1, <1>2, TypeCorrect, PTL DEF Spec

\* A worker availableWorkerLocked may return holds no batch, in its work
\* channel or in service.
THEOREM SlotsFree == Spec => []FreeSlotIsEmpty
<1>1. TypeOK /\ SlotInv => FreeSlotIsEmpty
  BY DEF TypeOK, SlotInv, FreeSlotIsEmpty, Available, Active, Live, Serving, Running
<1>. QED  BY <1>1, TypeCorrect, SlotInvHolds, PTL

-------------------------------------------------------------------------------
(* stop's boundary: once stopping is set the context is over and the       *)
(* intake, which re-checks it behind intakeMu, holds no admission.         *)

BoundaryInv ==
    /\ control # "idle" /\ control # "joining" => cancelled
    /\ stopping => cancelled /\ intake \notin IntakeHolds

\* The boundary of stop comes after the end of the context and outside the
\* section of intakeMu, along every behaviour.
LEMMA BoundaryInvHolds == Spec => []BoundaryInv
<1>. USE DEF IntakeHolds, workerVars, poolVars, channelVars, controlVars, accountVars,
         placeVars, flagVars, wakeVars, runVars, outerVars
<1>1. Init => BoundaryInv
  BY DEF Init, BoundaryInv
<1>2. BoundaryInv /\ [Next]_vars => BoundaryInv'
  <2> SUFFICES ASSUME BoundaryInv, [Next]_vars PROVE BoundaryInv'
    OBVIOUS
  <2>. USE DEF BoundaryInv
  <2>0. intake \notin IntakeHolds => Roused(intake) \notin IntakeHolds
    BY DEF Roused
  <2>1. CASE Offer  BY <2>1 DEF Offer
  <2>2. CASE ParentCancel  BY <2>2 DEF ParentCancel
  <2>3. CASE IntakeStep
    BY <2>3 DEF IntakeStep, IntakeCheck, IntakeAdmit, IntakeCancelled,
                IntakeReceive, BatchReady, IntakeAssign, IntakeStarve
  <2>4. ASSUME NEW w \in Workers, WorkerStep(w) PROVE BoundaryInv'
    <3>1. CASE FinishAcceptedBatch(w)  BY <2>0, <3>1 DEF FinishAcceptedBatch
    <3>2. CASE WorkerExited(w)  BY <2>0, <3>2 DEF WorkerExited
    <3>3. CASE ~FinishAcceptedBatch(w) /\ ~WorkerExited(w)
      BY <2>4, <3>3 DEF WorkerStep, WorkerTop, WorkerSelect, BeginAttempt,
           GateCheck, GateCancelled, BackoffSelect, AttemptStarts,
           CountCompleted, WorkerDone
    <3>. QED  BY <3>1, <3>2, <3>3
  <2>5. ASSUME NEW w \in Workers, AttemptEnds(w) PROVE BoundaryInv'
    BY <2>5 DEF AttemptEnds, AttemptSucceeds, AttemptFails, AttemptCancelled
  <2>6. ASSUME NEW w \in Workers, DeadlinePasses(w) PROVE BoundaryInv'
    BY <2>6 DEF DeadlinePasses
  <2>7. ASSUME NEW d \in Targets, Reconcile(d) PROVE BoundaryInv'
    BY <2>0, <2>7 DEF Reconcile
  <2>8. CASE ReconcileReturns  BY <2>8 DEF ReconcileReturns
  <2>9. CASE Pause  BY <2>9 DEF Pause
  <2>10. CASE ResumeRun  BY <2>10 DEF ResumeRun
  <2>11. CASE StopCancel  BY <2>11 DEF StopCancel
  <2>12. CASE StopBoundary  BY <2>0, <2>12 DEF StopBoundary, IntakeMuFree
  <2>13. CASE StopJoined  BY <2>13 DEF StopJoined
  <2>14. CASE UNCHANGED vars  BY <2>14 DEF vars
  <2>. QED  BY <2>1, <2>2, <2>3, <2>4, <2>5, <2>6, <2>7, <2>8, <2>9, <2>10,
               <2>11, <2>12, <2>13, <2>14 DEF Next, Discarded
<1>. QED  BY <1>1, <1>2, PTL DEF Spec

\* After the boundary nothing more is taken from the sender channel.
THEOREM BoundaryHolds == Spec => NothingAdmittedAfterBoundary
<1>1. BoundaryInv /\ [Next]_vars
        => [stopping => received' = received /\ intake \notin IntakeHolds]_vars
  <2> SUFFICES ASSUME BoundaryInv, Next, stopping
               PROVE  received' = received /\ intake \notin IntakeHolds
    OBVIOUS
  <2>1. intake \notin IntakeHolds
    BY DEF BoundaryInv
  <2>. USE DEF channelVars, outerVars
  <2>2. CASE IntakeStep
    BY <2>1, <2>2 DEF IntakeStep, IntakeCheck, IntakeAdmit, IntakeCancelled,
         IntakeReceive, BatchReady, IntakeAssign, IntakeStarve, IntakeHolds
  <2>3. ASSUME NEW w \in Workers, WorkerStep(w) PROVE received' = received
    BY <2>3 DEF WorkerStep, WorkerTop, WorkerSelect, BeginAttempt, GateCheck,
         GateCancelled, BackoffSelect, AttemptStarts, CountCompleted,
         FinishAcceptedBatch, WorkerExited, WorkerDone
  <2>4. ASSUME NEW w \in Workers, AttemptEnds(w) \/ DeadlinePasses(w)
        PROVE  received' = received
    BY <2>4 DEF AttemptEnds, AttemptSucceeds, AttemptFails, AttemptCancelled,
         DeadlinePasses
  <2>5. ASSUME NEW d \in Targets, Reconcile(d) PROVE received' = received
    BY <2>5 DEF Reconcile
  <2>6. CASE \/ Offer \/ ParentCancel \/ ReconcileReturns \/ Pause \/ ResumeRun
             \/ StopCancel \/ StopBoundary \/ StopJoined \/ Discarded
    BY <2>1, <2>6 DEF Offer, ParentCancel, ReconcileReturns, Pause, ResumeRun,
         StopCancel, StopBoundary, StopJoined, Discarded, vars
  <2>. QED  BY <2>1, <2>2, <2>3, <2>4, <2>5, <2>6 DEF Next
<1>. QED  BY <1>1, BoundaryInvHolds, PTL DEF Spec, NothingAdmittedAfterBoundary

-------------------------------------------------------------------------------
(* No accepted batch is lost while no reconcile makes a draining worker    *)
(* active again.  What is lost otherwise is what the intake hands to a     *)
(* worker that has already decided to leave; here such a worker stays      *)
(* draining, or the pool is past its boundary.                             *)

KeptInv ==
    /\ NoAcceptedBatchLost
    /\ \A w \in Workers :
         /\ pc[w] = "exit" => draining[w] \/ stopping
         /\ pc[w] \in {"success", "finish"} =>
              \A b \in Batches : b = batch[w] => settled[b] # "open"

\* The patient behaviours are behaviours of the pool.
LEMMA PatientIsSpec == PatientSpec => Spec
<1>1. [Next /\ NoRevival]_vars => [Next]_vars
  OBVIOUS
<1>. QED  BY <1>1, PTL DEF PatientSpec, Spec

\* One step keeps KeptInv if it moves no batch backwards: every batch served
\* before is served or settled after, and the same for the one in hand.
LEMMA KeptStep ==
    ASSUME TypeOK, KeptInv, received' = received,
           \A b \in Batches : settled[b] # "open" => settled'[b] # "open",
           \A b \in Batches : InHand(b) =>
               InHand(b)' \/ \E w \in Workers : Serves(w, b)',
           \A b \in Batches, w \in Workers : Serves(w, b) =>
               settled'[b] # "open" \/ Serves(w, b)'
    PROVE  NoAcceptedBatchLost'
<1>1. 1..received \subseteq Batches
  BY BoundsAssumption DEF TypeOK, Batches
<1>. QED  BY <1>1 DEF KeptInv, NoAcceptedBatchLost

\* KeptStep where no batch changes place or fate.
LEMMA KeptUnmoved ==
    ASSUME TypeOK, KeptInv, UNCHANGED <<received, settled, work, batch>>,
           \A b \in Batches : InHand(b) => InHand(b)',
           \A w \in Workers : pc[w] \in Running => pc'[w] \in Running
    PROVE  NoAcceptedBatchLost'
BY KeptStep DEF Serves

\* KeptStep where one worker gives its batch a fate, or has given it one.
LEMMA KeptSettled ==
    ASSUME TypeOK, KeptInv, received' = received,
           NEW w \in Workers,
           \A b \in Batches : InHand(b) => InHand(b)',
           \A b \in Batches : settled[b] # "open" => settled'[b] # "open",
           \A b \in Batches : Serves(w, b) => settled'[b] # "open" \/ Serves(w, b)',
           \A v \in Workers : v # w =>
               pc'[v] = pc[v] /\ work'[v] = work[v] /\ batch'[v] = batch[v]
    PROVE  NoAcceptedBatchLost'
<1>1. \A b \in Batches, v \in Workers : Serves(v, b) =>
          settled'[b] # "open" \/ Serves(v, b)'
  BY DEF Serves
<1>. QED  BY <1>1, KeptStep

\* The invariant behind NothingLost holds along every patient behaviour.
LEMMA KeptInvHolds == PatientSpec => []KeptInv
<1>. USE DEF workerVars, poolVars, channelVars, controlVars, accountVars,
         placeVars, flagVars, wakeVars, runVars, outerVars
<1>1. Init => KeptInv
  BY BoundsAssumption DEF Init, KeptInv, NoAcceptedBatchLost
<1>2. /\ TypeOK /\ TypeOK' /\ SlotInv /\ BoundaryInv /\ KeptInv
      /\ [Next /\ NoRevival]_vars
      => KeptInv'
  <2> SUFFICES ASSUME TypeOK, TypeOK', SlotInv, BoundaryInv, KeptInv,
                      [Next /\ NoRevival]_vars
               PROVE  KeptInv'
    OBVIOUS
  <2>0. /\ pc \in [Workers -> WorkerPCs]
        /\ work \in [Workers -> Batches \union {NoBatch}]
        /\ batch \in [Workers -> Batches \union {NoBatch}]
        /\ settled \in [Batches -> {"open", "delivered", "dropped"}]
        /\ NoBatch \notin Batches
    BY DEF TypeOK, Batches, NoBatch
  <2>1. CASE Offer
    BY <2>0, <2>1, KeptUnmoved DEF Offer, KeptInv, InHand
  <2>2. CASE ParentCancel
    BY <2>0, <2>2, KeptUnmoved DEF ParentCancel, KeptInv, InHand
  <2>3. CASE IntakeStep
    <3>1. CASE IntakeCheck \/ IntakeAdmit \/ IntakeCancelled \/ IntakeStarve
      BY <2>0, <3>1, KeptUnmoved DEF IntakeCheck, IntakeAdmit, IntakeCancelled,
           IntakeStarve, KeptInv, InHand
    <3>2. CASE IntakeReceive
      <4>1. \A b \in 1..received : InHand(b) = FALSE
        BY <3>2 DEF IntakeReceive, BatchReady, InHand
      <4>2. \A b : b = received' => InHand(b)'
        BY <3>2 DEF IntakeReceive, BatchReady, InHand
      <4>3. \A b \in 1..received' : b \in 1..received \/ b = received'
        BY <3>2, BoundsAssumption DEF TypeOK, IntakeReceive, BatchReady
      <4>4. NoAcceptedBatchLost'
        BY <3>2, <4>1, <4>2, <4>3 DEF IntakeReceive, BatchReady, KeptInv, NoAcceptedBatchLost, Serves
      <4>. QED  BY <3>2, <4>4 DEF IntakeReceive, BatchReady, KeptInv
    <3>3. CASE IntakeAssign
      <4>1. PICK w \in Workers : /\ FirstAvailable(w)
                                 /\ work' = [work EXCEPT ![w] = received]
        BY <3>3 DEF IntakeAssign
      <4>2. ~stopping
        BY <3>3 DEF IntakeAssign, BoundaryInv, IntakeHolds
      <4>3. pc[w] \in Running
        BY <4>1, <4>2 DEF FirstAvailable, Available, Active, Live, KeptInv
      <4>4. Serves(w, received)'
        BY <2>0, <3>3, <4>1, <4>3 DEF IntakeAssign, Serves
      <4>5. \A b \in Batches : ~Serves(w, b)
        BY <2>0, <4>1 DEF FirstAvailable, Available, Serves, SlotInv
      <4>6. \A b \in Batches, v \in Workers : Serves(v, b) => Serves(v, b)'
        BY <2>0, <3>3, <4>1, <4>5 DEF IntakeAssign, Serves
      <4>7. NoAcceptedBatchLost'
        BY <3>3, <4>4, <4>6, KeptStep DEF IntakeAssign, InHand
      <4>. QED  BY <3>3, <4>7 DEF IntakeAssign, KeptInv
    <3>. QED  BY <2>3, <3>1, <3>2, <3>3 DEF IntakeStep
  <2>4. ASSUME NEW w \in Workers, WorkerStep(w) PROVE KeptInv'
    <3>. USE DEF Goto
    <3>1. CASE WorkerTop(w) \/ WorkerSelect(w)
      <4>0. /\ pc[w] \in {"top", "select"}
            /\ UNCHANGED <<received, settled, intake, stopping, draining>>
        BY <3>1 DEF WorkerTop, WorkerSelect
      <4>1. CASE TakeBatch(w)
        BY <2>0, <4>0, <4>1, KeptSettled DEF TakeBatch, Serves, InHand, KeptInv,
             SlotInv, Serving, Running
      <4>2. CASE ~TakeBatch(w)
        <5>1. UNCHANGED <<work, batch>>
          BY <3>1, <4>2 DEF WorkerTop, WorkerSelect
        <5>2. \E to \in {"top", "select", "exit"} :
                 /\ pc' = [pc EXCEPT ![w] = to]
                 /\ to = "exit" => work[w] = NoBatch /\ (draining[w] \/ stopping)
          BY <3>1, <4>2 DEF WorkerTop, WorkerSelect
        <5>3. batch[w] = NoBatch
          BY <4>0 DEF SlotInv, Serving
        <5>4. NoAcceptedBatchLost'
          BY <2>0, <4>0, <5>1, <5>2, <5>3, KeptSettled DEF Serves, InHand, Running
        <5>. QED  BY <2>0, <4>0, <5>1, <5>2, <5>4 DEF KeptInv
      <4>. QED  BY <4>1, <4>2
    <3>2. CASE BeginAttempt(w) \/ AttemptStarts(w)
      BY <2>0, <3>2, KeptUnmoved DEF BeginAttempt, AttemptStarts, KeptInv,
           InHand, Running, Serving
    <3>3. CASE GateCheck(w) \/ GateCancelled(w) \/ BackoffSelect(w)
      <4>1. /\ pc[w] \in Serving
            /\ UNCHANGED <<received, intake, work, batch, stopping, draining>>
        BY <3>3 DEF GateCheck, GateCancelled, BackoffSelect, Serving
      <4>2. CASE Drop(w)
        BY <2>0, <4>1, <4>2, KeptSettled DEF Drop, KeptInv, InHand, Serves, SlotInv,
             Running, Serving
      <4>3. CASE ~Drop(w)
        <5>1. /\ settled' = settled
              /\ \E to \in Serving \ {"success", "finish"} : pc' = [pc EXCEPT ![w] = to]
          BY <3>3, <4>3 DEF GateCheck, GateCancelled, BackoffSelect, Serving
        <5>2. NoAcceptedBatchLost'
          BY <2>0, <4>1, <5>1, KeptUnmoved DEF InHand, Running
        <5>. QED  BY <2>0, <4>1, <5>1, <5>2 DEF KeptInv, Serving
      <4>. QED  BY <4>2, <4>3
    <3>4. CASE CountCompleted(w)
      BY <2>0, <3>4, KeptUnmoved DEF CountCompleted, KeptInv, InHand, Running, Serving
    <3>5. CASE FinishAcceptedBatch(w)
      <4>1. \A b \in Batches : InHand(b) => InHand(b)'
        BY <3>5 DEF FinishAcceptedBatch, InHand, Roused
      <4>2. \A b \in Batches : Serves(w, b) => settled'[b] # "open"
        BY <2>0, <3>5 DEF FinishAcceptedBatch, Serves, SlotInv, KeptInv, Serving
      <4>3. NoAcceptedBatchLost'
        BY <2>0, <3>5, <4>1, <4>2, KeptSettled DEF FinishAcceptedBatch
      <4>. QED  BY <2>0, <3>5, <4>3 DEF FinishAcceptedBatch, KeptInv
    <3>6. CASE WorkerExited(w) \/ WorkerDone(w)
      <4>1. /\ UNCHANGED <<received, settled, work, batch, stopping, draining>>
            /\ pc[w] \in {"exit", "leave"}
        BY <3>6 DEF WorkerExited, WorkerDone
      <4>2. \A b \in Batches : InHand(b) => InHand(b)'
        BY <3>6 DEF WorkerExited, WorkerDone, InHand, Roused
      <4>3. \A v \in Workers : pc'[v] = pc[v] \/ pc'[v] \in {"leave", "gone", "top"}
        BY <2>0, <3>6 DEF WorkerExited, WorkerDone
      <4>4. \A v \in Workers : pc[v] \in Running => pc'[v] \in Running
        <5>1. w \notin {v \in Workers : pc[v] \in Running}
          BY <4>1 DEF Running, Serving
        <5>2. \A v \in Workers : v # w /\ pc'[v] # pc[v] => pc'[v] = "top"
          BY <2>0, <3>6 DEF WorkerExited, WorkerDone
        <5>. QED  BY <5>1, <5>2 DEF Running
      <4>5. NoAcceptedBatchLost'
        BY <4>1, <4>2, <4>4, KeptUnmoved
      <4>. QED  BY <4>1, <4>3, <4>5 DEF KeptInv
    <3>. QED  BY <2>4, <3>1, <3>2, <3>3, <3>4, <3>5, <3>6 DEF WorkerStep
  <2>5. ASSUME NEW w \in Workers, AttemptEnds(w) PROVE KeptInv'
    <3>. USE DEF Goto
    <3>1. CASE AttemptFails(w)
      BY <2>0, <3>1, KeptUnmoved DEF AttemptFails, KeptInv, InHand, Running, Serving
    <3>2. CASE AttemptSucceeds(w)
      BY <2>0, <3>2, KeptSettled DEF AttemptSucceeds, KeptInv, InHand, Serves,
           SlotInv, Running, Serving
    <3>3. CASE AttemptCancelled(w)
      BY <2>0, <3>3, KeptSettled DEF AttemptCancelled, Drop, KeptInv, InHand, Serves,
           SlotInv, Running, Serving
    <3>. QED  BY <2>5, <3>1, <3>2, <3>3 DEF AttemptEnds
  <2>6. ASSUME NEW w \in Workers, DeadlinePasses(w) PROVE KeptInv'
    BY <2>6, KeptUnmoved DEF DeadlinePasses, KeptInv, InHand
  <2>7. ASSUME NEW d \in Targets, Reconcile(d), NoRevival PROVE KeptInv'
    <3>1. UNCHANGED <<received, settled, work, batch, stopping>>
      BY <2>7 DEF Reconcile
    <3>2. \A b \in Batches : InHand(b) => InHand(b)'
      BY <2>7 DEF Reconcile, InHand, Roused
    <3>3. Missing(d) \in Nat
      BY MissingIsNat, TargetsAssumption
    <3>4. \A v \in Workers : pc'[v] = pc[v] \/ (pc[v] = "unborn" /\ pc'[v] = "top")
      <4>1. \A v \in Workers :
               pc'[v] = IF v \in (started + 1)..(started + Missing(d))
                        THEN "top" ELSE pc[v]
        BY <2>7 DEF Reconcile
      <4>2. \A v \in Workers : v \in (started + 1)..(started + Missing(d)) => v > started
        BY <3>3, BoundsAssumption DEF TypeOK
      <4>3. \A v \in Workers : v > started => pc[v] = "unborn"
        BY DEF SlotInv
      <4>. QED  BY <4>1, <4>2, <4>3
    <3>5. NoAcceptedBatchLost'
      BY <3>1, <3>2, <3>4, KeptUnmoved DEF Running, Serving
    <3>6. \A v \in Workers : pc'[v] = "exit" => draining'[v] \/ stopping'
      BY <2>7, <3>1, <3>4 DEF NoRevival, Live, KeptInv
    <3>. QED  BY <3>1, <3>4, <3>5, <3>6 DEF KeptInv
  <2>8. CASE ResumeRun
    <3>1. \A v \in Workers : pc'[v] = pc[v] \/ (pc[v] = "gated" /\ pc'[v] = "gate")
      <4>1. \A v \in Workers : pc'[v] = IF pc[v] = "gated" THEN "gate" ELSE pc[v]
        BY <2>8 DEF ResumeRun
      <4>. QED  BY <4>1
    <3>2. NoAcceptedBatchLost'
      BY <2>8, <3>1, KeptUnmoved DEF ResumeRun, InHand, Running, Serving
    <3>. QED  BY <2>8, <3>1, <3>2 DEF ResumeRun, KeptInv
  <2>9. CASE \/ ReconcileReturns \/ Pause \/ StopCancel \/ StopJoined
    BY <2>9, KeptUnmoved DEF ReconcileReturns, Pause, StopCancel, StopJoined,
         KeptInv, InHand
  <2>10. CASE StopBoundary
    BY <2>10, KeptUnmoved DEF StopBoundary, IntakeMuFree, KeptInv, InHand, IntakeHolds
  <2>11. CASE UNCHANGED vars
    BY <2>11, KeptUnmoved DEF vars, KeptInv, InHand
  <2>. QED  BY <2>1, <2>2, <2>3, <2>4, <2>5, <2>6, <2>7, <2>8, <2>9, <2>10,
               <2>11 DEF Next, Discarded
<1>. QED  BY <1>1, <1>2, TypeCorrect, SlotInvHolds, BoundaryInvHolds, PatientIsSpec,
             PTL DEF PatientSpec

\* If no reconcile makes a draining worker active again, every batch taken
\* from the channel is settled or in the hands of a goroutine that serves it.
THEOREM NothingLost == PatientSpec => []NoAcceptedBatchLost
<1>1. KeptInv => NoAcceptedBatchLost
  BY DEF KeptInv
<1>. QED  BY <1>1, KeptInvHolds, PTL

-------------------------------------------------------------------------------
(* One server for each batch, and one count.  A batch is at one of three    *)
(* places at most: before the intake, in its hand, or with one worker; and  *)
(* it has no fate before its server gives it one.                           *)

Holds(w, b) == work[w] = b \/ batch[w] = b
Ended == {"success", "finish"}

HeldInv ==
    /\ \A w \in Workers : pc[w] \in Serving => batch[w] \in Batches
    /\ \A w \in Workers, b \in Batches : Holds(w, b) =>
         /\ b <= received /\ ~InHand(b)
         /\ pc[w] \notin Ended => settled[b] = "open"
         /\ \A v \in Workers : Holds(v, b) => v = w
    /\ \A b \in Batches : b > received \/ InHand(b) => settled[b] = "open"

\* A step that moves no batch and settles none keeps the places.
LEMMA HeldUnmoved ==
    ASSUME HeldInv, UNCHANGED <<work, batch, received, settled>>,
           \A b \in Batches : InHand(b)' = InHand(b),
           \A w \in Workers : /\ pc'[w] \in Serving => pc[w] \in Serving
                              /\ pc[w] \in Ended => pc'[w] \in Ended
    PROVE  HeldInv'
BY DEF HeldInv, Holds

\* A worker that gives its batch a fate has it for itself.
LEMMA HeldSettled ==
    ASSUME HeldInv, TypeOK, SlotInv, UNCHANGED <<work, batch, received, intake>>,
           NEW w \in Workers, pc[w] \in Serving, NEW to \in Ended, pc' = [pc EXCEPT ![w] = to],
           NEW fate, settled' = [settled EXCEPT ![batch[w]] = fate]
    PROVE  HeldInv'
<1>1. /\ batch[w] \in Batches /\ pc \in [Workers -> WorkerPCs]
      /\ settled \in [Batches -> {"open", "delivered", "dropped"}]
  BY DEF HeldInv, TypeOK
<1>2. \A b \in Batches : InHand(b)' = InHand(b)
  BY DEF InHand
<1>3. \A v \in Workers, b \in Batches : Holds(v, b)' = Holds(v, b)
  BY DEF Holds
<1>4. Holds(w, batch[w])
  BY DEF Holds
<1>5. \A b \in Batches : b # batch[w] => settled'[b] = settled[b]
  BY <1>1
<1>6. \A v \in Workers : pc'[v] \in Serving => batch'[v] \in Batches
  BY <1>1 DEF HeldInv
<1>7. \A v \in Workers, b \in Batches : Holds(v, b) =>
          (pc'[v] \notin Ended => settled'[b] = "open")
  <2>1. \A v \in Workers, b \in Batches :
            Holds(v, b) /\ v # w => b # batch[w] /\ pc'[v] = pc[v]
    BY <1>1, <1>4 DEF HeldInv
  <2>2. pc'[w] \in Ended
    BY <1>1
  <2>. QED  BY <1>5, <2>1, <2>2 DEF HeldInv
<1>8. \A b \in Batches : b > received \/ InHand(b) => settled'[b] = "open"
  <2>1. batch[w] <= received /\ ~InHand(batch[w]) /\ batch[w] \in Int /\ received \in Int
    BY <1>1, <1>4 DEF HeldInv, TypeOK, Batches
  <2>2. \A b \in Batches : b > received \/ InHand(b) => b # batch[w]
    BY <2>1
  <2>. QED  BY <1>5, <2>2 DEF HeldInv
<1>. QED  BY <1>2, <1>3, <1>6, <1>7, <1>8 DEF HeldInv

\* A batch that goes from a worker's channel into its hands stays with it.
LEMMA HeldTaken ==
    ASSUME HeldInv, TypeOK, SlotInv, UNCHANGED <<received, settled, intake>>,
           NEW w \in Workers, pc[w] \notin Serving, TakeBatch(w)
    PROVE  HeldInv'
<1>1. /\ batch[w] = NoBatch /\ work[w] \in Batches /\ pc \in [Workers -> WorkerPCs]
      /\ work \in [Workers -> Batches \union {NoBatch}]
      /\ batch \in [Workers -> Batches \union {NoBatch}] /\ NoBatch \notin Batches
  BY DEF TypeOK, SlotInv, TakeBatch, Batches, NoBatch
<1>2. /\ batch' = [batch EXCEPT ![w] = work[w]] /\ work' = [work EXCEPT ![w] = NoBatch]
      /\ pc' = [pc EXCEPT ![w] = "begin"]
  BY DEF TakeBatch, Goto
<1>3. \A b \in Batches : InHand(b)' = InHand(b)
  BY DEF InHand
<1>4. \A v \in Workers, b \in Batches : Holds(v, b)' = Holds(v, b)
  BY <1>1, <1>2 DEF Holds
<1>5. \A v \in Workers : pc'[v] \in Serving => batch'[v] \in Batches
  BY <1>1, <1>2 DEF HeldInv
<1>6. \A v \in Workers : pc[v] \in Ended => pc'[v] \in Ended
  BY <1>1, <1>2 DEF Ended, Serving
<1>. QED  BY <1>3, <1>4, <1>5, <1>6 DEF HeldInv

\* The places keep apart along every behaviour of the pool.
LEMMA HeldInvHolds == Spec => []HeldInv
<1>. USE DEF workerVars, poolVars, channelVars, controlVars, accountVars,
         placeVars, flagVars, wakeVars, runVars, outerVars
<1>1. Init => HeldInv
  <2> SUFFICES ASSUME Init PROVE HeldInv
    OBVIOUS
  <2>1. \A w \in Workers, b \in Batches : ~Holds(w, b)
    BY DEF Init, Holds, NoBatch, Batches
  <2>. QED  BY <2>1 DEF Init, HeldInv, Serving, InHand
<1>2. TypeOK /\ TypeOK' /\ SlotInv /\ HeldInv /\ [Next]_vars => HeldInv'
  <2> SUFFICES ASSUME TypeOK, TypeOK', SlotInv, HeldInv, [Next]_vars PROVE HeldInv'
    OBVIOUS
  <2>0. /\ pc \in [Workers -> WorkerPCs] /\ received \in Nat /\ started \in Nat
        /\ work \in [Workers -> Batches \union {NoBatch}]
        /\ batch \in [Workers -> Batches \union {NoBatch}]
        /\ NoBatch \notin Batches /\ Batches \subseteq Nat
    BY BoundsAssumption DEF TypeOK, Batches, NoBatch
  <2>. DEFINE SameHand == \A b \in Batches : InHand(b)' = InHand(b)
  <2>a. ASSUME received' = received, intake' = Roused(intake) PROVE SameHand
    BY <2>a DEF InHand, Roused
  <2>b. ASSUME received' = received, intake' = intake PROVE SameHand
    BY <2>b DEF InHand
  <2>1. CASE Offer  BY <2>1, <2>b, HeldUnmoved DEF Offer
  <2>2. CASE ParentCancel  BY <2>2, <2>b, HeldUnmoved DEF ParentCancel
  <2>3. CASE IntakeStep
    <3>1. CASE IntakeCheck \/ IntakeAdmit \/ IntakeCancelled \/ IntakeStarve
      <4>1. SameHand
        BY <3>1 DEF IntakeCheck, IntakeAdmit, IntakeCancelled, IntakeStarve, InHand
      <4>. QED  BY <3>1, <4>1, HeldUnmoved DEF IntakeCheck, IntakeAdmit, IntakeCancelled,
                   IntakeStarve
    <3>2. CASE IntakeReceive
      <4>1. /\ UNCHANGED <<pc, work, batch, settled>> /\ received' = received + 1
            /\ \A b \in Batches : ~InHand(b) /\ (InHand(b)' => b > received)
        BY <2>0, <3>2 DEF IntakeReceive, InHand
      <4>2. \A w \in Workers, b \in Batches : Holds(w, b)' = Holds(w, b)
        BY <4>1 DEF Holds
      <4>3. \A w \in Workers, b \in Batches : Holds(w, b) => b <= received' /\ ~InHand(b)'
        BY <2>0, <4>1 DEF HeldInv
      <4>4. \A b \in Batches : b > received' \/ InHand(b)' => b > received
        BY <2>0, <4>1
      <4>. QED  BY <4>1, <4>2, <4>3, <4>4 DEF HeldInv
    <3>3. CASE IntakeAssign
      <4>1. PICK w \in Workers : /\ FirstAvailable(w)
                                 /\ work' = [work EXCEPT ![w] = received]
        BY <3>3 DEF IntakeAssign
      <4>2. /\ UNCHANGED <<pc, batch, settled, received>> /\ work[w] = NoBatch
            /\ batch[w] = NoBatch /\ pc[w] \notin Serving
            /\ \A b \in Batches : ~InHand(b)' /\ (InHand(b) <=> b = received)
        BY <2>0, <3>3, <4>1 DEF IntakeAssign, InHand, FirstAvailable, Available, SlotInv
      <4>3. \A v \in Workers, b \in Batches :
                Holds(v, b)' <=> Holds(v, b) \/ (v = w /\ b = received)
        BY <2>0, <4>1, <4>2 DEF Holds
      <4>4. \A v \in Workers, b \in Batches : Holds(v, b) => b # received
        BY <4>2 DEF HeldInv
      <4>5. \A v \in Workers, b \in Batches : Holds(v, b)' =>
                b <= received /\ (pc[v] \notin Ended => settled[b] = "open")
        BY <2>0, <4>2, <4>3 DEF HeldInv
      <4>6. \A v, u \in Workers, b \in Batches : Holds(v, b)' /\ Holds(u, b)' => u = v
        BY <4>3, <4>4 DEF HeldInv
      <4>. QED  BY <4>2, <4>5, <4>6 DEF HeldInv
    <3>. QED  BY <2>3, <3>1, <3>2, <3>3 DEF IntakeStep
  <2>4. ASSUME NEW w \in Workers, WorkerStep(w) PROVE HeldInv'
    <3>. USE DEF Goto
    <3>1. CASE WorkerTop(w)
      <4>1. CASE TakeBatch(w)
        BY <3>1, <4>1, HeldTaken DEF WorkerTop, Serving
      <4>2. CASE ~TakeBatch(w)
        <5>1. \A v \in Workers : /\ pc'[v] \in Serving => pc[v] \in Serving
                                 /\ pc[v] \in Ended => pc'[v] \in Ended
          BY <2>0, <3>1, <4>2 DEF WorkerTop, Serving, Ended
        <5>. QED  BY <2>b, <3>1, <4>2, <5>1, HeldUnmoved DEF WorkerTop
      <4>. QED  BY <4>1, <4>2
    <3>2. CASE WorkerSelect(w)
      <4>1. CASE TakeBatch(w)
        BY <3>2, <4>1, HeldTaken DEF WorkerSelect, Serving
      <4>2. CASE ~TakeBatch(w)
        <5>1. \A v \in Workers : /\ pc'[v] \in Serving => pc[v] \in Serving
                                 /\ pc[v] \in Ended => pc'[v] \in Ended
          BY <2>0, <3>2, <4>2 DEF WorkerSelect, Serving, Ended
        <5>. QED  BY <2>b, <3>2, <4>2, <5>1, HeldUnmoved DEF WorkerSelect
      <4>. QED  BY <4>1, <4>2
    <3>3. CASE BeginAttempt(w) \/ AttemptStarts(w) \/ CountCompleted(w) \/ WorkerDone(w)
      <4>1. \A v \in Workers : /\ pc'[v] \in Serving => pc[v] \in Serving
                               /\ pc[v] \in Ended => pc'[v] \in Ended
        BY <2>0, <3>3 DEF BeginAttempt, AttemptStarts, CountCompleted, WorkerDone, Serving,
                          Ended
      <4>2. UNCHANGED <<work, batch, received, settled, intake>>
        BY <3>3 DEF BeginAttempt, AttemptStarts, CountCompleted, WorkerDone
      <4>. QED  BY <2>b, <4>1, <4>2, HeldUnmoved
    <3>4. CASE GateCheck(w) \/ GateCancelled(w) \/ BackoffSelect(w)
      <4>0. UNCHANGED <<work, batch, received, intake>> /\ pc[w] \in Serving
        BY <3>4 DEF GateCheck, GateCancelled, BackoffSelect, Serving
      <4>1. CASE Drop(w)
        BY <4>0, <4>1, HeldSettled DEF Drop, Ended
      <4>2. CASE ~Drop(w)
        <5>1. /\ settled' = settled /\ pc[w] \notin Ended
              /\ \E to \in Serving : pc' = [pc EXCEPT ![w] = to]
          BY <3>4, <4>2 DEF GateCheck, GateCancelled, BackoffSelect, Serving, Ended
        <5>2. \A v \in Workers : /\ pc'[v] \in Serving => pc[v] \in Serving
                                 /\ pc[v] \in Ended => pc'[v] \in Ended
          BY <2>0, <4>0, <5>1
        <5>. QED  BY <2>b, <4>0, <5>1, <5>2, HeldUnmoved
      <4>. QED  BY <4>1, <4>2
    <3>5. CASE FinishAcceptedBatch(w)
      <4>1. /\ UNCHANGED <<work, settled, received>> /\ pc[w] = "finish"
            /\ batch' = [batch EXCEPT ![w] = NoBatch] /\ pc' = [pc EXCEPT ![w] = "top"]
        BY <3>5 DEF FinishAcceptedBatch
      <4>2. SameHand  BY <2>a, <3>5 DEF FinishAcceptedBatch
      <4>3. work[w] = NoBatch
        BY <4>1 DEF SlotInv, Serving
      <4>4. \A v \in Workers, b \in Batches : Holds(v, b)' <=> Holds(v, b) /\ v # w
        BY <2>0, <4>1, <4>3 DEF Holds
      <4>5. \A v \in Workers : v # w => pc'[v] = pc[v] /\ batch'[v] = batch[v]
        BY <2>0, <4>1
      <4>6. \A v \in Workers : pc'[v] \in Serving => batch'[v] \in Batches
        BY <2>0, <4>1, <4>5 DEF HeldInv, Serving
      <4>. QED  BY <4>1, <4>2, <4>4, <4>5, <4>6 DEF HeldInv
    <3>6. CASE WorkerExited(w)
      <4>1. UNCHANGED <<work, batch, received, settled>> /\ pc[w] = "exit"
        BY <3>6 DEF WorkerExited
      <4>2. \A v \in Workers : /\ pc'[v] \in Serving => pc[v] \in Serving
                               /\ pc[v] \in Ended => pc'[v] \in Ended
        <5>1. started + 1 \in Workers => pc[started + 1] = "unborn"
          BY <2>0 DEF SlotInv
        <5>2. \A v \in Workers : pc'[v] = pc[v] \/ /\ pc'[v] \in {"leave", "top"}
                                                   /\ pc[v] \in {"exit", "unborn"}
          BY <2>0, <3>6, <4>1, <5>1 DEF WorkerExited
        <5>. QED  BY <5>2 DEF Serving, Ended
      <4>3. SameHand  BY <2>a, <3>6 DEF WorkerExited
      <4>. QED  BY <4>1, <4>2, <4>3, HeldUnmoved
    <3>. QED  BY <2>4, <3>1, <3>2, <3>3, <3>4, <3>5, <3>6 DEF WorkerStep
  <2>5. ASSUME NEW w \in Workers, AttemptEnds(w) PROVE HeldInv'
    <3>. USE DEF Goto
    <3>0. UNCHANGED <<work, batch, received, intake>> /\ pc[w] = "flight"
      BY <2>5 DEF AttemptEnds, AttemptSucceeds, AttemptFails, AttemptCancelled
    <3>1. CASE AttemptSucceeds(w)
      BY <3>0, <3>1, HeldSettled DEF AttemptSucceeds, Serving, Ended
    <3>2. CASE AttemptCancelled(w)
      BY <3>0, <3>2, HeldSettled DEF AttemptCancelled, Drop, Serving, Ended
    <3>3. CASE AttemptFails(w)
      <4>1. \A v \in Workers : /\ pc'[v] \in Serving => pc[v] \in Serving
                               /\ pc[v] \in Ended => pc'[v] \in Ended
        BY <2>0, <3>0, <3>3 DEF AttemptFails, Serving, Ended
      <4>. QED  BY <2>b, <3>0, <3>3, <4>1, HeldUnmoved DEF AttemptFails
    <3>. QED  BY <2>5, <3>1, <3>2, <3>3 DEF AttemptEnds
  <2>6. ASSUME NEW w \in Workers, DeadlinePasses(w) PROVE HeldInv'
    BY <2>6, <2>b, HeldUnmoved DEF DeadlinePasses
  <2>7. ASSUME NEW d \in Targets, Reconcile(d) PROVE HeldInv'
    <3>1. Missing(d) \in Nat
      BY MissingIsNat, TargetsAssumption
    <3>2. \A v \in Workers : pc'[v] = pc[v] \/ (pc'[v] = "top" /\ pc[v] = "unborn")
      <4>1. \A v \in Workers : pc'[v] = IF v \in (started + 1)..(started + Missing(d))
                                         THEN "top" ELSE pc[v]
        BY <2>7 DEF Reconcile
      <4>2. \A v \in (started + 1)..(started + Missing(d)) : v > started
        BY <2>0, <3>1
      <4>3. \A v \in Workers : v \in (started + 1)..(started + Missing(d)) => pc[v] = "unborn"
        BY <4>2 DEF SlotInv
      <4>. QED  BY <4>1, <4>3
    <3>3. \A v \in Workers : /\ pc'[v] \in Serving => pc[v] \in Serving
                             /\ pc[v] \in Ended => pc'[v] \in Ended
      BY <3>2 DEF Serving, Ended
    <3>4. SameHand  BY <2>a, <2>7 DEF Reconcile
    <3>. QED  BY <2>7, <3>3, <3>4, HeldUnmoved DEF Reconcile
  <2>8. CASE ReconcileReturns  BY <2>8, <2>b, HeldUnmoved DEF ReconcileReturns
  <2>9. CASE Pause  BY <2>9, <2>b, HeldUnmoved DEF Pause
  <2>10. CASE ResumeRun
    <3>1. \A v \in Workers : /\ pc'[v] \in Serving => pc[v] \in Serving
                             /\ pc[v] \in Ended => pc'[v] \in Ended
      BY <2>0, <2>10 DEF ResumeRun, Serving, Ended
    <3>. QED  BY <2>10, <2>b, <3>1, HeldUnmoved DEF ResumeRun
  <2>11. CASE StopCancel  BY <2>11, <2>b, HeldUnmoved DEF StopCancel
  <2>12. CASE StopBoundary
    <3>1. SameHand  BY <2>a, <2>12 DEF StopBoundary
    <3>. QED  BY <2>12, <3>1, HeldUnmoved DEF StopBoundary
  <2>13. CASE StopJoined  BY <2>13, <2>b, HeldUnmoved DEF StopJoined
  <2>14. CASE UNCHANGED vars  BY <2>14, <2>b, HeldUnmoved DEF vars
  <2>. QED  BY <2>1, <2>2, <2>3, <2>4, <2>5, <2>6, <2>7, <2>8, <2>9, <2>10,
               <2>11, <2>12, <2>13, <2>14 DEF Next, Discarded
<1>. QED  BY <1>1, <1>2, TypeCorrect, SlotInvHolds, PTL DEF Spec

-------------------------------------------------------------------------------
(* The counter: a delivered batch is counted, or its worker is about to.    *)

Successful == {w \in Workers : pc[w] = "success"}
Delivered == {b \in Batches : settled[b] = "delivered"}
CountedInv == completed + Cardinality(Successful) = Cardinality(Delivered)

\* Where nobody succeeds or counts and nothing is delivered, the sum stays.
LEMMA CountUnmoved ==
    ASSUME CountedInv, completed' = completed,
           \A w \in Workers : pc'[w] = "success" <=> pc[w] = "success",
           \A b \in Batches : settled'[b] = "delivered" <=> settled[b] = "delivered"
    PROVE  CountedInv'
<1>1. Successful' = Successful /\ Delivered' = Delivered
  BY DEF Successful, Delivered
<1>. QED  BY <1>1 DEF CountedInv

\* The end of the context takes an open batch, never a delivered one.
LEMMA DropUncounted ==
    ASSUME CountedInv, TypeOK, HeldInv, completed' = completed,
           NEW w \in Workers, pc[w] \in Serving \ {"success", "finish"}, Drop(w)
    PROVE  CountedInv'
<1>1. /\ pc \in [Workers -> WorkerPCs] /\ batch[w] \in Batches
      /\ settled \in [Batches -> {"open", "delivered", "dropped"}]
  BY DEF TypeOK, HeldInv
<1>2. settled[batch[w]] = "open"
  BY <1>1 DEF HeldInv, Holds, Ended
<1>. QED  BY <1>1, <1>2, CountUnmoved DEF Drop, Goto

\* The sum holds along every behaviour of the pool.
LEMMA CountedInvHolds == Spec => []CountedInv
<1>. USE DEF workerVars, poolVars, channelVars, controlVars, accountVars,
         placeVars, flagVars, wakeVars, runVars, outerVars
<1>1. Init => CountedInv
  <2> SUFFICES ASSUME Init PROVE CountedInv
    OBVIOUS
  <2>1. Successful = {} /\ Delivered = {} /\ completed = 0
    BY DEF Init, Successful, Delivered
  <2>. QED  BY <2>1, FS_EmptySet DEF CountedInv
<1>2. TypeOK /\ SlotInv /\ HeldInv /\ CountedInv /\ [Next]_vars => CountedInv'
  <2> SUFFICES ASSUME TypeOK, SlotInv, HeldInv, CountedInv, [Next]_vars PROVE CountedInv'
    OBVIOUS
  <2>0. /\ pc \in [Workers -> WorkerPCs] /\ started \in Nat /\ completed \in Nat
        /\ settled \in [Batches -> {"open", "delivered", "dropped"}]
    BY BoundsAssumption DEF TypeOK
  <2>1. CASE Offer  BY <2>1, CountUnmoved DEF Offer
  <2>2. CASE ParentCancel  BY <2>2, CountUnmoved DEF ParentCancel
  <2>3. CASE IntakeStep
    BY <2>3, CountUnmoved DEF IntakeStep, IntakeCheck, IntakeAdmit, IntakeCancelled,
       IntakeReceive, IntakeAssign, IntakeStarve
  <2>4. ASSUME NEW w \in Workers, WorkerStep(w) PROVE CountedInv'
    <3>1. CASE WorkerTop(w) \/ WorkerSelect(w) \/ BeginAttempt(w) \/ AttemptStarts(w)
               \/ FinishAcceptedBatch(w) \/ WorkerDone(w)
      <4>1. UNCHANGED <<completed, settled>>
        BY <3>1 DEF WorkerTop, WorkerSelect, BeginAttempt, AttemptStarts,
                    FinishAcceptedBatch, WorkerDone
      <4>2. pc[w] # "success" /\ \E to \in WorkerPCs \ {"success"} : pc' = [pc EXCEPT ![w] = to]
        BY <3>1 DEF WorkerTop, WorkerSelect, BeginAttempt, AttemptStarts, TakeBatch,
                    FinishAcceptedBatch, WorkerDone, Goto, WorkerPCs, Running, Serving
      <4>. QED  BY <2>0, <4>1, <4>2, CountUnmoved
    <3>2. CASE GateCheck(w) \/ GateCancelled(w) \/ BackoffSelect(w)
      <4>1. completed' = completed /\ pc[w] \in Serving \ {"success", "finish"}
        BY <3>2 DEF GateCheck, GateCancelled, BackoffSelect, Serving
      <4>2. CASE Drop(w)  BY <4>1, <4>2, DropUncounted
      <4>3. CASE ~Drop(w)
        <5>1. settled' = settled /\ \E to \in WorkerPCs \ {"success"} : pc' = [pc EXCEPT ![w] = to]
          BY <3>2, <4>3 DEF GateCheck, GateCancelled, BackoffSelect, Goto, WorkerPCs,
                            Running, Serving
        <5>. QED  BY <2>0, <4>1, <5>1, CountUnmoved
      <4>. QED  BY <4>2, <4>3
    <3>3. CASE CountCompleted(w)
      <4>1. /\ Successful' = Successful \ {w} /\ w \in Successful /\ Delivered' = Delivered
            /\ completed' = completed + 1
        BY <2>0, <3>3 DEF CountCompleted, Goto, Successful, Delivered
      <4>2. IsFiniteSet(Successful) /\ Cardinality(Successful) \in Nat
        BY WorkersFinite DEF Successful
      <4>3. Cardinality(Successful') = Cardinality(Successful) - 1
        BY <4>1, <4>2, FS_RemoveElement
      <4>. QED  BY <2>0, <4>1, <4>2, <4>3 DEF CountedInv
    <3>4. CASE WorkerExited(w)
      <4>1. UNCHANGED <<completed, settled>> /\ pc[w] = "exit"
        BY <3>4 DEF WorkerExited
      <4>2. started + 1 \in Workers => pc[started + 1] = "unborn"
        BY <2>0 DEF SlotInv
      <4>3. \A v \in Workers : pc'[v] = pc[v] \/ /\ pc'[v] \in {"leave", "top"}
                                                 /\ pc[v] \in {"exit", "unborn"}
        BY <2>0, <3>4, <4>1, <4>2 DEF WorkerExited, Goto
      <4>. QED  BY <4>1, <4>3, CountUnmoved
    <3>. QED  BY <2>4, <3>1, <3>2, <3>3, <3>4 DEF WorkerStep
  <2>5. ASSUME NEW w \in Workers, AttemptEnds(w) PROVE CountedInv'
    <3>0. completed' = completed /\ pc[w] = "flight"
      BY <2>5 DEF AttemptEnds, AttemptSucceeds, AttemptFails, AttemptCancelled
    <3>1. CASE AttemptSucceeds(w)
      <4>1. batch[w] \in Batches /\ settled[batch[w]] = "open"
        BY <3>0 DEF HeldInv, Holds, Ended, Serving
      <4>2. /\ Successful' = Successful \union {w} /\ w \notin Successful
            /\ Delivered' = Delivered \union {batch[w]} /\ batch[w] \notin Delivered
        BY <2>0, <3>0, <3>1, <4>1 DEF AttemptSucceeds, Goto, Successful, Delivered
      <4>3. IsFiniteSet(Successful) /\ Cardinality(Successful) \in Nat
        BY WorkersFinite DEF Successful
      <4>4. IsFiniteSet(Delivered) /\ Cardinality(Delivered) \in Nat
        <5>1. IsFiniteSet(Batches)
          BY FS_Interval, BoundsAssumption DEF Batches
        <5>2. Delivered \in SUBSET Batches
          BY DEF Delivered
        <5>. QED  BY <5>1, <5>2, FS_Subset, FS_CardinalityType
      <4>5. /\ Cardinality(Successful') = Cardinality(Successful) + 1
            /\ Cardinality(Delivered') = Cardinality(Delivered) + 1
        BY <4>2, <4>3, <4>4, FS_AddElement
      <4>. QED  BY <2>0, <3>0, <4>3, <4>4, <4>5 DEF CountedInv
    <3>2. CASE AttemptCancelled(w)
      BY <3>0, <3>2, DropUncounted DEF AttemptCancelled, Serving
    <3>3. CASE AttemptFails(w)
      BY <2>0, <3>0, <3>3, CountUnmoved DEF AttemptFails, Goto
    <3>. QED  BY <2>5, <3>1, <3>2, <3>3 DEF AttemptEnds
  <2>6. ASSUME NEW w \in Workers, DeadlinePasses(w) PROVE CountedInv'
    BY <2>6, CountUnmoved DEF DeadlinePasses
  <2>7. ASSUME NEW d \in Targets, Reconcile(d) PROVE CountedInv'
    <3>1. Missing(d) \in Nat
      BY MissingIsNat, TargetsAssumption
    <3>2. \A v \in Workers : pc'[v] = IF v \in (started + 1)..(started + Missing(d))
                                       THEN "top" ELSE pc[v]
      BY <2>7 DEF Reconcile
    <3>3. \A v \in (started + 1)..(started + Missing(d)) : v > started
      BY <2>0, <3>1
    <3>a. \A v \in Workers : v \in (started + 1)..(started + Missing(d)) => pc[v] = "unborn"
      BY <3>3 DEF SlotInv
    <3>4. \A v \in Workers : pc'[v] = "success" <=> pc[v] = "success"
      BY <3>2, <3>a
    <3>5. UNCHANGED <<completed, settled>>
      BY <2>7 DEF Reconcile
    <3>. QED  BY <3>4, <3>5, CountUnmoved
  <2>8. CASE ReconcileReturns  BY <2>8, CountUnmoved DEF ReconcileReturns
  <2>9. CASE Pause  BY <2>9, CountUnmoved DEF Pause
  <2>10. CASE ResumeRun  BY <2>0, <2>10, CountUnmoved DEF ResumeRun
  <2>11. CASE StopCancel  BY <2>11, CountUnmoved DEF StopCancel
  <2>12. CASE StopBoundary  BY <2>12, CountUnmoved DEF StopBoundary
  <2>13. CASE StopJoined  BY <2>13, CountUnmoved DEF StopJoined
  <2>14. CASE UNCHANGED vars  BY <2>14, CountUnmoved DEF vars
  <2>. QED  BY <2>1, <2>2, <2>3, <2>4, <2>5, <2>6, <2>7, <2>8, <2>9, <2>10,
               <2>11, <2>12, <2>13, <2>14 DEF Next, Discarded
<1>. QED  BY <1>1, <1>2, TypeCorrect, SlotInvHolds, HeldInvHolds, PTL DEF Spec

\* No batch has two servers, nor one and the intake, and the counter has each
\* delivered batch once, or its worker is about to add it.
THEOREM ServedOnce == Spec => []ServedAndCountedOnce
<1>1. HeldInv /\ CountedInv => ServedAndCountedOnce
  BY DEF HeldInv, Holds, CountedInv, Successful, Delivered, ServedAndCountedOnce, Serves
<1>. QED  BY <1>1, HeldInvHolds, CountedInvHolds, PTL

-------------------------------------------------------------------------------
(* Staffing.  A worker that leaves counts itself out before it decides on a *)
(* replacement, and a reconcile counts the workers it makes active again.   *)

StaffInv ==
    /\ NeverUnderstaffed
    /\ \A w \in Workers : pc[w] = "unborn" => ~draining[w]

\* A step that changes neither who lives nor who drains keeps the staff.
LEMMA ActiveUnmoved ==
    ASSUME draining' = draining,
           \A w \in Workers : pc'[w] \in Running \union {"exit"}
                                  <=> pc[w] \in Running \union {"exit"}
    PROVE  Active' = Active /\ Live' = Live
BY DEF Active, Live

\* A worker that leaves is replaced when it is missed.
LEMMA StaffReplaced ==
    ASSUME StaffInv, SlotInv, TypeOK, NEW w \in Workers, WorkerExited(w)
    PROVE  StaffInv' /\ Cardinality(Live') <= Cardinality(Live)
<1>0. /\ pc \in [Workers -> WorkerPCs] /\ draining \in [Workers -> BOOLEAN]
      /\ started \in Nat /\ desired \in Nat
  BY TargetsAssumption, BoundsAssumption DEF TypeOK
<1>1. UNCHANGED <<draining, desired, stopping>> /\ pc[w] = "exit"
  BY DEF WorkerExited, flagVars, runVars
<1>2. IsFiniteSet(Active) /\ Cardinality(Active) \in Nat
  BY WorkersFinite DEF Active, Live
<1>3. /\ IsFiniteSet(Active \ {w}) /\ Cardinality(Active \ {w}) \in Nat
      /\ Cardinality(Active \ {w}) = IF w \in Active THEN Cardinality(Active) - 1
                                     ELSE Cardinality(Active)
  BY <1>2, FS_RemoveElement, FS_CardinalityType
<1>4. w \in Active <=> ~draining[w]
  BY <1>1 DEF Active, Live
<1>9. /\ IsFiniteSet(Live) /\ Cardinality(Live) \in Nat
      /\ IsFiniteSet(Live \ {w}) /\ Cardinality(Live \ {w}) = Cardinality(Live) - 1
  <2>1. IsFiniteSet(Live) /\ w \in Live
    BY <1>1, WorkersFinite DEF Live
  <2>. QED  BY <2>1, FS_RemoveElement, FS_CardinalityType
<1>5. CASE NeedsReplacement(w)
  <2>1. /\ started < MaxStarts /\ ~draining[w]
        /\ pc' = [pc EXCEPT ![w] = "leave", ![started + 1] = "top"]
    BY <1>5 DEF WorkerExited, NeedsReplacement
  <2>. DEFINE new == started + 1
  <2>2. new \in Workers /\ pc[new] = "unborn" /\ new # w
    BY <1>0, <1>1, <2>1, BoundsAssumption DEF Workers, SlotInv
  <2>3. ~draining[new] /\ new \notin Active
    BY <2>2 DEF StaffInv, Active, Live, Running, Serving
  <2>4. pc' = [pc EXCEPT ![w] = "leave", ![new] = "top"]
    BY <2>1
  <2>. HIDE DEF new
  <2>5. Active' = (Active \ {w}) \union {new}
    BY <1>0, <1>1, <2>2, <2>3, <2>4 DEF Active, Live, Running, Serving
  <2>6. Cardinality(Active') = Cardinality(Active \ {w}) + 1
    BY <1>3, <2>3, <2>5, FS_AddElement
  <2>7. \A v \in Workers : pc'[v] = "unborn" => pc[v] = "unborn"
    BY <1>0, <2>2, <2>4
  <2>8. Cardinality(Active') = Cardinality(Active)
    BY <1>2, <1>3, <1>4, <2>1, <2>6
  <2>9. Cardinality(Live') = Cardinality(Live)
    <3>1. new \notin Live
      BY <2>2 DEF Live, Running, Serving
    <3>2. Live' = (Live \ {w}) \union {new}
      BY <1>0, <1>1, <2>2, <2>4 DEF Live, Running, Serving
    <3>3. Cardinality(Live') = Cardinality(Live \ {w}) + 1
      BY <1>9, <3>1, <3>2, FS_AddElement
    <3>. QED  BY <1>9, <3>3
  <2>. QED  BY <1>9, <1>1, <2>7, <2>8, <2>9 DEF StaffInv, NeverUnderstaffed
<1>6. CASE ~NeedsReplacement(w)
  <2>1. pc' = [pc EXCEPT ![w] = "leave"]
    BY <1>6 DEF WorkerExited, Goto
  <2>2. Active' = Active \ {w}
    BY <1>0, <1>1, <2>1 DEF Active, Live, Running, Serving
  <2>3. ~stopping => Cardinality(Active \ {w}) >= desired
    BY <1>0, <1>2, <1>3, <1>4, <1>6 DEF NeedsReplacement, StaffInv, NeverUnderstaffed
  <2>4. \A v \in Workers : pc'[v] = "unborn" => pc[v] = "unborn"
    BY <1>0, <2>1
  <2>5. Live' = Live \ {w}
    BY <1>0, <1>1, <2>1 DEF Live, Running, Serving
  <2>6. Cardinality(Live') <= Cardinality(Live)
    BY <1>9, <2>5
  <2>. QED  BY <1>1, <2>2, <2>3, <2>4, <2>6 DEF StaffInv, NeverUnderstaffed
<1>. QED  BY <1>5, <1>6

\* A reconcile leaves as many active workers as it was asked for, and more only
\* when it made draining workers active again.
LEMMA StaffReconciled ==
    ASSUME StaffInv, SlotInv, TypeOK, NEW d \in Targets, Reconcile(d)
    PROVE  /\ StaffInv' /\ (Revived(d) = {} => Cardinality(Active') = d)
           /\ Cardinality(Live') <= Cardinality(Live) \/ Cardinality(Live') <= d
<1>0. /\ pc \in [Workers -> WorkerPCs] /\ draining \in [Workers -> BOOLEAN]
      /\ started \in Nat /\ d \in Nat /\ Missing(d) \in Nat
  BY TargetsAssumption, BoundsAssumption, MissingIsNat DEF TypeOK
<1>. DEFINE new == (started + 1)..(started + Missing(d))
<1>1. /\ desired' = d /\ UNCHANGED stopping
      /\ pc' = [w \in Workers |-> IF w \in new THEN "top" ELSE pc[w]]
  BY DEF Reconcile
<1>2. PICK retire \in SUBSET Active :
        /\ Retired(retire, d)
        /\ draining' = [w \in Workers |-> \/ w \in retire
                                          \/ draining[w] /\ w \notin Revived(d)]
  BY DEF Reconcile
<1>3. new \subseteq Workers /\ IsFiniteSet(new) /\ Cardinality(new) = Missing(d)
  <2>1. started + Missing(d) <= MaxStarts
    BY <1>0, RoomBounds DEF Reconcile
  <2>2. new \subseteq Workers
    BY <1>0, <2>1, BoundsAssumption DEF Workers
  <2>. DEFINE first == started + 1
  <2>. DEFINE last == started + Missing(d)
  <2>3. first \in Int /\ last \in Int /\ new = first..last
    BY <1>0
  <2>4. last - first + 1 = Missing(d) /\ (first > last => Missing(d) = 0)
    BY <1>0
  <2>. HIDE DEF first, last, new
  <2>5. IsFiniteSet(new) /\ Cardinality(new) = IF first > last THEN 0 ELSE last - first + 1
    BY <2>3, FS_Interval
  <2>. QED  BY <2>2, <2>4, <2>5
<1>4. \A w \in new : pc[w] = "unborn" /\ ~draining[w]
  <2>1. \A w \in new : w > started
    BY <1>0
  <2>. QED  BY <1>3, <2>1 DEF SlotInv, StaffInv
<1>. HIDE DEF new
<1>5. /\ IsFiniteSet(Active) /\ Cardinality(Active) \in Nat
      /\ IsFiniteSet(Live \ Active) /\ Cardinality(Live \ Active) \in Nat
      /\ IsFiniteSet(Live) /\ Cardinality(Live) \in Nat
      /\ IsFiniteSet(retire) /\ Cardinality(retire) \in Nat
      /\ IsFiniteSet(Active \ retire) /\ Cardinality(Active \ retire) \in Nat
  BY WorkersFinite DEF Active, Live
<1>6. \A w \in new : w \notin Live
  BY <1>4 DEF Live, Running, Serving
<1>7. Live' = Live \union new
  BY <1>1, <1>3, <1>6 DEF Live, Running
<1>8. /\ Cardinality(Active') >= d /\ (Revived(d) = {} => Cardinality(Active') = d)
      /\ Cardinality(Live') <= Cardinality(Live) \/ Cardinality(Live') <= d
  <2>1. CASE Cardinality(Active) < d
    <3>1. retire = {} /\ Revived(d) = Live \ Active
      BY <1>0, <1>2, <1>5, <2>1 DEF Retired, Revived
    <3>2. Active' = Live \union new
      BY <1>2, <1>3, <1>4, <1>7, <3>1 DEF Active, Live
    <3>3. Cardinality(Live) = Cardinality(Active) + Cardinality(Live \ Active)
      <4>1. Live \intersect Active = Active
        BY DEF Active
      <4>2. Cardinality(Live \ Active) = Cardinality(Live) - Cardinality(Live \intersect Active)
        BY <1>5, FS_Difference
      <4>3. Cardinality(Live \intersect Active) = Cardinality(Active)
        BY <4>1, Zenon
      <4>. QED  BY <1>5, <4>2, <4>3
    <3>4. Cardinality(Live \union new) = Cardinality(Live) + Missing(d)
      <4>1. Live \intersect new = {}
        BY <1>6
      <4>2. Cardinality(Live \intersect new) = 0
        BY <4>1, FS_EmptySet, Zenon
      <4>3. Cardinality(Live \union new)
                = Cardinality(Live) + Cardinality(new) - Cardinality(Live \intersect new)
        BY <1>3, <1>5, FS_Union
      <4>. QED  BY <1>0, <1>3, <1>5, <4>2, <4>3
    <3>5. Cardinality(Live) + Missing(d) >= d
      BY <1>0, <1>5, <3>1, <3>3 DEF Missing
    <3>6. Revived(d) = {} => Cardinality(Live) + Missing(d) = d
      <4>1. Revived(d) = {} => Cardinality(Live \ Active) = 0
        BY <3>1, FS_EmptySet
      <4>. QED  BY <1>0, <1>5, <2>1, <3>1, <3>3, <4>1 DEF Missing
    <3>7. Cardinality(Live') <= Cardinality(Live) \/ Cardinality(Live') <= d
      <4>1. Missing(d) = IF Cardinality(Live) < d THEN d - Cardinality(Live) ELSE 0
        BY <3>1, <3>3 DEF Missing
      <4>. QED  BY <1>0, <1>5, <1>7, <3>4, <4>1
    <3>. QED  BY <3>2, <3>4, <3>5, <3>6, <3>7
  <2>2. CASE Cardinality(Active) >= d
    <3>1. Revived(d) = {}
      BY <1>0, <1>5, <2>2 DEF Revived
    <3>2. Missing(d) = 0
      BY <1>0, <1>5, <2>2, <3>1, FS_EmptySet DEF Missing
    <3>3. new = {}
      BY <1>3, <3>2, FS_EmptySet
    <3>4. Active' = Active \ retire
      BY <1>0, <1>2, <1>7, <3>1, <3>3 DEF Active, Live
    <3>5. Cardinality(Active \ retire) = Cardinality(Active) - Cardinality(retire)
      <4>1. Active \intersect retire = retire
        OBVIOUS
      <4>. QED  BY <1>5, <4>1, FS_Difference
    <3>6. Live' = Live
      BY <1>7, <3>3
    <3>. QED  BY <1>0, <1>2, <1>5, <2>2, <3>4, <3>5, <3>6, FS_EmptySet DEF Retired
  <2>. QED  BY <1>0, <1>5, <2>1, <2>2
<1>9. \A w \in Workers : pc'[w] = "unborn" => ~draining'[w]
  <2>1. \A w \in Workers : pc'[w] = "unborn" => pc[w] = "unborn"
    BY <1>1
  <2>2. \A w \in retire : pc[w] # "unborn"
    BY DEF Active, Live, Running, Serving
  <2>. QED  BY <1>2, <2>1, <2>2 DEF StaffInv
<1>. QED  BY <1>1, <1>8, <1>9 DEF StaffInv, NeverUnderstaffed

\* Every other step leaves the staff alone.
LEMMA StaffKept ==
    ASSUME TypeOK, [Next]_vars, \A w \in Workers : ~WorkerExited(w),
           \A d \in Targets : ~Reconcile(d)
    PROVE  /\ Active' = Active /\ Live' = Live
           /\ UNCHANGED <<draining, desired>> /\ (stopping => stopping')
           /\ \A w \in Workers : /\ pc'[w] = "unborn" => pc[w] = "unborn"
                                 /\ pc'[w] = "exit" /\ pc[w] # "exit" => draining[w] \/ stopping
<1>. USE DEF workerVars, poolVars, channelVars, controlVars, accountVars,
         placeVars, flagVars, wakeVars, runVars, outerVars
<1>0. pc \in [Workers -> WorkerPCs]
  BY DEF TypeOK
<1>1. CASE IntakeStep
  BY <1>1, ActiveUnmoved DEF IntakeStep, IntakeCheck, IntakeAdmit, IntakeCancelled,
     IntakeReceive, IntakeAssign, IntakeStarve
<1>2. ASSUME NEW w \in Workers, WorkerStep(w) \/ AttemptEnds(w)
      PROVE  /\ UNCHANGED <<draining, desired, stopping>>
             /\ \A v \in Workers : /\ pc'[v] \in Running \union {"exit"}
                                          <=> pc[v] \in Running \union {"exit"}
                                   /\ pc'[v] = "unborn" => pc[v] = "unborn"
                                   /\ pc'[v] = "exit" /\ pc[v] # "exit"
                                          => draining[v] \/ stopping
  <2>1. UNCHANGED <<draining, desired, stopping>>
    BY <1>2 DEF WorkerStep, WorkerTop, WorkerSelect, BeginAttempt, GateCheck, GateCancelled,
       BackoffSelect, AttemptStarts, CountCompleted, FinishAcceptedBatch, WorkerDone,
       AttemptEnds, AttemptSucceeds, AttemptFails, AttemptCancelled
  <2>2. CASE WorkerDone(w)
    BY <1>0, <2>1, <2>2 DEF WorkerDone, Goto, Running, Serving
  <2>3. CASE ~WorkerDone(w)
    <3>1. /\ pc[w] \in Running
          /\ \/ \E to \in Running : pc' = [pc EXCEPT ![w] = to]
             \/ pc' = [pc EXCEPT ![w] = "exit"] /\ (draining[w] \/ stopping)
      <4>. USE DEF Goto, Running, Serving
      <4>1. CASE WorkerTop(w) \/ WorkerSelect(w)
        BY <4>1 DEF WorkerTop, WorkerSelect, TakeBatch
      <4>2. CASE GateCheck(w) \/ GateCancelled(w) \/ BackoffSelect(w)
        BY <4>2 DEF GateCheck, GateCancelled, BackoffSelect, Drop
      <4>3. CASE BeginAttempt(w) \/ AttemptStarts(w) \/ CountCompleted(w)
                 \/ FinishAcceptedBatch(w)
        BY <4>3 DEF BeginAttempt, AttemptStarts, CountCompleted, FinishAcceptedBatch
      <4>4. CASE AttemptEnds(w)
        BY <4>4 DEF AttemptEnds, AttemptSucceeds, AttemptFails, AttemptCancelled, Drop
      <4>. QED  BY <1>2, <2>3, <4>1, <4>2, <4>3, <4>4 DEF WorkerStep
    <3>. QED  BY <1>0, <2>1, <3>1 DEF Running, Serving
  <2>. QED  BY <2>2, <2>3
<1>3. ASSUME NEW w \in Workers, WorkerStep(w) \/ AttemptEnds(w)
      PROVE  Active' = Active /\ Live' = Live
  BY <1>2, <1>3, ActiveUnmoved
<1>4. CASE ResumeRun
  BY <1>0, <1>4, ActiveUnmoved DEF ResumeRun, Running, Serving
<1>5. CASE \/ Offer \/ ParentCancel \/ ReconcileReturns \/ Pause
           \/ StopCancel \/ StopBoundary \/ StopJoined \/ UNCHANGED vars
           \/ \E w \in Workers : DeadlinePasses(w)
  BY <1>5, ActiveUnmoved DEF Offer, ParentCancel, ReconcileReturns, Pause, StopCancel,
     StopBoundary, StopJoined, DeadlinePasses, vars
<1>. QED  BY <1>1, <1>2, <1>3, <1>4, <1>5 DEF Next, Discarded

\* The pool is never understaffed, along every behaviour.
LEMMA StaffInvHolds == Spec => []StaffInv
<1>1. Init => StaffInv
  <2> SUFFICES ASSUME Init PROVE StaffInv
    OBVIOUS
  <2>1. Initial \in Nat /\ Initial <= MaxStarts /\ MaxStarts \in Nat
    BY TargetsAssumption, BoundsAssumption
  <2>2. Active = 1..Initial
    BY <2>1 DEF Init, Active, Live, Running, Serving, Workers
  <2>3. Cardinality(Active) = Initial
    BY <2>1, <2>2, FS_Interval
  <2>. QED  BY <2>1, <2>3 DEF Init, StaffInv, NeverUnderstaffed
<1>2. TypeOK /\ SlotInv /\ StaffInv /\ [Next]_vars => StaffInv'
  BY StaffReplaced, StaffReconciled, StaffKept DEF StaffInv, NeverUnderstaffed
<1>. QED  BY <1>1, <1>2, TypeCorrect, SlotInvHolds, PTL DEF Spec

\* As long as the pool is not stopped, as many workers are active as the last
\* reconcile asked for, or more, whoever leaves meanwhile.
THEOREM AlwaysStaffed == Spec => []NeverUnderstaffed
<1>1. StaffInv => NeverUnderstaffed
  BY DEF StaffInv
<1>. QED  BY <1>1, StaffInvHolds, PTL

\* No exit and no reconcile, wherever it finds the workers, makes the pool
\* larger than the largest count asked for: the revived ones count, and a
\* replacement comes for one that leaves.
THEOREM NoWorkersPileUp == Spec => []NeverOverstaffed
<1>1. Init => NeverOverstaffed
  <2> SUFFICES ASSUME Init PROVE Cardinality(Live) <= Initial
    BY TargetsAssumption DEF NeverOverstaffed
  <2>1. Initial \in Nat /\ Initial <= MaxStarts /\ MaxStarts \in Nat
    BY TargetsAssumption, BoundsAssumption
  <2>2. Live = 1..Initial
    BY <2>1 DEF Init, Live, Running, Serving, Workers
  <2>3. Cardinality(1..Initial) = Initial
    <3>1. 1 \in Int /\ Initial \in Int
      BY <2>1
    <3>2. Cardinality(1..Initial) = IF 1 > Initial THEN 0 ELSE Initial - 1 + 1
      BY <3>1, FS_Interval, Zenon
    <3>. QED  BY <2>1, <3>2
  <2>. QED  BY <2>1, <2>2, <2>3
<1>2. TypeOK /\ SlotInv /\ StaffInv /\ NeverOverstaffed /\ [Next]_vars => NeverOverstaffed'
  <2> SUFFICES ASSUME TypeOK, SlotInv, StaffInv, NeverOverstaffed, [Next]_vars
               PROVE  NeverOverstaffed'
    OBVIOUS
  <2>1. PICK d \in Targets : Cardinality(Live) <= d
    BY DEF NeverOverstaffed
  <2>2. Cardinality(Live) \in Nat /\ Cardinality(Live') \in Nat /\ d \in Nat
    BY WorkersFinite, TargetsAssumption DEF Live
  <2>3. \/ Cardinality(Live') <= Cardinality(Live)
        \/ \E e \in Targets : Cardinality(Live') <= e
    BY <2>2, StaffReplaced, StaffReconciled, StaffKept
  <2>. QED  BY <2>1, <2>2, <2>3 DEF NeverOverstaffed
<1>. QED  BY <1>1, <1>2, TypeCorrect, SlotInvHolds, StaffInvHolds, PTL DEF Spec

\* Patient behaviours have exactly the staff they were asked for.
ExactInv == ~stopping => Cardinality(Active) = desired

\* In a patient behaviour every reconcile sets the count and every exit keeps it.
LEMMA ExactInvHolds == PatientSpec => []ExactInv
<1>1. Init => ExactInv
  <2> SUFFICES ASSUME Init PROVE ExactInv
    OBVIOUS
  <2>1. Initial \in Nat /\ Initial <= MaxStarts /\ MaxStarts \in Nat
    BY TargetsAssumption, BoundsAssumption
  <2>2. Active = 1..Initial
    BY <2>1 DEF Init, Active, Live, Running, Serving, Workers
  <2>. QED  BY <2>1, <2>2, FS_Interval DEF Init, ExactInv
<1>2. /\ TypeOK /\ SlotInv /\ StaffInv /\ KeptInv /\ ExactInv
      /\ [Next /\ NoRevival]_vars
      => ExactInv'
  <2> SUFFICES ASSUME TypeOK, SlotInv, StaffInv, KeptInv, ExactInv, [Next /\ NoRevival]_vars
               PROVE  ExactInv'
    OBVIOUS
  <2>1. ASSUME NEW w \in Workers, WorkerExited(w) PROVE ExactInv'
    <3>1. UNCHANGED <<draining, desired, stopping>> /\ pc[w] = "exit"
      BY <2>1 DEF WorkerExited, flagVars, runVars
    <3>2. CASE draining[w]
      <4>1. pc' = [pc EXCEPT ![w] = "leave"]
        BY <2>1, <3>2 DEF WorkerExited, NeedsReplacement, Goto
      <4>2. Active' = Active
        BY <3>1, <3>2, <4>1 DEF TypeOK, Active, Live, Running, Serving
      <4>. QED  BY <3>1, <4>2 DEF ExactInv
    <3>. QED  BY <3>1, <3>2 DEF KeptInv, ExactInv
  <2>2. ASSUME NEW d \in Targets, Reconcile(d), NoRevival PROVE ExactInv'
    <3>1. PICK retire \in SUBSET Active :
            /\ Retired(retire, d)
            /\ draining' = [w \in Workers |-> \/ w \in retire
                                              \/ draining[w] /\ w \notin Revived(d)]
      BY <2>2 DEF Reconcile
    <3>2. \A w \in Revived(d) : w \in Live /\ draining[w] /\ w \notin Active /\ w \in Workers
      BY DEF Revived, Active, Live
    <3>3. Revived(d) = {}
      BY <2>2, <3>1, <3>2 DEF NoRevival
    <3>. QED  BY <2>2, <3>3, StaffReconciled DEF Reconcile, ExactInv
  <2>3. CASE UNCHANGED vars \/ (Next /\ (\A w \in Workers : ~WorkerExited(w))
                                     /\ \A d \in Targets : ~Reconcile(d))
    BY <2>3, StaffKept DEF ExactInv, vars, workerVars, flagVars, placeVars, poolVars,
                           runVars, Active, Live
  <2>. QED  BY <2>1, <2>2, <2>3
<1>. QED  BY <1>1, <1>2, PatientIsSpec, TypeCorrect, SlotInvHolds, StaffInvHolds,
             KeptInvHolds, PTL DEF PatientSpec

\* When no scale-up met a worker that still drained and nobody is on the way
\* out, as many workers live as were asked for.
THEOREM ConvergesToDesired == PatientSpec => []ConvergedToDesired
<1>1. ExactInv => ConvergedToDesired
  <2> SUFFICES ASSUME ExactInv, Converged PROVE Cardinality(Live) = desired
    BY DEF ConvergedToDesired
  <2>1. Live = Active
    BY DEF Converged, Active
  <2>. QED  BY <2>1 DEF ExactInv, Converged
<1>. QED  BY <1>1, ExactInvHolds, PTL

-------------------------------------------------------------------------------
(* The refinement of SenderDelivery by patient behaviours. *)

SealInv == control \in {"boundary", "joined"} => stopping

\* The joins of stop come after its boundary.
LEMMA SealInvHolds == Spec => []SealInv
<1>. USE DEF workerVars, poolVars, channelVars, controlVars, accountVars,
         placeVars, flagVars, wakeVars, runVars, outerVars
<1>1. Init => SealInv
  BY DEF Init, SealInv
<1>2. SealInv /\ [Next]_vars => SealInv'
  <2> SUFFICES ASSUME SealInv, [Next]_vars PROVE SealInv'
    OBVIOUS
  <2>. USE DEF SealInv
  <2>1. CASE IntakeStep
    BY <2>1 DEF IntakeStep, IntakeCheck, IntakeAdmit, IntakeCancelled, IntakeReceive,
                IntakeAssign, IntakeStarve
  <2>2. ASSUME NEW w \in Workers, WorkerStep(w) PROVE SealInv'
    BY <2>2 DEF WorkerStep, WorkerTop, WorkerSelect, BeginAttempt, GateCheck, GateCancelled,
                BackoffSelect, AttemptStarts, CountCompleted, FinishAcceptedBatch,
                WorkerExited, WorkerDone
  <2>3. ASSUME NEW w \in Workers, AttemptEnds(w) \/ DeadlinePasses(w) PROVE SealInv'
    BY <2>3 DEF AttemptEnds, AttemptSucceeds, AttemptFails, AttemptCancelled, DeadlinePasses
  <2>4. ASSUME NEW d \in Targets, Reconcile(d) PROVE SealInv'
    BY <2>4 DEF Reconcile
  <2>5. CASE \/ Offer \/ ParentCancel \/ ReconcileReturns \/ Pause \/ ResumeRun
             \/ StopCancel \/ StopBoundary \/ StopJoined
    BY <2>5 DEF Offer, ParentCancel, ReconcileReturns, Pause, ResumeRun, StopCancel,
                StopBoundary, StopJoined
  <2>6. CASE UNCHANGED vars  BY <2>6 DEF vars
  <2>. QED  BY <2>1, <2>2, <2>3, <2>4, <2>5, <2>6 DEF Next, Discarded
<1>. QED  BY <1>1, <1>2, PTL DEF Spec

\* The instance counts as this module does.
LEMMA SameCardinality == \A S : Delivery!Cardinality(S) = Cardinality(S)
BY DEF Delivery!Cardinality, Cardinality

Closed == control = "joined"
Promised == <<received, settled, completed, cancelled, stopping, Closed>>

\* The fate of a batch is given once, by its only server.
LEMMA DropImplements ==
    ASSUME TypeOK, HeldInv, UNCHANGED <<received, completed, cancelled, stopping, control>>,
           NEW w \in Workers, pc[w] \in Serving \ Ended, Drop(w)
    PROVE  \E b \in 1..received : Delivery!Drop(b)
<1>1. batch[w] \in Batches /\ settled[batch[w]] = "open" /\ batch[w] <= received
  BY DEF HeldInv, Holds
<1>2. batch[w] \in 1..received
  BY <1>1 DEF Batches, TypeOK
<1>3. Delivery!Drop(batch[w])
  BY <1>1 DEF Drop, Delivery!Drop
<1>. QED  BY <1>2, <1>3

\* Every step of a patient pool keeps a promise of the delivery, or says
\* nothing of it.
LEMMA StepImplements ==
    ASSUME TypeOK, BoundaryInv, KeptInv, HeldInv, CountedInv, SealInv, [Next]_vars
    PROVE  [Delivery!Next]_(Delivery!vars)
<1>. USE DEF workerVars, poolVars, channelVars, controlVars, accountVars,
         placeVars, flagVars, wakeVars, runVars, outerVars
<1>a. UNCHANGED Promised => UNCHANGED Delivery!vars
  BY DEF Promised, Closed, Delivery!vars
<1>b. /\ IsFiniteSet(Successful) /\ Cardinality(Successful) \in Nat
      /\ Cardinality(Delivered) \in Nat /\ completed \in Nat
      /\ Delivered = Delivery!Delivered
  <2>1. IsFiniteSet(Batches)
    BY FS_Interval, BoundsAssumption DEF Batches
  <2>2. Delivered \in SUBSET Batches
    BY DEF Delivered
  <2>3. Cardinality(Delivered) \in Nat
    BY <2>1, <2>2, FS_Subset, FS_CardinalityType
  <2>. QED  BY <2>3, WorkersFinite DEF Successful, Delivered, Delivery!Delivered, Batches, TypeOK
<1>1. CASE IntakeStep
  <2>1. CASE IntakeReceive
    <3>1. ~stopping /\ received < MaxBatches
      BY <2>1, BoundsAssumption DEF IntakeReceive, BatchReady, BoundaryInv, IntakeHolds, TypeOK
    <3>2. Delivery!Take
      BY <2>1, <3>1 DEF IntakeReceive, Delivery!Take
    <3>. QED  BY <3>2 DEF Delivery!Next
  <2>2. CASE ~IntakeReceive
    BY <1>1, <1>a, <2>2 DEF IntakeStep, IntakeCheck, IntakeAdmit, IntakeCancelled,
       IntakeAssign, IntakeStarve, Promised, Closed
  <2>. QED  BY <2>1, <2>2
<1>2. ASSUME NEW w \in Workers, WorkerStep(w) PROVE [Delivery!Next]_(Delivery!vars)
  <2>1. CASE GateCheck(w) \/ GateCancelled(w) \/ BackoffSelect(w)
    <3>1. /\ UNCHANGED <<received, completed, cancelled, stopping, control>>
          /\ pc[w] \in Serving \ Ended
      BY <2>1 DEF GateCheck, GateCancelled, BackoffSelect, Serving, Ended
    <3>2. CASE Drop(w)  BY <3>1, <3>2, DropImplements DEF Delivery!Next
    <3>3. CASE ~Drop(w)
      BY <1>a, <2>1, <3>1, <3>3 DEF GateCheck, GateCancelled, BackoffSelect, Promised, Closed
    <3>. QED  BY <3>2, <3>3
  <2>2. CASE CountCompleted(w)
    <3>1. w \in Successful /\ completed' = completed + 1
      BY <2>2 DEF CountCompleted, Successful
    <3>2. Cardinality(Successful) # 0
      BY <1>b, <3>1, FS_EmptySet
    <3>3. completed < Cardinality(Delivery!Delivered)
      BY <1>b, <3>2 DEF CountedInv
    <3>4. Delivery!Count
      BY <2>2, <3>3, SameCardinality DEF CountCompleted, Delivery!Count
    <3>. QED  BY <3>4 DEF Delivery!Next
  <2>3. CASE WorkerTop(w) \/ WorkerSelect(w) \/ BeginAttempt(w) \/ AttemptStarts(w)
             \/ FinishAcceptedBatch(w) \/ WorkerExited(w) \/ WorkerDone(w)
    BY <1>a, <2>3 DEF WorkerTop, WorkerSelect, BeginAttempt, AttemptStarts,
       FinishAcceptedBatch, WorkerExited, WorkerDone, Promised, Closed
  <2>. QED  BY <1>2, <2>1, <2>2, <2>3 DEF WorkerStep
<1>3. ASSUME NEW w \in Workers, AttemptEnds(w) PROVE [Delivery!Next]_(Delivery!vars)
  <2>0. /\ UNCHANGED <<received, completed, cancelled, stopping, control>>
        /\ pc[w] \in Serving \ Ended
    BY <1>3 DEF AttemptEnds, AttemptSucceeds, AttemptFails, AttemptCancelled, Serving, Ended
  <2>1. CASE AttemptSucceeds(w)
    <3>1. batch[w] \in Batches /\ settled[batch[w]] = "open" /\ batch[w] <= received
      BY <2>0 DEF HeldInv, Holds
    <3>2. batch[w] \in 1..received
      BY <3>1 DEF Batches, TypeOK
    <3>3. Delivery!Deliver(batch[w])
      BY <2>0, <2>1, <3>1 DEF AttemptSucceeds, Delivery!Deliver
    <3>. QED  BY <3>2, <3>3 DEF Delivery!Next
  <2>2. CASE AttemptCancelled(w)
    BY <2>0, <2>2, DropImplements DEF AttemptCancelled, Delivery!Next
  <2>3. CASE AttemptFails(w)
    BY <1>a, <2>3 DEF AttemptFails, Promised, Closed
  <2>. QED  BY <1>3, <2>1, <2>2, <2>3 DEF AttemptEnds
<1>4. ASSUME NEW w \in Workers, DeadlinePasses(w) PROVE [Delivery!Next]_(Delivery!vars)
  BY <1>4, <1>a DEF DeadlinePasses, Promised, Closed
<1>5. ASSUME NEW d \in Targets, Reconcile(d) PROVE [Delivery!Next]_(Delivery!vars)
  BY <1>5, <1>a DEF Reconcile, Promised, Closed
<1>6. CASE ParentCancel \/ StopCancel
  <2>1. Delivery!End
    BY <1>6 DEF ParentCancel, StopCancel, Delivery!End
  <2>. QED  BY <2>1 DEF Delivery!Next
<1>7. CASE StopBoundary
  <2>1. Delivery!Seal
    BY <1>7 DEF StopBoundary, BoundaryInv, Delivery!Seal
  <2>. QED  BY <2>1 DEF Delivery!Next
<1>8. CASE StopJoined
  <2>1. \A w \in Workers : pc[w] \notin Running \union {"success"}
    BY <1>8 DEF StopJoined, AllJoined, Running, Serving
  <2>2. \A b \in 1..received : settled[b] # "open"
    BY <1>8, <2>1 DEF StopJoined, AllJoined, KeptInv, NoAcceptedBatchLost, InHand, Serves
  <2>3. Successful = {}
    BY <2>1 DEF Successful
  <2>4. completed = Cardinality(Delivery!Delivered)
    BY <1>b, <2>3, FS_EmptySet DEF CountedInv
  <2>5. Delivery!Close
    BY <1>8, <2>2, <2>4, SameCardinality DEF StopJoined, SealInv, Delivery!Close
  <2>. QED  BY <2>5 DEF Delivery!Next
<1>9. CASE Offer \/ ReconcileReturns \/ Pause \/ ResumeRun \/ UNCHANGED vars
  BY <1>9, <1>a DEF Offer, ReconcileReturns, Pause, ResumeRun, vars, Promised, Closed
<1>. QED  BY <1>1, <1>2, <1>3, <1>4, <1>5, <1>6, <1>7, <1>8, <1>9 DEF Next, Discarded

\* A pool whose draining workers are left to go keeps the promises of
\* SenderDelivery, for any number of workers and batches.
THEOREM DeliveryImplemented == PatientSpec => ImplementsDelivery
<1>1. Init => Delivery!Init
  BY DEF Init, Delivery!Init, Batches
<1>2. TypeOK /\ BoundaryInv /\ KeptInv /\ HeldInv /\ CountedInv /\ SealInv /\ [Next]_vars
        => [Delivery!Next]_(Delivery!vars)
  BY StepImplements
<1>3. PatientSpec => Init /\ [][Next]_vars
  BY PatientIsSpec, PTL DEF Spec
<1>. QED  BY <1>1, <1>2, <1>3, PatientIsSpec, TypeCorrect, BoundaryInvHolds, KeptInvHolds,
             HeldInvHolds, CountedInvHolds, SealInvHolds, PTL
          DEF ImplementsDelivery, Delivery!Spec

===============================================================================
