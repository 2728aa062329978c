-------------------------- MODULE ReaderStagesProofs --------------------------
(***************************************************************************)
(* Proofs about ReaderStages, for any number of workers, files, batches    *)
(* and any capacity of the reader channel.                                 *)
(***************************************************************************)
EXTENDS ReaderStages, FiniteSetTheorems, WellFoundedInduction, TLAPS

-------------------------------------------------------------------------------
(* Arithmetic *)

\* A nonempty set of naturals has a least member.
LEMMA LeastMember ==
    ASSUME NEW T, T \subseteq Nat, T # {}
    PROVE  \E x \in T : \A y \in T : x <= y
<1>. DEFINE R == {ss \in Nat \X Nat : ss[1] < ss[2]}
<1>1. IsWellFoundedOn(R, Nat)
  BY NatLessThanWellFounded DEF OpToRel
<1>2. PICK x \in T : \A y \in T : ~(<<y, x>> \in R)
  <2>. HIDE DEF R
  <2>. QED  BY <1>1, WFMin
<1>3. ASSUME NEW y \in T PROVE x <= y
  <2>1. <<y, x>> \in Nat \X Nat => ~(y < x)
    BY <1>2, <1>3
  <2>. QED  BY <2>1, <1>3
<1>. QED  BY <1>3

\* Round and round the files.
LEMMA Around ==
    ASSUME NEW N \in Nat \ {0}, NEW f \in 0..(N - 1)
    PROVE  /\ f % N = f /\ (f + N) % N = f
           /\ (f + 1) % N \in 0..(N - 1)
  OBVIOUS

\* claimNextFile finds a file whenever one is left, and one that nobody has.
LEMMA NextFileIsUnclaimed ==
    ASSUME nextFile \in Files, Unclaimed # {}
    PROVE  NextFile \in Unclaimed
<1>. DEFINE Fits(k) == (nextFile + k) % NumFiles \in Unclaimed
            T == {k \in Files : Fits(k)}
<1>0. NumFiles \in Nat \ {0}
  BY BoundsAssumption
<1>1. T # {}
  <2>1. PICK f \in Files : f \in Unclaimed
    BY DEF Unclaimed
  <2>2. CASE f >= nextFile
    <3>1. f - nextFile \in Files /\ nextFile + (f - nextFile) = f /\ f % NumFiles = f
      BY <1>0, <2>2, Around DEF Files
    <3>. QED  BY <2>1, <3>1
  <2>3. CASE f < nextFile
    <3>1. f - nextFile + NumFiles \in Files /\ nextFile + (f - nextFile + NumFiles) = f + NumFiles
          /\ (f + NumFiles) % NumFiles = f
      BY <1>0, <2>3, Around DEF Files
    <3>. QED  BY <2>1, <3>1
  <2>. QED  BY <1>0, <2>2, <2>3 DEF Files
<1>2. PICK k \in T : \A j \in T : k <= j
  <2>. T \subseteq Nat
    BY <1>0 DEF Files
  <2>. HIDE DEF T
  <2>. QED  BY <1>1, LeastMember
<1>3. \A j \in 0..(k - 1) : (nextFile + j) % NumFiles \notin Unclaimed
  <2> SUFFICES ASSUME NEW j \in 0..(k - 1), Fits(j) PROVE FALSE
    OBVIOUS
  <2>1. k \in Nat /\ k < NumFiles /\ j \in Files /\ j < k
    BY <1>0 DEF Files
  <2>2. j \in T
    BY <2>1
  <2>3. k <= j
    BY <1>2, <2>2
  <2>. QED  BY <2>1, <2>3
<1>4. \E i \in Files : /\ (nextFile + i) % NumFiles \in Unclaimed
                       /\ \A j \in 0..(i - 1) : (nextFile + j) % NumFiles \notin Unclaimed
  BY <1>2, <1>3
<1>. QED  BY <1>4 DEF NextFile

-------------------------------------------------------------------------------
(* The invariant *)

\* What the goroutines hold: a busy worker a file, a sending one a batch, the
\* throttler a batch exactly between a receipt and its end.
HoldInv ==
    /\ at \in [Slots -> WorkerPCs]
    /\ file \in [Slots -> Files \union {NoFile}]
    /\ batch \in [Slots -> 0..MaxBatches]
    /\ \A w \in Slots : at[w] \in Busy => file[w] \in Files
    /\ \A w \in Slots : at[w] \in Sending => batch[w] \in 1..MaxBatches
    /\ throttler \in ThrottlerPCs
    /\ throttler \in {"select", "done"} => hand = NoBatch
    /\ throttler \notin {"select", "done"} => hand \in Batches

\* Claims: p.active names the files of the busy workers, one each.
ClaimInv ==
    /\ active \subseteq Files /\ nextFile \in Files
    /\ \A w \in Slots : at[w] \in Busy => file[w] \in active
    /\ \A f \in active : \E w \in Slots : at[w] \in Busy /\ file[w] = f
    /\ \A v, w \in Slots :
          at[v] \in Busy /\ at[w] \in Busy /\ file[v] = file[w] => v = w

\* Nothing is stopped but under an ended context, and nobody is left when the
\* pool's goroutine says so; the order of a stop.
EndInv ==
    /\ \A w \in Slots : at[w] = "raise" => poolEnded
    /\ stopping => CtxEnded
    /\ closer \in {"waiting", "joining", "done"}
    /\ closer # "waiting" => stopping
    /\ closer = "done" => \A w \in Slots : at[w] = "free"
    /\ loop \in {"joinThrottler", "closed"} => closer = "done"
    /\ loop = "closed" => throttler = "done"

\* The rest of the types.
RestInv ==
    /\ draining \subseteq Live
    /\ desired \in Targets
    /\ stopping \in BOOLEAN /\ poolEnded \in BOOLEAN /\ runEnded \in BOOLEAN
    /\ once \in {"open", "running", "done"} /\ errors \in BOOLEAN
    /\ capacity \in Capacities
    /\ channel \in Seq(Batches) /\ Len(channel) <= capacity
    /\ read \in [Files -> 0..MaxBatches] /\ passed \in [Files -> 0..MaxBatches]
    /\ sent \in Nat /\ received \in Nat
    /\ settings \in Settings /\ wanted \in Settings
    /\ loop \in {"idle", "update", "stopping", "joinReaders", "joinThrottler", "closed"}

\* A wake-up changes no claim and no send.
LEMMA AwakeKeeps ==
    ASSUME NEW a \in WorkerPCs
    PROVE  /\ Awake(a) \in WorkerPCs
           /\ Awake(a) \in Busy <=> a \in Busy
           /\ Awake(a) \in Sending <=> a \in Sending
           /\ \A b \in Busy \union {"free", "leave"} : Awake(a) = b <=> a = b
  BY DEF Awake, WorkerPCs, Busy, Sending

\* Workers keep their file while they are busy and their batch while they
\* send it, the throttler its batch until it is passed on or given up.
LEMMA HoldStep == HoldInv /\ ClaimInv /\ RestInv /\ [Next]_vars => HoldInv'
<1>. USE BoundsAssumption
<1> SUFFICES ASSUME HoldInv, ClaimInv, RestInv, [Next]_vars PROVE HoldInv'
  OBVIOUS
<1>. USE DEF HoldInv
<1>1. ASSUME NEW w \in Slots, ClaimNothing(w) PROVE HoldInv'
  BY <1>1 DEF ClaimNothing, WorkerPCs, Busy, Sending, throttlerVars
<1>2. ASSUME NEW w \in Slots, Claim(w) PROVE HoldInv'
  <2>1. NextFile \in Files
    BY <1>2, NextFileIsUnclaimed DEF Claim, Unclaimed, ClaimInv
  <2>. QED  BY <1>2, <2>1 DEF Claim, WorkerPCs, Busy, Sending, throttlerVars
<1>3. ASSUME NEW w \in Slots, Read(w) PROVE HoldInv'
  <2>1. read[file[w]] \in 0..MaxBatches
    BY <1>3 DEF Read, RestInv, Busy
  <2>. QED  BY <1>3, <2>1 DEF Read, WorkerPCs, Busy, Sending, throttlerVars
<1>4. ASSUME NEW w \in Slots, Sent(w) PROVE HoldInv'
  <2>1. <<file[w], batch[w]>> \in Batches
    BY <1>4 DEF Sent, Batches, Busy, Sending
  <2>. QED  BY <1>4, <2>1 DEF Sent, Enters, WorkerPCs, Busy, Sending, ThrottlerPCs, Waits, throttlerVars
<1>5. ASSUME NEW w \in Slots, SendBlocks(w) \/ SendGivenUp(w) \/ RecordSend(w) PROVE HoldInv'
  BY <1>5 DEF SendBlocks, SendGivenUp, RecordSend, WorkerPCs, Busy, Sending, throttlerVars
<1>6. ASSUME NEW w \in Slots, Report(w) \/ CancelPool(w) PROVE HoldInv'
  BY <1>6 DEF Report, CancelPool, WorkerPCs, Busy, Sending, throttlerVars
<1>7. ASSUME NEW w \in Slots, RaiseStopping(w) PROVE HoldInv'
  BY <1>7, AwakeKeeps DEF RaiseStopping, WorkerPCs, Busy, Sending, throttlerVars
<1>8. ASSUME NEW w \in Slots, ReleaseFile(w) PROVE HoldInv'
  BY <1>8, AwakeKeeps DEF ReleaseFile, WorkerPCs, Busy, Sending, throttlerVars
<1>9. ASSUME NEW w \in Slots, Leave(w) PROVE HoldInv'
  BY <1>9 DEF Leave, WorkerPCs, Busy, Sending, throttlerVars
<1>10. CASE CloserStep
  BY <1>10, AwakeKeeps DEF CloserStep, CloserRaises, CloserJoins, placeVars, throttlerVars
<1>11. CASE Receive
  <2>1. Head(channel) \in Batches
    BY <1>11 DEF Receive, RestInv
  <2>. QED  BY <1>11, <2>1 DEF Receive, ThrottlerPCs, Waits, placeVars
<1>12. CASE RecordReceive \/ TimerFires \/ ForwardBlocks
  BY <1>12 DEF RecordReceive, TimerFires, ForwardBlocks, Top, ThrottlerPCs, Waits, placeVars
<1>13. CASE PassOn \/ ThrottlerEnds
  BY <1>13 DEF PassOn, ThrottlerEnds, ThrottlerPCs, Waits, placeVars
<1>14. CASE TakeUpdate
  BY <1>14 DEF TakeUpdate, AfterUpdate, Top, Hears, ThrottlerPCs, Waits, placeVars
<1>15. ASSUME NEW n \in Targets, Reconcile(n) PROVE HoldInv'
  <2>1. PICK new \in SUBSET (Slots \ Live) :
            at' = [v \in Slots |-> IF v \in new THEN "claim" ELSE Awake(at[v])]
    BY <1>15 DEF Reconcile
  <2>2. ASSUME NEW v \in Slots
        PROVE  /\ at'[v] \in WorkerPCs
               /\ at'[v] \in Busy => at[v] \in Busy
               /\ at'[v] \in Sending => at[v] \in Sending
    BY <2>1, AwakeKeeps DEF Live, WorkerPCs, Busy, Sending
  <2>3. at' \in [Slots -> WorkerPCs]
    BY <2>1, <2>2
  <2>4. UNCHANGED <<file, batch, throttler, hand>>
    BY <1>15 DEF Reconcile, throttlerVars
  <2>. QED  BY <2>2, <2>3, <2>4
<1>16. CASE (\E s \in Settings : SetThrottle(s)) \/ TakeError \/ StopRun \/ LoopStep
            \/ ContextEnds \/ Closed
  BY <1>16 DEF SetThrottle, TakeError, StopRun, LoopStep, UpdateUnheard, CancelRun,
       JoinReaders, CloseChannels, ContextEnds, Closed, placeVars, throttlerVars, vars
<1>17. CASE UNCHANGED vars
  BY <1>17 DEF vars, placeVars, throttlerVars
<1>. QED  BY <1>1, <1>2, <1>3, <1>4, <1>5, <1>6, <1>7, <1>8, <1>9, <1>10, <1>11, <1>12,
                <1>13, <1>14, <1>15, <1>16, <1>17
          DEF Next, WorkerStep, ThrottlerStep, Operator

\* Claims follow the busy workers.
LEMMA ClaimsKept ==
    ASSUME HoldInv, ClaimInv, UNCHANGED <<active, nextFile, file>>,
           \A w \in Slots : at'[w] \in Busy <=> at[w] \in Busy
    PROVE  ClaimInv'
  BY DEF ClaimInv

\* A file gets a reader that nobody else has, and loses it with the claim.
LEMMA ClaimStep == HoldInv /\ ClaimInv /\ [Next]_vars => ClaimInv'
<1> SUFFICES ASSUME HoldInv, ClaimInv, [Next]_vars PROVE ClaimInv'
  OBVIOUS
<1>0. at \in [Slots -> WorkerPCs] /\ file \in [Slots -> Files \union {NoFile}]
  BY DEF HoldInv
<1>1. ASSUME NEW w \in Slots, Claim(w) PROVE ClaimInv'
  <2>1. NextFile \in Unclaimed
    BY <1>1, NextFileIsUnclaimed DEF Claim, ClaimInv
  <2>2. (NextFile + 1) % NumFiles \in Files
    BY <2>1, Around, BoundsAssumption DEF Unclaimed, Files
  <2>. DEFINE f == NextFile
  <2>3. /\ f \in Files /\ f \notin active /\ nextFile' \in Files
        /\ active' = active \union {f}
        /\ at[w] = "claim" /\ at' = [at EXCEPT ![w] = "read"]
        /\ file' = [file EXCEPT ![w] = f]
    BY <1>1, <2>1, <2>2 DEF Claim, Unclaimed
  <2>. HIDE DEF f
  <2>. QED  BY <1>0, <2>3 DEF ClaimInv, Busy, Sending
<1>2. ASSUME NEW w \in Slots, ReleaseFile(w) PROVE ClaimInv'
  <2>1. \A v \in Slots : at'[v] \in Busy <=> at[v] \in Busy /\ v # w
    BY <1>0, <1>2, AwakeKeeps DEF ReleaseFile, Busy, Sending
  <2>2. at[w] \in Busy /\ active' = active \ {file[w]} /\ UNCHANGED nextFile
        /\ \A v \in Slots : v # w => file'[v] = file[v]
    BY <1>0, <1>2 DEF ReleaseFile, Busy
  <2>. QED  BY <2>1, <2>2 DEF ClaimInv
<1>3. ASSUME NEW w \in Slots,
             ClaimNothing(w) \/ Read(w) \/ Sent(w) \/ SendBlocks(w) \/ SendGivenUp(w)
             \/ RecordSend(w) \/ Report(w) \/ CancelPool(w) \/ RaiseStopping(w) \/ Leave(w)
      PROVE ClaimInv'
  <2>1. UNCHANGED <<active, nextFile, file>>
    BY <1>3 DEF ClaimNothing, Read, Sent, SendBlocks, SendGivenUp, RecordSend, Report,
         CancelPool, RaiseStopping, Leave, poolVars
  <2>2. ASSUME NEW v \in Slots PROVE at'[v] \in Busy <=> at[v] \in Busy
    <3>1. CASE ClaimNothing(w) \/ Leave(w)
      BY <1>0, <3>1 DEF ClaimNothing, Leave, Busy, Sending
    <3>2. CASE Read(w) \/ Sent(w) \/ SendBlocks(w) \/ SendGivenUp(w) \/ RecordSend(w)
      BY <1>0, <3>2 DEF Read, Sent, SendBlocks, SendGivenUp, RecordSend, Busy, Sending
    <3>3. CASE Report(w) \/ CancelPool(w)
      BY <1>0, <3>3 DEF Report, CancelPool, Busy, Sending
    <3>4. CASE RaiseStopping(w)
      BY <1>0, <3>4, AwakeKeeps DEF RaiseStopping, Busy, Sending
    <3>. QED  BY <1>3, <3>1, <3>2, <3>3, <3>4
  <2>. QED  BY <2>1, <2>2, ClaimsKept
<1>4. CASE CloserStep
  <2>1. UNCHANGED <<active, nextFile, file>>
    BY <1>4 DEF CloserStep, CloserRaises, CloserJoins, placeVars
  <2>2. ASSUME NEW v \in Slots PROVE at'[v] \in Busy <=> at[v] \in Busy
    BY <1>0, <1>4, AwakeKeeps DEF CloserStep, CloserRaises, CloserJoins, placeVars
  <2>. QED  BY <2>1, <2>2, ClaimsKept
<1>5. ASSUME NEW n \in Targets, Reconcile(n) PROVE ClaimInv'
  <2>1. PICK new \in SUBSET (Slots \ Live) :
            at' = [v \in Slots |-> IF v \in new THEN "claim" ELSE Awake(at[v])]
    BY <1>5 DEF Reconcile
  <2>2. ASSUME NEW v \in Slots PROVE at'[v] \in Busy <=> at[v] \in Busy
    BY <1>0, <2>1, AwakeKeeps DEF Live, Busy, Sending
  <2>3. UNCHANGED <<active, nextFile, file>>
    BY <1>5 DEF Reconcile
  <2>. QED  BY <2>2, <2>3, ClaimsKept
<1>6. CASE ThrottlerStep \/ PassOn
  BY <1>6 DEF ThrottlerStep, PassOn, Receive, RecordReceive, TimerFires, ForwardBlocks,
       TakeUpdate, ThrottlerEnds, placeVars, poolVars, ClaimInv
<1>7. CASE (\E s \in Settings : SetThrottle(s)) \/ TakeError \/ StopRun \/ LoopStep
              \/ ContextEnds \/ Closed \/ UNCHANGED vars
  BY <1>7 DEF SetThrottle, TakeError, StopRun, LoopStep, UpdateUnheard, CancelRun,
       JoinReaders, CloseChannels, ContextEnds, Closed, placeVars, poolVars, vars, ClaimInv
<1>. QED  BY <1>1, <1>2, <1>3, <1>4, <1>5, <1>6, <1>7 DEF Next, WorkerStep, Operator

\* Nothing raises stopping before the context ends, and whoever has left then
\* stays away; the loop joins the stages in their order.
LEMMA EndStep == HoldInv /\ EndInv /\ [Next]_vars => EndInv'
<1> SUFFICES ASSUME HoldInv, EndInv, [Next]_vars PROVE EndInv'
  OBVIOUS
<1>0. at \in [Slots -> WorkerPCs]
  BY DEF HoldInv
<1>. USE DEF EndInv, CtxEnded
<1>1. ASSUME NEW w \in Slots, ClaimNothing(w) \/ Claim(w) \/ Read(w) \/ Sent(w) \/ SendBlocks(w)
             \/ SendGivenUp(w) \/ RecordSend(w)
      PROVE EndInv'
  <2>1. closer # "done" /\ UNCHANGED <<poolEnded, runEnded, stopping, closer, loop>>
    BY <1>1 DEF ClaimNothing, Claim, Read, Sent, SendBlocks, SendGivenUp, RecordSend, Sending,
         poolVars, loopVars
  <2>2. \A v \in Slots : at'[v] = "raise" => at[v] = "raise"
    BY <1>0, <1>1 DEF ClaimNothing, Claim, Read, Sent, SendBlocks, SendGivenUp, RecordSend
  <2>3. loop \notin {"joinThrottler", "closed"}
    BY <2>1
  <2>. QED  BY <2>1, <2>2, <2>3
<1>2. ASSUME NEW w \in Slots, Report(w) \/ CancelPool(w)
      PROVE EndInv'
  BY <1>0, <1>2 DEF Report, CancelPool, loopVars
<1>3. ASSUME NEW w \in Slots, RaiseStopping(w) PROVE EndInv'
  BY <1>0, <1>3, AwakeKeeps DEF RaiseStopping, loopVars, Busy
<1>4. ASSUME NEW w \in Slots, ReleaseFile(w) PROVE EndInv'
  BY <1>0, <1>4, AwakeKeeps DEF ReleaseFile, loopVars, Busy
<1>5. ASSUME NEW w \in Slots, Leave(w) PROVE EndInv'
  BY <1>0, <1>5 DEF Leave, loopVars, poolVars
<1>6. CASE CloserRaises
  BY <1>0, <1>6, AwakeKeeps DEF CloserRaises, loopVars, Busy
<1>7. CASE CloserJoins
  BY <1>0, <1>7 DEF CloserJoins, Live, placeVars, loopVars
<1>8. ASSUME NEW n \in Targets, Reconcile(n) PROVE EndInv'
  <2>1. PICK new \in SUBSET (Slots \ Live) :
            at' = [v \in Slots |-> IF v \in new THEN "claim" ELSE Awake(at[v])]
    BY <1>8 DEF Reconcile
  <2>2. \A v \in Slots : at'[v] = "raise" => at[v] = "raise"
    BY <1>0, <2>1, AwakeKeeps DEF Busy
  <2>3. UNCHANGED <<poolEnded, runEnded, stopping, closer, loop>> /\ ~stopping
    BY <1>8 DEF Reconcile, loopVars
  <2>. QED  BY <2>2, <2>3
<1>9. CASE ThrottlerStep \/ PassOn
  BY <1>9 DEF ThrottlerStep, PassOn, Receive, RecordReceive, TimerFires, ForwardBlocks,
       TakeUpdate, Hears, Waits, ThrottlerEnds, placeVars, poolVars, loopVars
<1>10. CASE (\E s \in Settings : SetThrottle(s)) \/ TakeError \/ StopRun \/ LoopStep
              \/ ContextEnds \/ Closed \/ UNCHANGED vars
  BY <1>10 DEF SetThrottle, TakeError, StopRun, LoopStep, UpdateUnheard, CancelRun,
       JoinReaders, CloseChannels, ContextEnds, Closed, placeVars, poolVars, throttlerVars,
       loopVars, vars
<1>. QED  BY <1>1, <1>2, <1>3, <1>4, <1>5, <1>6, <1>7, <1>8, <1>9, <1>10
          DEF Next, WorkerStep, CloserStep, Operator

\* The rest of the types; the buffer never holds more than it has room for.
LEMMA RestStep == HoldInv /\ RestInv /\ [Next]_vars => RestInv'
<1> SUFFICES ASSUME HoldInv, RestInv, [Next]_vars PROVE RestInv'
  OBVIOUS
<1>0. at \in [Slots -> WorkerPCs]
  BY DEF HoldInv
<1>. USE BoundsAssumption DEF RestInv
<1>1. ASSUME NEW w \in Slots, ClaimNothing(w) \/ Claim(w) \/ Report(w) \/ CancelPool(w)
      PROVE RestInv'
  <2>1. draining' \subseteq Live'
    BY <1>0, <1>1 DEF ClaimNothing, Claim, Report, CancelPool, Live
  <2>. QED  BY <1>1, <2>1 DEF ClaimNothing, Claim, Report, CancelPool, poolVars, flowVars,
                 totalVars, throttlerVars, loopVars
<1>2. ASSUME NEW w \in Slots, Read(w) PROVE RestInv'
  <2>1. draining' \subseteq Live' /\ file[w] \in Files
    BY <1>0, <1>2 DEF Read, Live, HoldInv, Busy
  <2>2. read' \in [Files -> 0..MaxBatches]
    <3>. DEFINE f == file[w]
    <3>1. f \in Files /\ (read' = read \/ (read[f] < MaxBatches /\ read' = [read EXCEPT ![f] = @ + 1]))
      BY <1>2, <2>1 DEF Read
    <3>. HIDE DEF f
    <3>2. read[f] \in 0..MaxBatches
      BY <3>1
    <3>. QED  BY <3>1, <3>2
  <2>. QED  BY <1>2, <2>1, <2>2 DEF Read, poolVars, totalVars, throttlerVars, loopVars
<1>3. ASSUME NEW w \in Slots, Sent(w) PROVE RestInv'
  <2>1. draining' \subseteq Live'
    BY <1>0, <1>3 DEF Sent, Live
  <2>2. <<file[w], batch[w]>> \in Batches
    BY <1>3 DEF Sent, Batches, HoldInv, Busy, Sending
  <2>3. channel' \in Seq(Batches) /\ Len(channel') <= capacity
    <3>. DEFINE b == <<file[w], batch[w]>>
    <3>1. b \in Batches /\ Enters(b)
      BY <1>3, <2>2 DEF Sent
    <3>. HIDE DEF b
    <3>2. CASE Len(channel) < capacity /\ channel' = Append(channel, b)
      <4>1. Append(channel, b) \in Seq(Batches) /\ Len(Append(channel, b)) = Len(channel) + 1
        BY <3>1
      <4>. QED  BY <3>2, <4>1
    <3>3. CASE channel' = channel
      BY <3>3
    <3>. QED  BY <3>1, <3>2, <3>3 DEF Enters
  <2>. QED  BY <1>3, <2>1, <2>3 DEF Sent, Enters, poolVars, totalVars, throttlerVars, loopVars
<1>4. ASSUME NEW w \in Slots, SendBlocks(w) \/ SendGivenUp(w) \/ RecordSend(w) PROVE RestInv'
  <2>1. draining' \subseteq Live'
    BY <1>0, <1>4 DEF SendBlocks, SendGivenUp, RecordSend, Live
  <2>. QED  BY <1>4, <2>1 DEF SendBlocks, SendGivenUp, RecordSend, poolVars, flowVars,
                 totalVars, throttlerVars, loopVars
<1>5. ASSUME NEW w \in Slots, RaiseStopping(w) \/ ReleaseFile(w) PROVE RestInv'
  <2>1. draining' \subseteq Live'
    <3>1. CASE RaiseStopping(w)
      BY <1>0, <3>1, AwakeKeeps DEF RaiseStopping, Live, Busy
    <3>2. CASE ReleaseFile(w)
      BY <1>0, <3>2, AwakeKeeps DEF ReleaseFile, Live, Busy
    <3>. QED  BY <1>5, <3>1, <3>2
  <2>. QED  BY <1>5, <2>1 DEF RaiseStopping, ReleaseFile, flowVars, totalVars, throttlerVars,
                 loopVars
<1>6. ASSUME NEW w \in Slots, Leave(w) PROVE RestInv'
  <2>1. draining' \subseteq Live'
    BY <1>0, <1>6 DEF Leave, Live
  <2>. QED  BY <1>6, <2>1 DEF Leave, poolVars, flowVars, totalVars, throttlerVars, loopVars
<1>7. CASE CloserStep
  <2>1. draining' \subseteq Live'
    BY <1>0, <1>7, AwakeKeeps DEF CloserStep, CloserRaises, CloserJoins, Live, Busy, placeVars
  <2>. QED  BY <1>7, <2>1 DEF CloserStep, CloserRaises, CloserJoins, flowVars, totalVars,
                 throttlerVars, loopVars
<1>8. CASE Receive
  <2>1. channel' \in Seq(Batches) /\ Len(channel') <= capacity
    BY <1>8 DEF Receive
  <2>. QED  BY <1>8, <2>1 DEF Receive, Live, placeVars, poolVars, totalVars, loopVars
<1>9. CASE PassOn
  <2>1. hand[1] \in Files /\ hand[2] \in 0..MaxBatches
    BY <1>9 DEF PassOn, HoldInv, Batches
  <2>2. passed' \in [Files -> 0..MaxBatches]
    BY <1>9, <2>1 DEF PassOn
  <2>. QED  BY <1>9, <2>2 DEF PassOn, Live, placeVars, poolVars, totalVars, loopVars
<1>10. CASE RecordReceive \/ TimerFires \/ ForwardBlocks \/ TakeUpdate \/ ThrottlerEnds
  BY <1>10 DEF RecordReceive, TimerFires, ForwardBlocks, TakeUpdate, ThrottlerEnds, Live,
       placeVars, poolVars, flowVars, totalVars, loopVars
<1>11. ASSUME NEW n \in Targets, Reconcile(n) PROVE RestInv'
  <2>1. PICK surplus \in SUBSET Live, new \in SUBSET (Slots \ Live) :
            /\ draining' = surplus
            /\ at' = [v \in Slots |-> IF v \in new THEN "claim" ELSE Awake(at[v])]
    BY <1>11 DEF Reconcile
  <2>2. draining' \subseteq Live'
    BY <1>0, <2>1, AwakeKeeps DEF Live, Busy
  <2>. QED  BY <1>11, <2>2 DEF Reconcile, flowVars, totalVars, throttlerVars, loopVars
<1>12. ASSUME NEW s \in Settings, SetThrottle(s) PROVE RestInv'
  BY <1>12 DEF SetThrottle, Live, placeVars, poolVars, flowVars, totalVars, throttlerVars
<1>13. CASE TakeError \/ StopRun \/ UpdateUnheard \/ CancelRun \/ JoinReaders \/ ContextEnds
  BY <1>13 DEF TakeError, StopRun, UpdateUnheard, CancelRun, JoinReaders, ContextEnds, Live,
       placeVars, poolVars, flowVars, totalVars, throttlerVars
<1>14. CASE CloseChannels
  BY <1>14 DEF CloseChannels, Live, placeVars, poolVars, throttlerVars
<1>15. CASE Closed \/ UNCHANGED vars
  BY <1>15 DEF Closed, vars, Live, placeVars, poolVars, flowVars, totalVars, throttlerVars, loopVars
<1>. QED  BY <1>1, <1>2, <1>3, <1>4, <1>5, <1>6, <1>7, <1>8, <1>9, <1>10, <1>11, <1>12,
              <1>13, <1>14, <1>15
          DEF Next, WorkerStep, ThrottlerStep, Operator, LoopStep

-------------------------------------------------------------------------------
(* The theorems *)

\* The four parts hold together from the start of a run.
LEMMA StagesInvHolds == Spec => [](HoldInv /\ ClaimInv /\ EndInv /\ RestInv)
<1>1. Init => HoldInv /\ ClaimInv /\ EndInv /\ RestInv
  <2>. USE BoundsAssumption, SlotsAssumption DEF Init
  <2>1. Init => HoldInv
    BY DEF HoldInv, WorkerPCs, Busy, Sending, ThrottlerPCs, Waits
  <2>2. Init => ClaimInv
    BY DEF ClaimInv, Files, Busy, Sending
  <2>3. Init => EndInv
    BY DEF EndInv
  <2>4. Init => RestInv
    <3> SUFFICES ASSUME Init PROVE RestInv
      OBVIOUS
    <3>1. <<>> \in Seq(Batches) /\ Len(<<>>) = 0 /\ capacity \in Capacities
          /\ capacity \in Nat
      OBVIOUS
    <3>2. read \in [Files -> 0..MaxBatches] /\ passed \in [Files -> 0..MaxBatches]
      OBVIOUS
    <3>3. channel \in Seq(Batches) /\ Len(channel) <= capacity
      BY <3>1
    <3>4. draining \subseteq Live /\ desired \in Targets /\ sent \in Nat /\ received \in Nat
          /\ settings \in Settings /\ wanted \in Settings
      OBVIOUS
    <3>5. /\ stopping \in BOOLEAN /\ poolEnded \in BOOLEAN /\ runEnded \in BOOLEAN
          /\ once \in {"open", "running", "done"} /\ errors \in BOOLEAN
          /\ loop \in {"idle", "update", "stopping", "joinReaders", "joinThrottler", "closed"}
      OBVIOUS
    <3>. HIDE DEF Init
    <3>. QED  BY <3>1, <3>2, <3>3, <3>4, <3>5 DEF RestInv
  <2>. QED  BY <2>1, <2>2, <2>3, <2>4
<1>. QED  BY <1>1, HoldStep, ClaimStep, EndStep, RestStep, PTL DEF Spec

\* The variables of the stages keep their types; the buffer of the reader
\* channel keeps its capacity.
THEOREM TypeCorrect == Spec => []TypeOK
<1>1. HoldInv /\ ClaimInv /\ EndInv /\ RestInv => TypeOK
  <2> SUFFICES ASSUME HoldInv, ClaimInv, EndInv, RestInv PROVE TypeOK
    OBVIOUS
  <2>1. nextFile \in 0..NumFiles
    BY BoundsAssumption DEF ClaimInv, Files
  <2>2. hand \in Batches \union {NoBatch}
    BY DEF HoldInv
  <2>. QED  BY <2>1, <2>2 DEF TypeOK, HoldInv, ClaimInv, EndInv, RestInv
<1>. QED  BY <1>1, StagesInvHolds, PTL

\* A file has one reader, p.active names the files being read, and nobody is
\* left to send when the channels are closed.
THEOREM ReadersAlwaysAccounted == Spec => []ReadersAccounted
<1>1. HoldInv /\ ClaimInv /\ EndInv /\ RestInv => ReadersAccounted
  <2> SUFFICES ASSUME HoldInv, ClaimInv, EndInv PROVE ReadersAccounted
    OBVIOUS
  <2>1. active = {file[w] : w \in BusyWorkers}
    BY DEF ClaimInv, BusyWorkers
  <2>2. \A v, w \in BusyWorkers : file[v] = file[w] => v = w
    BY DEF ClaimInv, BusyWorkers
  <2>3. loop = "closed" => Live = {} /\ throttler = "done" /\ stopping
    BY DEF EndInv, Live
  <2>. QED  BY <2>1, <2>2, <2>3 DEF ReadersAccounted
<1>. QED  BY <1>1, StagesInvHolds, PTL

-------------------------------------------------------------------------------
(* Source errors *)

\* A step that lets nobody into Do or out of it and touches neither the Once nor
\* the pool's context, nor queues an error, nor takes stopping back, keeps all.
LEMMA ErrorsKept ==
    ASSUME ErrorsNeverBlock, UNCHANGED <<once, poolEnded>>,
           errors' => errors, stopping => stopping',
           \A w \in Slots : at'[w] \in {"cancel", "raise"} <=> at[w] \in {"cancel", "raise"}
    PROVE  ErrorsNeverBlock'
<1>1. Inside' = Inside
  BY DEF Inside
<1>. QED  BY <1>1 DEF ErrorsNeverBlock

\* Only the first report enters Do, and leaves it with the pool ended.
LEMMA ErrorsStep == HoldInv /\ EndInv /\ RestInv /\ ErrorsNeverBlock /\ [Next]_vars => ErrorsNeverBlock'
<1> SUFFICES ASSUME HoldInv, EndInv, RestInv, ErrorsNeverBlock, [Next]_vars
             PROVE  ErrorsNeverBlock'
  OBVIOUS
<1>0. at \in [Slots -> WorkerPCs]
  BY DEF HoldInv
<1>1. ASSUME NEW w \in Slots, ClaimNothing(w) \/ Claim(w) \/ Read(w) \/ Sent(w) \/ SendBlocks(w)
             \/ SendGivenUp(w) \/ RecordSend(w) \/ Leave(w)
      PROVE ErrorsNeverBlock'
  BY <1>0, <1>1, ErrorsKept DEF ClaimNothing, Claim, Read, Sent, SendBlocks, SendGivenUp,
     RecordSend, Leave, Sending, poolVars
<1>2. ASSUME NEW w \in Slots, Report(w) PROVE ErrorsNeverBlock'
  <2>1. CASE once = "open"
    <3>1. once' = "running" /\ at' = [at EXCEPT ![w] = "cancel"]
      BY <1>2, <2>1 DEF Report
    <3>2. Inside' = {w}
      BY <1>0, <2>1, <3>1 DEF ErrorsNeverBlock, Inside
    <3>. QED  BY <3>1, <3>2 DEF ErrorsNeverBlock
  <2>2. CASE once # "open"
    BY <1>0, <1>2, <2>2, ErrorsKept DEF Report
  <2>. QED  BY <2>1, <2>2
<1>3. ASSUME NEW w \in Slots, CancelPool(w) PROVE ErrorsNeverBlock'
  <2>1. w \in Inside /\ UNCHANGED <<once, errors, stopping>>
    BY <1>3 DEF CancelPool, Inside
  <2>2. once = "running"
    BY <2>1 DEF ErrorsNeverBlock, RestInv
  <2>3. Inside' = Inside
    BY <1>0, <1>3, <2>1 DEF CancelPool, Inside
  <2>. QED  BY <2>1, <2>2, <2>3 DEF ErrorsNeverBlock
<1>4. ASSUME NEW w \in Slots, RaiseStopping(w) PROVE ErrorsNeverBlock'
  <2>1. /\ w \in Inside /\ poolEnded' = poolEnded /\ poolEnded
        /\ once' = "done" /\ stopping'
    BY <1>4 DEF RaiseStopping, Inside, EndInv
  <2>2. Inside = {w}
    BY <2>1 DEF ErrorsNeverBlock, RestInv
  <2>3. Inside' = {}
    <3>1. \A v \in Slots : v # w => at'[v] = Awake(at[v])
      BY <1>4 DEF RaiseStopping
    <3>2. at'[w] = "release"
      BY <1>4 DEF RaiseStopping
    <3>3. \A v \in Slots : v # w => at[v] \notin {"cancel", "raise"}
      BY <2>2 DEF Inside
    <3>4. \A v \in Slots : v # w => at'[v] \notin {"cancel", "raise"}
      BY <3>1, <3>3 DEF Awake
    <3>. QED  BY <3>2, <3>4 DEF Inside
  <2>. QED  BY <2>1, <2>3 DEF ErrorsNeverBlock
<1>5. ASSUME NEW w \in Slots, ReleaseFile(w) PROVE ErrorsNeverBlock'
  BY <1>0, <1>5, ErrorsKept DEF ReleaseFile, Awake
<1>6. CASE CloserStep
  BY <1>0, <1>6, ErrorsKept DEF CloserStep, CloserRaises, CloserJoins, Awake, placeVars
<1>7. ASSUME NEW n \in Targets, Reconcile(n) PROVE ErrorsNeverBlock'
  <2>1. PICK new \in SUBSET (Slots \ Live) :
            at' = [v \in Slots |-> IF v \in new THEN "claim" ELSE Awake(at[v])]
    BY <1>7 DEF Reconcile
  <2>2. \A v \in Slots : at'[v] \in {"cancel", "raise"} <=> at[v] \in {"cancel", "raise"}
    BY <1>0, <2>1 DEF Awake, Live
  <2>. QED  BY <1>7, <2>2, ErrorsKept DEF Reconcile
<1>8. CASE ThrottlerStep \/ PassOn
  BY <1>8, ErrorsKept DEF ThrottlerStep, PassOn, Receive, RecordReceive, TimerFires,
     ForwardBlocks, TakeUpdate, ThrottlerEnds, placeVars, poolVars
<1>9. CASE (\E s \in Settings : SetThrottle(s)) \/ TakeError \/ StopRun \/ LoopStep
              \/ ContextEnds \/ Closed \/ UNCHANGED vars
  BY <1>9, ErrorsKept DEF SetThrottle, TakeError, StopRun, LoopStep, UpdateUnheard, CancelRun,
     JoinReaders, CloseChannels, ContextEnds, Closed, placeVars, poolVars, vars
<1>. QED  BY <1>1, <1>2, <1>3, <1>4, <1>5, <1>6, <1>7, <1>8, <1>9
          DEF Next, WorkerStep, Operator

\* Whoever sends a source error finds the channel empty, and whoever waits for
\* another's report waits for a worker that is at work on it.
THEOREM ReportsNeverBlock == Spec => []ErrorsNeverBlock
<1>1. Init => ErrorsNeverBlock
  BY DEF Init, ErrorsNeverBlock, Inside
<1>. QED  BY <1>1, ErrorsStep, StagesInvHolds, PTL DEF Spec

-------------------------------------------------------------------------------
(* Batches in order *)

\* Worker w is sending a batch of file f.
Sends(w, f) == at[w] \in Sending /\ file[w] = f

\* Batches of file f in line lie between those passed on and those read and
\* follow each other; a worker that offers one offers the last one read; and
\* before the end of the context every batch in between is somewhere.
FileInv(f) ==
    /\ passed[f] <= read[f]
    /\ \A i \in DOMAIN Line : Line[i][1] = f =>
          /\ passed[f] < Line[i][2] /\ Line[i][2] <= read[f]
          /\ \A j \in DOMAIN Line : Line[j][1] = f /\ i < j => Line[i][2] < Line[j][2]
    /\ \A w \in Slots : Sends(w, f) =>
          /\ passed[f] < read[f] /\ batch[w] = read[f]
          /\ \A i \in DOMAIN Line : Line[i][1] = f => Line[i][2] < read[f]
    /\ ~CtxEnded =>
          \A n \in (passed[f] + 1)..read[f] :
              \/ \E i \in DOMAIN Line : Line[i][1] = f /\ Line[i][2] = n
              \/ \E w \in Slots : Sends(w, f) /\ batch[w] = n

\* Every file in order.
OrderInv == \A f \in Files : FileInv(f)

\* The line is a sequence of batches, and no batch is none.
LEMMA LineIsBatches ==
    ASSUME HoldInv, RestInv
    PROVE  /\ Line \in Seq(Batches)
           /\ hand = NoBatch \/ hand \in Batches
           /\ \A b \in Batches : b # NoBatch
<1>1. hand = NoBatch \/ hand \in Batches
  BY DEF HoldInv
<1>2. \A b \in Batches : b # NoBatch
  BY DEF Batches, NoBatch
<1>3. Line \in Seq(Batches)
  BY <1>1, <1>2 DEF RestInv, Line
<1>. QED  BY <1>1, <1>2, <1>3

\* What an untouched file needs to stay in order.
LEMMA FileKept ==
    ASSUME NEW f \in Files, FileInv(f),
           passed'[f] = passed[f], read'[f] = read[f],
           Line' = Line,
           \A w \in Slots : Sends(w, f)' <=> Sends(w, f),
           \A w \in Slots : Sends(w, f) => batch'[w] = batch[w],
           CtxEnded => CtxEnded'
    PROVE  FileInv(f)'
  BY DEF FileInv

\* A batch at the head of the line leaves it, passed on or given up.
LEMMA FileShifted ==
    ASSUME NEW f \in Files, FileInv(f), HoldInv, RestInv,
           hand \in Batches, hand' = NoBatch, channel' = channel,
           read' = read,
           \/ passed' = [passed EXCEPT ![hand[1]] = hand[2]]
           \/ passed' = passed /\ CtxEnded',
           \A w \in Slots : Sends(w, f)' <=> Sends(w, f),
           batch' = batch,
           CtxEnded => CtxEnded'
    PROVE  FileInv(f)'
<1>1. /\ Len(Line) = Len(channel) + 1 /\ Line[1] = hand
      /\ \A i \in DOMAIN channel : Line[i + 1] = channel[i]
      /\ channel \in Seq(Batches)
  BY LineIsBatches DEF Line, RestInv
<1>2. Line' = channel
  BY DEF Line
<1>3. /\ hand[1] \in Files /\ hand[2] \in Nat
      /\ passed[f] \in Nat /\ read[f] \in Nat /\ read'[f] = read[f]
      /\ \A i \in DOMAIN channel : channel[i][2] \in Nat
      /\ DOMAIN channel = 1..Len(channel) /\ Len(channel) \in Nat
      /\ DOMAIN Line = 1..(Len(channel) + 1)
  <2>1. \A b \in Batches : b[1] \in Files /\ b[2] \in Nat
    BY BoundsAssumption DEF Batches
  <2>2. DOMAIN channel = 1..Len(channel) /\ Len(channel) \in Nat
        /\ \A i \in DOMAIN channel : channel[i] \in Batches
    BY <1>1
  <2>3. DOMAIN Line = 1..(Len(channel) + 1)
    BY <1>1, LineIsBatches
  <2>4. passed[f] \in Nat /\ read[f] \in Nat /\ read'[f] = read[f]
    BY BoundsAssumption DEF RestInv
  <2>. QED  BY <2>1, <2>2, <2>3, <2>4
<1>4. /\ 1 \in DOMAIN Line
      /\ \A i \in DOMAIN channel : i + 1 \in DOMAIN Line /\ 1 < i + 1
  BY <1>3
<1>5. \A i \in DOMAIN Line : i # 1 => i - 1 \in DOMAIN channel /\ Line[i] = channel[i - 1]
  BY <1>1, <1>3
<1>6. passed'[f] = IF hand[1] = f /\ passed' # passed THEN hand[2] ELSE passed[f]
  BY <1>3 DEF RestInv
<1>7. passed[f] <= passed'[f] /\ passed'[f] <= read[f] /\ passed'[f] \in Nat
  BY <1>1, <1>3, <1>4, <1>6 DEF FileInv
<1>8. ASSUME NEW i \in DOMAIN channel, channel[i][1] = f
      PROVE  /\ passed'[f] < channel[i][2] /\ channel[i][2] <= read[f]
             /\ \A j \in DOMAIN channel : channel[j][1] = f /\ i < j => channel[i][2] < channel[j][2]
  <2>1. /\ passed[f] < channel[i][2] /\ channel[i][2] <= read[f]
        /\ hand[1] = f => hand[2] < channel[i][2]
    BY <1>1, <1>4, <1>8 DEF FileInv
  <2>2. ASSUME NEW j \in DOMAIN channel, channel[j][1] = f, i < j
        PROVE  channel[i][2] < channel[j][2]
    <3>1. i + 1 < j + 1 /\ i + 1 \in DOMAIN Line /\ j + 1 \in DOMAIN Line
      BY <1>3, <1>4, <2>2
    <3>. QED  BY <1>1, <1>8, <2>2, <3>1 DEF FileInv
  <2>. QED  BY <1>3, <1>6, <2>1, <2>2
<1>9. ASSUME NEW w \in Slots, Sends(w, f)
      PROVE  /\ passed'[f] < read[f] /\ batch[w] = read[f]
             /\ \A i \in DOMAIN channel : channel[i][1] = f => channel[i][2] < read[f]
  BY <1>1, <1>3, <1>4, <1>6, <1>9 DEF FileInv
<1>10. ASSUME ~CtxEnded', NEW n \in (passed'[f] + 1)..read[f]
       PROVE  \/ \E i \in DOMAIN channel : channel[i][1] = f /\ channel[i][2] = n
              \/ \E w \in Slots : Sends(w, f) /\ batch[w] = n
  <2>1. ~CtxEnded /\ n \in (passed[f] + 1)..read[f] /\ n # passed'[f]
        /\ passed' = [passed EXCEPT ![hand[1]] = hand[2]]
    BY <1>3, <1>7, <1>10
  <2>2. ASSUME NEW i \in DOMAIN Line, Line[i][1] = f, Line[i][2] = n PROVE i # 1
    BY <1>1, <1>3, <2>1, <2>2 DEF RestInv
  <2>3. CASE \E i \in DOMAIN Line : Line[i][1] = f /\ Line[i][2] = n
    BY <1>5, <2>2, <2>3
  <2>. QED  BY <2>1, <2>3 DEF FileInv
<1>. QED  BY <1>2, <1>3, <1>7, <1>8, <1>9, <1>10 DEF FileInv

\* A batch that is sent goes to the end of the line, into the buffer or into
\* the hands of a throttler with nothing else before it.
LEMMA LineGrows ==
    ASSUME HoldInv, RestInv, NEW b \in Batches, Enters(b)
    PROVE  /\ DOMAIN Line = 1..Len(Line) /\ Len(Line) \in Nat
           /\ DOMAIN Line' = 1..(Len(Line) + 1)
           /\ \A i \in DOMAIN Line : Line'[i] = Line[i]
           /\ Line'[Len(Line) + 1] = b
<1>1. Line \in Seq(Batches) /\ channel \in Seq(Batches) /\ (hand = NoBatch \/ hand \in Batches)
      /\ \A c \in Batches : c # NoBatch
  BY LineIsBatches DEF RestInv
<1>2. CASE channel' = Append(channel, b) /\ hand' = hand
  <2>1. CASE hand = NoBatch
    <3>1. Line = channel /\ Line' = Append(channel, b)
      BY <1>1, <1>2, <2>1 DEF Line
    <3>. QED  BY <1>1, <3>1
  <2>2. CASE hand \in Batches
    <3>1. Line = <<hand>> \o channel /\ Line' = <<hand>> \o Append(channel, b)
      BY <1>1, <1>2, <2>2 DEF Line
    <3>2. Len(Line) = Len(channel) + 1 /\ Len(Line') = Len(channel) + 2
      BY <1>1, <3>1
    <3>3. Line' \in Seq(Batches)
      BY <1>1, <2>2, <3>1
    <3>. QED  BY <1>1, <2>2, <3>1, <3>2, <3>3
  <2>. QED  BY <1>1, <2>1, <2>2
<1>3. CASE capacity = 0 /\ throttler = "select" /\ hand' = b /\ channel' = channel
  <2>1. channel = <<>>
    BY <1>1, <1>3 DEF RestInv
  <2>2. Line = <<>> /\ Line' = <<b>>
    BY <1>1, <1>3, <2>1 DEF Line, HoldInv
  <2>. QED  BY <2>2
<1>. QED  BY <1>2, <1>3 DEF Enters, throttlerVars

\* The context never comes back.
LEMMA ContextStays == [Next]_vars => (CtxEnded => CtxEnded')
<1> SUFFICES ASSUME [Next]_vars PROVE CtxEnded => CtxEnded'
  OBVIOUS
<1>. USE DEF CtxEnded
<1>1. ASSUME NEW w \in Slots, WorkerStep(w) PROVE CtxEnded => CtxEnded'
  BY <1>1 DEF WorkerStep, ClaimNothing, Claim, Read, Sent, SendBlocks, SendGivenUp, RecordSend,
       Report, CancelPool, RaiseStopping, ReleaseFile, Leave, poolVars, loopVars
<1>2. CASE CloserStep \/ ThrottlerStep \/ PassOn
  BY <1>2 DEF CloserStep, CloserRaises, CloserJoins, ThrottlerStep, PassOn, Receive,
       RecordReceive, TimerFires, ForwardBlocks, TakeUpdate, ThrottlerEnds, poolVars, loopVars
<1>3. CASE Operator \/ TakeError \/ StopRun \/ LoopStep \/ ContextEnds \/ Closed
           \/ UNCHANGED vars
  BY <1>3 DEF Operator, Reconcile, SetThrottle, TakeError, StopRun, LoopStep, UpdateUnheard,
       CancelRun, JoinReaders, CloseChannels, ContextEnds, Closed, poolVars, loopVars, vars
<1>. QED  BY <1>1, <1>2, <1>3 DEF Next

\* A batch sent moves from its worker to the end of the line.
LEMMA FileSent ==
    ASSUME HoldInv, ClaimInv, RestInv, NEW f \in Files, FileInv(f),
           NEW w \in Slots, Sent(w), CtxEnded => CtxEnded'
    PROVE  FileInv(f)'
<1>. DEFINE b == <<file[w], batch[w]>>
            L == Line
            n == Len(Line) + 1
<1>0. at \in [Slots -> WorkerPCs] /\ at[w] \in Sending /\ b \in Batches /\ Enters(b)
      /\ UNCHANGED <<passed, read, file>>
  BY DEF Sent, HoldInv, Batches, Busy, Sending
<1>1. /\ DOMAIN L = 1..Len(L) /\ Len(L) \in Nat
      /\ DOMAIN Line' = 1..n
      /\ \A i \in DOMAIN L : Line'[i] = L[i]
      /\ Line'[n] = b
  <2>. HIDE DEF b
  <2>. QED  BY <1>0, LineGrows
<1>2. ASSUME NEW v \in Slots PROVE Sends(v, f)' <=> Sends(v, f) /\ v # w
  BY <1>0 DEF Sent, Sends, Sending
<1>3. ASSUME NEW v \in Slots, v # w PROVE batch'[v] = batch[v]
  BY <1>3 DEF Sent, HoldInv
<1>4. ASSUME NEW v \in Slots, Sends(v, f), file[w] = f PROVE v = w
  BY <1>0, <1>4 DEF ClaimInv, Sends, Busy
<1>5. file[w] = f => batch[w] = read[f] /\ passed[f] < read[f]
                     /\ \A i \in DOMAIN L : L[i][1] = f => L[i][2] < read[f]
  BY <1>0 DEF FileInv, Sends
<1>6. b[1] = file[w] /\ b[2] = batch[w] /\ read[f] \in Nat
  BY BoundsAssumption DEF RestInv
<1>. HIDE DEF b, L, n
<1>7. \A i \in DOMAIN Line' : i \in DOMAIN L \/ i = n
  BY <1>1 DEF n, L
<1>8. \A i \in DOMAIN L : i < n
  BY <1>1 DEF n, L
<1>9. n \in DOMAIN Line' /\ DOMAIN L \subseteq DOMAIN Line' /\ ~(n < n)
  BY <1>1 DEF n, L
<1>10. ASSUME NEW i \in DOMAIN Line', Line'[i][1] = f
       PROVE  /\ passed[f] < Line'[i][2] /\ Line'[i][2] <= read[f]
              /\ \A j \in DOMAIN Line' : Line'[j][1] = f /\ i < j => Line'[i][2] < Line'[j][2]
  <2>1. CASE i \in DOMAIN L
    <3>1. /\ passed[f] < L[i][2] /\ L[i][2] <= read[f]
          /\ \A j \in DOMAIN L : L[j][1] = f /\ i < j => L[i][2] < L[j][2]
      BY <1>1, <1>10, <2>1 DEF FileInv, L
    <3>2. file[w] = f => L[i][2] < b[2]
      BY <1>1, <1>5, <1>6, <1>10, <2>1
    <3>. QED  BY <1>1, <1>6, <1>7, <2>1, <3>1, <3>2
  <2>2. CASE i = n
    <3>1. \A j \in DOMAIN Line' : ~(i < j)
      BY <1>1, <2>2 DEF n, L
    <3>. QED  BY <1>1, <1>5, <1>6, <1>10, <2>2, <3>1
  <2>. QED  BY <1>7, <1>10, <2>1, <2>2
<1>11. ASSUME NEW v \in Slots, Sends(v, f)'
       PROVE  /\ passed[f] < read[f] /\ batch'[v] = read[f]
              /\ \A i \in DOMAIN Line' : Line'[i][1] = f => Line'[i][2] < read[f]
  <2>1. Sends(v, f) /\ v # w /\ file[w] # f
    BY <1>2, <1>4, <1>11
  <2>2. /\ passed[f] < read[f] /\ batch[v] = read[f]
        /\ \A i \in DOMAIN L : L[i][1] = f => L[i][2] < read[f]
    BY <2>1 DEF FileInv, L
  <2>. QED  BY <1>1, <1>3, <1>6, <1>7, <2>1, <2>2
<1>12. ASSUME ~CtxEnded', NEW k \in (passed[f] + 1)..read[f]
       PROVE  \/ \E i \in DOMAIN Line' : Line'[i][1] = f /\ Line'[i][2] = k
              \/ \E v \in Slots : Sends(v, f)' /\ batch'[v] = k
  <2>1. \/ \E i \in DOMAIN L : L[i][1] = f /\ L[i][2] = k
        \/ \E v \in Slots : Sends(v, f) /\ batch[v] = k
    BY <1>12 DEF FileInv, L
  <2>2. CASE \E i \in DOMAIN L : L[i][1] = f /\ L[i][2] = k
    BY <1>1, <1>9, <2>2
  <2>3. ASSUME NEW v \in Slots, Sends(v, f), batch[v] = k
        PROVE  \/ Line'[n][1] = f /\ Line'[n][2] = k
               \/ Sends(v, f)' /\ batch'[v] = k
    BY <1>1, <1>2, <1>3, <1>6, <2>3 DEF Sends
  <2>. QED  BY <1>9, <2>1, <2>2, <2>3
<1>. QED  BY <1>0, <1>10, <1>11, <1>12 DEF FileInv

\* A batch read becomes the last one of its file, and its reader offers it.
LEMMA FileRead ==
    ASSUME HoldInv, ClaimInv, RestInv, NEW f \in Files, FileInv(f),
           NEW w \in Slots, Read(w), CtxEnded => CtxEnded'
    PROVE  FileInv(f)'
<1>. DEFINE g == file[w]
<1>0. /\ at \in [Slots -> WorkerPCs] /\ at[w] = "read" /\ g \in Files
      /\ batch \in [Slots -> 0..MaxBatches] /\ read \in [Files -> 0..MaxBatches]
      /\ passed[f] \in Nat /\ read[f] \in Nat
      /\ UNCHANGED <<passed, file>> /\ Line' = Line
  BY BoundsAssumption DEF Read, HoldInv, RestInv, Busy, throttlerVars, Line
<1>1. ASSUME NEW v \in Slots, v # w
      PROVE  (Sends(v, f)' <=> Sends(v, f)) /\ batch'[v] = batch[v]
  BY <1>0, <1>1 DEF Read, Sends
<1>2. ~Sends(w, f)
  BY <1>0 DEF Sends, Sending
<1>3. CASE at'[w] \notin Sending \/ g # f
  <2>1. ~Sends(w, f)' /\ read'[f] = read[f]
    BY <1>0, <1>3 DEF Read, Sends, Sending
  <2>. QED  BY <1>0, <1>1, <1>2, <2>1, FileKept
<1>4. CASE at'[w] \in Sending /\ g = f
  <2>1. read'[f] = read[f] + 1 /\ batch'[w] = read[f] + 1 /\ Sends(w, f)'
    BY <1>0, <1>4 DEF Read, Sends, Sending
  <2>2. ASSUME NEW v \in Slots PROVE ~Sends(v, f)
    BY <1>0, <1>4, <2>2 DEF ClaimInv, Sends, Busy, Sending
  <2>3. \A v \in Slots : Sends(v, f)' => v = w
    BY <1>1, <2>2
  <2>4. \A i \in DOMAIN Line : Line[i] \in Batches
    BY LineIsBatches
  <2>5. \A i \in DOMAIN Line : Line[i][2] \in Nat
    BY <2>4, BoundsAssumption DEF Batches
  <2>6. ASSUME NEW i \in DOMAIN Line, Line[i][1] = f
        PROVE  passed[f] < Line[i][2] /\ Line[i][2] <= read'[f] /\ Line[i][2] < read'[f]
    BY <1>0, <2>1, <2>5, <2>6 DEF FileInv
  <2>7. ASSUME ~CtxEnded', NEW k \in (passed[f] + 1)..read'[f]
        PROVE  \/ \E i \in DOMAIN Line : Line[i][1] = f /\ Line[i][2] = k
               \/ \E v \in Slots : Sends(v, f)' /\ batch'[v] = k
    <3>1. CASE k = read[f] + 1
      BY <2>1, <3>1
    <3>2. CASE k \in (passed[f] + 1)..read[f]
      BY <2>2, <2>7, <3>2 DEF FileInv
    <3>. QED  BY <1>0, <2>1, <2>7, <3>1, <3>2
  <2>8. passed[f] <= read'[f] /\ passed[f] < read'[f]
    BY <1>0, <2>1 DEF FileInv
  <2>. QED  BY <1>0, <2>1, <2>3, <2>6, <2>7, <2>8 DEF FileInv
<1>. QED  BY <1>3, <1>4

\* No step takes a batch out of its order.
LEMMA OrderStep ==
    HoldInv /\ ClaimInv /\ EndInv /\ RestInv /\ OrderInv /\ [Next]_vars => OrderInv'
<1> SUFFICES ASSUME HoldInv, ClaimInv, EndInv, RestInv, OrderInv, [Next]_vars,
                    NEW f \in Files
             PROVE  FileInv(f)'
  BY DEF OrderInv
<1>0. /\ FileInv(f) /\ (CtxEnded => CtxEnded')
      /\ at \in [Slots -> WorkerPCs] /\ batch \in [Slots -> 0..MaxBatches]
      /\ file \in [Slots -> Files \union {NoFile}]
  BY ContextStays DEF OrderInv, HoldInv
\* Most steps leave the line and everybody who sends alone.
<1>1. ASSUME UNCHANGED <<passed, read, batch, channel, hand>>,
             \A v \in Slots : Sends(v, f)' <=> Sends(v, f)
      PROVE  FileInv(f)'
  <2>1. Line' = Line
    BY <1>1 DEF Line
  <2>. QED  BY <1>0, <1>1, <2>1, FileKept
<1>2. ASSUME NEW w \in Slots, Sent(w) \/ Read(w) PROVE FileInv(f)'
  BY <1>0, <1>2, FileSent, FileRead
<1>3. ASSUME NEW w \in Slots,
             ClaimNothing(w) \/ SendBlocks(w) \/ Report(w) \/ CancelPool(w) \/ Leave(w)
             \/ RecordSend(w)
      PROVE  FileInv(f)'
  <2>1. UNCHANGED <<file, passed, read, batch, channel, hand>>
    BY <1>3 DEF ClaimNothing, SendBlocks, Report, CancelPool, Leave, RecordSend, flowVars,
         throttlerVars
  <2>2. ASSUME NEW v \in Slots PROVE at'[v] \in Sending <=> at[v] \in Sending
    BY <1>0, <1>3 DEF ClaimNothing, SendBlocks, Report, CancelPool, Leave, RecordSend, Sending
  <2>. QED  BY <1>1, <2>1, <2>2 DEF Sends
<1>4. ASSUME NEW w \in Slots, Claim(w) PROVE FileInv(f)'
  <2>1. UNCHANGED <<passed, read, batch, channel, hand>>
    BY <1>4 DEF Claim, flowVars, throttlerVars
  <2>2. ASSUME NEW v \in Slots PROVE Sends(v, f)' <=> Sends(v, f)
    BY <1>0, <1>4 DEF Claim, Sends, Sending
  <2>. QED  BY <1>1, <2>1, <2>2
<1>5. ASSUME NEW w \in Slots, RaiseStopping(w) PROVE FileInv(f)'
  <2>1. UNCHANGED <<file, passed, read, batch, channel, hand>>
    BY <1>5 DEF RaiseStopping, flowVars, throttlerVars
  <2>2. ASSUME NEW v \in Slots PROVE at'[v] \in Sending <=> at[v] \in Sending
    BY <1>0, <1>5, AwakeKeeps DEF RaiseStopping, Sending
  <2>. QED  BY <1>1, <2>1, <2>2 DEF Sends
<1>6. ASSUME NEW w \in Slots, ReleaseFile(w) PROVE FileInv(f)'
  <2>1. UNCHANGED <<passed, read, batch, channel, hand>>
    BY <1>6 DEF ReleaseFile, flowVars, throttlerVars
  <2>2. ASSUME NEW v \in Slots PROVE Sends(v, f)' <=> Sends(v, f)
    BY <1>0, <1>6, AwakeKeeps DEF ReleaseFile, Sends, Sending
  <2>. QED  BY <1>1, <2>1, <2>2
<1>7. ASSUME NEW w \in Slots, SendGivenUp(w) PROVE FileInv(f)'
  <2>1. /\ UNCHANGED <<passed, read>> /\ CtxEnded' /\ Line' = Line
    BY <1>0, <1>7 DEF SendGivenUp, flowVars, throttlerVars, Line
  <2>2. ASSUME NEW v \in Slots, Sends(v, f)' PROVE Sends(v, f) /\ batch'[v] = batch[v]
    BY <1>0, <1>7, <2>2 DEF SendGivenUp, Sends, Sending
  <2>. QED  BY <1>0, <2>1, <2>2 DEF FileInv
<1>8. CASE CloserStep
  <2>1. UNCHANGED <<file, passed, read, batch, channel, hand>>
    BY <1>8 DEF CloserStep, CloserRaises, CloserJoins, placeVars, flowVars, throttlerVars
  <2>2. ASSUME NEW v \in Slots PROVE at'[v] \in Sending <=> at[v] \in Sending
    BY <1>0, <1>8, AwakeKeeps DEF CloserStep, CloserRaises, CloserJoins, placeVars
  <2>. QED  BY <1>1, <2>1, <2>2 DEF Sends
<1>9. CASE Receive
  <2>1. UNCHANGED <<passed, read, at, file, batch>>
    BY <1>9 DEF Receive, placeVars
  <2>2. Line' = Line
    <3>1. /\ hand = NoBatch /\ channel \in Seq(Batches) /\ channel # <<>>
          /\ hand' = Head(channel) /\ channel' = Tail(channel)
          /\ hand' # NoBatch
      BY <1>9, LineIsBatches DEF Receive, HoldInv, RestInv
    <3>2. Line = channel /\ Line' = <<Head(channel)>> \o Tail(channel)
      BY <3>1 DEF Line
    <3>. QED  BY <3>1, <3>2
  <2>3. \A v \in Slots : Sends(v, f)' <=> Sends(v, f)
    BY <2>1 DEF Sends
  <2>. QED  BY <1>0, <2>1, <2>2, <2>3, FileKept
<1>10. CASE PassOn
  <2>1. /\ hand \in Batches /\ hand' = NoBatch /\ passed' = [passed EXCEPT ![hand[1]] = hand[2]]
        /\ UNCHANGED <<read, at, file, batch, channel>>
    BY <1>10 DEF PassOn, HoldInv, placeVars
  <2>2. \A v \in Slots : Sends(v, f)' <=> Sends(v, f)
    BY <2>1 DEF Sends
  <2>. QED  BY <1>0, <2>1, <2>2, FileShifted
<1>11. CASE ThrottlerEnds
  <2>1. /\ hand' = NoBatch /\ CtxEnded'
        /\ UNCHANGED <<passed, read, at, file, batch, channel>>
    BY <1>11 DEF ThrottlerEnds, placeVars, poolVars, flowVars, loopVars, CtxEnded
  <2>2. \A v \in Slots : Sends(v, f)' <=> Sends(v, f)
    BY <2>1 DEF Sends
  <2>3. CASE hand = NoBatch
    BY <1>1, <2>1, <2>2, <2>3
  <2>4. CASE hand \in Batches
    BY <1>0, <2>1, <2>2, <2>4, FileShifted
  <2>. QED  BY <2>3, <2>4, LineIsBatches
<1>12. CASE RecordReceive \/ TimerFires \/ ForwardBlocks \/ TakeUpdate
  BY <1>1, <1>12 DEF RecordReceive, TimerFires, ForwardBlocks, TakeUpdate, placeVars, flowVars,
       Sends
<1>13. ASSUME NEW n \in Targets, Reconcile(n) PROVE FileInv(f)'
  <2>1. PICK new \in SUBSET (Slots \ Live) :
            at' = [v \in Slots |-> IF v \in new THEN "claim" ELSE Awake(at[v])]
    BY <1>13 DEF Reconcile
  <2>2. ASSUME NEW v \in Slots PROVE at'[v] \in Sending <=> at[v] \in Sending
    BY <1>0, <2>1, AwakeKeeps DEF Live, Sending
  <2>3. UNCHANGED <<file, passed, read, batch, channel, hand>>
    BY <1>13 DEF Reconcile, flowVars, throttlerVars
  <2>. QED  BY <1>1, <2>2, <2>3 DEF Sends
<1>14. CASE CloseChannels
  <2>1. /\ CtxEnded /\ Line' = <<>>
        /\ UNCHANGED <<passed, read, at, file, batch, poolEnded, runEnded>>
        /\ \A v \in Slots : at[v] = "free"
    BY <1>14 DEF CloseChannels, EndInv, HoldInv, Line, placeVars, poolVars, throttlerVars
  <2>2. \A v \in Slots : ~Sends(v, f)'
    BY <2>1 DEF Sends, Sending
  <2>3. passed[f] <= read[f]
    BY <1>0 DEF FileInv
  <2>. QED  BY <1>0, <2>1, <2>2, <2>3 DEF FileInv
<1>15. CASE (\E s \in Settings : SetThrottle(s)) \/ TakeError \/ StopRun \/ UpdateUnheard
              \/ CancelRun \/ JoinReaders \/ ContextEnds \/ Closed \/ UNCHANGED vars
  BY <1>1, <1>15 DEF SetThrottle, TakeError, StopRun, UpdateUnheard, CancelRun, JoinReaders,
       ContextEnds, Closed, placeVars, flowVars, throttlerVars, vars, Sends
<1>. QED  BY <1>2, <1>3, <1>4, <1>5, <1>6, <1>7, <1>8, <1>9, <1>10, <1>11, <1>12, <1>13,
              <1>14, <1>15
          DEF Next, WorkerStep, ThrottlerStep, Operator, LoopStep

\* The workers that have sent a batch and not recorded it.
Recording == {w \in Slots : at[w] = "record"}

\* There are finitely many, and one comes or goes at a time.
LEMMA RecordingCounts ==
    ASSUME at \in [Slots -> WorkerPCs], at' \in [Slots -> WorkerPCs], NEW w \in Slots
    PROVE  /\ Cardinality(Recording) \in Nat
           /\ Recording' = Recording => Cardinality(Recording') = Cardinality(Recording)
           /\ Recording' = Recording \union {w} /\ w \notin Recording
                => Cardinality(Recording') = Cardinality(Recording) + 1
           /\ Recording' = Recording \ {w} /\ w \in Recording
                => Cardinality(Recording') = Cardinality(Recording) - 1
<1>1. IsFiniteSet(Recording)
  BY SlotsAssumption, FS_Subset DEF Recording
<1>2. /\ w \notin Recording => Cardinality(Recording \union {w}) = Cardinality(Recording) + 1
      /\ w \in Recording => Cardinality(Recording \ {w}) = Cardinality(Recording) - 1
      /\ Cardinality(Recording) \in Nat
  BY <1>1, FS_AddElement, FS_RemoveElement, FS_CardinalityType
<1>. QED  BY <1>2

\* Every send and every receipt is recorded once.
LEMMA TotalsStep == HoldInv /\ EndInv /\ RestInv /\ TotalsAgree /\ [Next]_vars => TotalsAgree'
<1> SUFFICES ASSUME HoldInv, EndInv, RestInv, TotalsAgree, [Next]_vars PROVE TotalsAgree'
  OBVIOUS
<1>. DEFINE InHands == IF throttler = "receive" THEN 1 ELSE 0
<1>0. /\ at \in [Slots -> WorkerPCs] /\ Len(channel) \in Nat /\ Cardinality(Recording) \in Nat
      /\ sent \in Nat /\ received \in Nat
      /\ sent + Cardinality(Recording) = received + Len(channel) + InHands
  <2>1. Cardinality(Recording) \in Nat
    BY SlotsAssumption, FS_Subset, FS_CardinalityType DEF Recording
  <2>. QED  BY <2>1 DEF HoldInv, RestInv, TotalsAgree, Recording
<1>1. ASSUME UNCHANGED <<sent, received, channel>>, Recording' = Recording,
             throttler' = "receive" <=> throttler = "receive"
      PROVE  TotalsAgree'
  BY <1>0, <1>1 DEF TotalsAgree, Recording
<1>2. ASSUME NEW w \in Slots, Sent(w) PROVE TotalsAgree'
  <2>1. /\ Recording' = Recording \union {w} /\ w \notin Recording
        /\ at' = [at EXCEPT ![w] = "record"] /\ UNCHANGED <<sent, received>>
    BY <1>0, <1>2 DEF Sent, Recording, Sending, totalVars
  <2>2. at' \in [Slots -> WorkerPCs]
    BY <1>0, <2>1 DEF WorkerPCs, Busy
  <2>3. Cardinality(Recording') = Cardinality(Recording) + 1
    BY <1>0, <2>1, <2>2, RecordingCounts
  <2>4. Len(channel') + InHands' = Len(channel) + InHands + 1
    <3>. DEFINE b == <<file[w], batch[w]>>
    <3>1. Enters(b) /\ channel \in Seq(Batches) /\ b \in Batches
      BY <1>2 DEF Sent, RestInv, HoldInv, Batches, Busy, Sending
    <3>. HIDE DEF b
    <3>2. CASE channel' = Append(channel, b) /\ throttler' = throttler
      BY <1>0, <3>1, <3>2
    <3>3. CASE channel' = channel /\ throttler = "select" /\ throttler' = "receive"
      BY <1>0, <3>3
    <3>. QED  BY <3>1, <3>2, <3>3 DEF Enters, throttlerVars
  <2>5. sent' + Cardinality(Recording') = received' + (Len(channel') + InHands')
    BY <1>0, <2>1, <2>3, <2>4
  <2>6. Len(channel') \in Nat
    BY <1>2, RestStep DEF RestInv
  <2>. QED  BY <1>0, <2>1, <2>5, <2>6 DEF TotalsAgree, Recording
<1>3. ASSUME NEW w \in Slots, RecordSend(w) PROVE TotalsAgree'
  <2>1. /\ Recording' = Recording \ {w} /\ w \in Recording
        /\ at' = [at EXCEPT ![w] = IF CtxEnded THEN "release" ELSE "read"]
        /\ sent' = sent + 1 /\ UNCHANGED <<received, channel, throttler>>
    BY <1>0, <1>3 DEF RecordSend, Recording, throttlerVars
  <2>2. at' \in [Slots -> WorkerPCs]
    BY <1>0, <2>1 DEF WorkerPCs, Busy
  <2>3. Cardinality(Recording') = Cardinality(Recording) - 1
    BY <1>0, <2>1, <2>2, RecordingCounts
  <2>4. sent' + Cardinality(Recording') = received' + Len(channel') + InHands'
    BY <1>0, <2>1, <2>3
  <2>. QED  BY <2>4 DEF TotalsAgree, Recording
<1>4. ASSUME NEW w \in Slots,
             ClaimNothing(w) \/ Claim(w) \/ Read(w) \/ SendBlocks(w) \/ SendGivenUp(w)
             \/ Report(w) \/ CancelPool(w) \/ Leave(w)
      PROVE  TotalsAgree'
  <2>1. UNCHANGED <<sent, received, channel, throttler>>
    BY <1>4 DEF ClaimNothing, Claim, Read, SendBlocks, SendGivenUp, Report, CancelPool, Leave,
         flowVars, totalVars, throttlerVars
  <2>2. ASSUME NEW v \in Slots PROVE at'[v] = "record" <=> at[v] = "record"
    <3>1. CASE ClaimNothing(w) \/ Claim(w) \/ Leave(w)
      BY <1>0, <3>1 DEF ClaimNothing, Claim, Leave
    <3>2. CASE Read(w) \/ SendBlocks(w) \/ SendGivenUp(w)
      BY <1>0, <3>2 DEF Read, SendBlocks, SendGivenUp, Sending
    <3>3. CASE Report(w) \/ CancelPool(w)
      BY <1>0, <3>3 DEF Report, CancelPool
    <3>. QED  BY <1>4, <3>1, <3>2, <3>3
  <2>. QED  BY <1>1, <2>1, <2>2 DEF Recording
<1>5. ASSUME NEW w \in Slots, RaiseStopping(w) \/ ReleaseFile(w) PROVE TotalsAgree'
  <2>1. UNCHANGED <<sent, received, channel, throttler>>
    BY <1>5 DEF RaiseStopping, ReleaseFile, flowVars, totalVars, throttlerVars
  <2>2. ASSUME NEW v \in Slots PROVE at'[v] = "record" <=> at[v] = "record"
    <3>1. CASE RaiseStopping(w)
      BY <1>0, <3>1, AwakeKeeps DEF RaiseStopping, Busy
    <3>2. CASE ReleaseFile(w)
      BY <1>0, <3>2, AwakeKeeps DEF ReleaseFile, Busy
    <3>. QED  BY <1>5, <3>1, <3>2
  <2>. QED  BY <1>1, <2>1, <2>2 DEF Recording
<1>6. CASE CloserStep
  <2>1. UNCHANGED <<sent, received, channel, throttler>>
    BY <1>6 DEF CloserStep, CloserRaises, CloserJoins, flowVars, totalVars, throttlerVars
  <2>2. ASSUME NEW v \in Slots PROVE at'[v] = "record" <=> at[v] = "record"
    BY <1>0, <1>6, AwakeKeeps DEF CloserStep, CloserRaises, CloserJoins, placeVars, Busy
  <2>. QED  BY <1>1, <2>1, <2>2 DEF Recording
<1>7. ASSUME NEW n \in Targets, Reconcile(n) PROVE TotalsAgree'
  <2>1. PICK new \in SUBSET (Slots \ Live) :
            at' = [v \in Slots |-> IF v \in new THEN "claim" ELSE Awake(at[v])]
    BY <1>7 DEF Reconcile
  <2>2. ASSUME NEW v \in Slots PROVE at'[v] = "record" <=> at[v] = "record"
    BY <1>0, <2>1, AwakeKeeps DEF Live, Busy
  <2>3. UNCHANGED <<sent, received, channel, throttler>>
    BY <1>7 DEF Reconcile, flowVars, totalVars, throttlerVars
  <2>. QED  BY <1>1, <2>2, <2>3 DEF Recording
<1>8. CASE Receive
  <2>1. /\ throttler = "select" /\ throttler' = "receive" /\ channel # <<>>
        /\ channel' = Tail(channel) /\ channel \in Seq(Batches)
        /\ UNCHANGED <<at, sent, received>>
    BY <1>8 DEF Receive, RestInv, placeVars, totalVars
  <2>2. Len(channel') = Len(channel) - 1
    BY <2>1
  <2>3. sent' + Cardinality(Recording') = received' + Len(channel') + InHands'
    BY <1>0, <2>1, <2>2 DEF Recording
  <2>. QED  BY <2>3 DEF TotalsAgree, Recording
<1>9. CASE RecordReceive
  <2>1. /\ throttler = "receive" /\ throttler' # "receive" /\ received' = received + 1
        /\ UNCHANGED <<at, sent, channel>>
    BY <1>9 DEF RecordReceive, Top, placeVars
  <2>2. sent' + Cardinality(Recording') = received' + Len(channel') + InHands'
    BY <1>0, <2>1 DEF Recording
  <2>. QED  BY <2>2 DEF TotalsAgree, Recording
<1>10. CASE TimerFires \/ ForwardBlocks \/ PassOn \/ TakeUpdate \/ ThrottlerEnds
  <2>1. UNCHANGED <<at, sent, received, channel>>
    BY <1>10 DEF TimerFires, ForwardBlocks, PassOn, TakeUpdate, ThrottlerEnds, placeVars,
         flowVars, totalVars
  <2>2. throttler' # "receive" /\ throttler # "receive"
    BY <1>10 DEF TimerFires, ForwardBlocks, PassOn, TakeUpdate, AfterUpdate, Top, Hears, Waits,
         ThrottlerEnds
  <2>. QED  BY <1>1, <2>1, <2>2 DEF Recording
<1>11. CASE CloseChannels
  <2>1. /\ channel' = <<>> /\ sent' = 0 /\ received' = 0 /\ throttler' = "done"
        /\ UNCHANGED at /\ \A v \in Slots : at[v] = "free"
    BY <1>11 DEF CloseChannels, EndInv, placeVars, throttlerVars
  <2>2. Recording' = {} /\ Cardinality({}) = 0
    BY <2>1, FS_EmptySet DEF Recording
  <2>3. sent' = 0 /\ Cardinality(Recording') = 0 /\ received' = 0 /\ Len(channel') = 0 /\ InHands' = 0
    BY <2>1, <2>2
  <2>4. sent' + Cardinality(Recording') = received' + Len(channel') + InHands'
    BY <2>3
  <2>. QED  BY <2>4 DEF TotalsAgree, Recording
<1>12. CASE (\E s \in Settings : SetThrottle(s)) \/ TakeError \/ StopRun \/ UpdateUnheard
              \/ CancelRun \/ JoinReaders \/ ContextEnds \/ Closed \/ UNCHANGED vars
  BY <1>1, <1>12 DEF SetThrottle, TakeError, StopRun, UpdateUnheard, CancelRun, JoinReaders,
       ContextEnds, Closed, placeVars, flowVars, totalVars, throttlerVars, vars, Recording
<1>. QED  BY <1>2, <1>3, <1>4, <1>5, <1>6, <1>7, <1>8, <1>9, <1>10, <1>11, <1>12
          DEF Next, WorkerStep, ThrottlerStep, Operator, LoopStep

\* Batches of a file reach the senders in the order they were read, none lost
\* or repeated before the end of the context, and the totals of the channel
\* differ by what is under way alone.
THEOREM BatchesStayInOrder == Spec => []BatchesInOrder
<1>1. Init => OrderInv /\ TotalsAgree
  <2> SUFFICES ASSUME Init PROVE OrderInv /\ TotalsAgree
    OBVIOUS
  <2>1. Line = <<>> /\ \A w \in Slots : at[w] \in {"claim", "free"}
    BY DEF Init, Line
  <2>2. OrderInv
    BY <2>1 DEF Init, OrderInv, FileInv, Sends, Sending
  <2>3. Recording = {} /\ Cardinality({}) = 0
    BY <2>1, FS_EmptySet DEF Recording
  <2>4. sent = 0 /\ Cardinality(Recording) = 0 /\ received = 0 /\ Len(channel) = 0
        /\ throttler = "select"
    BY <2>3 DEF Init
  <2>5. TotalsAgree
    BY <2>4 DEF TotalsAgree, Recording
  <2>. QED  BY <2>2, <2>5
<1>2. HoldInv /\ RestInv /\ OrderInv => OrderKept /\ NoneMissing
  <2> SUFFICES ASSUME HoldInv, RestInv, OrderInv PROVE OrderKept /\ NoneMissing
    OBVIOUS
  <2>0. \A f \in Files : FileInv(f)
    BY DEF OrderInv
  <2>1. OrderKept
    BY <2>0 DEF OrderKept, FileInv, Of, Number, Offering, Sends
  <2>2. ASSUME ~CtxEnded, NEW f \in Files PROVE Underway(f) = (passed[f] + 1)..read[f]
    <3>1. passed[f] \in Nat /\ read[f] \in Nat
          /\ \A i \in DOMAIN Line : Line[i][2] \in Nat
      <4>1. \A i \in DOMAIN Line : Line[i] \in Batches
        BY LineIsBatches
      <4>. QED  BY <4>1, BoundsAssumption DEF RestInv, Batches
    <3>2. ASSUME NEW k \in Underway(f) PROVE k \in (passed[f] + 1)..read[f]
      <4>1. CASE \E i \in Of(f) : k = Number(i)
        BY <2>0, <3>1, <4>1 DEF FileInv, Of, Number
      <4>2. CASE \E w \in Offering(f) : k = batch[w]
        BY <2>0, <3>1, <4>2 DEF FileInv, Offering, Sends
      <4>. QED  BY <3>2, <4>1, <4>2 DEF Underway
    <3>3. ASSUME NEW k \in (passed[f] + 1)..read[f] PROVE k \in Underway(f)
      BY <2>0, <2>2, <3>3 DEF FileInv, Underway, Of, Number, Offering, Sends
    <3>. QED  BY <3>2, <3>3
  <2>. QED  BY <2>1, <2>2 DEF NoneMissing
<1>3. HoldInv /\ ClaimInv /\ EndInv /\ RestInv /\ OrderInv /\ TotalsAgree /\ [Next]_vars
        => OrderInv' /\ TotalsAgree'
  BY OrderStep, TotalsStep
<1>. QED  BY <1>1, <1>2, <1>3, StagesInvHolds, PTL DEF Spec, BatchesInOrder
===============================================================================
