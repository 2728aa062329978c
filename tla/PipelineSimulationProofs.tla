----------------------- MODULE PipelineSimulationProofs -----------------------
(***************************************************************************)
(* Proofs about PipelineSimulation for every rate, capacity and number of  *)
(* readers and senders, and any cost, delay and number of attempts.        *)
(***************************************************************************)
EXTENDS PipelineSimulation, FiniteSetTheorems, SequenceTheorems, WellFoundedInduction, TLAPS

\* The staff is what was asked for last and, behind it, the workers on their
\* way out; a worker that waits for its next try has one left.
StaffInv ==
    /\ workers \in Seq(Worker) /\ next \in DOMAIN workers
    /\ config.senders \in SenderCounts /\ config.senders <= Len(workers)
    /\ \A w \in DOMAIN workers :
           /\ workers[w].retiring <=> w > config.senders
           /\ workers[w].state = "backoff" => workers[w].attempt < MaxAttempts

\* A channel holds what its totals say and no more than it has room for.
FlowInv ==
    /\ items \in [Channels -> Seq(Nat)]
    /\ capacity \in [Channels -> [applied : Nat, pending : Nat \cup {None}]]
    /\ hand \in Nat \cup {None}
    /\ traffic \in [Channels -> [sent : Nat, received : Nat]]
    /\ \A ch \in Channels : /\ Depth(ch) <= capacity[ch].applied
                            /\ traffic[ch].sent - traffic[ch].received = Depth(ch)

\* The readers' credit and the throttler's tokens are never overdrawn.
BucketInv ==
    /\ run \in {"idle", "running", "paused"}
    /\ stage \in {"rest", "retry", "receive", "produce"}
    /\ config \in [readers : ReaderCounts, senders : SenderCounts, rate : Nat,
                   installed : BOOLEAN]
    /\ credit \in 0..(config.readers * Cost) /\ tokens \in Nat

\* The batches of s are numbered from `first` on.
NumberedFrom(s, first) == \A i \in 1..Len(s) : s[i] = first + i - 1

\* What waits in a channel or in the hand goes on where what waits before it
\* ends.
LineInv ==
    /\ sequence \in Nat /\ started \in Nat /\ retried \in Nat
    /\ NumberedFrom(items["sender"], FirstAttempts)
    /\ hand # None => hand = FirstAttempts + Len(items["sender"])
    /\ NumberedFrom(items["reader"], FirstAttempts + Len(items["sender"]) + Len(InHand))
    /\ sequence = FirstAttempts + Len(items["sender"]) + Len(InHand) + Len(items["reader"])

\* Where the attempted batches are.
BatchInv ==
    /\ \A v, w \in Busy : v # w => workers[v].batch # workers[w].batch
    /\ \A w \in Busy : workers[w].batch \in 0..(FirstAttempts - 1)

CountInv ==
    /\ started \in Nat /\ retried \in Nat
    /\ succeeded \in Nat /\ failed \in Nat /\ terminal \in Nat
    /\ Cardinality(In("in-flight")) + Cardinality(In("backoff"))
           = FirstAttempts - succeeded - terminal
    /\ started = succeeded + failed + Cardinality(In("in-flight"))

SimInv == StaffInv /\ FlowInv /\ BucketInv /\ LineInv /\ BatchInv /\ CountInv

-------------------------------------------------------------------------------
(* The workers. *)

LEMMA LeastTurn ==
    ASSUME NEW T, T \subseteq Nat, T # {}
    PROVE  \E x \in T : \A y \in T : x <= y
<1>. DEFINE Less == {ss \in Nat \X Nat : ss[1] < ss[2]}
<1>1. IsWellFoundedOn(Less, Nat)
  BY NatLessThanWellFounded DEF OpToRel
<1>2. PICK x \in T : \A y \in T : <<y, x>> \notin Less
  <2>. HIDE DEF Less
  <2>. QED  BY <1>1, WFMin
<1>3. ASSUME NEW y \in T PROVE x <= y
  <2>1. <<y, x>> \in Nat \X Nat /\ ~(y < x)
    BY <1>2, <1>3
  <2>. QED  BY <2>1
<1>. QED  BY <1>3

LEMMA WorkersTyped ==
    ASSUME StaffInv
    PROVE  /\ Len(workers) \in Nat \ {0} /\ DOMAIN workers = 1..Len(workers)
           /\ \A w \in DOMAIN workers : workers[w] \in Worker
BY LenProperties DEF StaffInv

\* The next free worker is free.
LEMMA NextFreeIsFree ==
    ASSUME StaffInv, Free # {}
    PROVE  NextFree \in Free /\ NextFree \in DOMAIN workers
           /\ Idle(NextFree) /\ NextIndex(NextFree) \in DOMAIN workers
<1>1. Len(workers) \in Nat \ {0} /\ DOMAIN workers = 1..Len(workers) /\ next \in 1..Len(workers)
      /\ Free \subseteq DOMAIN workers
  BY WorkersTyped DEF StaffInv, Free
<1>2. \A w \in Free : Turn(w) \in Nat
  BY <1>1 DEF Turn
<1>. DEFINE T == {Turn(w) : w \in Free}
<1>3. PICK x \in T : \A y \in T : x <= y
  BY <1>2, LeastTurn
<1>4. \E w \in Free : \A other \in Free : Turn(w) <= Turn(other)
  BY <1>3
<1>5. NextFree \in Free
  BY <1>4 DEF NextFree
<1>6. ASSUME NEW w \in 1..Len(workers) PROVE (w % Len(workers)) + 1 \in 1..Len(workers)
  BY <1>1
<1>. QED  BY <1>1, <1>5, <1>6 DEF Free, NextIndex

LEMMA IdleIsWorker == IdleWorker \in Worker
<1>1. 0 \in 0..MaxAttempts /\ 0 \in 0..MaxDelay
  BY BoundsAssumption
<1>. QED  BY <1>1 DEF IdleWorker, Worker

LEMMA PlannedWorker ==
    ASSUME NEW c \in Worker, NEW b \in BOOLEAN
    PROVE  /\ [c EXCEPT !.retiring = b] \in Worker /\ [c EXCEPT !.retiring = b].retiring = b
           /\ [c EXCEPT !.retiring = b].batch = c.batch
           /\ [c EXCEPT !.retiring = b].state = c.state
           /\ [c EXCEPT !.retiring = b].attempt = c.attempt
BY DEF Worker

LEMMA WorkerForms ==
    ASSUME NEW c \in Worker, NEW delay \in 1..MaxDelay
    PROVE  /\ \A batch \in Nat :
                  [c EXCEPT !.state = "in-flight", !.batch = batch, !.attempt = 1, !.due = delay]
                      \in Worker
           /\ [c EXCEPT !.state = "backoff", !.due = delay] \in Worker
           /\ c.attempt < MaxAttempts =>
                  [c EXCEPT !.state = "in-flight", !.due = delay, !.attempt = @ + 1] \in Worker
           /\ [IdleWorker EXCEPT !.retiring = c.retiring] \in Worker /\ IdleWorker \in Worker
           /\ [c EXCEPT !.due = IF @ > 0 THEN @ - 1 ELSE 0] \in Worker
<1>1. /\ MaxAttempts \in Nat \ {0} /\ MaxDelay \in Nat \ {0}
      /\ delay \in 0..MaxDelay /\ 0 \in 0..MaxDelay /\ 1 \in 0..MaxAttempts /\ 0 \in 0..MaxAttempts
  BY BoundsAssumption
<1>2. /\ c = [state |-> c.state, batch |-> c.batch, attempt |-> c.attempt, due |-> c.due,
              retiring |-> c.retiring]
      /\ c.state \in {"idle", "in-flight", "backoff"} /\ c.batch \in Nat \cup {None}
      /\ c.attempt \in 0..MaxAttempts /\ c.due \in 0..MaxDelay /\ c.retiring \in BOOLEAN
  BY DEF Worker
<1>3. c.attempt < MaxAttempts => c.attempt + 1 \in 0..MaxAttempts
  BY <1>1, <1>2
<1>4. (IF c.due > 0 THEN c.due - 1 ELSE 0) \in 0..MaxDelay
  BY <1>1, <1>2
<1>5. /\ \A batch \in Nat :
             [c EXCEPT !.state = "in-flight", !.batch = batch, !.attempt = 1, !.due = delay]
                 \in Worker
      /\ [c EXCEPT !.state = "backoff", !.due = delay] \in Worker
  BY <1>1, <1>2 DEF Worker
<1>6. c.attempt < MaxAttempts =>
          [c EXCEPT !.state = "in-flight", !.due = delay, !.attempt = @ + 1] \in Worker
  BY <1>1, <1>2, <1>3 DEF Worker
<1>7. [IdleWorker EXCEPT !.retiring = c.retiring] \in Worker /\ IdleWorker \in Worker
  BY <1>1, <1>2 DEF Worker, IdleWorker
<1>8. [c EXCEPT !.due = IF @ > 0 THEN @ - 1 ELSE 0] \in Worker
  BY <1>1, <1>2, <1>4 DEF Worker
<1>. QED  BY <1>5, <1>6, <1>7, <1>8

\* One worker changes.
LEMMA WorkerChanges ==
    ASSUME StaffInv, NEW w \in DOMAIN workers, NEW c \in Worker,
           workers' = [workers EXCEPT ![w] = c]
    PROVE  /\ workers' \in Seq(Worker) /\ DOMAIN workers' = DOMAIN workers
           /\ Len(workers') = Len(workers) /\ workers'[w] = c
           /\ \A other \in DOMAIN workers : other # w => workers'[other] = workers[other]
<1>1. workers \in Seq(Worker) /\ DOMAIN workers = 1..Len(workers)
  BY WorkersTyped DEF StaffInv
<1>2. workers' \in Seq(Worker) /\ Len(workers') = Len(workers)
  BY <1>1, ExceptSeq
<1>. QED  BY <1>1, <1>2, LenProperties

\* What a hire does.
LEMMA HireTakes ==
    ASSUME StaffInv, Free # {}, NEW batch \in Nat, Hire(batch)
    PROVE  \E w \in Free :
               /\ workers' \in Seq(Worker) /\ DOMAIN workers' = DOMAIN workers
               /\ Len(workers') = Len(workers) /\ next' \in DOMAIN workers
               /\ workers'[w].state = "in-flight" /\ workers'[w].batch = batch
               /\ workers'[w].retiring = workers[w].retiring
               /\ \A other \in DOMAIN workers : other # w => workers'[other] = workers[other]
<1>. DEFINE w == NextFree
<1>1. w \in Free /\ w \in DOMAIN workers /\ NextIndex(w) \in DOMAIN workers
  BY NextFreeIsFree
<1>2. PICK delay \in 1..MaxDelay :
          /\ workers' = [workers EXCEPT ![w] =
                             [workers[w] EXCEPT !.state = "in-flight", !.batch = batch,
                                                !.attempt = 1, !.due = delay]]
          /\ next' = NextIndex(w)
  BY DEF Hire
<1>. DEFINE c == [workers[w] EXCEPT !.state = "in-flight", !.batch = batch,
                                    !.attempt = 1, !.due = delay]
<1>. HIDE DEF w
<1>3. /\ c \in Worker /\ c.state = "in-flight" /\ c.batch = batch
      /\ c.retiring = workers[w].retiring
  <2>1. workers[w] \in Worker
    BY <1>1, WorkersTyped
  <2>. QED  BY <2>1, WorkerForms DEF Worker
<1>4. workers' = [workers EXCEPT ![w] = c]
  BY <1>2
<1>. HIDE DEF c
<1>5. /\ workers' \in Seq(Worker) /\ DOMAIN workers' = DOMAIN workers
      /\ Len(workers') = Len(workers) /\ workers'[w] = c
      /\ \A other \in DOMAIN workers : other # w => workers'[other] = workers[other]
  BY <1>1, <1>3, <1>4, WorkerChanges
<1>6. next' \in DOMAIN workers
  BY <1>1, <1>2 DEF w
<1>. QED  BY <1>1, <1>3, <1>5, <1>6

\* How an attempt ends.
LEMMA OutcomesAre ==
    ASSUME StaffInv, NEW w \in DOMAIN workers, NEW o \in Outcomes(w)
    PROVE  /\ o[2] \in Worker /\ o[2].retiring = workers[w].retiring
           /\ \/ o[1] \in {"succeeded", "terminal"} /\ o[2].state = "idle"
              \/ /\ o[1] = "backoff" /\ o[2].state = "backoff"
                 /\ o[2].batch = workers[w].batch /\ o[2].attempt < MaxAttempts
<1>1. workers[w] \in Worker
  BY WorkersTyped
<1>2. /\ Released(w) \in Worker /\ Released(w).retiring = workers[w].retiring
      /\ Released(w).state = "idle"
  BY <1>1, BoundsAssumption DEF Released, IdleWorker, Worker, None
<1>3. CASE o \in {<<"succeeded", Released(w)>>, <<"terminal", Released(w)>>}
  BY <1>2, <1>3
<1>4. ASSUME NEW delay \in 1..MaxDelay, workers[w].attempt < MaxAttempts,
             o = <<"backoff", [workers[w] EXCEPT !.state = "backoff", !.due = delay]>>
      PROVE  /\ o[2] \in Worker /\ o[2].retiring = workers[w].retiring
             /\ o[1] = "backoff" /\ o[2].state = "backoff"
             /\ o[2].batch = workers[w].batch /\ o[2].attempt < MaxAttempts
  <2>. DEFINE c == [workers[w] EXCEPT !.state = "backoff", !.due = delay]
  <2>1. /\ c \in Worker /\ c.state = "backoff" /\ c.batch = workers[w].batch
        /\ c.retiring = workers[w].retiring /\ c.attempt = workers[w].attempt
    BY <1>1, WorkerForms DEF Worker
  <2>2. o[1] = "backoff" /\ o[2] = c
    BY <1>4
  <2>. HIDE DEF c
  <2>. QED  BY <1>4, <2>1, <2>2
<1>. QED  BY <1>3, <1>4 DEF Outcomes

LEMMA SoonerIs ==
    ASSUME StaffInv, NEW w \in DOMAIN workers
    PROVE  /\ Sooner(w) \in Worker /\ Sooner(w).retiring = workers[w].retiring
           /\ Sooner(w).state = workers[w].state /\ Sooner(w).batch = workers[w].batch
           /\ Sooner(w).attempt = workers[w].attempt
<1>1. workers[w] \in Worker
  BY WorkersTyped
<1>. QED  BY <1>1, BoundsAssumption DEF Sooner, Worker

\* The workers on their way out leave together, when all rest: those that stay
\* are as they were, and none of those that leave has a batch.
LEMMA StaffLeaves ==
    ASSUME NEW ws \in Seq(Worker), NEW index \in DOMAIN ws,
           NEW n \in Nat \ {0}, n <= Len(ws),
           \A w \in DOMAIN ws : ws[w].retiring <=> w > n
    PROVE  /\ Staff(ws, index)[1] \in Seq(Worker)
           /\ Staff(ws, index)[2] \in DOMAIN Staff(ws, index)[1]
           /\ n <= Len(Staff(ws, index)[1]) /\ Len(Staff(ws, index)[1]) <= Len(ws)
           /\ \A w \in DOMAIN ws :
                  IF w <= Len(Staff(ws, index)[1]) THEN Staff(ws, index)[1][w] = ws[w]
                  ELSE ws[w].state = "idle"
<1>. DEFINE retiring == {w \in DOMAIN ws : ws[w].retiring}
            kept == SubSeq(ws, 1, Len(ws) - Cardinality(retiring))
<1>1. Len(ws) \in Nat /\ DOMAIN ws = 1..Len(ws) /\ \A w \in DOMAIN ws : ws[w] \in Worker
  BY LenProperties
<1>2. CASE retiring = {} \/ \E w \in retiring : ws[w].state # "idle"
  <2>1. Staff(ws, index) = <<ws, index>>
    BY <1>2 DEF Staff
  <2>. QED  BY <1>1, <2>1
<1>3. CASE retiring # {} /\ \A w \in retiring : ws[w].state = "idle"
  <2>1. Staff(ws, index) = <<kept, ((index - 1) % Len(kept)) + 1>>
    BY <1>3 DEF Staff
  <2>2. retiring = (n + 1)..Len(ws)
    BY <1>1
  <2>3. Cardinality(retiring) = Len(ws) - n
    <3>1. Cardinality((n + 1)..Len(ws)) = Len(ws) - n
      BY <1>1, FS_Interval
    <3>. QED  BY <2>2, <3>1
  <2>4. kept = SubSeq(ws, 1, n)
    <3>1. Len(ws) - Cardinality(retiring) = n
      BY <1>1, <2>3
    <3>. QED  BY <3>1
  <2>5. kept \in Seq(Worker) /\ Len(kept) = n /\ \A w \in 1..n : kept[w] = ws[w]
    <3>1. \A w \in 1..n : ws[w] \in Worker
      BY <1>1
    <3>2. /\ SubSeq(ws, 1, n) \in Seq(Worker)
          /\ Len(SubSeq(ws, 1, n)) = IF 1 <= n THEN n - 1 + 1 ELSE 0
          /\ \A w \in 1..(n - 1 + 1) : SubSeq(ws, 1, n)[w] = ws[1 + w - 1]
      BY <3>1, SubSeqProperties
    <3>. HIDE DEF kept
    <3>. QED  BY <2>4, <3>2
  <2>6. ((index - 1) % n) + 1 \in 1..n
    BY <1>1
  <2>7. \A w \in DOMAIN ws : w > n => ws[w].state = "idle"
    BY <1>3
  <2>. HIDE DEF kept
  <2>8. DOMAIN kept = 1..n
    BY <2>5, LenProperties
  <2>. QED  BY <1>1, <2>1, <2>5, <2>6, <2>7, <2>8
<1>. QED  BY <1>2, <1>3

-------------------------------------------------------------------------------
(* What the steps that change workers do to them. *)

\* Of the attempts that are due some are successes, the others failures, and
\* some of the failures are given up.
Completes(good, bad, given) ==
    /\ good \subseteq In("in-flight") /\ bad \subseteq In("in-flight") /\ given \subseteq bad
    /\ good \cap bad = {}
    /\ workers' \in Seq(Worker) /\ DOMAIN workers' = DOMAIN workers
    /\ Len(workers') = Len(workers) /\ next' = next
    /\ \A w \in DOMAIN workers :
           /\ workers'[w].retiring = workers[w].retiring
           /\ w \notin good \cup bad =>
                  /\ workers'[w].state = workers[w].state
                  /\ workers'[w].batch = workers[w].batch
                  /\ workers'[w].attempt = workers[w].attempt
           /\ w \in good \cup given => workers'[w].state = "idle"
           /\ w \in bad \ given =>
                  /\ workers'[w].state = "backoff" /\ workers'[w].attempt < MaxAttempts
                  /\ workers'[w].batch = workers[w].batch
    /\ succeeded' = succeeded + Cardinality(good)
    /\ failed' = failed + Cardinality(bad)
    /\ terminal' = terminal + Cardinality(given)

LEMMA CompleteDoes ==
    ASSUME StaffInv, Complete
    PROVE  \E good, bad, given : Completes(good, bad, given)
<1>. DEFINE due == {w \in Busy : workers[w].state = "in-flight" /\ workers[w].due = 1}
<1>1. PICK outcome \in [due -> UNION {Outcomes(w) : w \in due}] :
          /\ \A w \in due : outcome[w] \in Outcomes(w)
          /\ workers' = [w \in DOMAIN workers |-> IF w \in due THEN outcome[w][2] ELSE Sooner(w)]
          /\ succeeded' = succeeded + Cardinality({w \in due : outcome[w][1] = "succeeded"})
          /\ failed' = failed + Cardinality({w \in due : outcome[w][1] # "succeeded"})
          /\ terminal' = terminal + Cardinality({w \in due : outcome[w][1] = "terminal"})
  BY DEF Complete
<1>. DEFINE good == {w \in due : outcome[w][1] = "succeeded"}
            bad == {w \in due : outcome[w][1] # "succeeded"}
            given == {w \in due : outcome[w][1] = "terminal"}
<1>2. due \subseteq In("in-flight") /\ due \subseteq DOMAIN workers
  BY DEF Busy, In
<1>3. \A w \in due :
          /\ outcome[w][2] \in Worker /\ outcome[w][2].retiring = workers[w].retiring
          /\ \/ outcome[w][1] \in {"succeeded", "terminal"} /\ outcome[w][2].state = "idle"
             \/ /\ outcome[w][1] = "backoff" /\ outcome[w][2].state = "backoff"
                /\ outcome[w][2].batch = workers[w].batch /\ outcome[w][2].attempt < MaxAttempts
  BY <1>1, <1>2, OutcomesAre
<1>. HIDE DEF due
<1>4. \A w \in DOMAIN workers : workers'[w] = IF w \in due THEN outcome[w][2] ELSE Sooner(w)
  BY <1>1
<1>5. workers' \in Seq(Worker) /\ DOMAIN workers' = DOMAIN workers /\ Len(workers') = Len(workers)
  <2>1. \A w \in DOMAIN workers : (IF w \in due THEN outcome[w][2] ELSE Sooner(w)) \in Worker
    BY <1>3, SoonerIs
  <2>2. workers' \in [1..Len(workers) -> Worker] /\ Len(workers) \in Nat
    BY <1>1, <2>1, WorkersTyped
  <2>. QED  BY <2>2, WorkersTyped
<1>6. \A w \in DOMAIN workers :
          /\ workers'[w].retiring = workers[w].retiring
          /\ w \notin due => /\ workers'[w].state = workers[w].state
                             /\ workers'[w].batch = workers[w].batch
                             /\ workers'[w].attempt = workers[w].attempt
  BY <1>3, <1>4, SoonerIs
<1>7. \A w \in due :
          /\ w \in good \cup given => workers'[w].state = "idle"
          /\ w \in bad \ given =>
                 /\ workers'[w].state = "backoff" /\ workers'[w].attempt < MaxAttempts
                 /\ workers'[w].batch = workers[w].batch
  BY <1>2, <1>3, <1>4
<1>8. /\ good \subseteq due /\ bad \subseteq due /\ given \subseteq bad /\ good \cap bad = {}
      /\ good \cup bad = due
  OBVIOUS
<1>9. next' = next
  BY DEF Complete
<1>10. /\ succeeded' = succeeded + Cardinality(good)
       /\ failed' = failed + Cardinality(bad)
       /\ terminal' = terminal + Cardinality(given)
  BY <1>1
<1>. HIDE DEF good, bad, given
<1>11. Completes(good, bad, given)
  BY <1>2, <1>5, <1>6, <1>7, <1>8, <1>9, <1>10 DEF Completes
<1>. QED  BY <1>11

\* The workers whose wait is over try again, and then the ones on their way
\* out may leave.
Retries(due) ==
    /\ due \subseteq In("backoff")
    /\ workers' \in Seq(Worker) /\ next' \in DOMAIN workers'
    /\ config.senders <= Len(workers') /\ Len(workers') <= Len(workers)
    /\ \A w \in DOMAIN workers :
           IF w <= Len(workers')
           THEN /\ workers'[w].retiring = workers[w].retiring
                /\ workers'[w].batch = workers[w].batch
                /\ workers'[w].state = IF w \in due THEN "in-flight" ELSE workers[w].state
                /\ w \notin due => workers'[w].attempt = workers[w].attempt
           ELSE workers[w].state = "idle" /\ w \notin due
    /\ started' = started + Cardinality(due)
    /\ retried' = retried + Cardinality(due)

LEMMA RetryDoes ==
    ASSUME StaffInv, Retry
    PROVE  \E due : Retries(due)
<1>. DEFINE due == {w \in Busy : workers[w].state = "backoff" /\ workers[w].due = 0}
<1>1. PICK delay \in [due -> 1..MaxDelay] :
          LET busy == [w \in DOMAIN workers |->
                          IF w \notin due THEN workers[w]
                          ELSE [workers[w] EXCEPT !.state = "in-flight", !.due = delay[w],
                                                  !.attempt = @ + 1]]
          IN  workers' = Staff(busy, next)[1] /\ next' = Staff(busy, next)[2]
  BY DEF Retry
<1>2. due \subseteq In("backoff") /\ due \subseteq DOMAIN workers
  BY DEF Busy, In
<1>3. started' = started + Cardinality(due) /\ retried' = retried + Cardinality(due)
  BY DEF Retry
<1>. HIDE DEF due
<1>. DEFINE again(w) == [workers[w] EXCEPT !.state = "in-flight", !.due = delay[w],
                                           !.attempt = @ + 1]
            busy == [w \in DOMAIN workers |-> IF w \notin due THEN workers[w] ELSE again(w)]
<1>4. ASSUME NEW w \in due
      PROVE  /\ again(w) \in Worker /\ again(w).state = "in-flight"
             /\ again(w).retiring = workers[w].retiring /\ again(w).batch = workers[w].batch
  <2>1. workers[w] \in Worker /\ workers[w].attempt < MaxAttempts /\ delay[w] \in 1..MaxDelay
    BY <1>2, WorkersTyped DEF StaffInv, In
  <2>. QED  BY <2>1, WorkerForms DEF Worker
<1>. HIDE DEF again
<1>5. /\ workers' = Staff(busy, next)[1] /\ next' = Staff(busy, next)[2]
  BY <1>1 DEF again
<1>6. \A w \in DOMAIN workers : busy[w] = IF w \notin due THEN workers[w] ELSE again(w)
  OBVIOUS
<1>7. busy \in Seq(Worker) /\ DOMAIN busy = DOMAIN workers /\ Len(busy) = Len(workers)
  <2>1. \A w \in DOMAIN workers : (IF w \notin due THEN workers[w] ELSE again(w)) \in Worker
    BY <1>4, WorkersTyped
  <2>2. busy \in [1..Len(workers) -> Worker] /\ Len(workers) \in Nat
    BY <2>1, WorkersTyped
  <2>. QED  BY <2>2, WorkersTyped
<1>. HIDE DEF busy
<1>8. config.senders \in Nat \ {0} /\ config.senders <= Len(busy) /\ next \in DOMAIN busy
      /\ \A w \in DOMAIN busy : busy[w].retiring <=> w > config.senders
  BY <1>4, <1>6, <1>7, SettingsAssumption DEF StaffInv
<1>9. /\ workers' \in Seq(Worker) /\ next' \in DOMAIN workers'
      /\ config.senders <= Len(workers') /\ Len(workers') <= Len(busy)
      /\ \A w \in DOMAIN busy : IF w <= Len(workers') THEN workers'[w] = busy[w]
                                ELSE busy[w].state = "idle"
  BY <1>5, <1>7, <1>8, StaffLeaves
<1>10. \A w \in DOMAIN workers :
           IF w <= Len(workers')
           THEN /\ workers'[w].retiring = workers[w].retiring
                /\ workers'[w].batch = workers[w].batch
                /\ workers'[w].state = IF w \in due THEN "in-flight" ELSE workers[w].state
                /\ w \notin due => workers'[w].attempt = workers[w].attempt
           ELSE workers[w].state = "idle" /\ w \notin due
  BY <1>4, <1>6, <1>7, <1>9
<1>11. Retries(due)
  BY <1>2, <1>3, <1>7, <1>9, <1>10 DEF Retries
<1>. QED  BY <1>11

\* A new number of senders: some come, some are to go, and the ones to go may
\* leave at once.
Restaffs(n) ==
    /\ n \in SenderCounts /\ config' = [config EXCEPT !.senders = n]
    /\ workers' \in Seq(Worker) /\ next' \in DOMAIN workers' /\ n <= Len(workers')
    /\ \A w \in DOMAIN workers' : workers'[w].retiring <=> w > n
    /\ \A w \in DOMAIN workers :
           IF w <= Len(workers')
           THEN /\ workers'[w].batch = workers[w].batch
                /\ workers'[w].state = workers[w].state
                /\ workers'[w].attempt = workers[w].attempt
           ELSE workers[w].state = "idle"
    /\ \A w \in DOMAIN workers' : w \notin DOMAIN workers => workers'[w].state = "idle"

LEMMA SetSendersDoes ==
    ASSUME StaffInv, NEW n \in SenderCounts, SetSenders(n)
    PROVE  Restaffs(n)
<1>. DEFINE size == IF n > Len(workers) THEN n ELSE Len(workers)
            ws == Planned(n)
<1>1. /\ n \in Nat \ {0} /\ Len(workers) \in Nat \ {0} /\ DOMAIN workers = 1..Len(workers)
      /\ \A w \in DOMAIN workers : workers[w] \in Worker
  BY WorkersTyped, SettingsAssumption
<1>2. /\ workers' = Staff(ws, next)[1] /\ next' = Staff(ws, next)[2]
      /\ config' = [config EXCEPT !.senders = n]
  BY DEF SetSenders
<1>3. /\ size \in Nat /\ n <= size /\ Len(workers) <= size
      /\ ws = [w \in 1..size |-> IF w > Len(workers) THEN IdleWorker
                                 ELSE [workers[w] EXCEPT !.retiring = w > n]]
  BY <1>1 DEF Planned
<1>. HIDE DEF ws, size
<1>4. ASSUME NEW w \in 1..size
      PROVE  /\ ws[w] \in Worker /\ (ws[w].retiring <=> w > n)
             /\ IF w > Len(workers) THEN ws[w].state = "idle"
                ELSE /\ ws[w].batch = workers[w].batch
                     /\ ws[w].state = workers[w].state
                     /\ ws[w].attempt = workers[w].attempt
  <2>1. CASE w > Len(workers)
    <3>1. ws[w] = IdleWorker /\ w <= n
      BY <1>1, <1>3, <2>1 DEF size
    <3>2. IdleWorker \in Worker
      BY IdleIsWorker
    <3>. QED  BY <1>1, <2>1, <3>1, <3>2 DEF IdleWorker
  <2>2. CASE w <= Len(workers)
    <3>. DEFINE b == w > n
    <3>1. ws[w] = [workers[w] EXCEPT !.retiring = b] /\ workers[w] \in Worker
      BY <1>1, <1>3, <2>2
    <3>2. b \in BOOLEAN
      OBVIOUS
    <3>. HIDE DEF b
    <3>3. /\ ws[w] \in Worker /\ ws[w].retiring = b
          /\ ws[w].batch = workers[w].batch /\ ws[w].state = workers[w].state
          /\ ws[w].attempt = workers[w].attempt
      BY <3>1, <3>2, PlannedWorker
    <3>4. ws[w].retiring <=> w > n
      BY <3>3, Zenon DEF b
    <3>. QED  BY <1>1, <2>2, <3>3, <3>4
  <2>. QED  BY <1>1, <2>1, <2>2
<1>5. ws \in Seq(Worker) /\ Len(ws) = size /\ DOMAIN ws = 1..size
  <2>1. ws \in [1..size -> Worker]
    <3>1. ws = [w \in 1..size |-> ws[w]]
      BY <1>3
    <3>. QED  BY <1>4, <3>1
  <2>2. ws \in Seq(Worker) /\ DOMAIN ws = 1..size
    <3>1. DOMAIN ws = 1..size
      BY <2>1
    <3>2. ws \in Seq(Worker)
      BY <1>3, <2>1, SeqDef, Zenon
    <3>. QED  BY <3>1, <3>2
  <2>3. Len(ws) \in Nat /\ DOMAIN ws = 1..Len(ws)
    BY <2>2, LenProperties
  <2>4. Len(ws) = size
    BY <1>1, <1>3, <2>2, <2>3
  <2>. QED  BY <2>2, <2>4
<1>6. next \in DOMAIN ws
  BY <1>1, <1>3, <1>5 DEF StaffInv
<1>7. /\ workers' \in Seq(Worker) /\ next' \in DOMAIN workers'
      /\ n <= Len(workers') /\ Len(workers') <= Len(ws)
      /\ \A w \in DOMAIN ws : IF w <= Len(workers') THEN workers'[w] = ws[w]
                              ELSE ws[w].state = "idle"
  <2>1. n <= Len(ws) /\ \A w \in DOMAIN ws : ws[w].retiring <=> w > n
    BY <1>3, <1>4, <1>5
  <2>. QED  BY <1>1, <1>2, <1>5, <1>6, <2>1, StaffLeaves
<1>8. DOMAIN workers' = 1..Len(workers') /\ Len(workers') \in Nat
  BY <1>7, LenProperties
<1>9. \A w \in DOMAIN workers' : w \in 1..size /\ workers'[w] = ws[w]
  BY <1>3, <1>5, <1>7, <1>8
<1>10. \A w \in DOMAIN workers : w \in 1..size /\ w <= Len(workers)
  BY <1>1, <1>3
<1>11. \A w \in DOMAIN workers' : workers'[w].retiring <=> w > n
  BY <1>4, <1>9
<1>12. \A w \in DOMAIN workers :
           IF w <= Len(workers')
           THEN /\ workers'[w].batch = workers[w].batch
                /\ workers'[w].state = workers[w].state
                /\ workers'[w].attempt = workers[w].attempt
           ELSE workers[w].state = "idle"
  BY <1>1, <1>4, <1>5, <1>7, <1>10
<1>13. \A w \in DOMAIN workers' : w \notin DOMAIN workers => workers'[w].state = "idle"
  BY <1>1, <1>4, <1>8, <1>9
<1>. QED  BY <1>2, <1>7, <1>11, <1>12, <1>13 DEF Restaffs

\* The sequence numbers of what waits, in short.
LEMMA LineTyped ==
    ASSUME FlowInv, LineInv
    PROVE  /\ FirstAttempts \in Int /\ started \in Nat /\ retried \in Nat /\ sequence \in Nat
           /\ items["sender"] \in Seq(Nat) /\ items["reader"] \in Seq(Nat)
           /\ Len(items["sender"]) \in Nat /\ Len(items["reader"]) \in Nat
           /\ InHand \in Seq(Nat) /\ Len(InHand) = IF hand = None THEN 0 ELSE 1
<1>1. items["sender"] \in Seq(Nat) /\ items["reader"] \in Seq(Nat)
  BY DEF FlowInv, Channels
<1>2. InHand \in Seq(Nat) /\ Len(InHand) = IF hand = None THEN 0 ELSE 1
  BY DEF FlowInv, InHand
<1>3. FirstAttempts \in Int /\ started \in Nat /\ retried \in Nat /\ sequence \in Nat
  <2>1. started \in Nat /\ retried \in Nat /\ sequence \in Nat
    BY DEF LineInv
  <2>. QED  BY <2>1 DEF FirstAttempts
<1>4. Len(items["sender"]) \in Nat /\ Len(items["reader"]) \in Nat
  BY <1>1, LenProperties
<1>. QED  BY <1>1, <1>2, <1>3, <1>4

\* A worker is given the first batch that has not been attempted, whether it
\* waits in the channel or is handed over.
LEMMA HiresTheFirst ==
    ASSUME FlowInv, LineInv, Drain \/ Flush
    PROVE  \/ UNCHANGED <<workers, next, countVars>>
           \/ Free # {} /\ FirstAttempts \in Nat /\ Hire(FirstAttempts)
<1>1. CASE Drain
  <2>1. Free # {} /\ items["sender"] # <<>> /\ Hire(Head(items["sender"]))
    BY <1>1 DEF Drain, CanDrain
  <2>2. Head(items["sender"]) = FirstAttempts /\ FirstAttempts \in Nat
    <3>1. Len(items["sender"]) > 0 /\ Head(items["sender"]) = items["sender"][1]
          /\ Head(items["sender"]) \in Nat
      BY <2>1, LineTyped, HeadTailProperties, EmptySeq
    <3>2. 1 \in 1..Len(items["sender"]) /\ FirstAttempts \in Int
      BY <3>1, LineTyped
    <3>3. items["sender"][1] = FirstAttempts + 1 - 1
      BY <3>2 DEF LineInv, NumberedFrom
    <3>. QED  BY <3>1, <3>2, <3>3
  <2>. QED  BY <2>1, <2>2
<1>2. CASE Flush /\ capacity["sender"].applied = 0 /\ Hire(hand)
  <2>1. Free # {} /\ hand # None /\ hand \in Nat
    BY <1>2 DEF Flush, CanFlush, FlowInv
  <2>2. Len(items["sender"]) = 0
    <3>1. Depth("sender") <= capacity["sender"].applied
      BY DEF FlowInv, Channels
    <3>. QED  BY <1>2, <3>1, LineTyped DEF Depth
  <2>3. hand = FirstAttempts
    BY <2>1, <2>2, LineTyped DEF LineInv
  <2>. QED  BY <1>2, <2>1, <2>3
<1>. QED  BY <1>1, <1>2 DEF Flush

\* The steps that leave the workers alone.
Elsewhere ==
    \/ Receive \/ ReceiveEnds \/ Produce \/ StepEnds \/ Run \/ Pause \/ SetInstalled
    \/ \E n \in ReaderCounts : SetReaders(n)
    \/ \E rate \in Rates : SetRate(rate)
    \/ \E ch \in Channels, c \in Capacities : SetCapacity(ch, c)
    \/ UNCHANGED vars

LEMMA ElsewhereRests ==
    ASSUME Elsewhere
    PROVE  UNCHANGED <<workers, next, countVars>>
BY DEF Elsewhere, Receive, ReceiveEnds, Produce, StepEnds, Run, Pause, SetInstalled, SetReaders,
       SetRate, SetCapacity, vars, countVars

\* Every step, by what it does to the workers.
LEMMA StepsAre ==
    ASSUME [Next]_vars
    PROVE  \/ Complete \/ Retry \/ Drain \/ Flush \/ Reset
           \/ \E n \in SenderCounts : SetSenders(n)
           \/ Elsewhere
BY DEF Next, Step, Command, Elsewhere

LEMMA StaffKept ==
    ASSUME SimInv, [Next]_vars
    PROVE  StaffInv'
<1>0. StaffInv /\ config.senders \in Nat \ {0} /\ DOMAIN workers = 1..Len(workers)
      /\ config \in [readers : ReaderCounts, senders : SenderCounts, rate : Nat,
                     installed : BOOLEAN]
  BY WorkersTyped, SettingsAssumption DEF SimInv, StaffInv, BucketInv
<1>1. CASE Complete
  <2>1. PICK good, bad, given : Completes(good, bad, given)
    BY <1>0, <1>1, CompleteDoes
  <2>2. config' = config
    BY <1>1 DEF Complete
  <2>3. ASSUME NEW w \in DOMAIN workers
        PROVE  /\ workers'[w].retiring <=> w > config.senders
               /\ workers'[w].state = "backoff" => workers'[w].attempt < MaxAttempts
    BY <1>0, <2>1 DEF Completes, StaffInv
  <2>. QED  BY <1>0, <2>1, <2>2, <2>3 DEF Completes, StaffInv
<1>2. CASE Retry
  <2>1. PICK due : Retries(due)
    BY <1>0, <1>2, RetryDoes
  <2>2. config' = config
    BY <1>2 DEF Retry
  <2>3. workers' \in Seq(Worker) /\ DOMAIN workers' = 1..Len(workers') /\ Len(workers') \in Nat
        /\ Len(workers) \in Nat
    BY <2>1, LenProperties, WorkersTyped, <1>0 DEF Retries
  <2>4. ASSUME NEW w \in DOMAIN workers'
        PROVE  /\ workers'[w].retiring <=> w > config.senders
               /\ workers'[w].state = "backoff" => workers'[w].attempt < MaxAttempts
    <3>1. w \in DOMAIN workers /\ w <= Len(workers')
      BY <1>0, <2>1, <2>3 DEF Retries
    <3>. QED  BY <1>0, <2>1, <3>1 DEF Retries, StaffInv
  <2>. QED  BY <1>0, <2>1, <2>2, <2>4 DEF Retries, StaffInv
<1>3. CASE Drain \/ Flush
  <2>1. config' = config
    BY <1>3 DEF Drain, Flush
  <2>2. CASE UNCHANGED <<workers, next>>
    BY <1>0, <2>1, <2>2 DEF StaffInv
  <2>3. CASE Free # {} /\ FirstAttempts \in Nat /\ Hire(FirstAttempts)
    <3>1. PICK w \in Free :
               /\ workers' \in Seq(Worker) /\ DOMAIN workers' = DOMAIN workers
               /\ Len(workers') = Len(workers) /\ next' \in DOMAIN workers
               /\ workers'[w].state = "in-flight"
               /\ workers'[w].retiring = workers[w].retiring
               /\ \A other \in DOMAIN workers : other # w => workers'[other] = workers[other]
      BY <1>0, <2>3, HireTakes
    <3>. QED  BY <1>0, <2>1, <3>1 DEF StaffInv
  <2>. QED  BY <1>3, <2>2, <2>3, HiresTheFirst DEF SimInv
<1>4. CASE Reset
  <2>1. /\ workers' = [w \in 1..config.senders |-> IdleWorker] /\ next' = 1 /\ config' = config
    BY <1>4 DEF Reset, ResetSimulation
  <2>2. workers' \in Seq(Worker) /\ DOMAIN workers' = 1..config.senders
        /\ Len(workers') = config.senders
    BY <1>0, <2>1, IdleIsWorker
  <2>3. \A w \in DOMAIN workers' : workers'[w] = IdleWorker
    BY <2>1
  <2>. QED  BY <1>0, <2>1, <2>2, <2>3 DEF StaffInv, IdleWorker
<1>5. ASSUME NEW n \in SenderCounts, SetSenders(n)
      PROVE  StaffInv'
  <2>1. Restaffs(n)
    BY <1>0, <1>5, SetSendersDoes
  <2>2. config'.senders = n
    BY <1>0, <2>1 DEF Restaffs
  <2>3. DOMAIN workers' = 1..Len(workers') /\ Len(workers') \in Nat
    BY <2>1, LenProperties DEF Restaffs
  <2>4. \A w \in DOMAIN workers' :
            workers'[w].state = "backoff" => workers'[w].attempt < MaxAttempts
    BY <1>0, <2>1, <2>3 DEF Restaffs, StaffInv
  <2>. QED  BY <2>1, <2>2, <2>4 DEF Restaffs, StaffInv
<1>6. CASE Elsewhere
  <2>1. UNCHANGED <<workers, next>>
    BY <1>6, ElsewhereRests
  <2>2. config'.senders = config.senders
    BY <1>0, <1>6 DEF Elsewhere, Receive, ReceiveEnds, Produce, StepEnds, Run, Pause, SetInstalled,
          SetReaders, SetRate, SetCapacity, vars
  <2>. QED  BY <1>0, <2>1, <2>2 DEF StaffInv
<1>. QED  BY <1>1, <1>2, <1>3, <1>4, <1>5, <1>6, StepsAre

-------------------------------------------------------------------------------
(* What the steps that move batches do to the channels. *)

LEMMA ChannelTyped ==
    ASSUME FlowInv, NEW ch \in Channels
    PROVE  /\ items[ch] \in Seq(Nat) /\ Depth(ch) \in Nat
           /\ capacity[ch].applied \in Nat /\ capacity[ch].pending \in Nat \cup {None}
           /\ traffic[ch].sent \in Nat /\ traffic[ch].received \in Nat
           /\ traffic[ch] \in [sent : Nat, received : Nat]
           /\ capacity[ch] \in [applied : Nat, pending : Nat \cup {None}]
<1>1. items[ch] \in Seq(Nat) /\ traffic[ch] \in [sent : Nat, received : Nat]
      /\ capacity[ch] \in [applied : Nat, pending : Nat \cup {None}]
  BY DEF FlowInv
<1>. QED  BY <1>1, LenProperties DEF Depth

\* A batch is sent where there is room.
LEMMA SentKeeps ==
    ASSUME FlowInv, NEW ch \in Channels, NEW item \in Nat, Accepts(ch), Sent(ch, item),
           capacity' = capacity, hand' \in Nat \cup {None}
    PROVE  /\ FlowInv' /\ items'[ch] = Append(items[ch], item)
           /\ Len(items'[ch]) = Len(items[ch]) + 1
           /\ \A i \in 1..Len(items[ch]) : items'[ch][i] = items[ch][i]
           /\ items'[ch][Len(items[ch]) + 1] = item
           /\ \A other \in Channels : other # ch => items'[other] = items[other]
<1>1. items[ch] \in Seq(Nat) /\ Depth(ch) \in Nat /\ Depth(ch) = Len(items[ch])
      /\ capacity[ch].applied \in Nat /\ Depth(ch) < capacity[ch].applied
      /\ traffic[ch].sent \in Nat /\ traffic[ch].received \in Nat
      /\ traffic[ch] \in [sent : Nat, received : Nat]
  BY ChannelTyped DEF Accepts, Depth
<1>2. Append(items[ch], item) \in Seq(Nat)
      /\ Len(Append(items[ch], item)) = Len(items[ch]) + 1
      /\ \A i \in 1..Len(items[ch]) : Append(items[ch], item)[i] = items[ch][i]
      /\ Append(items[ch], item)[Len(items[ch]) + 1] = item
  BY <1>1, AppendProperties
<1>3. items' = [items EXCEPT ![ch] = Append(items[ch], item)]
      /\ items \in [Channels -> Seq(Nat)]
  BY DEF Sent, FlowInv
<1>4. items' \in [Channels -> Seq(Nat)] /\ items'[ch] = Append(items[ch], item)
      /\ \A other \in Channels : other # ch => items'[other] = items[other]
  BY <1>2, <1>3
<1>. DEFINE t == [traffic[ch] EXCEPT !.sent = @ + 1]
<1>5. t \in [sent : Nat, received : Nat] /\ t.sent = traffic[ch].sent + 1
      /\ t.received = traffic[ch].received
  BY <1>1
<1>6. traffic' = [traffic EXCEPT ![ch] = t] /\ traffic \in [Channels -> [sent : Nat, received : Nat]]
  BY DEF Sent, RecordInput, FlowInv
<1>. HIDE DEF t
<1>7. traffic' \in [Channels -> [sent : Nat, received : Nat]] /\ traffic'[ch] = t
      /\ \A other \in Channels : other # ch => traffic'[other] = traffic[other]
  BY <1>5, <1>6
<1>8. ASSUME NEW other \in Channels
      PROVE  /\ Len(items'[other]) <= capacity[other].applied
             /\ traffic'[other].sent - traffic'[other].received = Len(items'[other])
  <2>1. CASE other = ch
    BY <1>1, <1>2, <1>4, <1>5, <1>7, <2>1 DEF FlowInv
  <2>2. CASE other # ch
    BY <1>4, <1>7, <2>2 DEF FlowInv, Depth
  <2>. QED  BY <2>1, <2>2
<1>9. FlowInv'
  BY <1>4, <1>7, <1>8 DEF FlowInv, Depth
<1>. QED  BY <1>2, <1>4, <1>9

\* A batch that is handed over passes through.
LEMMA HandedKeeps ==
    ASSUME FlowInv, NEW ch \in Channels, HandedOver(ch),
           capacity' = capacity, hand' \in Nat \cup {None}
    PROVE  FlowInv' /\ items' = items
<1>1. traffic[ch].sent \in Nat /\ traffic[ch].received \in Nat
      /\ traffic[ch] \in [sent : Nat, received : Nat]
  BY ChannelTyped
<1>. DEFINE u == [traffic[ch] EXCEPT !.sent = @ + 1]
            t == [u EXCEPT !.received = @ + 1]
<1>2. t \in [sent : Nat, received : Nat] /\ t.sent = traffic[ch].sent + 1
      /\ t.received = traffic[ch].received + 1
  <2>1. u \in [sent : Nat, received : Nat] /\ u.sent = traffic[ch].sent + 1
        /\ u.received = traffic[ch].received
    BY <1>1
  <2>. HIDE DEF u
  <2>. QED  BY <1>1, <2>1
<1>3. traffic' = [traffic EXCEPT ![ch] = t] /\ traffic \in [Channels -> [sent : Nat, received : Nat]]
  BY DEF HandedOver, RecordInput, RecordOutput, FlowInv
<1>. HIDE DEF u, t
<1>4. traffic' \in [Channels -> [sent : Nat, received : Nat]] /\ traffic'[ch] = t
      /\ \A other \in Channels : other # ch => traffic'[other] = traffic[other]
  BY <1>2, <1>3
<1>5. items' = items
  BY DEF HandedOver
<1>6. \A other \in Channels :
          traffic'[other].sent - traffic'[other].received
              = traffic[other].sent - traffic[other].received
  BY <1>1, <1>2, <1>4
<1>. QED  BY <1>4, <1>5, <1>6 DEF FlowInv, Depth

\* The head leaves; a capacity that has waited for room fits when it applies.
LEMMA ShiftKeeps ==
    ASSUME FlowInv, NEW ch \in Channels, items[ch] # <<>>, Shift(ch),
           hand' \in Nat \cup {None}
    PROVE  /\ FlowInv' /\ Len(items[ch]) > 0 /\ Head(items[ch]) = items[ch][1]
           /\ Head(items[ch]) \in Nat
           /\ Len(items'[ch]) = Len(items[ch]) - 1
           /\ \A i \in 1..(Len(items[ch]) - 1) : items'[ch][i] = items[ch][i + 1]
           /\ \A other \in Channels : other # ch => items'[other] = items[other]
<1>1. items[ch] \in Seq(Nat) /\ Depth(ch) \in Nat /\ Depth(ch) = Len(items[ch])
      /\ capacity[ch] \in [applied : Nat, pending : Nat \cup {None}]
      /\ traffic[ch].sent \in Nat /\ traffic[ch].received \in Nat
      /\ traffic[ch] \in [sent : Nat, received : Nat]
  BY ChannelTyped DEF Depth
<1>2. Tail(items[ch]) \in Seq(Nat) /\ Len(items[ch]) > 0
      /\ Len(Tail(items[ch])) = Len(items[ch]) - 1
      /\ Head(items[ch]) = items[ch][1] /\ Head(items[ch]) \in Nat
      /\ \A i \in 1..(Len(items[ch]) - 1) : Tail(items[ch])[i] = items[ch][i + 1]
  BY <1>1, HeadTailProperties, EmptySeq
<1>3. items' = [items EXCEPT ![ch] = Tail(items[ch])] /\ items \in [Channels -> Seq(Nat)]
  BY DEF Shift, FlowInv
<1>4. items' \in [Channels -> Seq(Nat)] /\ items'[ch] = Tail(items[ch])
      /\ \A other \in Channels : other # ch => items'[other] = items[other]
  BY <1>2, <1>3
<1>. DEFINE t == [traffic[ch] EXCEPT !.received = @ + 1]
            c == PendingApplied(capacity[ch], Depth(ch) - 1)
<1>5. t \in [sent : Nat, received : Nat] /\ t.sent = traffic[ch].sent
      /\ t.received = traffic[ch].received + 1
  BY <1>1
<1>6. traffic' = [traffic EXCEPT ![ch] = t] /\ traffic \in [Channels -> [sent : Nat, received : Nat]]
  BY DEF Shift, RecordOutput, FlowInv
<1>7. c \in [applied : Nat, pending : Nat \cup {None}] /\ Depth(ch) - 1 <= c.applied
  <2>1. Depth(ch) <= capacity[ch].applied /\ capacity[ch].applied \in Nat
    BY <1>1 DEF FlowInv
  <2>2. CASE capacity[ch].pending # None /\ Depth(ch) - 1 <= capacity[ch].pending
    BY <1>1, <2>2 DEF PendingApplied
  <2>3. CASE ~(capacity[ch].pending # None /\ Depth(ch) - 1 <= capacity[ch].pending)
    BY <1>1, <2>1, <2>3 DEF PendingApplied
  <2>. QED  BY <2>2, <2>3
<1>8. capacity' = [capacity EXCEPT ![ch] = c]
      /\ capacity \in [Channels -> [applied : Nat, pending : Nat \cup {None}]]
  BY DEF Shift, FlowInv
<1>. HIDE DEF t, c
<1>9. traffic' \in [Channels -> [sent : Nat, received : Nat]] /\ traffic'[ch] = t
      /\ \A other \in Channels : other # ch => traffic'[other] = traffic[other]
  BY <1>5, <1>6
<1>10. capacity' \in [Channels -> [applied : Nat, pending : Nat \cup {None}]]
       /\ capacity'[ch] = c
       /\ \A other \in Channels : other # ch => capacity'[other] = capacity[other]
  BY <1>7, <1>8
<1>11. ASSUME NEW other \in Channels
       PROVE  /\ Len(items'[other]) <= capacity'[other].applied
              /\ traffic'[other].sent - traffic'[other].received = Len(items'[other])
  <2>1. CASE other = ch
    BY <1>1, <1>2, <1>4, <1>5, <1>7, <1>9, <1>10, <2>1 DEF FlowInv
  <2>2. CASE other # ch
    BY <1>4, <1>9, <1>10, <2>2 DEF FlowInv, Depth
  <2>. QED  BY <2>1, <2>2
<1>12. FlowInv'
  BY <1>4, <1>9, <1>10, <1>11 DEF FlowInv, Depth
<1>. QED  BY <1>2, <1>4, <1>12

\* A reset empties the channels and lets a waiting capacity in.
LEMMA ResetKeeps ==
    ASSUME FlowInv, ResetRuntime, hand' \in Nat \cup {None}
    PROVE  FlowInv' /\ \A ch \in Channels : items'[ch] = <<>>
<1>1. items' = [ch \in Channels |-> <<>>]
      /\ traffic' = [ch \in Channels |-> [sent |-> 0, received |-> 0]]
      /\ capacity' = [ch \in Channels |-> PendingApplied(capacity[ch], 0)]
  BY DEF ResetRuntime
<1>2. ASSUME NEW ch \in Channels
      PROVE  /\ PendingApplied(capacity[ch], 0) \in [applied : Nat, pending : Nat \cup {None}]
             /\ Len(items'[ch]) = 0 /\ traffic'[ch].sent - traffic'[ch].received = 0
             /\ items'[ch] = <<>> /\ capacity'[ch].applied \in Nat
  <2>1. capacity[ch] \in [applied : Nat, pending : Nat \cup {None}]
    BY ChannelTyped
  <2>2. PendingApplied(capacity[ch], 0) \in [applied : Nat, pending : Nat \cup {None}]
    BY <2>1 DEF PendingApplied
  <2>. QED  BY <1>1, <2>2
<1>3. items' \in [Channels -> Seq(Nat)]
      /\ traffic' \in [Channels -> [sent : Nat, received : Nat]]
      /\ capacity' \in [Channels -> [applied : Nat, pending : Nat \cup {None}]]
  BY <1>1, <1>2
<1>. QED  BY <1>2, <1>3 DEF FlowInv, Depth

\* A capacity below the depth waits.
LEMMA CapacityKeeps ==
    ASSUME FlowInv, NEW ch \in Channels, NEW c \in Capacities, SetCapacity(ch, c)
    PROVE  FlowInv' /\ UNCHANGED <<items, hand>>
<1>1. /\ capacity' = [capacity EXCEPT ![ch] = Requested(ch, c)]
      /\ items' = items /\ hand' = hand /\ traffic' = traffic
      /\ c \in Nat
  BY SettingsAssumption DEF SetCapacity
<1>2. /\ Depth(ch) \in Nat /\ capacity[ch] \in [applied : Nat, pending : Nat \cup {None}]
      /\ Depth(ch) <= capacity[ch].applied
  BY ChannelTyped DEF FlowInv
<1>3. Requested(ch, c) \in [applied : Nat, pending : Nat \cup {None}]
      /\ Depth(ch) <= Requested(ch, c).applied
  BY <1>1, <1>2 DEF Requested, None
<1>4. capacity' \in [Channels -> [applied : Nat, pending : Nat \cup {None}]]
      /\ capacity'[ch] = Requested(ch, c)
      /\ \A other \in Channels : other # ch => capacity'[other] = capacity[other]
  BY <1>1, <1>3 DEF FlowInv
<1>5. \A other \in Channels : Depth(other) <= capacity'[other].applied
  BY <1>3, <1>4 DEF FlowInv
<1>. QED  BY <1>1, <1>4, <1>5 DEF FlowInv, Depth

-------------------------------------------------------------------------------
(* The line of batches, step by step. *)

LEMMA InFinite ==
    ASSUME StaffInv, NEW state
    PROVE  IsFiniteSet(In(state)) /\ Cardinality(In(state)) \in Nat
<1>1. In(state) \in SUBSET (1..Len(workers)) /\ IsFiniteSet(1..Len(workers))
  BY WorkersTyped, FS_Interval DEF In
<1>. QED  BY <1>1, FS_Subset, FS_CardinalityType

LEMMA PartFinite ==
    ASSUME StaffInv, NEW state, NEW part, part \subseteq In(state)
    PROVE  IsFiniteSet(part) /\ Cardinality(part) \in Nat
BY InFinite, FS_Subset, FS_CardinalityType

LEMMA NumberedAppend ==
    ASSUME NEW s, NEW t, NEW first \in Int, Len(s) \in Nat, Len(t) = Len(s) + 1,
           \A i \in 1..Len(s) : t[i] = s[i], t[Len(s) + 1] = first + Len(s),
           NumberedFrom(s, first)
    PROVE  NumberedFrom(t, first)
BY DEF NumberedFrom

LEMMA NumberedTail ==
    ASSUME NEW s, NEW t, NEW first \in Int, Len(s) \in Nat, Len(t) = Len(s) - 1,
           \A i \in 1..(Len(s) - 1) : t[i] = s[i + 1], NumberedFrom(s, first)
    PROVE  NumberedFrom(t, first + 1)
<1>1. ASSUME NEW i \in 1..Len(t)
      PROVE  t[i] = (first + 1) + i - 1
  <2>1. i \in 1..(Len(s) - 1) /\ i + 1 \in 1..Len(s)
    OBVIOUS
  <2>2. t[i] = s[i + 1] /\ s[i + 1] = first + (i + 1) - 1
    BY <2>1 DEF NumberedFrom
  <2>. QED  BY <2>1, <2>2
<1>. QED  BY <1>1 DEF NumberedFrom

\* What leaves one place and comes to the next leaves the sum as it was.
LEMMA OneLess ==
    ASSUME NEW a \in Int, NEW m \in Nat, NEW less, less = m - 1
    PROVE  a + 1 + less = a + m
OBVIOUS

LEMMA OneMore ==
    ASSUME NEW a \in Int, NEW m \in Nat
    PROVE  (a + 1) + m + 0 = a + m + 1
OBVIOUS

LEMMA DrainKeepsLine ==
    ASSUME StaffInv, FlowInv, LineInv, Drain
    PROVE  FlowInv' /\ LineInv'
<1>a. items["sender"] \in Seq(Nat) /\ items["reader"] \in Seq(Nat)
  BY LineTyped
<1>0. /\ FirstAttempts \in Int /\ started \in Nat /\ retried \in Nat /\ sequence \in Nat
      /\ Len(items["sender"]) \in Nat /\ Len(items["reader"]) \in Nat /\ Len(InHand) \in Nat
  BY LineTyped
<1>1. items["sender"] # <<>> /\ Free # {} /\ Hire(Head(items["sender"])) /\ Shift("sender")
      /\ hand' = hand /\ hand \in Nat \cup {None} /\ sequence' = sequence
  BY DEF Drain, CanDrain, FlowInv
<1>2. /\ FlowInv' /\ Len(items["sender"]) > 0
      /\ Len(items'["sender"]) = Len(items["sender"]) - 1
      /\ \A i \in 1..(Len(items["sender"]) - 1) : items'["sender"][i] = items["sender"][i + 1]
      /\ items'["reader"] = items["reader"]
  BY <1>1, ShiftKeeps DEF Channels
<1>3. started' = started + 1 /\ retried' = retried
  BY <1>1 DEF Hire
<1>4. FirstAttempts' = FirstAttempts + 1 /\ InHand' = InHand /\ Len(InHand) \in Nat
  BY <1>1, <1>3, <1>0 DEF FirstAttempts, InHand
<1>5. NumberedFrom(items'["sender"], FirstAttempts + 1)
  BY <1>0, <1>2, NumberedTail DEF LineInv
<1>6. FirstAttempts + 1 + Len(items'["sender"]) = FirstAttempts + Len(items["sender"])
  <2>1. Len(items'["sender"]) = Len(items["sender"]) - 1
    BY <1>2
  <2>. QED  BY <2>1, <1>0, OneLess, Zenon
<1>7. sequence' \in Nat /\ started' \in Nat /\ retried' \in Nat
  BY <1>1, <1>3, <1>0
<1>8. /\ hand' # None => hand' = FirstAttempts' + Len(items'["sender"])
      /\ NumberedFrom(items'["reader"], FirstAttempts' + Len(items'["sender"]) + Len(InHand'))
      /\ sequence' = FirstAttempts' + Len(items'["sender"]) + Len(InHand') + Len(items'["reader"])
  BY <1>1, <1>2, <1>4, <1>6 DEF LineInv
<1>9. LineInv'
  BY <1>4, <1>5, <1>7, <1>8 DEF LineInv
<1>. QED  BY <1>2, <1>9

LEMMA FlushKeepsLine ==
    ASSUME StaffInv, FlowInv, LineInv, Flush
    PROVE  FlowInv' /\ LineInv'
<1>a. items["sender"] \in Seq(Nat) /\ items["reader"] \in Seq(Nat)
  BY LineTyped
<1>0. /\ FirstAttempts \in Int /\ started \in Nat /\ retried \in Nat /\ sequence \in Nat
      /\ Len(items["sender"]) \in Nat /\ Len(items["reader"]) \in Nat /\ Len(InHand) \in Nat
  BY LineTyped
<1>1. hand # None /\ hand \in Nat /\ hand' = None /\ sequence' = sequence /\ capacity' = capacity
      /\ hand' \in Nat \cup {None} /\ Len(InHand) = 1 /\ InHand' = <<>>
  BY DEF Flush, CanFlush, FlowInv, InHand
<1>2. hand = FirstAttempts + Len(items["sender"])
  BY <1>1 DEF LineInv
<1>3. CASE capacity["sender"].applied = 0 /\ Hire(hand) /\ HandedOver("sender")
  <2>1. FlowInv' /\ items' = items
    BY <1>1, <1>3, HandedKeeps DEF Channels
  <2>2. Len(items["sender"]) = 0
    <3>1. Depth("sender") <= capacity["sender"].applied
      BY DEF FlowInv, Channels
    <3>. QED  BY <1>3, <3>1, <1>0 DEF Depth
  <2>3. started' = started + 1 /\ retried' = retried
    BY <1>3 DEF Hire
  <2>4. FirstAttempts' = FirstAttempts + 1
    BY <2>3, <1>0 DEF FirstAttempts
  <2>5. NumberedFrom(items["sender"], FirstAttempts + 1)
    BY <2>2 DEF NumberedFrom
  <2>6. sequence' \in Nat /\ started' \in Nat /\ retried' \in Nat
    BY <1>1, <2>3, <1>0
  <2>7. /\ Len(InHand') = 0
        /\ FirstAttempts' + Len(items'["sender"]) + Len(InHand')
               = FirstAttempts + Len(items["sender"]) + Len(InHand)
    <3>1. Len(InHand') = 0 /\ Len(InHand) = 1
      BY <1>1
    <3>2. FirstAttempts' + Len(items'["sender"]) = (FirstAttempts + 1) + Len(items["sender"])
      BY <2>1, <2>4, Zenon
    <3>3. (FirstAttempts + 1) + Len(items["sender"]) + 0
              = FirstAttempts + Len(items["sender"]) + 1
      BY <1>0, OneMore, Zenon
    <3>. QED  BY <3>1, <3>2, <3>3, Zenon
  <2>8. LineInv'
    BY <1>1, <2>1, <2>4, <2>5, <2>6, <2>7 DEF LineInv
  <2>. QED  BY <2>1, <2>8
<1>4. CASE capacity["sender"].applied # 0 /\ Sent("sender", hand) /\ UNCHANGED countVars
  <2>1. Accepts("sender")
    BY <1>4 DEF Flush, CanFlush
  <2>2. /\ FlowInv' /\ Len(items'["sender"]) = Len(items["sender"]) + 1
        /\ \A i \in 1..Len(items["sender"]) : items'["sender"][i] = items["sender"][i]
        /\ items'["sender"][Len(items["sender"]) + 1] = hand
        /\ items'["reader"] = items["reader"]
    BY <1>1, <1>4, <2>1, SentKeeps DEF Channels
  <2>3. FirstAttempts' = FirstAttempts /\ sequence' \in Nat /\ started' \in Nat /\ retried' \in Nat
    BY <1>1, <1>4, <1>0 DEF FirstAttempts, countVars
  <2>4. NumberedFrom(items'["sender"], FirstAttempts)
    BY <1>0, <1>2, <2>2, NumberedAppend DEF LineInv
  <2>5. /\ Len(InHand') = 0
        /\ FirstAttempts + Len(items'["sender"]) + Len(InHand')
               = FirstAttempts + Len(items["sender"]) + Len(InHand)
    BY <1>1, <2>2, <1>0
  <2>6. LineInv'
    BY <1>1, <2>2, <2>3, <2>4, <2>5 DEF LineInv
  <2>. QED  BY <2>2, <2>6
<1>. QED  BY <1>3, <1>4 DEF Flush

LEMMA ReceiveKeepsLine ==
    ASSUME StaffInv, FlowInv, LineInv, Receive
    PROVE  FlowInv' /\ LineInv'
<1>a. items["sender"] \in Seq(Nat) /\ items["reader"] \in Seq(Nat)
  BY LineTyped
<1>0. /\ FirstAttempts \in Int /\ started \in Nat /\ retried \in Nat /\ sequence \in Nat
      /\ Len(items["sender"]) \in Nat /\ Len(items["reader"]) \in Nat /\ Len(InHand) \in Nat
  BY LineTyped
<1>1. hand = None /\ items["reader"] # <<>> /\ Shift("reader") /\ sequence' = sequence
      /\ hand' = Head(items["reader"]) /\ UNCHANGED countVars
  BY DEF Receive, CanReceive
<1>2. hand' \in Nat /\ Head(items["reader"]) = items["reader"][1] /\ Len(items["reader"]) > 0
  <2>1. items["reader"] \in Seq(Nat) /\ items["reader"] # <<>> /\ hand' = Head(items["reader"])
    BY <1>1, <1>a
  <2>2. Len(items["reader"]) > 0
    BY <2>1, <1>0, EmptySeq
  <2>. QED  BY <2>1, <2>2, HeadTailProperties
<1>3. /\ FlowInv'
      /\ Len(items'["reader"]) = Len(items["reader"]) - 1
      /\ \A i \in 1..(Len(items["reader"]) - 1) : items'["reader"][i] = items["reader"][i + 1]
      /\ items'["sender"] = items["sender"]
  BY <1>1, <1>2, ShiftKeeps DEF Channels
<1>4. FirstAttempts' = FirstAttempts /\ sequence' \in Nat /\ started' \in Nat /\ retried' \in Nat
  BY <1>1, <1>0 DEF FirstAttempts, countVars
<1>5. Len(InHand) = 0 /\ Len(InHand') = 1
  BY <1>1, <1>2 DEF InHand, None
<1>6. hand' = FirstAttempts + Len(items["sender"])
  BY <1>1, <1>2, <1>5, <1>0 DEF LineInv, NumberedFrom
<1>7. NumberedFrom(items'["reader"], FirstAttempts + Len(items["sender"]) + 1)
  <2>1. NumberedFrom(items["reader"], FirstAttempts + Len(items["sender"]))
    BY <1>0, <1>5 DEF LineInv
  <2>. QED  BY <1>0, <1>3, <2>1, NumberedTail
<1>8. sequence' = FirstAttempts + Len(items["sender"]) + 1 + Len(items'["reader"])
  <2>1. /\ sequence = FirstAttempts + Len(items["sender"]) + Len(InHand) + Len(items["reader"])
        /\ Len(InHand) = 0 /\ sequence' = sequence
        /\ Len(items'["reader"]) = Len(items["reader"]) - 1
    BY <1>1, <1>3, <1>5 DEF LineInv
  <2>2. FirstAttempts + Len(items["sender"]) + 0 + Len(items["reader"])
            = FirstAttempts + Len(items["sender"]) + 1 + Len(items'["reader"])
    <3>. DEFINE a == FirstAttempts
                m == Len(items["sender"])
                k == Len(items["reader"])
                less == Len(items'["reader"])
    <3>1. a \in Int /\ m \in Nat /\ k \in Nat /\ less = k - 1
      BY <2>1, <1>0
    <3>. HIDE DEF a, m, k, less
    <3>2. a + m + 0 + k = a + m + 1 + less
      BY <3>1
    <3>. QED  BY <3>2 DEF a, m, k, less
  <2>. QED  BY <2>1, <2>2, Zenon
<1>9. LineInv'
  BY <1>3, <1>4, <1>5, <1>6, <1>7, <1>8 DEF LineInv
<1>. QED  BY <1>3, <1>9

LEMMA ProduceKeepsLine ==
    ASSUME StaffInv, FlowInv, LineInv, Produce
    PROVE  FlowInv' /\ LineInv'
<1>a. items["sender"] \in Seq(Nat) /\ items["reader"] \in Seq(Nat)
  BY LineTyped
<1>0. /\ FirstAttempts \in Int /\ started \in Nat /\ retried \in Nat /\ sequence \in Nat
      /\ Len(items["sender"]) \in Nat /\ Len(items["reader"]) \in Nat /\ Len(InHand) \in Nat
  BY LineTyped
<1>1. sequence' = sequence + 1 /\ capacity' = capacity /\ UNCHANGED countVars
      /\ sequence \in Nat
  BY <1>0 DEF Produce
<1>2. FirstAttempts' = FirstAttempts /\ sequence' \in Nat /\ started' \in Nat /\ retried' \in Nat
  BY <1>1, <1>0 DEF FirstAttempts, countVars
<1>3. CASE CanHandOver /\ hand' = sequence /\ HandedOver("reader")
  <2>1. FlowInv' /\ items' = items
    BY <1>1, <1>3, HandedKeeps DEF Channels
  <2>2. hand = None /\ Len(items["reader"]) = 0
    <3>1. Depth("reader") <= capacity["reader"].applied
      BY DEF FlowInv, Channels
    <3>. QED  BY <1>3, <3>1, <1>0 DEF Depth, CanHandOver
  <2>3. Len(InHand) = 0 /\ Len(InHand') = 1
    BY <1>1, <1>3, <2>2 DEF InHand, None
  <2>4. hand' = FirstAttempts + Len(items["sender"])
    BY <1>3, <2>2, <2>3, <1>0 DEF LineInv
  <2>5. NumberedFrom(items["reader"], FirstAttempts + Len(items["sender"]) + 1)
    BY <2>2 DEF NumberedFrom
  <2>6. sequence' = FirstAttempts + Len(items["sender"]) + 1 + Len(items["reader"])
    BY <1>1, <1>3, <2>2, <2>4, <1>0
  <2>7. LineInv'
    BY <1>2, <2>1, <2>3, <2>4, <2>5, <2>6 DEF LineInv
  <2>. QED  BY <2>1, <2>7
<1>4. CASE Accepts("reader") /\ Sent("reader", sequence) /\ hand' = hand
  <2>1. /\ FlowInv' /\ Len(items'["reader"]) = Len(items["reader"]) + 1
        /\ \A i \in 1..Len(items["reader"]) : items'["reader"][i] = items["reader"][i]
        /\ items'["reader"][Len(items["reader"]) + 1] = sequence
        /\ items'["sender"] = items["sender"]
    BY <1>1, <1>4, SentKeeps DEF Channels, FlowInv
  <2>2. InHand' = InHand /\ Len(InHand) \in Nat
    BY <1>4, <1>0 DEF InHand
  <2>3. NumberedFrom(items'["reader"], FirstAttempts + Len(items["sender"]) + Len(InHand))
    <3>. DEFINE first == FirstAttempts + Len(items["sender"]) + Len(InHand)
    <3>1. first \in Int /\ NumberedFrom(items["reader"], first)
          /\ sequence = first + Len(items["reader"])
      BY <1>0 DEF LineInv
    <3>. HIDE DEF first
    <3>2. NumberedFrom(items'["reader"], first)
      BY <1>0, <2>1, <3>1, NumberedAppend
    <3>. QED  BY <3>2 DEF first
  <2>4. sequence' = FirstAttempts + Len(items["sender"]) + Len(InHand) + Len(items'["reader"])
    <3>. DEFINE b == FirstAttempts + Len(items["sender"]) + Len(InHand)
    <3>1. b \in Int /\ sequence = b + Len(items["reader"])
      BY <1>0 DEF LineInv
    <3>2. sequence' = sequence + 1 /\ Len(items'["reader"]) = Len(items["reader"]) + 1
      BY <1>1, <2>1
    <3>. HIDE DEF b
    <3>3. sequence' = b + (Len(items["reader"]) + 1)
      BY <1>0, <3>1, <3>2
    <3>4. sequence' = b + Len(items'["reader"])
      BY <3>2, <3>3
    <3>. QED  BY <3>4 DEF b
  <2>5. LineInv'
    BY <1>2, <1>4, <2>1, <2>2, <2>3, <2>4 DEF LineInv
  <2>. QED  BY <2>1, <2>5
<1>. QED  BY <1>3, <1>4 DEF Produce

LEMMA ResetKeepsLine ==
    ASSUME FlowInv, Reset
    PROVE  FlowInv' /\ LineInv'
<1>1. ResetRuntime /\ hand' = None /\ sequence' = 0 /\ started' = 0 /\ retried' = 0
  BY DEF Reset, ResetSimulation
<1>2. FlowInv' /\ items'["sender"] = <<>> /\ items'["reader"] = <<>>
  BY <1>1, ResetKeeps DEF Channels
<1>3. FirstAttempts' = 0 /\ InHand' = <<>>
  BY <1>1 DEF FirstAttempts, InHand
<1>. QED  BY <1>1, <1>2, <1>3 DEF LineInv, NumberedFrom

\* The other steps leave the batches where they are.
LEMMA RestKeepsLine ==
    ASSUME FlowInv, LineInv, UNCHANGED <<items, hand, sequence>>,
           FirstAttempts' = FirstAttempts, started' \in Nat /\ retried' \in Nat
    PROVE  LineInv'
<1>1. InHand' = InHand
  BY DEF InHand
<1>. QED  BY <1>1 DEF LineInv

LEMMA LineKept ==
    ASSUME SimInv, [Next]_vars
    PROVE  FlowInv' /\ LineInv'
<1>0. StaffInv /\ FlowInv /\ LineInv
  BY DEF SimInv
<1>1. CASE Drain \/ Flush \/ Receive \/ Produce \/ Reset
  BY <1>0, <1>1, DrainKeepsLine, FlushKeepsLine, ReceiveKeepsLine, ProduceKeepsLine,
     ResetKeepsLine
<1>2. CASE Retry
  <2>1. PICK due : due \subseteq In("backoff") /\ started' = started + Cardinality(due)
                   /\ retried' = retried + Cardinality(due)
    BY <1>0, <1>2, RetryDoes DEF Retries
  <2>2. Cardinality(due) \in Nat
    BY <1>0, <2>1, PartFinite
  <2>3. FirstAttempts' = FirstAttempts /\ started' \in Nat /\ retried' \in Nat
    BY <1>0, <2>1, <2>2 DEF FirstAttempts, LineInv
  <2>4. UNCHANGED <<flowVars, sequence>>
    BY <1>2 DEF Retry
  <2>. QED  BY <1>0, <2>3, <2>4, RestKeepsLine DEF flowVars, FlowInv, Depth
<1>3. ASSUME NEW ch \in Channels, NEW c \in Capacities, SetCapacity(ch, c)
      PROVE  FlowInv' /\ LineInv'
  <2>1. FlowInv' /\ UNCHANGED <<items, hand>>
    BY <1>0, <1>3, CapacityKeeps
  <2>2. UNCHANGED <<sequence, started, retried>>
    BY <1>3 DEF SetCapacity, countVars
  <2>3. FirstAttempts' = FirstAttempts /\ started' \in Nat /\ retried' \in Nat
    BY <1>0, <2>2 DEF FirstAttempts, LineInv
  <2>. QED  BY <1>0, <2>1, <2>2, <2>3, RestKeepsLine
<1>4. CASE \/ Complete \/ ReceiveEnds \/ StepEnds \/ Run \/ Pause \/ SetInstalled \/ UNCHANGED vars
           \/ \E n \in SenderCounts : SetSenders(n)
           \/ \E n \in ReaderCounts : SetReaders(n)
           \/ \E rate \in Rates : SetRate(rate)
  <2>1. UNCHANGED <<flowVars, sequence, started, retried>>
    BY <1>4 DEF Complete, ReceiveEnds, StepEnds, Run, Pause, SetInstalled, SetSenders, SetReaders,
                SetRate, vars, countVars
  <2>2. FirstAttempts' = FirstAttempts /\ started' \in Nat /\ retried' \in Nat
    BY <1>0, <2>1 DEF FirstAttempts, LineInv
  <2>. QED  BY <1>0, <2>1, <2>2, RestKeepsLine DEF flowVars, FlowInv, Depth
<1>. QED  BY <1>1, <1>2, <1>3, <1>4 DEF Next, Step, Command

-------------------------------------------------------------------------------
(* Where the attempted batches are. *)

\* Busy workers keep their batches and none comes to be busy.
LEMMA BatchesStay ==
    ASSUME BatchInv, FirstAttempts' = FirstAttempts,
           \A w \in Busy' : w \in Busy /\ workers'[w].batch = workers[w].batch
    PROVE  BatchInv'
BY DEF BatchInv

LEMMA BatchKept ==
    ASSUME SimInv, [Next]_vars
    PROVE  BatchInv'
<1>0. /\ StaffInv /\ FlowInv /\ LineInv /\ BatchInv
      /\ DOMAIN workers = 1..Len(workers) /\ Len(workers) \in Nat
  BY WorkersTyped DEF SimInv
<1>1. CASE Complete
  <2>1. PICK good, bad, given : Completes(good, bad, given)
    BY <1>0, <1>1, CompleteDoes
  <2>2. FirstAttempts' = FirstAttempts
    BY <1>1 DEF Complete, FirstAttempts
  <2>3. ASSUME NEW w \in Busy'
        PROVE  w \in Busy /\ workers'[w].batch = workers[w].batch
    <3>1. w \in DOMAIN workers /\ workers'[w].state # "idle"
      BY <2>1 DEF Completes, Busy, Idle
    <3>2. CASE w \notin good \cup bad
      BY <2>1, <3>1, <3>2 DEF Completes, Busy, Idle
    <3>3. CASE w \in bad \ given
      BY <2>1, <3>1, <3>3 DEF Completes, Busy, Idle, In
    <3>. QED  BY <2>1, <3>1, <3>2, <3>3 DEF Completes
  <2>. QED  BY <1>0, <2>2, <2>3, BatchesStay
<1>2. CASE Retry
  <2>1. PICK due : Retries(due)
    BY <1>0, <1>2, RetryDoes
  <2>2. FirstAttempts' = FirstAttempts
    <3>1. Cardinality(due) \in Nat /\ started \in Nat /\ retried \in Nat
      BY <1>0, <2>1, PartFinite DEF Retries, LineInv
    <3>. QED  BY <2>1, <3>1 DEF Retries, FirstAttempts
  <2>3. ASSUME NEW w \in Busy'
        PROVE  w \in Busy /\ workers'[w].batch = workers[w].batch
    <3>1. DOMAIN workers' = 1..Len(workers') /\ Len(workers') \in Nat
          /\ Len(workers') <= Len(workers)
      BY <2>1, LenProperties DEF Retries
    <3>2. w \in DOMAIN workers /\ w <= Len(workers') /\ workers'[w].state # "idle"
      BY <1>0, <3>1 DEF Busy, Idle
    <3>3. CASE w \in due
      BY <2>1, <3>2, <3>3 DEF Retries, Busy, Idle, In
    <3>4. CASE w \notin due
      BY <2>1, <3>2, <3>4 DEF Retries, Busy, Idle
    <3>. QED  BY <3>3, <3>4
  <2>. QED  BY <1>0, <2>2, <2>3, BatchesStay
<1>3. CASE Drain \/ Flush
  <2>1. CASE UNCHANGED <<workers, next, countVars>>
    <3>1. FirstAttempts' = FirstAttempts /\ Busy' = Busy /\ workers' = workers
      BY <2>1 DEF FirstAttempts, countVars, Busy, Idle
    <3>. QED  BY <1>0, <3>1, BatchesStay
  <2>2. CASE Free # {} /\ FirstAttempts \in Nat /\ Hire(FirstAttempts)
    <3>1. PICK w \in Free :
               /\ DOMAIN workers' = DOMAIN workers /\ workers'[w].batch = FirstAttempts
               /\ \A other \in DOMAIN workers : other # w => workers'[other] = workers[other]
      BY <1>0, <2>2, HireTakes
    <3>2. FirstAttempts' = FirstAttempts + 1
      <4>1. started' = started + 1 /\ retried' = retried /\ started \in Nat /\ retried \in Nat
        BY <1>0, <2>2 DEF Hire, LineInv
      <4>. QED  BY <4>1 DEF FirstAttempts
    <3>3. ASSUME NEW v \in Busy', v # w
          PROVE  v \in Busy /\ workers'[v].batch = workers[v].batch
      BY <3>1, <3>3 DEF Busy, Idle
    <3>4. ASSUME NEW v \in Busy PROVE workers[v].batch \in 0..(FirstAttempts - 1)
      BY <1>0 DEF BatchInv
    <3>5. ASSUME NEW v \in Busy' PROVE workers'[v].batch \in 0..((FirstAttempts + 1) - 1)
      <4>1. CASE v = w
        BY <2>2, <3>1, <4>1
      <4>2. CASE v # w
        BY <2>2, <3>3, <3>4, <4>2
      <4>. QED  BY <4>1, <4>2
    <3>6. ASSUME NEW v \in Busy', NEW u \in Busy', v # u
          PROVE  workers'[v].batch # workers'[u].batch
      <4>1. CASE v = w
        BY <2>2, <3>1, <3>3, <3>4, <3>6, <4>1
      <4>2. CASE u = w
        BY <2>2, <3>1, <3>3, <3>4, <3>6, <4>2
      <4>3. CASE v # w /\ u # w
        BY <1>0, <3>3, <3>6, <4>3 DEF BatchInv
      <4>. QED  BY <4>1, <4>2, <4>3
    <3>. QED  BY <3>2, <3>5, <3>6 DEF BatchInv
  <2>. QED  BY <1>0, <1>3, <2>1, <2>2, HiresTheFirst
<1>4. CASE Reset
  <2>1. \A w \in DOMAIN workers' : workers'[w].state = "idle"
    BY <1>4 DEF Reset, ResetSimulation, IdleWorker
  <2>2. Busy' = {}
    BY <2>1 DEF Busy, Idle
  <2>. QED  BY <2>2 DEF BatchInv
<1>5. ASSUME NEW n \in SenderCounts, SetSenders(n)
      PROVE  BatchInv'
  <2>1. Restaffs(n)
    BY <1>0, <1>5, SetSendersDoes
  <2>2. FirstAttempts' = FirstAttempts
    BY <1>5 DEF SetSenders, countVars, FirstAttempts
  <2>3. ASSUME NEW w \in Busy'
        PROVE  w \in Busy /\ workers'[w].batch = workers[w].batch
    <3>1. DOMAIN workers' = 1..Len(workers') /\ Len(workers') \in Nat
      BY <2>1, LenProperties DEF Restaffs
    <3>2. w \in DOMAIN workers' /\ workers'[w].state # "idle" /\ w <= Len(workers')
      BY <3>1 DEF Busy, Idle
    <3>3. w \in DOMAIN workers
      BY <2>1, <3>2 DEF Restaffs
    <3>. QED  BY <2>1, <3>2, <3>3 DEF Restaffs, Busy, Idle
  <2>. QED  BY <1>0, <2>2, <2>3, BatchesStay
<1>6. CASE Elsewhere
  <2>1. UNCHANGED <<workers, next, countVars>>
    BY <1>6, ElsewhereRests
  <2>2. FirstAttempts' = FirstAttempts /\ Busy' = Busy /\ workers' = workers
    BY <2>1 DEF FirstAttempts, countVars, Busy, Idle
  <2>. QED  BY <1>0, <2>2, BatchesStay
<1>. QED  BY <1>1, <1>2, <1>3, <1>4, <1>5, <1>6, StepsAre

-------------------------------------------------------------------------------
(* How many there are. *)

\* Attempts that end, of which some batches go on to wait for the next try.
LEMMA AttemptsEnd ==
    ASSUME NEW A, NEW B, IsFiniteSet(A), IsFiniteSet(B), A \cap B = {},
           NEW good, NEW bad, NEW given, good \subseteq A, bad \subseteq A,
           good \cap bad = {}, given \subseteq bad
    PROVE  /\ Cardinality(A \ (good \cup bad))
                  = Cardinality(A) - Cardinality(good) - Cardinality(bad)
           /\ Cardinality(B \cup (bad \ given))
                  = Cardinality(B) + Cardinality(bad) - Cardinality(given)
           /\ Cardinality(good) \in Nat /\ Cardinality(bad) \in Nat /\ Cardinality(given) \in Nat
<1>1. /\ IsFiniteSet(good) /\ IsFiniteSet(bad) /\ IsFiniteSet(given)
  BY FS_Subset
<1>2. /\ Cardinality(A) \in Nat /\ Cardinality(B) \in Nat
      /\ Cardinality(good) \in Nat /\ Cardinality(bad) \in Nat /\ Cardinality(given) \in Nat
  BY <1>1, FS_CardinalityType
<1>3. Cardinality(good \cup bad) = Cardinality(good) + Cardinality(bad)
      /\ IsFiniteSet(good \cup bad)
  <2>1. Cardinality(good \cap bad) = 0
    BY FS_EmptySet
  <2>. QED  BY <1>1, <1>2, <2>1, FS_Union
<1>4. Cardinality(A \ (good \cup bad)) = Cardinality(A) - Cardinality(good \cup bad)
  <2>1. A \cap (good \cup bad) = good \cup bad
    OBVIOUS
  <2>. QED  BY <2>1, FS_Difference
<1>5. Cardinality(bad \ given) = Cardinality(bad) - Cardinality(given)
      /\ IsFiniteSet(bad \ given)
  <2>1. bad \cap given = given
    OBVIOUS
  <2>. QED  BY <1>1, <2>1, FS_Difference
<1>6. Cardinality(B \cup (bad \ given)) = Cardinality(B) + Cardinality(bad \ given)
  <2>1. B \cap (bad \ given) = {}
    OBVIOUS
  <2>2. Cardinality(B \cap (bad \ given)) = 0
    BY <2>1, FS_EmptySet
  <2>3. Cardinality(bad \ given) \in Nat
    BY <1>5, FS_CardinalityType
  <2>4. Cardinality(B \cup (bad \ given))
            = Cardinality(B) + Cardinality(bad \ given) - Cardinality(B \cap (bad \ given))
    BY <1>5, FS_Union
  <2>. QED  BY <1>2, <2>2, <2>3, <2>4
<1>. QED  BY <1>2, <1>3, <1>4, <1>5, <1>6

\* Batches that have waited are attempted again.
LEMMA AttemptsResume ==
    ASSUME NEW A, NEW B, IsFiniteSet(A), IsFiniteSet(B), A \cap B = {},
           NEW due, due \subseteq B
    PROVE  /\ Cardinality(A \cup due) = Cardinality(A) + Cardinality(due)
           /\ Cardinality(B \ due) = Cardinality(B) - Cardinality(due)
           /\ Cardinality(due) \in Nat
<1>1. IsFiniteSet(due) /\ Cardinality(due) \in Nat /\ Cardinality(A) \in Nat
  BY FS_Subset, FS_CardinalityType
<1>2. Cardinality(A \cup due) = Cardinality(A) + Cardinality(due)
  <2>1. A \cap due = {}
    OBVIOUS
  <2>2. Cardinality(A \cap due) = 0
    BY <2>1, FS_EmptySet
  <2>3. Cardinality(A \cup due) = Cardinality(A) + Cardinality(due) - Cardinality(A \cap due)
    BY <1>1, FS_Union
  <2>. QED  BY <1>1, <2>2, <2>3
<1>3. Cardinality(B \ due) = Cardinality(B) - Cardinality(due)
  <2>1. B \cap due = due
    OBVIOUS
  <2>. QED  BY <2>1, FS_Difference
<1>. QED  BY <1>1, <1>2, <1>3

LEMMA CountKept ==
    ASSUME SimInv, [Next]_vars
    PROVE  CountInv'
<1>. DEFINE A == In("in-flight")
            B == In("backoff")
            a == Cardinality(A)
            b == Cardinality(B)
<1>0. /\ StaffInv /\ FlowInv /\ LineInv
      /\ DOMAIN workers = 1..Len(workers) /\ Len(workers) \in Nat
  BY WorkersTyped DEF SimInv
<1>a. IsFiniteSet(A) /\ IsFiniteSet(B) /\ A \cap B = {} /\ a \in Nat /\ b \in Nat
  BY <1>0, InFinite DEF In
<1>b. /\ started \in Nat /\ retried \in Nat /\ succeeded \in Nat /\ failed \in Nat
      /\ terminal \in Nat
      /\ a + b = (started - retried) - succeeded - terminal
      /\ started = succeeded + failed + a
  BY DEF SimInv, CountInv, FirstAttempts
<1>c. ASSUME /\ started' \in Nat /\ retried' \in Nat /\ succeeded' \in Nat /\ failed' \in Nat
             /\ terminal' \in Nat
             /\ a' + b' = (started' - retried') - succeeded' - terminal'
             /\ started' = succeeded' + failed' + a'
      PROVE  CountInv'
  BY <1>c DEF CountInv, FirstAttempts
<1>d. ASSUME A' = A, B' = B, UNCHANGED countVars
      PROVE  CountInv'
  <2>1. a' = a /\ b' = b
    BY <1>d
  <2>. HIDE DEF a, b, A, B
  <2>2. UNCHANGED <<started, retried, succeeded, failed, terminal>>
    BY <1>d DEF countVars
  <2>. QED  BY <1>b, <1>c, <2>1, <2>2
<1>1. CASE Complete
  <2>1. PICK good, bad, given : Completes(good, bad, given)
    BY <1>0, <1>1, CompleteDoes
  <2>2. started' = started /\ retried' = retried
    BY <1>1 DEF Complete
  <2>3. /\ succeeded' = succeeded + Cardinality(good) /\ failed' = failed + Cardinality(bad)
        /\ terminal' = terminal + Cardinality(given)
        /\ good \subseteq A /\ bad \subseteq A /\ given \subseteq bad /\ good \cap bad = {}
    BY <2>1 DEF Completes
  <2>4. A' = A \ (good \cup bad)
    BY <2>1 DEF Completes, In
  <2>5. B' = B \cup (bad \ given)
    BY <2>1 DEF Completes, In
  <2>. HIDE DEF A, B
  <2>6. /\ a' = a - Cardinality(good) - Cardinality(bad)
        /\ b' = b + Cardinality(bad) - Cardinality(given)
        /\ Cardinality(good) \in Nat /\ Cardinality(bad) \in Nat /\ Cardinality(given) \in Nat
    <3>1. /\ Cardinality(A \ (good \cup bad)) = a - Cardinality(good) - Cardinality(bad)
          /\ Cardinality(B \cup (bad \ given)) = b + Cardinality(bad) - Cardinality(given)
          /\ Cardinality(good) \in Nat /\ Cardinality(bad) \in Nat /\ Cardinality(given) \in Nat
      BY <1>a, <2>3, AttemptsEnd
    <3>2. a' = Cardinality(A \ (good \cup bad)) /\ b' = Cardinality(B \cup (bad \ given))
      BY <2>4, <2>5
    <3>. QED  BY <3>1, <3>2
  <2>. HIDE DEF a, b
  <2>. QED  BY <1>a, <1>b, <1>c, <2>2, <2>3, <2>6
<1>2. CASE Retry
  <2>1. PICK due : Retries(due)
    BY <1>0, <1>2, RetryDoes
  <2>2. UNCHANGED <<succeeded, failed, terminal>>
    BY <1>2 DEF Retry
  <2>3. /\ started' = started + Cardinality(due) /\ retried' = retried + Cardinality(due)
        /\ due \subseteq B
    BY <2>1 DEF Retries
  <2>4. DOMAIN workers' = 1..Len(workers') /\ Len(workers') \in Nat
        /\ Len(workers') <= Len(workers)
    BY <2>1, LenProperties DEF Retries
  <2>5. ASSUME NEW w \in DOMAIN workers
        PROVE  /\ w \in DOMAIN workers' <=> w <= Len(workers')
               /\ IF w <= Len(workers')
                  THEN workers'[w].state = IF w \in due THEN "in-flight" ELSE workers[w].state
                  ELSE workers[w].state = "idle" /\ w \notin due
    BY <1>0, <2>1, <2>4 DEF Retries
  <2>6. DOMAIN workers' \subseteq DOMAIN workers
    BY <1>0, <2>4
  <2>7. A' = A \cup due /\ B' = B \ due
    BY <2>3, <2>5, <2>6 DEF In
  <2>. HIDE DEF A, B
  <2>8. a' = a + Cardinality(due) /\ b' = b - Cardinality(due) /\ Cardinality(due) \in Nat
    <3>1. /\ Cardinality(A \cup due) = a + Cardinality(due)
          /\ Cardinality(B \ due) = b - Cardinality(due) /\ Cardinality(due) \in Nat
      BY <1>a, <2>3, AttemptsResume
    <3>2. a' = Cardinality(A \cup due) /\ b' = Cardinality(B \ due)
      BY <2>7
    <3>. QED  BY <3>1, <3>2
  <2>. HIDE DEF a, b
  <2>. QED  BY <1>a, <1>b, <1>c, <2>2, <2>3, <2>8
<1>3. CASE Drain \/ Flush
  <2>1. CASE UNCHANGED <<workers, next, countVars>>
    <3>1. A' = A /\ B' = B
      BY <2>1 DEF In
    <3>. QED  BY <1>d, <2>1, <3>1
  <2>2. CASE Free # {} /\ FirstAttempts \in Nat /\ Hire(FirstAttempts)
    <3>1. PICK w \in Free :
               /\ DOMAIN workers' = DOMAIN workers /\ workers'[w].state = "in-flight"
               /\ \A other \in DOMAIN workers : other # w => workers'[other] = workers[other]
      BY <1>0, <2>2, HireTakes
    <3>2. started' = started + 1 /\ UNCHANGED <<retried, succeeded, failed, terminal>>
      BY <2>2 DEF Hire
    <3>3. w \notin A /\ w \notin B /\ w \in DOMAIN workers
      BY DEF In, Free, Idle
    <3>4. A' = A \cup {w}
      BY <3>1, <3>3 DEF In
    <3>5. B' = B
      BY <3>1, <3>3 DEF In
    <3>. HIDE DEF A, B
    <3>6. a' = a + 1
      <4>1. Cardinality(A \cup {w}) = Cardinality(A) + 1
        BY <1>a, <3>3, FS_AddElement
      <4>. QED  BY <3>4, <4>1
    <3>7. b' = b
      BY <3>5
    <3>. HIDE DEF a, b
    <3>. QED  BY <1>a, <1>b, <1>c, <3>2, <3>6, <3>7
  <2>. QED  BY <1>0, <1>3, <2>1, <2>2, HiresTheFirst
<1>4. CASE Reset
  <2>1. /\ \A w \in DOMAIN workers' : workers'[w].state = "idle"
        /\ started' = 0 /\ retried' = 0 /\ succeeded' = 0 /\ failed' = 0 /\ terminal' = 0
    BY <1>4 DEF Reset, ResetSimulation, IdleWorker
  <2>2. A' = {} /\ B' = {}
    BY <2>1 DEF In
  <2>. HIDE DEF A, B
  <2>3. a' = 0 /\ b' = 0
    BY <2>2, FS_EmptySet
  <2>. HIDE DEF a, b
  <2>. QED  BY <1>c, <2>1, <2>3
<1>5. ASSUME NEW n \in SenderCounts, SetSenders(n)
      PROVE  CountInv'
  <2>1. Restaffs(n)
    BY <1>0, <1>5, SetSendersDoes
  <2>2. UNCHANGED countVars
    BY <1>5 DEF SetSenders
  <2>3. DOMAIN workers' = 1..Len(workers') /\ Len(workers') \in Nat
    BY <2>1, LenProperties DEF Restaffs
  <2>4. /\ \A w \in DOMAIN workers : IF w \in DOMAIN workers'
                                     THEN workers'[w].state = workers[w].state
                                     ELSE workers[w].state = "idle"
        /\ \A w \in DOMAIN workers' : w \notin DOMAIN workers => workers'[w].state = "idle"
    BY <1>0, <2>1, <2>3 DEF Restaffs
  <2>5. A' = A /\ B' = B
    BY <2>4 DEF In
  <2>. QED  BY <1>d, <2>2, <2>5
<1>6. CASE Elsewhere
  <2>1. UNCHANGED <<workers, next, countVars>>
    BY <1>6, ElsewhereRests
  <2>2. A' = A /\ B' = B
    BY <2>1 DEF In
  <2>. QED  BY <1>d, <2>1, <2>2
<1>. QED  BY <1>1, <1>2, <1>3, <1>4, <1>5, <1>6, StepsAre

-------------------------------------------------------------------------------
(* The buckets. *)

\* What the readers earn in a step fits their bucket, and the throttler pays
\* only what it can afford.
LEMMA EarnedFits ==
    ASSUME BucketInv
    PROVE  Earned \in 0..(config.readers * Cost)
<1>1. config.readers \in Nat /\ Cost \in Nat /\ ReaderRate \in Nat
  BY SettingsAssumption, CostAssumption DEF BucketInv
<1>. DEFINE most == config.readers * Cost
            earned == config.readers * ReaderRate
<1>2. most \in Nat /\ earned \in Nat
  BY <1>1
<1>3. credit \in 0..most
  BY DEF BucketInv
<1>4. Earned = IF credit + earned > most THEN most ELSE credit + earned
  BY DEF Earned
<1>5. Earned \in 0..most
  <2>. HIDE DEF most, earned
  <2>. QED  BY <1>2, <1>3, <1>4
<1>. QED  BY <1>5

LEMMA PaidFits ==
    ASSUME BucketInv, Affordable
    PROVE  Paid \in Nat
BY CostAssumption DEF BucketInv, Affordable, Paid

LEMMA RefilledFits ==
    ASSUME BucketInv
    PROVE  (IF ~config.installed THEN 0
            ELSE LET most == Cost + config.rate
                 IN  IF tokens + config.rate > most THEN most ELSE tokens + config.rate) \in Nat
<1>1. Cost \in Nat /\ config.rate \in Nat /\ tokens \in Nat
  BY CostAssumption DEF BucketInv
<1>. QED  BY <1>1

LEMMA BucketKept ==
    ASSUME SimInv, [Next]_vars
    PROVE  BucketInv'
<1>0. /\ BucketInv /\ Cost \in Nat \ {0} /\ ReaderRate \in Nat
      /\ config \in [readers : ReaderCounts, senders : SenderCounts, rate : Nat,
                     installed : BOOLEAN]
      /\ config.readers \in Nat /\ tokens \in Nat
      /\ credit \in 0..(config.readers * Cost) /\ config.readers * Cost \in Nat
  <2>1. BucketInv
    BY DEF SimInv
  <2>2. Cost \in Nat \ {0} /\ ReaderRate \in Nat /\ ReaderCounts \subseteq Nat
    BY CostAssumption, SettingsAssumption
  <2>3. config \in [readers : ReaderCounts, senders : SenderCounts, rate : Nat,
                    installed : BOOLEAN]
        /\ tokens \in Nat /\ credit \in 0..(config.readers * Cost)
    BY <2>1 DEF BucketInv
  <2>4. config.readers \in Nat
    BY <2>2, <2>3
  <2>5. config.readers * Cost \in Nat
    BY <2>2, <2>4
  <2>. QED  BY <2>1, <2>2, <2>3, <2>4, <2>5
<1>1. CASE Retry
  <2>1. tokens' \in Nat
    BY <1>0, <1>1, RefilledFits DEF Retry
  <2>. QED  BY <1>0, <1>1, <2>1 DEF Retry, BucketInv
<1>2. CASE Receive
  <2>1. tokens' \in Nat
    BY <1>0, <1>2, PaidFits DEF Receive, CanReceive
  <2>. QED  BY <1>0, <1>2, <2>1 DEF Receive, BucketInv
<1>3. CASE ReceiveEnds
  <2>1. credit' \in 0..(config.readers * Cost)
    BY <1>0, <1>3, EarnedFits DEF ReceiveEnds
  <2>. QED  BY <1>0, <1>3, <2>1 DEF ReceiveEnds, BucketInv
<1>4. CASE Produce
  <2>1. tokens' \in Nat
    <3>1. CASE CanHandOver /\ tokens' = Paid
      BY <1>0, <3>1, PaidFits DEF CanHandOver
    <3>. QED  BY <1>0, <1>4, <3>1 DEF Produce
  <2>2. credit' \in 0..(config.readers * Cost)
    <3>. DEFINE most == config.readers * Cost
    <3>1. credit \in 0..most /\ most \in Nat /\ credit >= Cost /\ credit' = credit - Cost
      BY <1>0, <1>4 DEF Produce, CanProduce
    <3>2. credit' \in 0..most
      <4>. HIDE DEF most
      <4>. QED  BY <1>0, <3>1
    <3>. QED  BY <3>2
  <2>. QED  BY <1>0, <1>4, <2>1, <2>2 DEF Produce, BucketInv
<1>5. CASE Reset
  <2>1. 0 \in 0..(config.readers * Cost)
    BY <1>0
  <2>. QED  BY <1>0, <1>5, <2>1 DEF Reset, ResetSimulation, BucketInv
<1>6. ASSUME NEW n \in SenderCounts, SetSenders(n)
      PROVE  BucketInv'
  <2>1. config' \in [readers : ReaderCounts, senders : SenderCounts, rate : Nat,
                     installed : BOOLEAN]
        /\ config'.readers = config.readers
    BY <1>0, <1>6 DEF SetSenders
  <2>. QED  BY <1>0, <1>6, <2>1 DEF SetSenders, BucketInv
<1>7. ASSUME NEW n \in ReaderCounts, SetReaders(n)
      PROVE  BucketInv'
  <2>1. config' \in [readers : ReaderCounts, senders : SenderCounts, rate : Nat,
                     installed : BOOLEAN]
        /\ config'.readers = n
    BY <1>0, <1>7 DEF SetReaders
  <2>2. credit' \in 0..(n * Cost)
    <3>. DEFINE most == n * Cost
    <3>1. most \in Nat /\ credit \in Nat /\ credit' = IF credit > most THEN most ELSE credit
      BY <1>0, <1>7, SettingsAssumption DEF SetReaders
    <3>2. credit' \in 0..most
      <4>. HIDE DEF most
      <4>. QED  BY <3>1
    <3>. QED  BY <3>2
  <2>3. UNCHANGED <<run, stage, tokens>>
    BY <1>7 DEF SetReaders
  <2>. QED  BY <1>0, <2>1, <2>2, <2>3 DEF BucketInv
<1>8. ASSUME NEW rate \in Rates, SetRate(rate)
      PROVE  BucketInv'
  <2>1. config' \in [readers : ReaderCounts, senders : SenderCounts, rate : Nat,
                     installed : BOOLEAN]
        /\ config'.readers = config.readers
    BY <1>0, <1>8, SettingsAssumption DEF SetRate
  <2>. QED  BY <1>0, <1>8, <2>1 DEF SetRate, BucketInv
<1>9. CASE SetInstalled
  <2>1. config' \in [readers : ReaderCounts, senders : SenderCounts, rate : Nat,
                     installed : BOOLEAN]
        /\ config'.readers = config.readers
    BY <1>0, <1>9 DEF SetInstalled
  <2>. QED  BY <1>0, <1>9, <2>1 DEF SetInstalled, BucketInv
<1>10. CASE \/ Complete \/ Drain \/ Flush \/ StepEnds \/ Run \/ Pause \/ UNCHANGED vars
            \/ \E ch \in Channels, c \in Capacities : SetCapacity(ch, c)
  <2>1. /\ UNCHANGED <<config, credit, tokens>>
        /\ run' \in {run, "running", "paused"} /\ stage' \in {stage, "retry", "rest"}
    BY <1>10 DEF Complete, Drain, Flush, StepEnds, Run, Pause, SetCapacity, vars
  <2>. QED  BY <1>0, <2>1 DEF BucketInv
<1>. QED  BY <1>1, <1>2, <1>3, <1>4, <1>5, <1>6, <1>7, <1>8, <1>9, <1>10 DEF Next, Step, Command

-------------------------------------------------------------------------------
(* The invariant, and what it says. *)

LEMMA SimStart ==
    ASSUME Init
    PROVE  SimInv
<1>1. /\ config \in [readers : ReaderCounts, senders : SenderCounts, rate : Nat,
                     installed : BOOLEAN]
      /\ config.senders \in SenderCounts /\ config.senders \in Nat \ {0}
      /\ config.readers \in Nat /\ Cost \in Nat
  BY SettingsAssumption, CostAssumption DEF Init
<1>2. workers = [w \in 1..config.senders |-> IdleWorker] /\ next = 1
  BY DEF Init
<1>3. workers \in Seq(Worker) /\ DOMAIN workers = 1..config.senders
      /\ Len(workers) = config.senders /\ \A w \in DOMAIN workers : workers[w] = IdleWorker
  BY <1>1, <1>2, IdleIsWorker
<1>4. StaffInv
  BY <1>1, <1>2, <1>3 DEF StaffInv, IdleWorker
<1>5. /\ items = [ch \in Channels |-> <<>>]
      /\ traffic = [ch \in Channels |-> [sent |-> 0, received |-> 0]]
      /\ capacity \in [Channels -> [applied : Nat, pending : Nat \cup {None}]]
      /\ hand = None
  BY SettingsAssumption DEF Init
<1>6. FlowInv
  <2>1. items \in [Channels -> Seq(Nat)]
        /\ traffic \in [Channels -> [sent : Nat, received : Nat]]
    BY <1>5
  <2>2. ASSUME NEW ch \in Channels
        PROVE  /\ Depth(ch) <= capacity[ch].applied
               /\ traffic[ch].sent - traffic[ch].received = Depth(ch)
    <3>1. Depth(ch) = 0 /\ traffic[ch].sent = 0 /\ traffic[ch].received = 0
          /\ capacity[ch].applied \in Nat
      BY <1>5 DEF Depth
    <3>. QED  BY <3>1
  <2>. QED  BY <1>5, <2>1, <2>2 DEF FlowInv
<1>7. BucketInv
  <2>1. 0 \in 0..(config.readers * Cost)
    BY <1>1
  <2>. QED  BY <1>1, <2>1 DEF BucketInv, Init
<1>8. LineInv
  <2>1. items["sender"] = <<>> /\ items["reader"] = <<>> /\ InHand = <<>>
    BY <1>5 DEF Channels, InHand
  <2>2. sequence = 0 /\ started = 0 /\ retried = 0 /\ FirstAttempts = 0
    BY DEF Init, FirstAttempts
  <2>3. /\ NumberedFrom(items["sender"], FirstAttempts)
        /\ NumberedFrom(items["reader"], FirstAttempts + Len(items["sender"]) + Len(InHand))
    BY <2>1 DEF NumberedFrom
  <2>4. Len(items["sender"]) = 0 /\ Len(items["reader"]) = 0 /\ Len(InHand) = 0
    BY <2>1
  <2>5. sequence = FirstAttempts + Len(items["sender"]) + Len(InHand) + Len(items["reader"])
    BY <2>2, <2>4
  <2>6. sequence \in Nat /\ started \in Nat /\ retried \in Nat
    BY <2>2
  <2>. QED  BY <1>5, <2>3, <2>5, <2>6, Zenon DEF LineInv
<1>9. Busy = {} /\ In("in-flight") = {} /\ In("backoff") = {}
  BY <1>3 DEF Busy, Idle, In, IdleWorker
<1>10. BatchInv
  BY <1>9 DEF BatchInv
<1>11. CountInv
  <2>1. started = 0 /\ retried = 0 /\ succeeded = 0 /\ failed = 0 /\ terminal = 0
    BY DEF Init
  <2>2. Cardinality(In("in-flight")) = 0 /\ Cardinality(In("backoff")) = 0
    BY <1>9, FS_EmptySet
  <2>. QED  BY <2>1, <2>2 DEF CountInv, FirstAttempts
<1>. QED  BY <1>4, <1>6, <1>7, <1>8, <1>10, <1>11 DEF SimInv

LEMMA SimAlways == Spec => []SimInv
<1>1. SimInv /\ [Next]_vars => SimInv'
  BY StaffKept, LineKept, BucketKept, BatchKept, CountKept DEF SimInv
<1>. QED  BY SimStart, <1>1, PTL DEF Spec

\* Every variable of the simulation has the values the code can give it:
\* neither bucket is overdrawn or overfull, no channel holds more than its
\* applied capacity, and the turn names a worker (simulation.ts,
\* advanceStep and the adapter's updateConfig).
THEOREM TypeCorrect == Spec => []TypeOK
<1>1. SimInv => TypeOK
  BY DEF SimInv, StaffInv, FlowInv, BucketInv, LineInv, CountInv, TypeOK
<1>. QED  BY SimAlways, <1>1, PTL

\* What waits in the sender channel, then in the hand, then in the reader
\* channel, numbered on.
LEMMA LineInOrder ==
    ASSUME FlowInv, LineInv
    PROVE  PipelineInOrder
<1>. DEFINE S == items["sender"]
            R == items["reader"]
            H == InHand
            f == FirstAttempts
            s == Len(S)
            h == Len(H)
            r == Len(R)
<1>1. /\ S \in Seq(Nat) /\ R \in Seq(Nat) /\ H \in Seq(Nat)
      /\ f \in Int /\ s \in Nat /\ h \in Nat /\ r \in Nat
  BY LineTyped
<1>2. /\ \A i \in 1..s : S[i] = f + i - 1
      /\ \A i \in 1..r : R[i] = (f + s + h) + i - 1
      /\ sequence = f + s + h + r
  BY DEF LineInv, NumberedFrom
<1>3. \A i \in 1..h : H[i] = (f + s) + i - 1
  <2>1. CASE hand = None
    <3>1. h = 0
      BY <2>1 DEF InHand
    <3>. HIDE DEF h, H
    <3>. QED  BY <3>1
  <2>2. CASE hand # None
    <3>1. H = <<hand>> /\ h = 1 /\ hand = f + s /\ H[1] = hand
      BY <2>2 DEF InHand, LineInv
    <3>. HIDE DEF h, H, f, s
    <3>. QED  BY <1>1, <3>1
  <2>. QED  BY <2>1, <2>2
<1>4. Waiting = (S \o H) \o R
  BY DEF Waiting
<1>. HIDE DEF S, H, R
<1>5. /\ S \o H \in Seq(Nat) /\ Len(S \o H) = s + h
      /\ \A i \in 1..(s + h) : (S \o H)[i] = IF i <= s THEN S[i] ELSE H[i - s]
  BY <1>1, ConcatProperties
<1>6. /\ Len((S \o H) \o R) = (s + h) + r
      /\ \A i \in 1..((s + h) + r) :
             ((S \o H) \o R)[i] = IF i <= s + h THEN (S \o H)[i] ELSE R[i - (s + h)]
  BY <1>1, <1>5, ConcatProperties
<1>. DEFINE W == (S \o H) \o R
            SH == S \o H
<1>. HIDE DEF f, s, h, r, W, SH
<1>7. ASSUME NEW i \in 1..((s + h) + r)
      PROVE  W[i] = f + i - 1
  <2>1. CASE i <= s
    BY <1>1, <1>2, <1>5, <1>6, <2>1 DEF W, SH
  <2>2. CASE s < i /\ i <= s + h
    <3>1. i - s \in 1..h /\ i \in 1..(s + h) /\ ~(i <= s)
      BY <1>1, <2>2
    <3>2. W[i] = H[i - s] /\ H[i - s] = (f + s) + (i - s) - 1
      BY <1>3, <1>5, <1>6, <2>2, <3>1 DEF W
    <3>. QED  BY <1>1, <3>1, <3>2
  <2>3. CASE s + h < i
    <3>1. i - (s + h) \in 1..r /\ ~(i <= s + h)
      BY <1>1, <2>3
    <3>2. W[i] = R[i - (s + h)] /\ R[i - (s + h)] = (f + s + h) + (i - (s + h)) - 1
      BY <1>2, <1>6, <3>1 DEF W
    <3>. QED  BY <1>1, <3>1, <3>2
  <2>. QED  BY <1>1, <2>1, <2>2, <2>3
<1>8. Waiting = W /\ Len(W) = (s + h) + r /\ FirstAttempts = f
  BY <1>4, <1>6 DEF W, f
<1>9. sequence - f = (s + h) + r
  BY <1>1, <1>2
<1>. QED  BY <1>7, <1>8, <1>9 DEF PipelineInOrder

\* No batch is lost, doubled or overtaken before its first attempt, whatever
\* the numbers of readers and senders, the rate and the capacities are changed
\* to meanwhile (drainSenderChannel, flushThrottledBatch, receiveReaderChannel,
\* produceReaderBatches, requestCapacity).
THEOREM BatchesInOrder == Spec => []PipelineInOrder
<1>1. SimInv => PipelineInOrder
  BY LineInOrder DEF SimInv
<1>. QED  BY SimAlways, <1>1, PTL

LEMMA StaffAccounted ==
    ASSUME SimInv
    PROVE  WorkersAccounted
<1>1. /\ config.senders \in Nat \ {0} /\ Len(workers) \in Nat /\ config.senders <= Len(workers)
      /\ DOMAIN workers = 1..Len(workers)
  BY WorkersTyped, SettingsAssumption DEF SimInv, StaffInv
<1>2. Len(workers) - Cardinality(Retiring) = config.senders
  <2>1. Retiring = (config.senders + 1)..Len(workers)
    BY <1>1 DEF Retiring, SimInv, StaffInv
  <2>2. Cardinality((config.senders + 1)..Len(workers)) = Len(workers) - config.senders
    BY <1>1, FS_Interval
  <2>3. Cardinality(Retiring) = Len(workers) - config.senders
    BY <2>1, <2>2
  <2>. QED  BY <1>1, <2>3
<1>3. \A ch \in Channels : traffic[ch].sent - traffic[ch].received = Depth(ch)
  BY DEF SimInv, FlowInv
<1>. QED  BY <1>2, <1>3 DEF WorkersAccounted, SenderFigures, HttpFigures, ChannelFigures,
                            SimInv, BatchInv, CountInv

\* Every batch attempted is with exactly one worker, delivered or given up,
\* and the workers that stay are as many as was asked for last: scaling down,
\* up and down again loses neither, and the figures of the snapshot agree
\* (completeDueAttempts, startDueRetries, finalizeSenderScaleDown,
\* requestSenderWorkerCount).
THEOREM WorkersAlwaysAccounted == Spec => []WorkersAccounted
BY SimAlways, StaffAccounted, PTL

-------------------------------------------------------------------------------
(* The loops of a step. *)

\* One move of a batch, or one batch produced, is less left to do.
LEMMA MoveShrinks ==
    ASSUME NEW c \in Nat, NEW r \in Nat, NEW h \in Nat, NEW s \in Nat,
           NEW c2 \in Nat, NEW r2 \in Nat, NEW h2 \in Nat, NEW s2 \in Nat,
           \/ c2 = c /\ r2 = r /\ h2 = h /\ s2 = s - 1
           \/ c2 = c /\ r2 = r /\ h2 = h - 1 /\ s2 \in {s, s + 1}
           \/ c2 = c /\ r2 = r - 1 /\ h2 = h + 1 /\ s2 = s
           \/ c2 < c /\ s2 = s /\ ((r2 = r /\ h2 = h + 1) \/ (r2 = r + 1 /\ h2 = h))
    PROVE  4 * c2 + 3 * r2 + 2 * h2 + s2 < 4 * c + 3 * r + 2 * h + s
OBVIOUS

LEMMA LoopShrinks ==
    ASSUME SimInv, Next, stage # "rest", stage' = stage, SimInv'
    PROVE  Effort' < Effort
<1>. DEFINE c == credit
            r == Len(items["reader"])
            h == Len(InHand)
            s == Len(items["sender"])
<1>0. StaffInv /\ FlowInv /\ LineInv /\ BucketInv /\ FlowInv' /\ LineInv' /\ BucketInv'
  BY DEF SimInv
<1>1. c \in Nat /\ c' \in Nat
  BY <1>0 DEF BucketInv
<1>2. r \in Nat /\ s \in Nat /\ h \in Nat
  BY <1>0, LineTyped
<1>3. r' \in Nat /\ s' \in Nat
  BY <1>0, LenProperties DEF FlowInv, Channels
<1>4. h = (IF hand = None THEN 0 ELSE 1) /\ h' = (IF hand' = None THEN 0 ELSE 1)
  BY DEF InHand
<1>5. ASSUME \/ c' = c /\ r' = r /\ h' = h /\ s' = s - 1
             \/ c' = c /\ r' = r /\ h' = h - 1 /\ s' \in {s, s + 1}
             \/ c' = c /\ r' = r - 1 /\ h' = h + 1 /\ s' = s
             \/ c' < c /\ s' = s /\ ((r' = r /\ h' = h + 1) \/ (r' = r + 1 /\ h' = h))
      PROVE  Effort' < Effort
  <2>1. Effort = 4 * c + 3 * r + 2 * h + s /\ Effort' = 4 * c' + 3 * r' + 2 * h' + s'
    BY DEF Effort
  <2>2. h \in Nat /\ h' \in Nat
    BY <1>4
  <2>. HIDE DEF c, r, h, s
  <2>. QED  BY <1>1, <1>2, <1>3, <1>5, <2>1, <2>2, MoveShrinks
<1>6. CASE Drain
  <2>1. items["sender"] # <<>> /\ Shift("sender") /\ hand' = hand /\ credit' = credit
        /\ hand' \in Nat \cup {None}
    BY <1>0, <1>6 DEF Drain, CanDrain, FlowInv
  <2>2. s' = s - 1 /\ r' = r
    BY <1>0, <2>1, ShiftKeeps DEF Channels
  <2>3. h' = h /\ c' = c
    BY <1>4, <2>1
  <2>. HIDE DEF c, r, h, s
  <2>. QED  BY <1>5, <2>2, <2>3
<1>7. CASE Flush
  <2>1. hand # None /\ hand \in Nat /\ hand' = None /\ capacity' = capacity /\ credit' = credit
        /\ hand' \in Nat \cup {None}
    BY <1>0, <1>7 DEF Flush, CanFlush, FlowInv
  <2>2. h' = h - 1 /\ c' = c
    BY <1>4, <2>1
  <2>3. r' = r /\ s' \in {s, s + 1}
    <3>1. CASE HandedOver("sender")
      BY <3>1 DEF HandedOver
    <3>2. CASE capacity["sender"].applied # 0 /\ Sent("sender", hand)
      <4>1. Accepts("sender")
        BY <1>7, <3>2 DEF Flush, CanFlush
      <4>. QED  BY <1>0, <2>1, <3>2, <4>1, SentKeeps DEF Channels
    <3>. QED  BY <1>7, <3>1, <3>2 DEF Flush
  <2>. HIDE DEF c, r, h, s
  <2>. QED  BY <1>5, <2>2, <2>3
<1>8. CASE Receive
  <2>1. hand = None /\ items["reader"] # <<>> /\ Shift("reader") /\ credit' = credit
        /\ hand' = Head(items["reader"]) /\ items["reader"] \in Seq(Nat)
    BY <1>0, <1>8, LineTyped DEF Receive, CanReceive
  <2>2. hand' \in Nat
    BY <2>1, HeadTailProperties, EmptySeq
  <2>3. r' = r - 1 /\ s' = s
    BY <1>0, <2>1, <2>2, ShiftKeeps DEF Channels
  <2>4. h' = h + 1 /\ c' = c
    BY <1>4, <2>1, <2>2 DEF None
  <2>. HIDE DEF c, r, h, s
  <2>. QED  BY <1>5, <2>3, <2>4
<1>9. CASE Produce
  <2>1. Cost \in Nat \ {0} /\ credit' = credit - Cost /\ capacity' = capacity
        /\ sequence \in Nat /\ sequence # None
    BY <1>0, <1>9, CostAssumption DEF Produce, LineInv, None
  <2>2. c' < c
    BY <1>1, <2>1
  <2>3. CASE CanHandOver /\ hand' = sequence /\ HandedOver("reader")
    <3>1. r' = r /\ s' = s
      BY <2>3 DEF HandedOver
    <3>2. h' = h + 1
      BY <1>4, <2>1, <2>3 DEF CanHandOver
    <3>. HIDE DEF c, r, h, s
    <3>3. c' < c /\ s' = s /\ (r' = r /\ h' = h + 1)
      BY <2>2, <3>1, <3>2
    <3>. QED  BY <1>5, <3>3
  <2>4. CASE Accepts("reader") /\ Sent("reader", sequence) /\ hand' = hand
    <3>1. r' = r + 1 /\ s' = s
      BY <1>0, <2>1, <2>4, SentKeeps DEF Channels, FlowInv
    <3>2. h' = h
      BY <1>4, <2>4
    <3>. HIDE DEF c, r, h, s
    <3>3. c' < c /\ s' = s /\ r' = r + 1 /\ h' = h
      BY <2>2, <3>1, <3>2
    <3>. QED  BY <1>5, <3>3
  <2>. QED  BY <1>9, <2>3, <2>4 DEF Produce
<1>10. CASE Complete \/ Retry \/ ReceiveEnds \/ StepEnds
  BY <1>10 DEF Complete, Ticks, Retry, ReceiveEnds, StepEnds
<1>11. CASE Command
  BY <1>11 DEF Command, Run, Pause, Reset, SetInstalled, SetSenders, SetReaders, SetRate,
               SetCapacity
<1>. QED  BY <1>6, <1>7, <1>8, <1>9, <1>10, <1>11 DEF Next, Step

\* Every call of advanceStep ends, with any cost, credit and capacities: each
\* time round its loops less is left to move (drainSenderChannel,
\* receiveReaderChannel, produceReaderBatches).
THEOREM StepsAlwaysEnd == Spec => StepsEnd
<1>1. SimInv /\ SimInv' /\ [Next]_vars => [stage # "rest" /\ stage' = stage => Effort' < Effort]_vars
  BY LoopShrinks
<1>. QED  BY SimAlways, <1>1, PTL DEF Spec, StepsEnd

-------------------------------------------------------------------------------
(* The refinement of SimulatedRun. *)

Open == {workers[w].batch : w \in Busy}
Shown == <<run = "running", sequence, FirstAttempts, Open, succeeded, terminal>>

\* A step that has begun is one of a running simulation.
RunInv == stage # "rest" => run = "running"

LEMMA RunAlways == Spec => []RunInv
<1>1. Init => RunInv
  BY DEF Init, RunInv
<1>2. RunInv /\ [Next]_vars => RunInv'
  BY DEF RunInv, Next, Step, Command, Complete, Ticks, Retry, Drain, Flush, Receive, ReceiveEnds,
         Produce, StepEnds, Run, Pause, Reset, SetInstalled, SetSenders, SetReaders, SetRate,
         SetCapacity, vars
<1>. QED  BY <1>1, <1>2, PTL DEF Spec

\* The instance counts as this module does.
LEMMA SameCardinality == \A S : Promise!Cardinality(S) = Cardinality(S)
BY DEF Promise!Cardinality, Cardinality

\* As many batches as workers that serve them.
LEMMA BatchesOf ==
    ASSUME StaffInv, BatchInv, NEW some, some \subseteq Busy
    PROVE  Cardinality({workers[w].batch : w \in some}) = Cardinality(some)
<1>. DEFINE T == {workers[w].batch : w \in some}
            f == [w \in some |-> workers[w].batch]
<1>1. IsFiniteSet(some)
  <2>1. some \in SUBSET (1..Len(workers)) /\ IsFiniteSet(1..Len(workers))
    BY WorkersTyped, FS_Interval DEF Busy
  <2>. QED  BY <2>1, FS_Subset
<1>2. f \in Surjection(some, T)
  BY DEF Surjection
<1>3. f \in Injection(some, T)
  BY DEF Injection, IsInjective, BatchInv
<1>. QED  BY <1>1, <1>2, <1>3, FS_Surjection

\* Attempts that end are the end of their batches, but for those that wait for
\* the next try.
LEMMA CompleteSettles ==
    ASSUME SimInv, RunInv, Complete
    PROVE  Promise!Settle
<1>0. StaffInv /\ BatchInv /\ run = "running"
  BY DEF SimInv, Complete, Ticks
<1>1. PICK good, bad, given : Completes(good, bad, given)
  BY <1>0, CompleteDoes
<1>. DEFINE won == {workers[w].batch : w \in good}
            lost == {workers[w].batch : w \in given}
<1>2. /\ good \subseteq Busy /\ given \subseteq Busy /\ bad \subseteq Busy
      /\ good \cap given = {} /\ good \cap bad = {} /\ given \subseteq bad
  BY <1>1 DEF Completes, In, Busy, Idle
<1>3. Busy' = Busy \ (good \cup given)
  <2>1. ASSUME NEW w \in DOMAIN workers
        PROVE  workers'[w].state # "idle" <=> workers[w].state # "idle" /\ w \notin good \cup given
    BY <1>1, <1>2 DEF Completes, Busy, Idle
  <2>2. DOMAIN workers' = DOMAIN workers
    BY <1>1 DEF Completes
  <2>. QED  BY <2>1, <2>2 DEF Busy, Idle
<1>4. ASSUME NEW w \in Busy'
      PROVE  workers'[w].batch = workers[w].batch
  <2>1. w \in DOMAIN workers /\ w \notin good \cup given
    BY <1>3, <1>4 DEF Busy
  <2>. QED  BY <1>1, <2>1 DEF Completes
<1>5. \A v, w \in Busy : v # w => workers[v].batch # workers[w].batch
  BY <1>0 DEF BatchInv
<1>6. won \in SUBSET Open /\ lost \in SUBSET Open /\ won \cap lost = {}
  BY <1>2, <1>5 DEF Open
<1>7. Open' = Open \ (won \cup lost)
  <2>1. Open' = {workers'[w].batch : w \in Busy'}
    BY DEF Open
  <2>2. Open' = {workers[w].batch : w \in Busy \ (good \cup given)}
    BY <1>3, <1>4, <2>1
  <2>. QED  BY <1>2, <1>5, <2>2 DEF Open
<1>8. /\ succeeded' = succeeded + Cardinality(won) /\ terminal' = terminal + Cardinality(lost)
  <2>1. Cardinality(won) = Cardinality(good) /\ Cardinality(lost) = Cardinality(given)
    BY <1>0, <1>2, BatchesOf
  <2>. QED  BY <1>1, <2>1 DEF Completes
<1>9. run' = run /\ sequence' = sequence /\ FirstAttempts' = FirstAttempts
  BY DEF Complete, FirstAttempts
<1>. HIDE DEF won, lost
<1>. QED  BY <1>0, <1>6, <1>7, <1>8, <1>9, SameCardinality DEF Promise!Settle, Open

\* Workers that try again, come, go or stay serve what they served.
LEMMA StaysOpen ==
    ASSUME \A w \in Busy : w \in Busy' /\ workers'[w].batch = workers[w].batch,
           \A w \in Busy' : w \in Busy
    PROVE  Open' = Open
<1>1. Busy' = Busy
  OBVIOUS
<1>. QED  BY <1>1 DEF Open

LEMMA RetryStutters ==
    ASSUME SimInv, Retry
    PROVE  UNCHANGED Shown
<1>0. StaffInv /\ LineInv /\ DOMAIN workers = 1..Len(workers) /\ Len(workers) \in Nat
  BY WorkersTyped DEF SimInv
<1>1. PICK due : Retries(due)
  BY <1>0, RetryDoes
<1>2. FirstAttempts' = FirstAttempts
  <2>1. Cardinality(due) \in Nat /\ started \in Nat /\ retried \in Nat
    BY <1>0, <1>1, PartFinite DEF Retries, LineInv
  <2>. QED  BY <1>1, <2>1 DEF Retries, FirstAttempts
<1>3. DOMAIN workers' = 1..Len(workers') /\ Len(workers') \in Nat /\ Len(workers') <= Len(workers)
  BY <1>1, LenProperties DEF Retries
<1>4. ASSUME NEW w \in Busy
      PROVE  w \in Busy' /\ workers'[w].batch = workers[w].batch
  <2>1. w \in DOMAIN workers /\ workers[w].state # "idle"
    BY <1>4 DEF Busy, Idle
  <2>2. w <= Len(workers')
    BY <1>1, <2>1 DEF Retries
  <2>3. w \in DOMAIN workers'
    BY <1>0, <1>3, <2>1, <2>2
  <2>4. workers'[w].batch = workers[w].batch /\ workers'[w].state # "idle"
    BY <1>1, <2>1, <2>2 DEF Retries
  <2>. QED  BY <2>3, <2>4 DEF Busy, Idle
<1>5. ASSUME NEW w \in Busy'
      PROVE  w \in Busy
  <2>1. w \in DOMAIN workers /\ w <= Len(workers') /\ workers'[w].state # "idle"
    BY <1>0, <1>3, <1>5 DEF Busy, Idle
  <2>2. CASE w \in due
    BY <1>1, <2>1, <2>2 DEF Retries, Busy, Idle, In
  <2>3. CASE w \notin due
    BY <1>1, <2>1, <2>3 DEF Retries, Busy, Idle
  <2>. QED  BY <2>2, <2>3
<1>6. Open' = Open
  BY <1>4, <1>5, StaysOpen
<1>7. run' = run /\ sequence' = sequence /\ succeeded' = succeeded /\ terminal' = terminal
  BY DEF Retry
<1>. QED  BY <1>2, <1>6, <1>7 DEF Shown

LEMMA SetSendersStutters ==
    ASSUME SimInv, NEW n \in SenderCounts, SetSenders(n)
    PROVE  UNCHANGED Shown
<1>0. StaffInv /\ DOMAIN workers = 1..Len(workers) /\ Len(workers) \in Nat
  BY WorkersTyped DEF SimInv
<1>1. Restaffs(n)
  BY <1>0, SetSendersDoes
<1>2. DOMAIN workers' = 1..Len(workers') /\ Len(workers') \in Nat
  BY <1>1, LenProperties DEF Restaffs
<1>3. ASSUME NEW w \in Busy
      PROVE  w \in Busy' /\ workers'[w].batch = workers[w].batch
  <2>1. w \in DOMAIN workers /\ workers[w].state # "idle"
    BY <1>3 DEF Busy, Idle
  <2>2. w <= Len(workers')
    BY <1>1, <2>1 DEF Restaffs
  <2>3. w \in DOMAIN workers'
    BY <1>0, <1>2, <2>1, <2>2
  <2>4. workers'[w].batch = workers[w].batch /\ workers'[w].state # "idle"
    BY <1>1, <2>1, <2>2 DEF Restaffs
  <2>. QED  BY <2>3, <2>4 DEF Busy, Idle
<1>4. ASSUME NEW w \in Busy'
      PROVE  w \in Busy
  <2>1. w \in DOMAIN workers' /\ workers'[w].state # "idle" /\ w <= Len(workers')
    BY <1>2, <1>4 DEF Busy, Idle
  <2>2. w \in DOMAIN workers
    BY <1>1, <2>1 DEF Restaffs
  <2>. QED  BY <1>1, <2>1, <2>2 DEF Restaffs, Busy, Idle
<1>5. Open' = Open
  BY <1>3, <1>4, StaysOpen
<1>6. /\ run' = run /\ sequence' = sequence /\ succeeded' = succeeded /\ terminal' = terminal
      /\ FirstAttempts' = FirstAttempts
  BY DEF SetSenders, countVars, FirstAttempts
<1>. QED  BY <1>5, <1>6 DEF Shown

\* A worker that is hired opens the first batch not yet attempted, and there
\* is one.
LEMMA HireBegins ==
    ASSUME SimInv, RunInv, Drain \/ Flush
    PROVE  Promise!Begin \/ UNCHANGED Shown
<1>0. StaffInv /\ FlowInv /\ LineInv /\ BatchInv
  BY DEF SimInv
<1>1. /\ run = "running" /\ run' = run /\ sequence' = sequence
  BY DEF RunInv, Drain, Flush
<1>2. CASE UNCHANGED <<workers, next, countVars>>
  <2>1. /\ Open' = Open /\ FirstAttempts' = FirstAttempts
        /\ succeeded' = succeeded /\ terminal' = terminal
    BY <1>2 DEF Open, Busy, Idle, countVars, FirstAttempts
  <2>. QED  BY <1>1, <2>1 DEF Shown
<1>3. CASE Free # {} /\ FirstAttempts \in Nat /\ Hire(FirstAttempts)
  <2>1. PICK w \in Free :
             /\ DOMAIN workers' = DOMAIN workers
             /\ workers'[w].batch = FirstAttempts /\ workers'[w].state = "in-flight"
             /\ \A other \in DOMAIN workers : other # w => workers'[other] = workers[other]
    BY <1>0, <1>3, HireTakes
  <2>2. w \in DOMAIN workers /\ workers[w].state = "idle"
    BY <2>1 DEF Free, Idle
  <2>3. Busy' = Busy \cup {w} /\ w \notin Busy
    BY <2>1, <2>2 DEF Busy, Idle
  <2>4. \A v \in Busy : workers'[v].batch = workers[v].batch
    BY <2>1, <2>3 DEF Busy
  <2>5. Open' = Open \cup {FirstAttempts}
    <3>1. Open' = {workers'[v].batch : v \in Busy'}
      BY DEF Open
    <3>2. Open' = {workers'[v].batch : v \in Busy} \cup {workers'[w].batch}
      BY <2>3, <3>1
    <3>. QED  BY <2>1, <2>4, <3>2 DEF Open
  <2>6. /\ FirstAttempts' = FirstAttempts + 1
        /\ succeeded' = succeeded /\ terminal' = terminal
    <3>1. started' = started + 1 /\ retried' = retried /\ started \in Nat /\ retried \in Nat
          /\ succeeded' = succeeded /\ terminal' = terminal
      BY <1>0, <1>3 DEF Hire, LineInv
    <3>. QED  BY <3>1 DEF FirstAttempts
  <2>7. FirstAttempts < sequence
    <3>. DEFINE s == Len(items["sender"])
                h == Len(InHand)
                r == Len(items["reader"])
                f == FirstAttempts
    <3>1. s \in Nat /\ h \in Nat /\ r \in Nat /\ f \in Int /\ sequence = f + s + h + r
      BY <1>0, LineTyped DEF LineInv
    <3>2. s > 0 \/ h > 0
      <4>1. CASE Drain
        <5>1. items["sender"] # <<>> /\ items["sender"] \in Seq(Nat)
          BY <1>0, <4>1, LineTyped DEF Drain, CanDrain
        <5>. QED  BY <5>1
      <4>2. CASE Flush
        <5>1. hand # None
          BY <4>2 DEF Flush, CanFlush
        <5>2. h = 1
          BY <1>0, <5>1, LineTyped
        <5>. QED  BY <5>2
      <4>. QED  BY <4>1, <4>2
    <3>. HIDE DEF s, h, r, f
    <3>3. f < sequence
      BY <3>1, <3>2
    <3>. QED  BY <3>3 DEF f
  <2>. QED  BY <1>1, <2>5, <2>6, <2>7 DEF Promise!Begin, Open
<1>. QED  BY <1>0, <1>2, <1>3, HiresTheFirst

\* Every step of the simulation keeps the promise or says nothing of it.
LEMMA StepKeepsPromise ==
    ASSUME SimInv, RunInv, [Next]_vars
    PROVE  [Promise!Next]_(Promise!vars)
<1>0. UNCHANGED Shown => UNCHANGED Promise!vars
  BY DEF Shown, Open, Promise!vars
<1>1. CASE Complete
  BY <1>1, CompleteSettles DEF Promise!Next
<1>2. CASE Retry
  BY <1>0, <1>2, RetryStutters
<1>3. CASE Drain \/ Flush
  BY <1>0, <1>3, HireBegins DEF Promise!Next
<1>4. CASE Reset
  <2>1. /\ run # "running" /\ run' = "idle" /\ sequence' = 0 /\ succeeded' = 0 /\ terminal' = 0
        /\ started' = 0 /\ retried' = 0
        /\ workers' = [w \in 1..config.senders |-> IdleWorker]
    BY <1>4 DEF Reset, ResetSimulation
  <2>2. FirstAttempts' = 0
    BY <2>1 DEF FirstAttempts
  <2>3. Open' = {}
    <3>1. \A w \in DOMAIN workers' : workers'[w].state = "idle"
      BY <2>1 DEF IdleWorker
    <3>. QED  BY <3>1 DEF Open, Busy, Idle
  <2>4. Promise!Reset
    BY <2>1, <2>2, <2>3 DEF Promise!Reset, Open
  <2>. QED  BY <2>4 DEF Promise!Next
<1>5. ASSUME NEW n \in SenderCounts, SetSenders(n)
      PROVE  [Promise!Next]_(Promise!vars)
  BY <1>0, <1>5, SetSendersStutters
<1>6. CASE Elsewhere
  <2>1. /\ Open' = Open /\ FirstAttempts' = FirstAttempts
        /\ succeeded' = succeeded /\ terminal' = terminal
    <3>1. UNCHANGED <<workers, countVars>>
      BY <1>6, ElsewhereRests
    <3>. QED  BY <3>1 DEF Open, Busy, Idle, countVars, FirstAttempts
  <2>2. CASE Produce
    <3>1. run = "running" /\ run' = run /\ sequence' = sequence + 1
      BY <2>2 DEF RunInv, Produce
    <3>2. Promise!Make
      BY <2>1, <3>1 DEF Promise!Make, Open
    <3>. QED  BY <3>2 DEF Promise!Next
  <2>3. CASE Run \/ Pause
    <3>1. sequence' = sequence
      BY <2>3 DEF Run, Pause
    <3>2. CASE (run' = "running") = (run = "running")
      BY <1>0, <2>1, <3>1, <3>2 DEF Shown
    <3>3. CASE (run' = "running") = ~(run = "running")
      <4>1. Promise!Switch
        BY <2>1, <3>1, <3>3 DEF Promise!Switch, Open
      <4>. QED  BY <4>1 DEF Promise!Next
    <3>. QED  BY <3>2, <3>3
  <2>4. CASE \/ Receive \/ ReceiveEnds \/ StepEnds \/ SetInstalled
             \/ \E n \in ReaderCounts : SetReaders(n)
             \/ \E rate \in Rates : SetRate(rate)
             \/ \E ch \in Channels, c \in Capacities : SetCapacity(ch, c)
             \/ UNCHANGED vars
    <3>1. run' = run /\ sequence' = sequence
      BY <2>4 DEF Receive, ReceiveEnds, StepEnds, SetInstalled, SetReaders, SetRate,
                  SetCapacity, vars
    <3>. QED  BY <1>0, <2>1, <3>1 DEF Shown
  <2>. QED  BY <1>6, <2>2, <2>3, <2>4 DEF Elsewhere
<1>. QED  BY <1>1, <1>2, <1>3, <1>4, <1>5, <1>6, StepsAre

LEMMA StartKeepsPromise == Init => Promise!Init
<1>. SUFFICES ASSUME Init PROVE Promise!Init
  OBVIOUS
<1>1. /\ run = "idle" /\ sequence = 0 /\ succeeded = 0 /\ terminal = 0
      /\ started = 0 /\ retried = 0 /\ workers = [w \in 1..config.senders |-> IdleWorker]
  BY DEF Init
<1>2. FirstAttempts = 0
  BY <1>1 DEF FirstAttempts
<1>3. Open = {}
  <2>1. \A w \in DOMAIN workers : workers[w].state = "idle"
    BY <1>1 DEF IdleWorker
  <2>. QED  BY <2>1 DEF Open, Busy, Idle
<1>. QED  BY <1>1, <1>2, <1>3 DEF Promise!Init, Open

\* The simulation implements SimulatedRun, for any settings and any number of
\* batches: first attempts in the order of production, one end for each batch,
\* a paused run that stands still, and nothing taken back but by a reset of one
\* that does not run (SimulationAdapter.ts, simulation.ts advanceStep).
THEOREM RunImplemented == Spec => ImplementsRun
BY StartKeepsPromise, StepKeepsPromise, SimAlways, RunAlways, PTL
   DEF Spec, ImplementsRun, Promise!Spec
===============================================================================
