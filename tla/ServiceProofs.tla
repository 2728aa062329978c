---------------------------- MODULE ServiceProofs ----------------------------
(***************************************************************************)
(* Proofs about Service for every number of handlers and every capacity of *)
(* the channel of requests.                                                *)
(***************************************************************************)
EXTENDS Service, TLAPS

(* How runServe stands with the result it will have. *)
ResultInv ==
    /\ result = "none" <=> main \in {"start", "await", "select"}
    /\ signalled \/ loop # "select" => stopped
    /\ stopped /\ result \in {"none", "ok"} => signalled
    /\ result = "ok" => signalled
    /\ result # "none" => stopped
    /\ main = "join" => server = "closed"
    /\ ReturnExplained

(* The start-up run is one request, refused only after a client's run. *)
Pending == {i \in 1..Len(requests) : requests[i][1] = Main}
StartInv ==
    /\ \A i \in Pending : main = "await" /\ reply[Main] = "none" /\ requests[i][2] = "run"
    /\ \A i, j \in Pending : i = j
    /\ run # "idle" /\ ~clientRan => main # "start" /\ Pending = {}
    /\ reply[Main] # "none" => main = "await"
    /\ reply[Main] = "rejected" \/ result = "rejected" => clientRan

-------------------------------------------------------------------------------
(* The channel. *)

\* A request that is sent is the last of the channel.
LEMMA SendAppends ==
    ASSUME TypeOK, NEW o \in Owners, NEW kind \in Kinds, Sent(o, kind)
    PROVE  /\ requests' \in Seq(Owners \X Kinds)
           /\ Len(requests') = Len(requests) + 1
           /\ \A i \in 1..Len(requests) : requests'[i] = requests[i]
           /\ requests'[Len(requests) + 1] = <<o, kind>>
BY DEF Sent, TypeOK

\* A handler's request leaves the start-up run where it is in the channel.
LEMMA HandlerNotPending ==
    ASSUME TypeOK, NEW h \in Handlers, NEW kind \in Kinds, Sent(h, kind)
    PROVE  Pending' = Pending /\ \A i \in Pending : requests'[i] = requests[i]
<1>1. h \in Owners /\ h # Main
  BY OwnersAssumption DEF Owners
<1>2. /\ Len(requests) \in Nat /\ Len(requests') = Len(requests) + 1
      /\ \A i \in 1..Len(requests) : requests'[i] = requests[i]
      /\ requests'[Len(requests) + 1] = <<h, kind>>
  BY <1>1, SendAppends DEF TypeOK
<1>. QED  BY <1>1, <1>2 DEF Pending

\* Reading a request shifts the others by one.
LEMMA ReadShifts ==
    ASSUME TypeOK, requests # <<>>, requests' = Tail(requests)
    PROVE  /\ requests' \in Seq(Owners \X Kinds)
           /\ 1 \in 1..Len(requests) /\ Head(requests) = requests[1]
           /\ Head(requests) \in Owners \X Kinds
           /\ \A i \in Pending' : i + 1 \in Pending /\ requests'[i] = requests[i + 1] /\ i \in Nat /\ i # 0
<1>1. /\ requests' \in Seq(Owners \X Kinds) /\ Len(requests) \in Nat \ {0}
      /\ Len(requests') = Len(requests) - 1
      /\ \A i \in 1..Len(requests') : requests'[i] = requests[i + 1]
      /\ Head(requests) = requests[1] /\ requests[1] \in Owners \X Kinds
  BY DEF TypeOK
<1>. QED  BY <1>1 DEF Pending

-------------------------------------------------------------------------------
IInv == TypeOK /\ ResultInv /\ StartInv

\* The invariant holds at first.
LEMMA InitHolds == Init => IInv
<1>. SUFFICES ASSUME Init PROVE IInv
  OBVIOUS
<1>1. TypeOK
  <2>1. requests \in Seq(Owners \X Kinds)
    BY DEF Init
  <2>2. handler \in [Handlers -> Kinds \union {"idle", "await"}]
    BY DEF Init
  <2>3. reply \in [Owners -> Answers \union {"none"}]
    BY DEF Init
  <2>. QED  BY <2>1, <2>2, <2>3 DEF Init, TypeOK, RunStates
<1>2. ResultInv
  BY DEF Init, ResultInv, ReturnExplained
<1>3. Pending = {} /\ reply[Main] = "none"
  BY DEF Init, Pending, Owners
<1>4. StartInv
  BY <1>3 DEF Init, StartInv
<1>. QED  BY <1>1, <1>2, <1>4 DEF IInv

\* The event loop does a request.
LEMMA HandleRequestKeeps == ASSUME IInv, HandleRequest PROVE IInv'
<1>. USE DEF IInv
<1>. DEFINE owner == Head(requests)[1]
            kind == Head(requests)[2]
<1>1. /\ owner \in Owners /\ kind \in Kinds /\ Head(requests) = requests[1]
      /\ 1 \in 1..Len(requests) /\ requests' \in Seq(Owners \X Kinds)
  BY ReadShifts DEF HandleRequest
<1>2. \A i \in Pending' : i + 1 \in Pending /\ requests'[i] = requests[i + 1] /\ i \in Nat /\ i # 0
  BY ReadShifts DEF HandleRequest
<1>3. PICK to \in RunStates, answer \in Answers \union {"none"} :
         /\ Does(kind, to, answer)
         /\ run' = to
         /\ reply' = IF kind = "pause" THEN reply ELSE [reply EXCEPT ![owner] = answer]
  BY DEF HandleRequest
<1>4. /\ UNCHANGED <<signalled, stopped, mainVars, handler, loop>> /\ loop = "select"
      /\ clientRan' = (clientRan \/ (owner # Main /\ kind = "run"))
  BY DEF HandleRequest
<1>5. owner = Main => 1 \in Pending
  BY <1>1 DEF Pending
<1>. HIDE DEF owner, kind
<1>6. /\ to # "idle" => run # "idle" \/ kind = "run"
      /\ answer = "rejected" /\ kind = "run" => run # "idle"
  BY <1>3 DEF Does
<1>7. owner = Main => /\ kind = "run" /\ main = "await" /\ reply[Main] = "none"
                      /\ Pending' = {}
  <2>. SUFFICES ASSUME owner = Main
                PROVE  kind = "run" /\ main = "await" /\ reply[Main] = "none" /\ Pending' = {}
    OBVIOUS
  <2>1. 1 \in Pending
    BY <1>5
  <2>2. kind = "run" /\ main = "await" /\ reply[Main] = "none"
    BY <2>1, <1>1 DEF StartInv, kind
  <2>3. \A i \in Pending' : i + 1 = 1
    BY <2>1, <1>2 DEF StartInv
  <2>. QED  BY <2>2, <2>3, <1>2
<1>8. TypeOK'
  BY <1>1, <1>3, <1>4, <1>6 DEF TypeOK, mainVars
<1>9. ResultInv'
  BY <1>4 DEF ResultInv, ReturnExplained, mainVars
<1>10. StartInv'
  <2>1. Main \in Owners /\ main' = main /\ result' = result
    BY <1>4 DEF Owners, mainVars
  <2>2. CASE owner = Main
    <3>1. reply' = [reply EXCEPT ![Main] = answer]
      BY <2>2, <1>3, <1>7
    <3>2. reply'[Main] = answer
      BY <3>1, <2>1 DEF TypeOK
    <3>3. answer = "rejected" => clientRan
      BY <2>2, <1>5, <1>6, <1>7 DEF StartInv
    <3>. QED  BY <2>1, <2>2, <3>2, <3>3, <1>4, <1>7 DEF StartInv
  <2>3. CASE owner # Main
    <3>1. reply'[Main] = reply[Main]
      BY <2>1, <2>3, <1>3, <1>1 DEF TypeOK
    <3>2. \A i \in Pending' : main = "await" /\ reply[Main] = "none" /\ requests'[i][2] = "run"
      BY <1>2 DEF StartInv
    <3>3. \A i, j \in Pending' : i = j
      <4>. SUFFICES ASSUME NEW i \in Pending', NEW j \in Pending' PROVE i = j
        OBVIOUS
      <4>1. i + 1 = j + 1
        BY <1>2 DEF StartInv
      <4>. QED  BY <4>1, <1>2
    <3>4. run' # "idle" /\ ~clientRan' => main # "start" /\ Pending' = {}
      <4>. SUFFICES ASSUME run' # "idle", ~clientRan' PROVE main # "start" /\ Pending' = {}
        OBVIOUS
      <4>1. run # "idle" /\ ~clientRan
        BY <2>3, <1>3, <1>4, <1>6
      <4>. QED  BY <4>1, <1>2 DEF StartInv
    <3>. QED  BY <2>1, <3>1, <3>2, <3>3, <3>4, <1>4 DEF StartInv
  <2>. QED  BY <2>2, <2>3
<1>. QED  BY <1>8, <1>9, <1>10

\* A handler sends its request, or takes its answer.
LEMMA HandlerKeeps == ASSUME IInv, NEW h \in Handlers, HandlerStep(h) PROVE IInv'
<1>. USE DEF IInv
<1>0. h \in Owners /\ h # Main /\ Main \in Owners
  BY OwnersAssumption DEF Owners
<1>1. CASE HandlerSends(h)
  <2>1. Sent(h, handler[h]) /\ handler[h] \in Kinds
        /\ UNCHANGED <<signalled, stopped, mainVars, reply, loopVars>>
        /\ handler' = [handler EXCEPT ![h] = IF handler[h] = "pause" THEN "idle" ELSE "await"]
    BY <1>1 DEF HandlerSends
  <2>2. TypeOK'
    BY <2>1, <1>0, SendAppends DEF TypeOK, mainVars, loopVars
  <2>3. ResultInv'
    BY <2>1 DEF ResultInv, ReturnExplained, mainVars, loopVars
  <2>4. Pending' = Pending /\ \A i \in Pending : requests'[i] = requests[i]
    BY <2>1, HandlerNotPending
  <2>5. StartInv'
    BY <2>1, <2>4 DEF StartInv, mainVars, loopVars
  <2>. QED  BY <2>2, <2>3, <2>5
<1>2. CASE HandlerAnswered(h)
  <2>1. /\ UNCHANGED <<signalled, stopped, mainVars, requests, loopVars>>
        /\ reply' = [reply EXCEPT ![h] = "none"]
        /\ handler' = [handler EXCEPT ![h] = "idle"]
    BY <1>2 DEF HandlerAnswered, Answered
  <2>2. TypeOK'
    BY <2>1, <1>0 DEF TypeOK, mainVars, loopVars
  <2>3. ResultInv'
    BY <2>1 DEF ResultInv, ReturnExplained, mainVars, loopVars
  <2>4. reply'[Main] = reply[Main] /\ Pending' = Pending
    BY <2>1, <1>0 DEF TypeOK, Pending
  <2>5. StartInv'
    BY <2>1, <2>4 DEF StartInv, mainVars, loopVars
  <2>. QED  BY <2>2, <2>3, <2>5
<1>. QED  BY <1>1, <1>2 DEF HandlerStep

\* The start-up run is sent once.
LEMMA StartSendsKeeps == ASSUME IInv, StartSends PROVE IInv'
<1>. USE DEF IInv
<1>1. /\ Main \in Owners /\ "run" \in Kinds /\ Sent(Main, "run")
      /\ main = "start" /\ main' = "await"
      /\ UNCHANGED <<signalled, stopped, result, late, server, handler, reply, loopVars>>
  BY DEF StartSends, Owners, Kinds
<1>2. /\ Len(requests) \in Nat /\ requests' \in Seq(Owners \X Kinds)
      /\ Len(requests') = Len(requests) + 1
      /\ \A i \in 1..Len(requests) : requests'[i] = requests[i]
      /\ requests'[Len(requests) + 1] = <<Main, "run">>
  BY <1>1, SendAppends DEF TypeOK
<1>3. Pending = {} /\ reply[Main] = "none"
  BY <1>1 DEF StartInv, TypeOK
<1>4. Pending' = {Len(requests) + 1}
  BY <1>2, <1>3 DEF Pending
<1>5. TypeOK'
  BY <1>1, <1>2 DEF TypeOK, loopVars
<1>6. ResultInv'
  BY <1>1 DEF ResultInv, ReturnExplained, loopVars
<1>7. run # "idle" => clientRan
  BY <1>1 DEF StartInv
<1>8. StartInv'
  BY <1>1, <1>2, <1>3, <1>4, <1>7 DEF StartInv, loopVars
<1>. QED  BY <1>5, <1>6, <1>8

\* The answer to the start-up run.
LEMMA StartAnsweredKeeps == ASSUME IInv, StartAnswered PROVE IInv'
<1>. USE DEF IInv
<1>1. /\ main = "await" /\ reply[Main] # "none" /\ Main \in Owners
      /\ reply' = [reply EXCEPT ![Main] = "none"]
      /\ UNCHANGED <<signalled, late, handler, requests, loopVars>>
  BY DEF StartAnswered, Answered, Owners
<1>2. reply'[Main] = "none" /\ Pending' = Pending /\ Pending = {}
      /\ reply[Main] \in Answers
  BY <1>1 DEF TypeOK, StartInv, Pending
<1>3. \/ main' = "select" /\ UNCHANGED <<result, server, stopped>>
      \/ /\ main' = "shutdown" /\ result' = reply[Main] /\ reply[Main] # "ok"
         /\ server' = "draining" /\ stopped' = TRUE
  BY DEF StartAnswered
<1>4. TypeOK'
  BY <1>1, <1>2, <1>3 DEF TypeOK, loopVars
<1>5. ResultInv'
  BY <1>1, <1>2, <1>3 DEF ResultInv, ReturnExplained, loopVars, Answers
<1>6. StartInv'
  BY <1>1, <1>2, <1>3 DEF StartInv, loopVars, TypeOK
<1>. QED  BY <1>4, <1>5, <1>6

\* The invariant behind ReturnExplained holds along every behaviour.
LEMMA IInvHolds == Spec => []IInv
<1>1. IInv /\ [Next]_vars => IInv'
  <2> SUFFICES ASSUME IInv, [Next]_vars PROVE IInv'
    OBVIOUS
  <2>. USE DEF IInv
  <2>1. ASSUME NEW h \in Handlers, NEW kind \in Kinds, Request(h, kind) PROVE IInv'
    <3>1. TypeOK'
      BY <2>1 DEF Request, TypeOK, mainVars, loopVars
    <3>2. ResultInv' /\ StartInv'
      BY <2>1 DEF Request, ResultInv, StartInv, ReturnExplained, Pending, mainVars, loopVars
    <3>. QED  BY <3>1, <3>2
  <2>2. CASE Signal
    BY <2>2 DEF Signal, TypeOK, ResultInv, StartInv, ReturnExplained, Pending, mainVars, loopVars
  <2>3. CASE SourceFails
    BY <2>3 DEF SourceFails, TypeOK, RunStates, ResultInv, StartInv, ReturnExplained, Pending, mainVars
  <2>4. CASE LoopLeaves \/ LoopEnds
    BY <2>4 DEF LoopLeaves, LoopEnds, TypeOK, ResultInv, StartInv, ReturnExplained, Pending,
                mainVars
  <2>5. CASE SeesSignal
    <3>1. TypeOK' /\ ResultInv'
      BY <2>5 DEF SeesSignal, TypeOK, ResultInv, ReturnExplained, Answers, loopVars
    <3>2. Pending' = Pending
      BY <2>5 DEF SeesSignal, Pending
    <3>3. StartInv'
      BY <2>5, <3>2 DEF SeesSignal, StartInv, loopVars
    <3>. QED  BY <3>1, <3>3
  <2>6. CASE SeesLoopEnd
    <3>1. TypeOK' /\ ResultInv'
      BY <2>6 DEF SeesLoopEnd, TypeOK, ResultInv, ReturnExplained, Answers, loopVars
    <3>2. Pending' = Pending
      BY <2>6 DEF SeesLoopEnd, Pending
    <3>3. StartInv'
      BY <2>6, <3>2 DEF SeesLoopEnd, StartInv, loopVars
    <3>. QED  BY <3>1, <3>3
  <2>7. CASE DeadlinePasses
    BY <2>7 DEF DeadlinePasses, TypeOK, ResultInv, StartInv, ReturnExplained, Pending, loopVars
  <2>8. CASE ServerShut
    BY <2>8 DEF ServerShut, TypeOK, ResultInv, StartInv, ReturnExplained, Pending, loopVars
  <2>9. CASE Joined
    BY <2>9 DEF Joined, TypeOK, ResultInv, StartInv, ReturnExplained, Pending, loopVars
  <2>10. CASE UNCHANGED vars
    BY <2>10 DEF vars, TypeOK, ResultInv, StartInv, ReturnExplained, Pending, mainVars, loopVars
  <2>. QED  BY <2>1, <2>2, <2>3, <2>4, <2>5, <2>6, <2>7, <2>8, <2>9, <2>10,
               HandleRequestKeeps, HandlerKeeps, StartSendsKeeps, StartAnsweredKeeps
            DEF Next, MainStep
<1>. QED  BY <1>1, InitHolds, PTL DEF Spec

\* runServe returns after a signal with the pipeline stopped or the deadline
\* passed, and with an error only when nothing is left running.
THEOREM ReturnAlwaysExplained == Spec => []ReturnExplained
<1>1. IInv => ReturnExplained
  BY DEF IInv, ResultInv
<1>. QED  BY <1>1, IInvHolds, PTL

===============================================================================
