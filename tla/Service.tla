------------------------------- MODULE Service -------------------------------
(***************************************************************************)
(* The service around the event loop: runServe with its start-up run and   *)
(* its ways to end, the HTTP handlers, and the channel of requests between *)
(* them.  (src/loadgen/service.go, runtime_command.go, http_server.go,     *)
(* http_commands.go, http_snapshot.go, control_state.go)                   *)
(*                                                                         *)
(* The event loop reads a request, does it and answers it in one action:   *)
(* nobody else sees the run's state in between, and that the calls it      *)
(* makes return is shown in SenderPool and ReaderStages.  Of a request     *)
(* only what decides the answer to a run is kept: "ask" stands for the     *)
(* status and the settings, whose answers nothing here depends on.         *)
(***************************************************************************)
EXTENDS Naturals, Sequences

CONSTANTS
    Handlers,       \* requests the HTTP server may serve at once
    Main,           \* the goroutine of runServe, as a sender of requests
    Capacity        \* of the channel of requests; 10 in the code

ASSUME OwnersAssumption == Main \notin Handlers
ASSUME CapacityAssumption == Capacity \in Nat \ {0}

Owners == Handlers \union {Main}
Kinds == {"ask", "run", "pause", "reset"}
RunStates == {"idle", "running", "paused", "faulted"}
Answers == {"ok", "rejected", "error"}

VARIABLES
    signalled,      \* appCtx has ended
    stopped,        \* serviceCtx has ended
    main,           \* where runServe stands
    result,         \* how it will end
    late,           \* the deadline of shutdownCtx has passed
    server,         \* the HTTP server: "serving", "draining", "closed"
    handler,        \* each handler: "idle", the request it sends, or "await"
    requests,       \* the channel, as <<owner, kind>>
    reply,          \* the reply channel of each owner
    loop,           \* the event loop: "select", "stopping", "ended"
    run,            \* state.run.state
    clientRan       \* history: the event loop has done a client's run

mainVars == <<main, result, late, server>>
loopVars == <<loop, run, clientRan>>
vars == <<signalled, stopped, mainVars, handler, requests, reply, loopVars>>

(* The start-up run is asked for with --run. *)
Init ==
    /\ signalled = FALSE /\ stopped = FALSE
    /\ main \in {"start", "select"}
    /\ result = "none" /\ late = FALSE /\ server = "serving"
    /\ handler = [h \in Handlers |-> "idle"]
    /\ requests = <<>>
    /\ reply = [o \in Owners |-> "none"]
    /\ loop = "select" /\ run = "idle" /\ clientRan = FALSE

-------------------------------------------------------------------------------
(* Sending a request: the channel takes it, or the sender waits. *)

Sent(o, kind) ==
    /\ Len(requests) < Capacity
    /\ requests' = Append(requests, <<o, kind>>)

Answered(o) ==
    /\ reply[o] # "none"
    /\ reply' = [reply EXCEPT ![o] = "none"]

(* The handlers.  A closed or draining server accepts no request; nobody    *)
(* waits for the answer to a pause.                                         *)

Request(h, kind) ==
    /\ server = "serving" /\ handler[h] = "idle"
    /\ handler' = [handler EXCEPT ![h] = kind]
    /\ UNCHANGED <<signalled, stopped, mainVars, requests, reply, loopVars>>

HandlerSends(h) ==
    /\ handler[h] \in Kinds
    /\ Sent(h, handler[h])
    /\ handler' = [handler EXCEPT ![h] = IF handler[h] = "pause" THEN "idle" ELSE "await"]
    /\ UNCHANGED <<signalled, stopped, mainVars, reply, loopVars>>

HandlerAnswered(h) ==
    /\ handler[h] = "await"
    /\ Answered(h)
    /\ handler' = [handler EXCEPT ![h] = "idle"]
    /\ UNCHANGED <<signalled, stopped, mainVars, requests, loopVars>>

HandlerStep(h) == HandlerSends(h) \/ HandlerAnswered(h)

-------------------------------------------------------------------------------
(* The event loop. *)

(* What a request makes of the run, and its answer. *)

\* Mutant: a reset that is refused goes without an answer, as a pause rightly
\* does.
DoesInSilence(kind, to, answer) ==
    \/ kind = "ask" /\ to = run /\ answer = "ok"
    \/ kind = "run" /\ run = "faulted" /\ to = run /\ answer = "rejected"
    \/ kind = "run" /\ run # "faulted" /\ to = "running" /\ answer = "ok"
    \/ kind = "pause" /\ to = (IF run = "running" THEN "paused" ELSE run) /\ answer = "none"
    \/ kind = "reset" /\ run = "running" /\ to = run /\ answer = "none"
    \/ kind = "reset" /\ run # "running" /\ to = "idle" /\ answer = "ok"

Does(kind, to, answer) ==
    \/ kind = "ask" /\ to = run /\ answer = "ok"
    \/ kind = "run" /\ run = "idle" /\ to = "running" /\ answer = "ok"
    \/ kind = "run" /\ run = "idle" /\ to = "faulted" /\ answer = "error"
    \/ kind = "run" /\ run = "faulted" /\ to = run /\ answer = "rejected"
    \/ kind = "run" /\ run \in {"running", "paused"} /\ to = "running" /\ answer = "ok"
    \/ kind = "pause" /\ run = "running" /\ to = "paused" /\ answer = "none"
    \/ kind = "pause" /\ run # "running" /\ to = run /\ answer = "none"
    \/ kind = "reset" /\ run = "running" /\ to = run /\ answer = "rejected"
    \/ kind = "reset" /\ run # "running" /\ to = "idle" /\ answer = "ok"

HandleRequest ==
    /\ loop = "select" /\ requests # <<>>
    /\ LET owner == Head(requests)[1]
           kind == Head(requests)[2]
       IN  /\ \E to \in RunStates, answer \in Answers \union {"none"} :
                /\ Does(kind, to, answer)
                /\ run' = to
                /\ reply' = IF kind = "pause" THEN reply
                            ELSE [reply EXCEPT ![owner] = answer]
           /\ clientRan' = (clientRan \/ (owner # Main /\ kind = "run"))
    /\ requests' = Tail(requests)
    /\ UNCHANGED <<signalled, stopped, mainVars, handler, loop>>

SourceFails ==
    /\ loop = "select" /\ run \in {"running", "paused"}
    /\ run' = "faulted"
    /\ UNCHANGED <<signalled, stopped, mainVars, handler, requests, reply, loop, clientRan>>

LoopLeaves ==
    /\ loop = "select" /\ stopped
    /\ loop' = "stopping"
    /\ UNCHANGED <<signalled, stopped, mainVars, handler, requests, reply, run, clientRan>>

LoopEnds ==
    /\ loop = "stopping"
    /\ loop' = "ended"
    /\ UNCHANGED <<signalled, stopped, mainVars, handler, requests, reply, run, clientRan>>

-------------------------------------------------------------------------------
(* runServe. *)

(* The process is told to end; serviceCtx is a child of appCtx. *)
Signal ==
    /\ ~signalled
    /\ signalled' = TRUE /\ stopped' = TRUE
    /\ UNCHANGED <<mainVars, handler, requests, reply, loopVars>>

StartSends ==
    /\ main = "start"
    /\ Sent(Main, "run")
    /\ main' = "await"
    /\ UNCHANGED <<signalled, stopped, result, late, server, handler, reply, loopVars>>

(* A start that failed or was refused stops the service; shutdownHTTPServer *)
(* begins at once.                                                          *)
StartAnswered ==
    /\ main = "await"
    /\ Answered(Main)
    /\ IF reply[Main] = "ok"
          THEN /\ main' = "select"
               /\ UNCHANGED <<result, server, stopped>>
          ELSE /\ main' = "shutdown" /\ result' = reply[Main]
               /\ server' = "draining" /\ stopped' = TRUE
    /\ UNCHANGED <<signalled, late, handler, requests, loopVars>>

SeesSignal ==
    /\ main = "select" /\ signalled
    /\ main' = "shutdown" /\ result' = "ok" /\ server' = "draining"
    /\ UNCHANGED <<signalled, stopped, late, handler, requests, reply, loopVars>>

(* The other case of the select: the HTTP server is not shut down. *)
SeesLoopEnd ==
    /\ main = "select" /\ loop = "ended"
    /\ main' = "returned" /\ result' = "ok"
    /\ UNCHANGED <<signalled, stopped, late, server, handler, requests, reply, loopVars>>

DeadlinePasses ==
    /\ main \in {"shutdown", "join"} /\ ~late
    /\ late' = TRUE
    /\ UNCHANGED <<signalled, stopped, main, result, server, handler, requests, reply, loopVars>>

\* Mutant: Shutdown is given a context without a deadline.
ServerShutInPatience ==
    /\ main = "shutdown"
    /\ \A h \in Handlers : handler[h] = "idle"
    /\ main' = "join" /\ server' = "closed"
    /\ UNCHANGED <<signalled, stopped, result, late, handler, requests, reply, loopVars>>

(* Shutdown waits for the handlers until the deadline; then Close. *)
ServerShut ==
    /\ main = "shutdown"
    /\ late \/ \A h \in Handlers : handler[h] = "idle"
    /\ main' = "join" /\ server' = "closed"
    /\ UNCHANGED <<signalled, stopped, result, late, handler, requests, reply, loopVars>>

\* Mutant: the deadline ends this wait after a start that failed, too.
JoinedInTime ==
    /\ main = "join"
    /\ loop = "ended" \/ late
    /\ main' = "returned"
    /\ UNCHANGED <<signalled, stopped, result, late, server, handler, requests, reply, loopVars>>

(* After a start that failed, the wait for the event loop has no deadline. *)
Joined ==
    /\ main = "join"
    /\ loop = "ended" \/ (late /\ result = "ok")
    /\ main' = "returned"
    /\ UNCHANGED <<signalled, stopped, result, late, server, handler, requests, reply, loopVars>>

MainStep ==
    \/ StartSends \/ StartAnswered \/ SeesSignal \/ SeesLoopEnd
    \/ ServerShut \/ Joined

-------------------------------------------------------------------------------
(* The process ends with runServe. *)
Next ==
    /\ main # "returned"
    /\ \/ Signal \/ DeadlinePasses \/ MainStep
       \/ HandleRequest \/ SourceFails \/ LoopLeaves \/ LoopEnds
       \/ \E h \in Handlers : HandlerStep(h)
       \/ \E h \in Handlers, kind \in Kinds : Request(h, kind)

Spec == Init /\ [][Next]_vars

(* Every goroutine that can run does, a deadline passes, and the calls of   *)
(* the event loop return.  Strong fairness stands for two promises of Go:   *)
(* the select picks at random among its ready cases, and senders blocked on *)
(* a channel are served in the order they came.                             *)
Alive(A) == main # "returned" /\ A
Fairness ==
    /\ WF_vars(Alive(MainStep)) /\ WF_vars(Alive(DeadlinePasses)) /\ WF_vars(Alive(LoopEnds))
    /\ SF_vars(Alive(HandleRequest)) /\ SF_vars(Alive(LoopLeaves))
    /\ SF_vars(Alive(StartSends))
    /\ \A h \in Handlers : SF_vars(Alive(HandlerStep(h)))

FairSpec == Spec /\ Fairness

-------------------------------------------------------------------------------
(* Properties *)

TypeOK ==
    /\ signalled \in BOOLEAN /\ stopped \in BOOLEAN /\ late \in BOOLEAN /\ clientRan \in BOOLEAN
    /\ main \in {"start", "await", "select", "shutdown", "join", "returned"}
    /\ result \in Answers \union {"none"}
    /\ server \in {"serving", "draining", "closed"}
    /\ handler \in [Handlers -> Kinds \union {"idle", "await"}]
    /\ requests \in Seq(Owners \X Kinds)
    /\ reply \in [Owners -> Answers \union {"none"}]
    /\ loop \in {"select", "stopping", "ended"}
    /\ run \in RunStates

(* Whichever way runServe ends, its result says how: after a signal the     *)
(* pipeline has been stopped or the deadline has passed; after a start that *)
(* failed or was refused nothing is left running, and a refusal means that  *)
(* a client's run came before the start-up run.                             *)
ReturnExplained ==
    main = "returned" =>
        /\ result = "ok" => signalled /\ (loop = "ended" \/ late)
        /\ result # "ok" => loop = "ended" /\ server = "closed"
        /\ result = "rejected" => clientRan

(* As long as the service is not stopped, every request is answered, the    *)
(* start-up run's too, with the channel full, pauses nobody waits for, and  *)
(* runs that fault.                                                         *)
RequestsAnswered ==
    /\ \A h \in Handlers : handler[h] # "idle" ~> (handler[h] = "idle" \/ stopped)
    /\ main \in {"start", "await"} ~> (main \notin {"start", "await"} \/ stopped)

(* A stopped service ends, with handlers left waiting for an event loop     *)
(* that is gone, unless the start-up run itself is what the event loop has  *)
(* left unread: runServe then waits for its answer for ever.                *)
StartUnread == main \in {"start", "await"} /\ loop = "ended" /\ reply[Main] = "none"
StoppedServiceEnds == stopped ~> (main = "returned" \/ StartUnread)
===============================================================================
