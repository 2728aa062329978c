----------------------------- MODULE HttpAdapter -----------------------------
(***************************************************************************)
(* The browser's link to the load generator: the status poll, the chain    *)
(* of commands and their receipts, with the server reduced to what its     *)
(* HTTP handlers and event loop promise.                                   *)
(* (src/frontend/src/adapters/HttpAdapter.ts; server: http_commands.go,    *)
(* http_snapshot.go, control_state.go)                                     *)
(*                                                                         *)
(* Script code runs to completion, so one callback is one action.  Between *)
(* a fetch and its continuation the request crosses the network, waits in  *)
(* a handler and in the event loop's FIFO channel; each leg is an action.  *)
(* A client that gave up on a fetch does not take its request back.        *)
(*                                                                         *)
(* "set-live" stands for the settings accepted in every run state (TPS,    *)
(* installed flag, worker counts), "set-idle-only" for the three accepted  *)
(* in an idle run only.  Telemetry is reduced to `version`, the number of  *)
(* changes of the server's state a status was taken after.                 *)
(***************************************************************************)
EXTENDS Integers, Sequences

CONSTANTS
    CommandTypes,   \* the types of command the user may dispatch
    Values,         \* values of a setting inside the server's limits
    InitialValue,   \* the one every setting starts with
    OutOfRange,     \* a value outside them
    MaxCommands,    \* bound: commands dispatched
    MaxFailures,    \* bound: fetches that fail
    MaxForeign      \* bound: changes that are not this adapter's

AllTypes == {"run", "pause", "reset", "set-live", "set-idle-only", "set-http-timeout"}

ASSUME TypesAssumption == CommandTypes \subseteq AllTypes
ASSUME ValuesAssumption ==
    Values \subseteq Nat \ {0} /\ InitialValue \in Values /\ OutOfRange \in Nat \ Values
ASSUME BoundsAssumption == {MaxCommands, MaxFailures, MaxForeign} \subseteq Nat

NoValue == 0
RunStates == {"idle", "running", "paused", "faulted"}
ServerStates == [run : RunStates, live : Values, idleOnly : Values]
Setters == {"set-live", "set-idle-only"}
Commands ==
    [type : CommandTypes \ Setters, value : {NoValue}] \cup
    [type : CommandTypes \cap Setters, value : Values \cup {OutOfRange}]
PollSlots == {1, 2}     \* requestInFlight keeps the second one free

VARIABLES
    snapshot,   \* this.snapshot
    polls,      \* the status request of each slot
    cmd,        \* commands by sequence number: [type, value, stage, place]
    disposed,   \* this.disposed
    requests,   \* the event loop's channel: command numbers, -slot for a poll,
                \* 0 for a poll nobody waits for any more
    server,     \* the state the event loop keeps
    version,    \* changes of `server` so far
    failures, foreign,  \* bounded by MaxFailures and MaxForeign
    (* history *)
    handled,    \* command numbers in the order the event loop took them
    seen        \* version of the last connected snapshot

clientVars == <<snapshot, disposed, seen>>
serverVars == <<server, version, handled>>
boundVars == <<failures, foreign>>
vars == <<clientVars, polls, cmd, requests, serverVars, boundVars>>

-------------------------------------------------------------------------------
(* createSnapshot. *)

Blank(connection) ==
    [connection |-> connection, run |-> "idle", live |-> NoValue,
     idleOnly |-> NoValue, version |-> 0]

Decoded(status, ver) ==
    [connection |-> "connected", run |-> status.run, live |-> status.live,
     idleOnly |-> status.idleOnly, version |-> ver]

NoPoll == [stage |-> "none", status |-> <<>>, version |-> 0, after |-> {}]

Init ==
    /\ snapshot = Blank("connecting")
    /\ polls = [p \in PollSlots |-> NoPoll]
    /\ cmd = <<>>
    /\ disposed = FALSE
    /\ requests = <<>>
    /\ server \in [run : {"idle", "running"}, live : {InitialValue},
                   idleOnly : {InitialValue}]
    /\ version = 0 /\ failures = 0 /\ foreign = 0
    /\ handled = <<>> /\ seen = 0

-------------------------------------------------------------------------------
(* The server: one event loop takes the requests in the order they came.   *)

\* What the loop may make of a command in state s: the new state and whether
\* the command is done, refused (409) or failed (422).  The client and the
\* handlers test a value against the same limits, so a value out of range
\* gets no further than the client and the handlers' 400 is left out.
Effects(c, s) ==
    CASE c.type = "run" /\ s.run = "idle" ->
             {<<[s EXCEPT !.run = "running"], "done">>,
              <<[s EXCEPT !.run = "faulted"], "failed">>}
      [] c.type = "run" /\ s.run = "paused" -> {<<[s EXCEPT !.run = "running"], "done">>}
      [] c.type = "run" /\ s.run = "running" -> {<<s, "done">>}
      [] c.type = "run" /\ s.run = "faulted" -> {<<s, "refused">>}
      [] c.type = "pause" ->
             {<<IF s.run = "running" THEN [s EXCEPT !.run = "paused"] ELSE s, "done">>}
      [] c.type = "reset" ->
             {IF s.run = "running" THEN <<s, "refused">>
              ELSE <<[s EXCEPT !.run = "idle"], "done">>}
      [] c.type = "set-live" -> {<<[s EXCEPT !.live = c.value], "done">>}
      [] c.type = "set-idle-only" ->
             {IF s.run = "idle" THEN <<[s EXCEPT !.idleOnly = c.value], "done">>
              ELSE <<s, "refused">>}

Becomes(s) ==
    /\ server' = s
    /\ version' = IF s = server THEN version ELSE version + 1

LoopAnswersPoll ==
    /\ requests # <<>> /\ Head(requests) < 0
    /\ LET p == -Head(requests) IN
       polls' = [polls EXCEPT ![p].stage = "answered", ![p].status = server,
                              ![p].version = version]
    /\ requests' = Tail(requests)
    /\ UNCHANGED <<clientVars, cmd, serverVars, boundVars>>

\* The answer to a poll that was given up goes into its reply channel and is
\* read by nobody.
LoopAnswersNobody ==
    /\ requests # <<>> /\ Head(requests) = 0
    /\ requests' = Tail(requests)
    /\ UNCHANGED <<clientVars, polls, cmd, serverVars, boundVars>>

LoopHandlesCommand ==
    /\ requests # <<>> /\ Head(requests) > 0
    /\ LET id == Head(requests) IN
       \E effect \in Effects(cmd[id], server) :
           /\ Becomes(effect[1])
           /\ cmd' = [cmd EXCEPT ![id].place = effect[2]]
           /\ handled' = Append(handled, id)
    /\ requests' = Tail(requests)
    /\ UNCHANGED <<clientVars, polls, boundVars>>

\* Another client's command, or a source error that ends the run.
ForeignChange ==
    /\ foreign < MaxForeign
    /\ foreign' = foreign + 1
    /\ \/ \E c \in Commands :
              /\ c.type # "set-http-timeout" /\ c.value # OutOfRange
              /\ \E effect \in Effects(c, server) : effect[1] # server /\ Becomes(effect[1])
       \/ server.run \in {"running", "paused"} /\ Becomes([server EXCEPT !.run = "faulted"])
    /\ UNCHANGED <<clientVars, polls, cmd, requests, handled, failures>>

-------------------------------------------------------------------------------
(* poll *)

Accepted == {id \in DOMAIN cmd : cmd[id].stage = "accepted"}

\* Mutant: the timer starts a poll while one is in flight.
PollStartOverlapping ==
    /\ ~disposed
    /\ \E p \in PollSlots :
           /\ polls[p].stage = "none"
           /\ polls' = [polls EXCEPT ![p] = [NoPoll EXCEPT !.stage = "sent",
                                                           !.after = Accepted]]
    /\ UNCHANGED <<clientVars, cmd, requests, serverVars, boundVars>>

PollStart ==
    /\ ~disposed
    /\ \A p \in PollSlots : polls[p].stage = "none"
    /\ polls' = [polls EXCEPT ![1] = [NoPoll EXCEPT !.stage = "sent", !.after = Accepted]]
    /\ UNCHANGED <<clientVars, cmd, requests, serverVars, boundVars>>

\* Mutant: a status request overtakes the commands waiting there.
PollOvertakes(p) ==
    /\ polls[p].stage = "sent"
    /\ polls' = [polls EXCEPT ![p].stage = "queued"]
    /\ requests' = <<-p>> \o requests
    /\ UNCHANGED <<clientVars, cmd, serverVars, boundVars>>

\* The handler of the status request gets it into the event loop's channel.
PollEnqueued(p) ==
    /\ polls[p].stage = "sent"
    /\ polls' = [polls EXCEPT ![p].stage = "queued"]
    /\ requests' = Append(requests, -p)
    /\ UNCHANGED <<clientVars, cmd, serverVars, boundVars>>

Publish(s) ==
    IF disposed THEN UNCHANGED <<snapshot, seen>>
    ELSE /\ snapshot' = s
         /\ seen' = IF s.connection = "connected" THEN s.version ELSE seen

PollSettles(p) ==
    /\ polls[p].stage = "answered"
    /\ polls' = [polls EXCEPT ![p] = NoPoll]
    /\ Publish(Decoded(polls[p].status, polls[p].version))
    /\ UNCHANGED <<cmd, disposed, requests, serverVars, boundVars>>

\* What is left of the request at the server has no effect.
GivesUp(p) ==
    requests' = [i \in DOMAIN requests |-> IF requests[i] = -p THEN 0 ELSE requests[i]]

\* Mutant: requestInFlight is not reset when a poll fails.
PollFailsForGood(p) ==
    /\ polls[p].stage \notin {"none", "dead"}
    /\ failures < MaxFailures /\ failures' = failures + 1
    /\ polls' = [polls EXCEPT ![p] = [NoPoll EXCEPT !.stage = "dead"]]
    /\ GivesUp(p)
    /\ Publish(Blank("error"))
    /\ UNCHANGED <<cmd, disposed, serverVars, foreign>>

\* A network error, a status that is no success or a body that does not
\* decode.
PollFails(p) ==
    /\ polls[p].stage # "none"
    /\ failures < MaxFailures /\ failures' = failures + 1
    /\ polls' = [polls EXCEPT ![p] = NoPoll]
    /\ GivesUp(p)
    /\ Publish(Blank("error"))
    /\ UNCHANGED <<cmd, disposed, serverVars, foreign>>

-------------------------------------------------------------------------------
(* dispatch and sendCommand *)

CanDispatch(c) ==
    \/ c.type = "reset"
    \/ c.type \in {"run", "pause"} /\ snapshot.connection # "error"
    \/ /\ c.type \in Setters
       /\ snapshot.connection = "connected"
       /\ c.value # OutOfRange
       /\ c.type = "set-idle-only" => snapshot.run = "idle"

Refuses(c) == c.type = "set-http-timeout" \/ disposed \/ ~CanDispatch(c)

Dispatch(c) ==
    /\ Len(cmd) < MaxCommands
    /\ cmd' = Append(cmd, [type |-> c.type, value |-> c.value, place |-> "nowhere",
                           stage |-> IF Refuses(c) THEN "rejected" ELSE "queued"])
    /\ UNCHANGED <<clientVars, polls, requests, serverVars, boundVars>>

Open(id) == cmd[id].stage \in {"queued", "sent"}

\* Mutant: commands are posted as they come.
SendAtOnce(id) ==
    /\ cmd[id].stage = "queued"
    /\ cmd' = IF Refuses(cmd[id]) THEN [cmd EXCEPT ![id].stage = "rejected"]
              ELSE [cmd EXCEPT ![id].stage = "sent", ![id].place = "transit"]
    /\ UNCHANGED <<clientVars, polls, requests, serverVars, boundVars>>

\* Mutant: the chain goes on only after an accepted command.
SendAfterSuccess(id) ==
    /\ cmd[id].stage = "queued"
    /\ \A other \in 1..(id - 1) : cmd[other].stage = "accepted"
    /\ cmd' = IF Refuses(cmd[id]) THEN [cmd EXCEPT ![id].stage = "rejected"]
              ELSE [cmd EXCEPT ![id].stage = "sent", ![id].place = "transit"]
    /\ UNCHANGED <<clientVars, polls, requests, serverVars, boundVars>>

\* The link of the chain runs once the receipt before it is settled.
Send(id) ==
    /\ cmd[id].stage = "queued"
    /\ \A other \in 1..(id - 1) : ~Open(other)
    /\ cmd' = IF Refuses(cmd[id]) THEN [cmd EXCEPT ![id].stage = "rejected"]
              ELSE [cmd EXCEPT ![id].stage = "sent", ![id].place = "transit"]
    /\ UNCHANGED <<clientVars, polls, requests, serverVars, boundVars>>

CommandEnqueued(id) ==
    /\ cmd[id].place = "transit"
    /\ cmd' = [cmd EXCEPT ![id].place = "queue"]
    /\ requests' = Append(requests, id)
    /\ UNCHANGED <<clientVars, polls, serverVars, boundVars>>

\* Every command but "pause" is answered by the loop; "pause" is answered
\* when it is in the channel.
Answered(id) ==
    \/ cmd[id].place \in {"done", "refused", "failed"}
    \/ cmd[id].type = "pause" /\ cmd[id].place = "queue"

Receipt(id) ==
    /\ cmd[id].stage = "sent" /\ Answered(id)
    /\ cmd' = [cmd EXCEPT ![id].stage =
                   IF cmd[id].place \in {"refused", "failed"} THEN "rejected" ELSE "accepted"]
    /\ UNCHANGED <<clientVars, polls, requests, serverVars, boundVars>>

\* The fetch rejects, or a proxy answers for the server: a retryable
\* rejection.  A request not yet at the server may be gone or still on its way.
CommandFails(id) ==
    /\ cmd[id].stage = "sent"
    /\ failures < MaxFailures /\ failures' = failures + 1
    /\ \/ cmd' = [cmd EXCEPT ![id].stage = "lost"]
       \/ /\ cmd[id].place = "transit"
          /\ cmd' = [cmd EXCEPT ![id].stage = "lost", ![id].place = "gone"]
    /\ UNCHANGED <<clientVars, polls, requests, serverVars, foreign>>

-------------------------------------------------------------------------------
(* dispose *)

\* The timer is cleared and the poll aborted; a command's fetch goes on.
Dispose ==
    /\ ~disposed
    /\ disposed' = TRUE
    /\ UNCHANGED <<snapshot, seen, polls, cmd, requests, serverVars, boundVars>>

\* The aborted fetch rejects and its continuation publishes nothing.
PollAborted(p) ==
    /\ disposed /\ polls[p].stage # "none"
    /\ polls' = [polls EXCEPT ![p] = NoPoll]
    /\ GivesUp(p)
    /\ UNCHANGED <<clientVars, cmd, serverVars, boundVars>>

ServerNext == LoopAnswersPoll \/ LoopAnswersNobody \/ LoopHandlesCommand
PollNext ==
    \/ PollStart
    \/ \E p \in PollSlots : PollEnqueued(p) \/ PollSettles(p) \/ PollAborted(p)
CommandStep(id) == Send(id) \/ CommandEnqueued(id) \/ Receipt(id)
CommandNext == \E id \in DOMAIN cmd : CommandStep(id)
FaultNext ==
    \/ \E p \in PollSlots : PollFails(p)
    \/ \E id \in DOMAIN cmd : CommandFails(id)

LinkNext ==
    \/ ServerNext \/ ForeignChange \/ PollNext \/ CommandNext \/ FaultNext \/ Dispose

Next == LinkNext \/ \E c \in Commands : Dispatch(c)

Spec == Init /\ [][Next]_vars

\* The timer ticks, a fetch settles, the event loop and the promise chain
\* run.  Failures, foreign changes and the user are free.  Of the steps under
\* one conjunct the next is enabled by the last, so each of them is taken.
LinkFairness ==
    /\ WF_vars(ServerNext) /\ WF_vars(PollNext)
    /\ \A id \in 1..MaxCommands : WF_vars(id \in DOMAIN cmd /\ CommandStep(id))

FairSpec == Spec /\ LinkFairness

-------------------------------------------------------------------------------
Stages == {"queued", "sent", "accepted", "rejected", "lost"}
Places == {"nowhere", "transit", "queue", "done", "refused", "failed", "gone"}
Polls ==
    [stage : {"none", "sent", "queued", "answered"}, status : ServerStates \cup {<<>>},
     version : Nat, after : SUBSET Nat]

\* Every variable has the values the code can give it; in particular a
\* snapshot shows values exactly when it is connected.
TypeOK ==
    /\ snapshot \in {Blank("connecting"), Blank("error")} \cup
                    [connection : {"connected"}, run : RunStates, live : Values,
                     idleOnly : Values, version : Nat]
    /\ polls \in [PollSlots -> Polls]
    /\ cmd \in Seq([type : AllTypes, value : Nat, stage : Stages, place : Places])
    /\ disposed \in BOOLEAN
    /\ requests \in Seq(Int) /\ handled \in Seq(Nat)
    /\ server \in ServerStates
    /\ {version, seen, failures, foreign} \subseteq Nat

\* The event loop takes this adapter's commands in the order the user gave
\* them; only one whose fetch failed, and whose request went on without it,
\* may come after a later one.
CommandsInOrder ==
    \A i, j \in DOMAIN handled :
        i < j /\ handled[i] > handled[j] => cmd[handled[j]].stage = "lost"

\* A status asked for after a command was reported accepted was taken after
\* the event loop carried that command out, "pause" included, although its
\* answer does not wait for the loop.
FreshAfterReceipt ==
    \A p \in PollSlots : polls[p].stage = "answered" =>
        \A id \in polls[p].after : cmd[id].place = "done"

\* The user is never shown an older state of the server after a newer one,
\* not even with a failed poll between the two; and a disposed adapter
\* publishes nothing more, whatever answers are still on their way to it.
SnapshotsInServerOrder ==
    [][seen' >= seen /\ (disposed => snapshot' = snapshot)]_vars

\* Every command the user dispatched gets its receipt, also one behind a
\* command that failed and one dispatched before the adapter was disposed.
EveryCommandAnswered ==
    \A id \in 1..MaxCommands :
        (id \in DOMAIN cmd /\ Open(id)) ~> (id \in DOMAIN cmd /\ ~Open(id))

\* Once failures and changes stop, the adapter shows the server's state for
\* good, unless it was disposed.
Converges ==
    <>[](disposed \/ snapshot = Decoded(server, version))

===============================================================================
