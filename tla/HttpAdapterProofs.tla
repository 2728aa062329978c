--------------------------- MODULE HttpAdapterProofs ---------------------------
(***************************************************************************)
(* Proofs about HttpAdapter for every set of values and command types, and *)
(* any number of commands, failures and changes from outside; at the end   *)
(* those about LiveControl, which steps the same link.                     *)
(***************************************************************************)
EXTENDS LiveControl, SequenceTheorems, TLAPS

Cmds == [type : AllTypes, value : Nat, stage : Stages, place : Places]

-------------------------------------------------------------------------------
(* Sequences that grow, shrink and change in one place. *)

\* A request at the end leaves the others where they are.
LEMMA Appended ==
    ASSUME NEW S, NEW s \in Seq(S), NEW e \in S
    PROVE  /\ Append(s, e) \in Seq(S)
           /\ DOMAIN Append(s, e) = 1..(Len(s) + 1)
           /\ \A i \in 1..Len(s) : Append(s, e)[i] = s[i]
           /\ Append(s, e)[Len(s) + 1] = e
BY LenProperties

\* When the first request is taken the others move up.
LEMMA Shifted ==
    ASSUME NEW S, NEW s \in Seq(S), s # <<>>
    PROVE  /\ Tail(s) \in Seq(S) /\ Head(s) \in S /\ Head(s) = s[1] /\ 1 \in DOMAIN s
           /\ DOMAIN Tail(s) = 1..(Len(s) - 1)
           /\ \A i \in DOMAIN Tail(s) : i + 1 \in DOMAIN s /\ Tail(s)[i] = s[i + 1]
BY HeadTailProperties, LenProperties, EmptySeq

\* A request that is given up keeps its place.
LEMMA GivenUp ==
    ASSUME NEW p \in PollSlots, requests \in Seq(Int), GivesUp(p)
    PROVE  /\ requests' \in Seq(Int) /\ DOMAIN requests' = DOMAIN requests
           /\ \A i \in DOMAIN requests :
                  requests'[i] = IF requests[i] = -p THEN 0 ELSE requests[i]
<1>1. requests \in [1..Len(requests) -> Int] /\ Len(requests) \in Nat /\ DOMAIN requests = 1..Len(requests)
  BY LenProperties
<1>2. requests' \in [1..Len(requests) -> Int]
  BY <1>1 DEF GivesUp
<1>3. requests' \in Seq(Int)
  BY <1>1, <1>2
<1>. QED  BY <1>1, <1>2, <1>3 DEF GivesUp

\* One command changes, the others stay as they are.
LEMMA Changed ==
    ASSUME cmd \in Seq(Cmds), NEW id \in DOMAIN cmd, NEW c \in Cmds,
           cmd' = [cmd EXCEPT ![id] = c]
    PROVE  /\ cmd' \in Seq(Cmds) /\ DOMAIN cmd' = DOMAIN cmd /\ Len(cmd') = Len(cmd)
           /\ cmd'[id] = c
           /\ \A other \in DOMAIN cmd : other # id => cmd'[other] = cmd[other]
BY ExceptSeq, LenProperties

-------------------------------------------------------------------------------
(* Where a command can be, and what the event loop makes of it. *)

InLimits(c) == c.type \in Setters => c.value \in Values \cup {OutOfRange}
Sendable(c) ==
    c.type # "set-http-timeout" /\ (c.type \in Setters => c.value \in Values)

\* What a receipt says and where the request is go together; only a command
\* the loop can carry out ever leaves the browser.
PlaceOK(c) ==
    /\ InLimits(c)
    /\ c.place # "nowhere" => Sendable(c)
    /\ c.stage = "queued" => c.place = "nowhere"
    /\ c.stage \in {"sent", "accepted", "lost"} => c.place # "nowhere"
    /\ c.place = "transit" => c.stage \in {"sent", "lost"}
    /\ c.stage = "accepted" => c.place = "done" \/ (c.place = "queue" /\ c.type = "pause")

PlaceInv == \A id \in DOMAIN cmd : PlaceOK(cmd[id])

LEMMA EffectsAre ==
    ASSUME NEW c, c.type \in AllTypes, Sendable(c), NEW s \in ServerStates,
           NEW e \in Effects(c, s)
    PROVE  /\ e[1] \in ServerStates
           /\ e[2] \in {"done", "refused", "failed"}
           /\ c.type = "pause" => e[2] = "done"
<1>. USE DEF Effects, ServerStates, RunStates
<1>1. CASE c.type = "run" /\ s.run = "idle"
  BY <1>1
<1>2. CASE c.type = "run" /\ s.run # "idle"
  BY <1>2
<1>3. CASE c.type = "pause"
  BY <1>3
<1>4. CASE c.type = "reset"
  BY <1>4
<1>5. CASE c.type = "set-live"
  BY <1>5 DEF Sendable, Setters
<1>6. CASE c.type = "set-idle-only"
  BY <1>6 DEF Sendable, Setters
<1>. QED  BY <1>1, <1>2, <1>3, <1>4, <1>5, <1>6 DEF AllTypes, Sendable

-------------------------------------------------------------------------------
(* The invariant. *)

\* What waits in the event loop's channel: each command that is there, once,
\* and the poll of the one slot in use.
QueueInv ==
    /\ polls[2].stage = "none"
    /\ \A k \in DOMAIN requests :
           /\ requests[k] >= -1
           /\ requests[k] = -1 => polls[1].stage = "queued"
           /\ requests[k] > 0 =>
                  requests[k] \in DOMAIN cmd /\ cmd[requests[k]].place = "queue"
    /\ \A j, k \in DOMAIN requests : requests[j] = requests[k] /\ requests[j] # 0 => j = k
    /\ \A id \in DOMAIN cmd :
           cmd[id].place = "queue" => \E k \in DOMAIN requests : requests[k] = id

\* An answer on its way is no older than what is shown.
PollInv ==
    /\ seen <= version
    /\ polls[1].stage = "answered" =>
           /\ seen <= polls[1].version /\ polls[1].version <= version
           /\ polls[1].status \in ServerStates

\* The commands a poll was sent after are done, or before it in the channel.
FreshInv ==
    /\ polls[1].stage # "none" =>
           \A id \in polls[1].after : id \in DOMAIN cmd /\ cmd[id].stage = "accepted"
    /\ \A k \in DOMAIN requests : requests[k] = -1 =>
           \A id \in polls[1].after :
               cmd[id].place = "done" \/ \E j \in 1..(k - 1) : requests[j] = id
    /\ polls[1].stage = "answered" => \A id \in polls[1].after : cmd[id].place = "done"

\* The commands behind an open one have not left the browser.
OpenInv == \A a, b \in DOMAIN cmd : b < a /\ Open(b) => cmd[a].place = "nowhere"
\* What the loop has taken has left it.
HandledInv ==
    \A i \in DOMAIN handled :
        handled[i] \in DOMAIN cmd /\ cmd[handled[i]].place \notin {"nowhere", "transit"}
\* A command behind a later one, among those taken and those in the channel,
\* has lost its fetch.
LineInv ==
    /\ CommandsInOrder
    /\ \A i \in DOMAIN handled : \A k \in DOMAIN requests :
           requests[k] > 0 /\ handled[i] > requests[k] => cmd[requests[k]].stage = "lost"
    /\ \A j, k \in DOMAIN requests :
           j < k /\ requests[k] > 0 /\ requests[j] > requests[k]
               => cmd[requests[k]].stage = "lost"
OrderInv == OpenInv /\ HandledInv /\ LineInv

LinkInv == TypeOK /\ PlaceInv /\ QueueInv /\ PollInv /\ FreshInv /\ OrderInv

-------------------------------------------------------------------------------
(* One step. *)

LEMMA CommandsTyped ==
    ASSUME TypeOK
    PROVE  cmd \in Seq(Cmds) /\ DOMAIN cmd = 1..Len(cmd) /\ Len(cmd) \in Nat
           /\ \A id \in DOMAIN cmd : cmd[id] \in Cmds
<1>1. cmd \in Seq(Cmds)
  BY DEF TypeOK, Cmds
<1>. QED  BY <1>1, LenProperties

\* A step that does not leave the commands alone adds one or changes one.
NewCommand(c) ==
    /\ c \in Cmds /\ cmd' = Append(cmd, c) /\ InLimits(c)
    /\ c.place = "nowhere" /\ c.stage \in {"queued", "rejected"}
Moved(id, c) ==
    /\ id \in DOMAIN cmd /\ c \in Cmds /\ cmd[id] \in Cmds
    /\ cmd' = [cmd EXCEPT ![id] = c]
    /\ c.type = cmd[id].type /\ c.value = cmd[id].value

\* The request at the head of the channel is a command, and carried out.
LEMMA HandledMoves ==
    ASSUME LinkInv, LoopHandlesCommand
    PROVE  \E id, c :
               /\ Moved(id, c)
               /\ cmd[id].place = "queue" /\ c.stage = cmd[id].stage
               /\ c.place \in {"done", "refused", "failed"}
               /\ c.type = "pause" => c.place = "done"
               /\ requests # <<>> /\ id = requests[1] /\ requests' = Tail(requests)
               /\ server' \in ServerStates /\ version' \in {version, version + 1}
               /\ handled' = Append(handled, id)
<1>1. requests \in Seq(Int) /\ requests # <<>> /\ server \in ServerStates
  BY DEF LinkInv, TypeOK, LoopHandlesCommand
<1>. DEFINE id == requests[1]
<1>2. Head(requests) = id /\ 1 \in DOMAIN requests
  BY <1>1, Shifted
<1>3. id \in DOMAIN cmd /\ cmd[id].place = "queue" /\ cmd[id] \in Cmds
  BY <1>2, CommandsTyped DEF LinkInv, QueueInv, LoopHandlesCommand
<1>4. PICK effect \in Effects(cmd[id], server) :
          /\ Becomes(effect[1])
          /\ cmd' = [cmd EXCEPT ![id].place = effect[2]]
          /\ handled' = Append(handled, id)
  BY <1>2 DEF LoopHandlesCommand
<1>5. Sendable(cmd[id]) /\ cmd[id].type \in AllTypes
  BY <1>3 DEF LinkInv, PlaceInv, PlaceOK, Cmds
<1>6. /\ effect[1] \in ServerStates
      /\ effect[2] \in {"done", "refused", "failed"}
      /\ cmd[id].type = "pause" => effect[2] = "done"
  BY <1>1, <1>5, EffectsAre
<1>. DEFINE c == [cmd[id] EXCEPT !.place = effect[2]]
<1>7. c \in Cmds /\ c.type = cmd[id].type /\ c.value = cmd[id].value
      /\ c.stage = cmd[id].stage /\ c.place = effect[2]
  BY <1>3, <1>6 DEF Cmds, Places
<1>8. cmd' = [cmd EXCEPT ![id] = c]
  BY <1>4
<1>. HIDE DEF c
<1>9. Moved(id, c)
  BY <1>3, <1>7, <1>8 DEF Moved
<1>10. server' \in ServerStates /\ version' \in {version, version + 1}
  BY <1>4, <1>6 DEF Becomes
<1>11. requests' = Tail(requests)
  BY DEF LoopHandlesCommand
<1>. HIDE DEF id
<1>. QED  BY <1>1, <1>3, <1>4, <1>6, <1>7, <1>9, <1>10, <1>11 DEF id

LEMMA DispatchAdds ==
    ASSUME LinkInv, NEW d \in Commands, Dispatch(d)
    PROVE  \E c : NewCommand(c)
<1>. DEFINE c == [type |-> d.type, value |-> d.value, place |-> "nowhere",
                  stage |-> IF Refuses(d) THEN "rejected" ELSE "queued"]
<1>1. d.type \in AllTypes /\ d.value \in Nat /\ InLimits(d)
  <2>1. CASE d \in [type : CommandTypes \ Setters, value : {NoValue}]
    BY <2>1, TypesAssumption DEF NoValue, InLimits
  <2>2. CASE d \in [type : CommandTypes \cap Setters, value : Values \cup {OutOfRange}]
    BY <2>2, TypesAssumption, ValuesAssumption DEF InLimits
  <2>. QED  BY <2>1, <2>2 DEF Commands
<1>2. c \in Cmds /\ InLimits(c)
  BY <1>1 DEF Cmds, Stages, Places, InLimits
<1>. QED  BY <1>1, <1>2 DEF NewCommand, Dispatch

LEMMA SendMoves ==
    ASSUME LinkInv, NEW id \in DOMAIN cmd, Send(id)
    PROVE  \E c : /\ Moved(id, c)
                  /\ cmd[id].stage = "queued" /\ \A other \in 1..(id - 1) : ~Open(other)
                  /\ \/ c.stage = "rejected" /\ c.place = cmd[id].place
                     \/ c.stage = "sent" /\ c.place = "transit" /\ Sendable(c)
<1>1. cmd \in Seq(Cmds) /\ cmd[id] \in Cmds /\ InLimits(cmd[id])
  BY CommandsTyped DEF LinkInv, PlaceInv, PlaceOK
<1>2. CASE Refuses(cmd[id])
  <2>. DEFINE c == [cmd[id] EXCEPT !.stage = "rejected"]
  <2>1. c \in Cmds /\ c.type = cmd[id].type /\ c.value = cmd[id].value
        /\ c.place = cmd[id].place /\ c.stage = "rejected"
    BY <1>1 DEF Cmds, Stages
  <2>2. cmd' = [cmd EXCEPT ![id] = c]
    BY <1>2 DEF Send
  <2>. HIDE DEF c
  <2>3. Moved(id, c)
    BY <1>1, <2>1, <2>2 DEF Moved
  <2>. QED  BY <2>1, <2>3 DEF Send
<1>3. CASE ~Refuses(cmd[id])
  <2>. DEFINE c == [cmd[id] EXCEPT !.stage = "sent", !.place = "transit"]
  <2>1. c \in Cmds /\ c.type = cmd[id].type /\ c.value = cmd[id].value
        /\ c.place = "transit" /\ c.stage = "sent"
    BY <1>1 DEF Cmds, Stages, Places
  <2>2. Sendable(c)
    <3>1. cmd[id].type # "set-http-timeout" /\ CanDispatch(cmd[id])
      BY <1>3 DEF Refuses
    <3>2. cmd[id].type \in Setters => cmd[id].value \in Values
      BY <3>1, <1>1 DEF CanDispatch, Setters, InLimits
    <3>. QED  BY <2>1, <3>1, <3>2 DEF Sendable
  <2>3. cmd' = [cmd EXCEPT ![id] = c]
    BY <1>3 DEF Send
  <2>. HIDE DEF c
  <2>4. Moved(id, c)
    BY <1>1, <2>1, <2>3 DEF Moved
  <2>. QED  BY <2>1, <2>2, <2>4 DEF Send
<1>. QED  BY <1>2, <1>3

\* A receipt, a lost fetch, a request that reaches the channel: the command
\* keeps what the user asked for.
LEMMA ReceiptMoves ==
    ASSUME LinkInv, NEW id \in DOMAIN cmd, Receipt(id)
    PROVE  \E c : /\ Moved(id, c)
                  /\ cmd[id].stage = "sent" /\ c.place = cmd[id].place
                  /\ \/ c.stage = "rejected"
                     \/ /\ c.stage = "accepted"
                        /\ c.place = "done" \/ (c.place = "queue" /\ c.type = "pause")
<1>1. cmd \in Seq(Cmds) /\ cmd[id] \in Cmds
  BY CommandsTyped DEF LinkInv
<1>. DEFINE c == [cmd[id] EXCEPT !.stage = IF cmd[id].place \in {"refused", "failed"}
                                           THEN "rejected" ELSE "accepted"]
<1>2. c \in Cmds /\ c.type = cmd[id].type /\ c.value = cmd[id].value /\ c.place = cmd[id].place
      /\ c.stage = IF cmd[id].place \in {"refused", "failed"} THEN "rejected" ELSE "accepted"
  BY <1>1 DEF Cmds, Stages
<1>3. cmd' = [cmd EXCEPT ![id] = c]
  BY DEF Receipt
<1>4. /\ cmd[id].stage = "sent"
      /\ \/ cmd[id].place \in {"done", "refused", "failed"}
         \/ cmd[id].type = "pause" /\ cmd[id].place = "queue"
  BY DEF Receipt, Answered
<1>. HIDE DEF c
<1>5. Moved(id, c)
  BY <1>1, <1>2, <1>3 DEF Moved
<1>. QED  BY <1>2, <1>4, <1>5

LEMMA EnqueuedMoves ==
    ASSUME LinkInv, NEW id \in DOMAIN cmd, CommandEnqueued(id)
    PROVE  \E c : /\ Moved(id, c)
                  /\ cmd[id].place = "transit"
                  /\ c.stage = cmd[id].stage /\ c.place = "queue"
<1>1. cmd \in Seq(Cmds) /\ cmd[id] \in Cmds
  BY CommandsTyped DEF LinkInv
<1>. DEFINE c == [cmd[id] EXCEPT !.place = "queue"]
<1>2. c \in Cmds /\ c.type = cmd[id].type /\ c.value = cmd[id].value /\ c.place = "queue"
      /\ c.stage = cmd[id].stage
  BY <1>1 DEF Cmds, Places
<1>3. cmd' = [cmd EXCEPT ![id] = c]
  BY DEF CommandEnqueued
<1>. HIDE DEF c
<1>4. Moved(id, c)
  BY <1>1, <1>2, <1>3 DEF Moved
<1>. QED  BY <1>2, <1>4 DEF CommandEnqueued

LEMMA FailureMoves ==
    ASSUME LinkInv, NEW id \in DOMAIN cmd, CommandFails(id)
    PROVE  \E c : /\ Moved(id, c)
                  /\ cmd[id].stage = "sent" /\ c.stage = "lost"
                  /\ \/ c.place = cmd[id].place
                     \/ cmd[id].place = "transit" /\ c.place = "gone"
<1>1. cmd \in Seq(Cmds) /\ cmd[id] \in Cmds
  BY CommandsTyped DEF LinkInv
<1>2. CASE cmd' = [cmd EXCEPT ![id].stage = "lost"]
  <2>. DEFINE c == [cmd[id] EXCEPT !.stage = "lost"]
  <2>1. c \in Cmds /\ c.type = cmd[id].type /\ c.value = cmd[id].value
        /\ c.place = cmd[id].place /\ c.stage = "lost"
    BY <1>1 DEF Cmds, Stages
  <2>2. cmd' = [cmd EXCEPT ![id] = c]
    BY <1>2
  <2>. HIDE DEF c
  <2>3. Moved(id, c)
    BY <1>1, <2>1, <2>2 DEF Moved
  <2>. QED  BY <2>1, <2>3 DEF CommandFails
<1>3. CASE /\ cmd[id].place = "transit"
           /\ cmd' = [cmd EXCEPT ![id].stage = "lost", ![id].place = "gone"]
  <2>. DEFINE c == [cmd[id] EXCEPT !.stage = "lost", !.place = "gone"]
  <2>1. c \in Cmds /\ c.type = cmd[id].type /\ c.value = cmd[id].value
        /\ c.place = "gone" /\ c.stage = "lost"
    BY <1>1 DEF Cmds, Stages, Places
  <2>2. cmd' = [cmd EXCEPT ![id] = c]
    BY <1>3
  <2>. HIDE DEF c
  <2>3. Moved(id, c)
    BY <1>1, <2>1, <2>2 DEF Moved
  <2>. QED  BY <1>3, <2>1, <2>3 DEF CommandFails
<1>. QED  BY <1>2, <1>3 DEF CommandFails

\* What a step leaves of the commands there are.
Kept ==
    /\ cmd' \in Seq(Cmds) /\ PlaceInv'
    /\ \A id \in DOMAIN cmd :
           /\ id \in DOMAIN cmd'
           /\ cmd[id].stage \in {"accepted", "lost"} => cmd'[id].stage = cmd[id].stage
           /\ ~Open(id) => cmd'[id].stage \notin {"queued", "sent"}
           /\ cmd[id].place \notin {"nowhere", "transit"} =>
                  cmd'[id].place \notin {"nowhere", "transit"}
           /\ cmd[id].place = "done" => cmd'[id].place = "done"

LEMMA MoveKeeps ==
    ASSUME LinkInv, NEW id, NEW c, Moved(id, c), PlaceOK(c),
           cmd[id].stage \notin {"accepted", "lost"} \/ c.stage = cmd[id].stage,
           Open(id) \/ c.stage \notin {"queued", "sent"},
           cmd[id].place \in {"nowhere", "transit"} \/ c.place \notin {"nowhere", "transit"},
           cmd[id].place # "done" \/ c.place = "done"
    PROVE  Kept
<1>1. /\ cmd' \in Seq(Cmds) /\ DOMAIN cmd' = DOMAIN cmd
      /\ cmd'[id] = c
      /\ \A other \in DOMAIN cmd : other # id => cmd'[other] = cmd[other]
  BY CommandsTyped, Changed DEF LinkInv, Moved
<1>2. PlaceInv'
  BY <1>1 DEF PlaceInv, LinkInv
<1>. QED  BY <1>1, <1>2 DEF Kept, Moved, Open

LEMMA SameKeeps ==
    ASSUME LinkInv, UNCHANGED cmd
    PROVE  Kept
BY CommandsTyped DEF LinkInv, Kept, PlaceInv, Open

LEMMA CommandsKept ==
    ASSUME LinkInv, [Next]_vars
    PROVE  Kept
<1>1. CASE UNCHANGED vars
  BY <1>1, SameKeeps DEF vars
<1>2. CASE LoopAnswersPoll \/ LoopAnswersNobody \/ ForeignChange \/ PollNext \/ Dispose
           \/ \E p \in PollSlots : PollFails(p)
  BY <1>2, SameKeeps DEF LoopAnswersPoll, LoopAnswersNobody, ForeignChange, PollNext, PollStart,
                         PollEnqueued, PollSettles, PollAborted, PollFails, Dispose
<1>3. CASE LoopHandlesCommand
  <2>1. PICK id, c : /\ Moved(id, c)
                     /\ cmd[id].place = "queue" /\ c.stage = cmd[id].stage
                     /\ c.place \in {"done", "refused", "failed"}
                     /\ c.type = "pause" => c.place = "done"
    BY <1>3, HandledMoves
  <2>2. PlaceOK(cmd[id])
    BY <2>1 DEF LinkInv, PlaceInv, Moved
  <2>3. PlaceOK(c)
    BY <2>1, <2>2 DEF PlaceOK, Moved, InLimits, Sendable
  <2>. QED  BY <2>1, <2>2, <2>3, MoveKeeps DEF Open, PlaceOK
<1>4. ASSUME NEW d \in Commands, Dispatch(d)
      PROVE  Kept
  <2>1. PICK c : NewCommand(c)
    BY <1>4, DispatchAdds
  <2>2. /\ cmd' \in Seq(Cmds) /\ DOMAIN cmd' = 1..(Len(cmd) + 1)
        /\ \A id \in 1..Len(cmd) : cmd'[id] = cmd[id]
        /\ cmd'[Len(cmd) + 1] = c
    BY <2>1, CommandsTyped, Appended DEF LinkInv, NewCommand
  <2>3. DOMAIN cmd = 1..Len(cmd) /\ Len(cmd) \in Nat
    BY CommandsTyped DEF LinkInv
  <2>4. PlaceOK(c)
    BY <2>1 DEF NewCommand, PlaceOK, Cmds
  <2>5. PlaceInv'
    BY <2>2, <2>3, <2>4 DEF PlaceInv, LinkInv
  <2>. QED  BY <2>2, <2>3, <2>5 DEF Kept, Open
<1>5. ASSUME NEW id \in DOMAIN cmd, CommandStep(id) \/ CommandFails(id)
      PROVE  Kept
  <2>1. PlaceOK(cmd[id])
    BY DEF LinkInv, PlaceInv
  <2>2. CASE Send(id)
    <3>1. PICK c : /\ Moved(id, c) /\ cmd[id].stage = "queued"
                   /\ \/ c.stage = "rejected" /\ c.place = cmd[id].place
                      \/ c.stage = "sent" /\ c.place = "transit" /\ Sendable(c)
      BY <2>2, SendMoves
    <3>2. PlaceOK(c)
      BY <2>1, <3>1 DEF PlaceOK, Moved, InLimits
    <3>. QED  BY <2>1, <3>1, <3>2, MoveKeeps DEF Open, PlaceOK
  <2>3. CASE Receipt(id)
    <3>1. PICK c : /\ Moved(id, c) /\ cmd[id].stage = "sent" /\ c.place = cmd[id].place
                   /\ \/ c.stage = "rejected"
                      \/ /\ c.stage = "accepted"
                         /\ c.place = "done" \/ (c.place = "queue" /\ c.type = "pause")
      BY <2>3, ReceiptMoves
    <3>2. cmd[id].place # "transit"
      BY <2>3 DEF Receipt, Answered
    <3>3. PlaceOK(c)
      BY <2>1, <3>1, <3>2 DEF PlaceOK, Moved, InLimits, Sendable
    <3>. QED  BY <2>1, <3>1, <3>3, MoveKeeps DEF Open
  <2>4. CASE CommandEnqueued(id)
    <3>1. PICK c : /\ Moved(id, c) /\ cmd[id].place = "transit"
                   /\ c.stage = cmd[id].stage /\ c.place = "queue"
      BY <2>4, EnqueuedMoves
    <3>2. PlaceOK(c)
      BY <2>1, <3>1 DEF PlaceOK, Moved, InLimits, Sendable
    <3>. QED  BY <2>1, <3>1, <3>2, MoveKeeps DEF Open, PlaceOK
  <2>5. CASE CommandFails(id)
    <3>1. PICK c : /\ Moved(id, c) /\ cmd[id].stage = "sent" /\ c.stage = "lost"
                   /\ \/ c.place = cmd[id].place
                      \/ cmd[id].place = "transit" /\ c.place = "gone"
      BY <2>5, FailureMoves
    <3>2. PlaceOK(c)
      BY <2>1, <3>1 DEF PlaceOK, Moved, InLimits, Sendable
    <3>. QED  BY <2>1, <3>1, <3>2, MoveKeeps DEF Open
  <2>. QED  BY <1>5, <2>2, <2>3, <2>4, <2>5 DEF CommandStep
<1>. QED  BY <1>1, <1>2, <1>3, <1>4, <1>5
     DEF Next, LinkNext, ServerNext, CommandNext, FaultNext

\* A change from outside is a state of the server, like one of a command.
LEMMA ForeignBecomes ==
    ASSUME LinkInv, ForeignChange
    PROVE  server' \in ServerStates /\ version' = version + 1
<1>1. server \in ServerStates
  BY DEF LinkInv, TypeOK
<1>2. ASSUME NEW c \in Commands, c.type # "set-http-timeout", c.value # OutOfRange,
             NEW effect \in Effects(c, server), effect[1] # server, Becomes(effect[1])
      PROVE  server' \in ServerStates /\ version' = version + 1
  <2>1. c.type \in AllTypes /\ Sendable(c)
    <3>1. CASE c \in [type : CommandTypes \ Setters, value : {NoValue}]
      BY <1>2, <3>1, TypesAssumption DEF Sendable
    <3>2. CASE c \in [type : CommandTypes \cap Setters, value : Values \cup {OutOfRange}]
      BY <1>2, <3>2, TypesAssumption DEF Sendable
    <3>. QED  BY <3>1, <3>2 DEF Commands
  <2>. QED  BY <1>1, <1>2, <2>1, EffectsAre DEF Becomes
<1>3. CASE server.run \in {"running", "paused"} /\ Becomes([server EXCEPT !.run = "faulted"])
  <2>1. [server EXCEPT !.run = "faulted"] \in ServerStates
        /\ [server EXCEPT !.run = "faulted"].run = "faulted"
    BY <1>1 DEF ServerStates, RunStates
  <2>. QED  BY <1>3, <2>1 DEF Becomes
<1>. QED  BY <1>2, <1>3 DEF ForeignChange

\* The server's state stays one, and its changes are counted.
ServerMoves == server' \in ServerStates /\ version' \in {version, version + 1}

LEMMA ServerKept ==
    ASSUME LinkInv, [Next]_vars
    PROVE  ServerMoves
<1>1. server \in ServerStates
  BY DEF LinkInv, TypeOK
<1>2. CASE ForeignChange
  BY <1>2, ForeignBecomes DEF ServerMoves
<1>3. CASE LoopHandlesCommand
  BY <1>3, HandledMoves DEF ServerMoves
<1>4. CASE UNCHANGED serverVars
  BY <1>1, <1>4 DEF ServerMoves, serverVars
<1>. QED  BY <1>2, <1>3, <1>4
     DEF Next, LinkNext, ServerNext, PollNext, CommandNext, CommandStep, FaultNext, vars,
         LoopAnswersPoll, LoopAnswersNobody, PollStart, PollEnqueued, PollSettles, PollAborted,
         Send, CommandEnqueued, Receipt, PollFails, CommandFails, Dispose, Dispatch

\* Slot 2 is free, so a poll that is about is the one in slot 1.
LEMMA OneSlot ==
    ASSUME LinkInv, NEW p \in PollSlots, polls[p].stage # "none"
    PROVE  p = 1
BY DEF LinkInv, QueueInv, PollSlots

Snapshots ==
    {Blank("connecting"), Blank("error")} \cup
    [connection : {"connected"}, run : RunStates, live : Values, idleOnly : Values,
     version : Nat]

\* The polls and what is shown stay well-formed, and shown is what is newest.
LEMMA PollsKept ==
    ASSUME LinkInv, [Next]_vars
    PROVE  /\ polls' \in [PollSlots -> Polls] /\ polls'[2].stage = "none"
           /\ PollInv'
           /\ seen' >= seen /\ seen' \in Nat
           /\ snapshot' \in Snapshots
<1>1. /\ polls \in [PollSlots -> Polls] /\ polls[2].stage = "none"
      /\ PollInv /\ seen \in Nat /\ version \in Nat /\ version' \in Nat /\ version <= version'
      /\ snapshot \in Snapshots /\ polls[1].version \in Nat
  <2>1. polls \in [PollSlots -> Polls] /\ snapshot \in Snapshots /\ seen \in Nat /\ version \in Nat
    BY DEF LinkInv, TypeOK, Snapshots
  <2>2. polls[1].version \in Nat
    BY <2>1 DEF PollSlots, Polls
  <2>. QED  BY <2>1, <2>2, ServerKept DEF LinkInv, QueueInv, ServerMoves
<1>2. CASE UNCHANGED <<polls, snapshot, seen>>
  BY <1>1, <1>2 DEF PollInv
<1>3. CASE LoopAnswersPoll
  <2>. DEFINE p == -Head(requests)
  <2>1. polls' = [polls EXCEPT ![p].stage = "answered", ![p].status = server,
                               ![p].version = version]
    BY <1>3 DEF LoopAnswersPoll
  <2>2. p = 1
    <3>1. requests \in Seq(Int) /\ requests # <<>> /\ Head(requests) < 0
      BY <1>3 DEF LoopAnswersPoll, LinkInv, TypeOK
    <3>2. 1 \in DOMAIN requests /\ requests[1] = Head(requests) /\ Head(requests) \in Int
      BY <3>1, Shifted
    <3>3. Head(requests) >= -1
      BY <3>2 DEF LinkInv, QueueInv
    <3>. QED  BY <3>1, <3>2, <3>3
  <2>. HIDE DEF p
  <2>3. server \in ServerStates
    BY DEF LinkInv, TypeOK
  <2>. DEFINE answer == [polls[1] EXCEPT !.stage = "answered", !.status = server,
                                         !.version = version]
  <2>4. polls[1] \in Polls
    BY <1>1 DEF PollSlots
  <2>5. answer \in Polls /\ answer.version = version /\ answer.status = server
    BY <1>1, <2>3, <2>4 DEF Polls
  <2>6. polls' = [polls EXCEPT ![1] = answer]
    BY <2>1, <2>2
  <2>. HIDE DEF answer
  <2>7. /\ polls' \in [PollSlots -> Polls] /\ polls'[2] = polls[2]
        /\ polls'[1].version = version /\ polls'[1].status = server
    BY <1>1, <2>5, <2>6 DEF PollSlots
  <2>8. UNCHANGED <<snapshot, seen, version>>
    BY <1>3 DEF LoopAnswersPoll, clientVars, serverVars
  <2>. QED  BY <1>1, <2>3, <2>7, <2>8 DEF PollInv
<1>4. CASE PollStart
  <2>1. Accepted \in SUBSET Nat
    BY CommandsTyped DEF LinkInv, Accepted
  <2>2. [NoPoll EXCEPT !.stage = "sent", !.after = Accepted] \in Polls
    BY <2>1 DEF NoPoll, Polls
  <2>3. /\ polls' \in [PollSlots -> Polls] /\ polls'[2] = polls[2]
        /\ polls'[1].stage = "sent" /\ UNCHANGED <<snapshot, seen, version>>
    BY <1>1, <1>4, <2>2 DEF PollStart, PollSlots, NoPoll, clientVars, serverVars
  <2>. QED  BY <1>1, <2>3 DEF PollInv
<1>5. ASSUME NEW p \in PollSlots, PollEnqueued(p)
      PROVE  polls' \in [PollSlots -> Polls] /\ polls'[2] = polls[2]
             /\ polls'[1].stage = "queued" /\ UNCHANGED <<snapshot, seen, version>>
  <2>1. p = 1
    BY <1>5, OneSlot DEF PollEnqueued
  <2>. QED  BY <1>1, <1>5, <2>1 DEF PollEnqueued, PollSlots, Polls, clientVars, serverVars
<1>6. ASSUME NEW p \in PollSlots, polls[p].stage # "none",
             polls' = [polls EXCEPT ![p] = NoPoll]
      PROVE  polls' \in [PollSlots -> Polls] /\ polls'[2] = polls[2] /\ polls'[1].stage = "none"
  <2>1. p = 1
    BY <1>6, OneSlot
  <2>2. NoPoll \in Polls /\ NoPoll.stage = "none"
    BY DEF NoPoll, Polls
  <2>. QED  BY <1>1, <1>6, <2>1, <2>2 DEF PollSlots
<1>7. ASSUME NEW p \in PollSlots, PollSettles(p)
      PROVE  snapshot' \in Snapshots /\ seen' \in Nat /\ seen' >= seen /\ seen' <= version'
  <2>1. p = 1 /\ polls[1].stage = "answered"
    BY <1>7, OneSlot DEF PollSettles
  <2>2. /\ polls[1].status \in ServerStates /\ polls[1].version \in Nat
        /\ seen <= polls[1].version /\ polls[1].version <= version
    BY <1>1, <2>1 DEF PollInv, PollSlots, Polls
  <2>3. Decoded(polls[1].status, polls[1].version) \in Snapshots
    BY <2>2 DEF Decoded, Snapshots, ServerStates
  <2>4. /\ Decoded(polls[1].status, polls[1].version).connection = "connected"
        /\ Decoded(polls[1].status, polls[1].version).version = polls[1].version
    BY DEF Decoded
  <2>. QED  BY <1>1, <1>7, <2>1, <2>2, <2>3, <2>4 DEF PollSettles, Publish
<1>8. ASSUME NEW p \in PollSlots, PollFails(p)
      PROVE  snapshot' \in Snapshots /\ UNCHANGED <<seen, version>>
  <2>1. Blank("error") \in Snapshots /\ Blank("error").connection = "error"
    BY DEF Blank, Snapshots
  <2>. QED  BY <1>1, <1>8, <2>1 DEF PollFails, Publish, serverVars
<1>9. CASE \E p \in PollSlots : PollEnqueued(p)
  BY <1>1, <1>5, <1>9 DEF PollInv
<1>10. CASE \E p \in PollSlots : PollSettles(p)
  BY <1>1, <1>6, <1>7, <1>10 DEF PollInv, PollSettles
<1>11. CASE \E p \in PollSlots : PollAborted(p)
  <2>1. PICK p \in PollSlots : PollAborted(p)
    BY <1>11
  <2>2. UNCHANGED <<snapshot, seen, version>>
    BY <2>1 DEF PollAborted, clientVars, serverVars
  <2>3. polls' \in [PollSlots -> Polls] /\ polls'[2] = polls[2] /\ polls'[1].stage = "none"
    BY <1>6, <2>1 DEF PollAborted
  <2>. QED  BY <1>1, <2>2, <2>3 DEF PollInv
<1>12. CASE \E p \in PollSlots : PollFails(p)
  <2>1. PICK p \in PollSlots : PollFails(p)
    BY <1>12
  <2>2. polls' \in [PollSlots -> Polls] /\ polls'[2] = polls[2] /\ polls'[1].stage = "none"
    BY <1>6, <2>1 DEF PollFails
  <2>. QED  BY <1>1, <1>8, <2>1, <2>2 DEF PollInv
<1>. QED  BY <1>2, <1>3, <1>4, <1>9, <1>10, <1>11, <1>12
     DEF Next, LinkNext, ServerNext, PollNext, CommandNext, CommandStep, FaultNext, vars,
         LoopAnswersNobody, LoopHandlesCommand, ForeignChange, clientVars,
         Send, CommandEnqueued, Receipt, CommandFails, Dispose, Dispatch

LEMMA TypeKept ==
    ASSUME LinkInv, [Next]_vars
    PROVE  TypeOK'
<1>1. /\ requests \in Seq(Int) /\ handled \in Seq(Nat) /\ disposed \in BOOLEAN
      /\ version \in Nat /\ failures \in Nat /\ foreign \in Nat
  BY DEF LinkInv, TypeOK
<1>2. requests' \in Seq(Int)
  <2>1. CASE UNCHANGED requests
    BY <1>1, <2>1
  <2>2. CASE LoopAnswersPoll \/ LoopAnswersNobody \/ LoopHandlesCommand
    <3>1. requests # <<>> /\ requests' = Tail(requests)
      BY <2>2 DEF LoopAnswersPoll, LoopAnswersNobody, LoopHandlesCommand
    <3>. QED  BY <1>1, <3>1, Shifted
  <2>3. ASSUME NEW p \in PollSlots, GivesUp(p)
        PROVE  requests' \in Seq(Int)
    BY <1>1, <2>3, GivenUp
  <2>4. ASSUME NEW p \in PollSlots, PollEnqueued(p)
        PROVE  requests' \in Seq(Int)
    BY <1>1, <2>4, Appended DEF PollEnqueued, PollSlots
  <2>5. ASSUME NEW id \in DOMAIN cmd, CommandEnqueued(id)
        PROVE  requests' \in Seq(Int)
    BY <1>1, <2>5, CommandsTyped, Appended DEF CommandEnqueued, LinkInv
  <2>6. CASE \E p \in PollSlots : PollFails(p) \/ PollAborted(p)
    BY <2>3, <2>6 DEF PollFails, PollAborted
  <2>7. CASE \E p \in PollSlots : PollEnqueued(p)
    BY <2>4, <2>7
  <2>8. CASE \E id \in DOMAIN cmd : CommandEnqueued(id)
    BY <2>5, <2>8
  <2>9. CASE UNCHANGED vars \/ ForeignChange \/ PollStart \/ Dispose
             \/ (\E p \in PollSlots : PollSettles(p)) \/ (\E c \in Commands : Dispatch(c))
             \/ \E id \in DOMAIN cmd : Send(id) \/ Receipt(id) \/ CommandFails(id)
    BY <2>1, <2>9 DEF vars, ForeignChange, PollStart, Dispose, PollSettles, Dispatch, Send,
                      Receipt, CommandFails
  <2>. QED  BY <2>2, <2>6, <2>7, <2>8, <2>9
       DEF Next, LinkNext, ServerNext, PollNext, CommandNext, CommandStep, FaultNext
<1>3. handled' \in Seq(Nat)
  <2>1. CASE LoopHandlesCommand
    <3>1. PICK id, c : Moved(id, c) /\ handled' = Append(handled, id)
      BY <2>1, HandledMoves
    <3>2. id \in Nat
      BY <3>1, CommandsTyped DEF LinkInv, Moved
    <3>. QED  BY <1>1, <3>1, <3>2, Appended
  <2>2. CASE UNCHANGED handled
    BY <1>1, <2>2
  <2>. QED  BY <2>1, <2>2
       DEF Next, LinkNext, ServerNext, PollNext, CommandNext, CommandStep, FaultNext, vars,
           LoopAnswersPoll, LoopAnswersNobody, ForeignChange, PollStart, PollEnqueued,
           PollSettles, PollAborted, Send, CommandEnqueued, Receipt, PollFails, CommandFails,
           Dispose, Dispatch, serverVars
<1>4. disposed' \in BOOLEAN /\ failures' \in Nat /\ foreign' \in Nat
  <2>1. /\ disposed' \in {disposed, TRUE}
        /\ failures' \in {failures, failures + 1} /\ foreign' \in {foreign, foreign + 1}
    BY DEF Next, LinkNext, ServerNext, PollNext, CommandNext, CommandStep, FaultNext, vars,
           LoopAnswersPoll, LoopAnswersNobody, LoopHandlesCommand, ForeignChange, PollStart,
           PollEnqueued, PollSettles, PollAborted, Send, CommandEnqueued, Receipt, PollFails,
           CommandFails, Dispose, Dispatch, clientVars, boundVars
  <2>2. \A n \in Nat : n + 1 \in Nat
    OBVIOUS
  <2>. QED  BY <1>1, <2>1, <2>2
<1>5. version' \in Nat /\ server' \in ServerStates
  BY <1>1, ServerKept DEF ServerMoves
<1>6. cmd' \in Seq(Cmds)
  BY CommandsKept DEF Kept
<1>. QED  BY <1>2, <1>3, <1>4, <1>5, <1>6, PollsKept DEF TypeOK, Cmds, Snapshots

-------------------------------------------------------------------------------
(* The channel. *)

\* Nothing enters or leaves the channel, and the poll in it stays.
LEMMA QueueUntouched ==
    ASSUME LinkInv, UNCHANGED requests, polls'[2].stage = "none",
           polls[1].stage = "queued" => polls'[1].stage = "queued",
           \A id \in DOMAIN cmd :
               id \in DOMAIN cmd' /\ (cmd[id].place = "queue" => cmd'[id].place = "queue"),
           \A id \in DOMAIN cmd' :
               cmd'[id].place = "queue" => id \in DOMAIN cmd /\ cmd[id].place = "queue"
    PROVE  QueueInv'
BY DEF LinkInv, QueueInv

LEMMA QueueMoved ==
    ASSUME LinkInv, UNCHANGED <<requests, polls>>, NEW id, NEW c, Moved(id, c),
           c.place = "queue" <=> cmd[id].place = "queue"
    PROVE  QueueInv'
<1>1. /\ DOMAIN cmd' = DOMAIN cmd /\ cmd'[id] = c /\ id \in DOMAIN cmd
      /\ \A other \in DOMAIN cmd : other # id => cmd'[other] = cmd[other]
  BY CommandsTyped, Changed DEF LinkInv, Moved
<1>2. polls[2].stage = "none"
  BY DEF LinkInv, QueueInv
<1>. QED  BY <1>1, <1>2, QueueUntouched

LEMMA QueueKept ==
    ASSUME LinkInv, [Next]_vars
    PROVE  QueueInv'
<1>1. requests \in Seq(Int) /\ Len(requests) \in Nat /\ DOMAIN requests = 1..Len(requests)
  BY LenProperties DEF LinkInv, TypeOK
<1>2. CASE UNCHANGED <<requests, polls, cmd>>
  BY <1>2, QueueUntouched DEF LinkInv, QueueInv
<1>3. CASE PollStart \/ \E p \in PollSlots : PollSettles(p)
  <2>1. polls[1].stage # "queued" /\ UNCHANGED <<requests, cmd>>
    BY <1>3, OneSlot DEF PollStart, PollSettles, PollSlots
  <2>. QED  BY <2>1, PollsKept, QueueUntouched
<1>4. CASE \E d \in Commands : Dispatch(d)
  <2>1. PICK c : NewCommand(c)
    BY <1>4, DispatchAdds
  <2>2. /\ DOMAIN cmd' = 1..(Len(cmd) + 1) /\ DOMAIN cmd = 1..Len(cmd) /\ Len(cmd) \in Nat
        /\ \A id \in 1..Len(cmd) : cmd'[id] = cmd[id]
        /\ cmd'[Len(cmd) + 1].place = "nowhere"
    BY <2>1, CommandsTyped, Appended DEF LinkInv, NewCommand
  <2>3. UNCHANGED <<requests, polls>>
    BY <1>4 DEF Dispatch
  <2>. QED  BY <2>2, <2>3, PollsKept, QueueUntouched
<1>5. ASSUME NEW id \in DOMAIN cmd, Send(id) \/ Receipt(id) \/ CommandFails(id)
      PROVE  QueueInv'
  <2>1. PlaceOK(cmd[id]) /\ UNCHANGED <<requests, polls>>
    BY <1>5 DEF LinkInv, PlaceInv, Send, Receipt, CommandFails
  <2>2. CASE Send(id)
    BY <2>1, <2>2, SendMoves, QueueMoved DEF PlaceOK
  <2>3. CASE Receipt(id)
    BY <2>1, <2>3, ReceiptMoves, QueueMoved
  <2>4. CASE CommandFails(id)
    BY <2>1, <2>4, FailureMoves, QueueMoved
  <2>. QED  BY <1>5, <2>2, <2>3, <2>4
<1>6. ASSUME NEW id \in DOMAIN cmd, CommandEnqueued(id)
      PROVE  QueueInv'
  <2>1. PICK c : Moved(id, c) /\ cmd[id].place = "transit" /\ c.place = "queue"
    BY <1>6, EnqueuedMoves
  <2>2. /\ DOMAIN cmd' = DOMAIN cmd /\ cmd'[id] = c /\ id \in Nat \ {0}
        /\ \A other \in DOMAIN cmd : other # id => cmd'[other] = cmd[other]
    BY <2>1, CommandsTyped, Changed DEF LinkInv, Moved
  <2>3. /\ DOMAIN requests' = 1..(Len(requests) + 1)
        /\ \A k \in 1..Len(requests) : requests'[k] = requests[k]
        /\ requests'[Len(requests) + 1] = id
    BY <1>1, <1>6, <2>2, Appended DEF CommandEnqueued
  <2>4. \A k \in DOMAIN requests : requests[k] # id
    BY <2>1, <2>2 DEF LinkInv, QueueInv
  <2>5. UNCHANGED polls /\ QueueInv
    BY <1>6 DEF CommandEnqueued, LinkInv
  <2>6. /\ polls'[2].stage = "none"
        /\ \A k \in DOMAIN requests' :
           /\ requests'[k] >= -1
           /\ requests'[k] = -1 => polls'[1].stage = "queued"
           /\ requests'[k] > 0 =>
                  requests'[k] \in DOMAIN cmd' /\ cmd'[requests'[k]].place = "queue"
    BY <1>1, <2>1, <2>2, <2>3, <2>5 DEF QueueInv
  <2>7. \A j, k \in DOMAIN requests' : requests'[j] = requests'[k] /\ requests'[j] # 0 => j = k
    BY <1>1, <2>2, <2>3, <2>4, <2>5 DEF QueueInv
  <2>8. \A other \in DOMAIN cmd' :
           cmd'[other].place = "queue" => \E k \in DOMAIN requests' : requests'[k] = other
    <3>1. \A k \in DOMAIN requests : k \in DOMAIN requests' /\ requests'[k] = requests[k]
      BY <1>1, <2>3
    <3>2. Len(requests) + 1 \in DOMAIN requests'
      BY <1>1, <2>3
    <3>. QED  BY <2>2, <2>3, <2>5, <3>1, <3>2 DEF QueueInv
  <2>. QED  BY <2>6, <2>7, <2>8 DEF QueueInv
<1>7. ASSUME NEW p \in PollSlots, PollEnqueued(p)
      PROVE  QueueInv'
  <2>1. p = 1 /\ polls[1].stage = "sent" /\ UNCHANGED cmd
    BY <1>7, OneSlot DEF PollEnqueued
  <2>2. polls \in [PollSlots -> Polls]
    BY DEF LinkInv, TypeOK
  <2>3. polls'[2].stage = "none" /\ polls'[1].stage = "queued"
    BY <1>7, <2>1, <2>2, PollsKept DEF PollEnqueued, PollSlots, Polls
  <2>4. /\ DOMAIN requests' = 1..(Len(requests) + 1)
        /\ \A k \in 1..Len(requests) : requests'[k] = requests[k]
        /\ requests'[Len(requests) + 1] = -1
    BY <1>1, <1>7, <2>1, Appended DEF PollEnqueued
  <2>5. QueueInv /\ \A k \in DOMAIN requests : requests[k] # -1
    BY <2>1 DEF LinkInv, QueueInv
  <2>6. \A k \in DOMAIN requests' :
           /\ requests'[k] >= -1
           /\ requests'[k] > 0 =>
                  requests'[k] \in DOMAIN cmd' /\ cmd'[requests'[k]].place = "queue"
    BY <1>1, <2>1, <2>4, <2>5 DEF QueueInv
  <2>7. \A j, k \in DOMAIN requests' : requests'[j] = requests'[k] /\ requests'[j] # 0 => j = k
    BY <1>1, <2>4, <2>5 DEF QueueInv
  <2>8. \A k \in DOMAIN requests : k \in DOMAIN requests' /\ requests'[k] = requests[k]
    BY <1>1, <2>4
  <2>. QED  BY <2>1, <2>3, <2>5, <2>6, <2>7, <2>8 DEF QueueInv
<1>8. ASSUME NEW p \in PollSlots, GivesUp(p), polls[p].stage # "none",
             polls' = [polls EXCEPT ![p] = NoPoll], UNCHANGED cmd
      PROVE  QueueInv'
  <2>1. p = 1
    BY <1>8, OneSlot
  <2>2. DOMAIN requests' = DOMAIN requests
        /\ \A k \in DOMAIN requests : requests'[k] = IF requests[k] = -1 THEN 0 ELSE requests[k]
    BY <1>1, <1>8, <2>1, GivenUp
  <2>3. QueueInv /\ polls'[2].stage = "none"
    BY PollsKept DEF LinkInv
  <2>4. \A id \in DOMAIN cmd : id > 0
    BY CommandsTyped DEF LinkInv
  <2>5. \A k \in DOMAIN requests' :
           /\ requests'[k] >= -1 /\ requests'[k] # -1
           /\ requests'[k] > 0 =>
                  requests'[k] \in DOMAIN cmd' /\ cmd'[requests'[k]].place = "queue"
    BY <1>8, <2>2, <2>3 DEF QueueInv
  <2>6. \A j, k \in DOMAIN requests' : requests'[j] = requests'[k] /\ requests'[j] # 0 => j = k
    BY <2>2, <2>3 DEF QueueInv
  <2>7. \A id \in DOMAIN cmd' :
           cmd'[id].place = "queue" => \E k \in DOMAIN requests' : requests'[k] = id
    BY <1>8, <2>2, <2>3, <2>4 DEF QueueInv
  <2>. QED  BY <2>3, <2>5, <2>6, <2>7 DEF QueueInv
<1>9. ASSUME requests # <<>>, requests' = Tail(requests), polls'[2].stage = "none",
             polls[1].stage = "queued" => polls'[1].stage = "queued" \/ requests[1] = -1,
             DOMAIN cmd' = DOMAIN cmd,
             \A id \in DOMAIN cmd : id # requests[1] => cmd'[id] = cmd[id],
             requests[1] \in DOMAIN cmd => cmd'[requests[1]].place # "queue"
      PROVE  QueueInv'
  <2>1. /\ DOMAIN requests' = 1..(Len(requests) - 1) /\ 1 \in DOMAIN requests
        /\ \A k \in DOMAIN requests' : k + 1 \in DOMAIN requests /\ requests'[k] = requests[k + 1]
    BY <1>1, <1>9, Shifted
  <2>2. QueueInv
    BY DEF LinkInv
  <2>3. \A k \in DOMAIN requests' : requests'[k] # 0 => requests'[k] # requests[1]
    BY <2>1, <2>2 DEF QueueInv
  <2>4. \A k \in DOMAIN requests' :
           /\ requests'[k] >= -1
           /\ requests'[k] = -1 => polls'[1].stage = "queued"
           /\ requests'[k] > 0 =>
                  requests'[k] \in DOMAIN cmd' /\ cmd'[requests'[k]].place = "queue"
    BY <1>9, <2>1, <2>2, <2>3 DEF QueueInv
  <2>5. \A j, k \in DOMAIN requests' : requests'[j] = requests'[k] /\ requests'[j] # 0 => j = k
    BY <1>1, <2>1, <2>2 DEF QueueInv
  <2>6. ASSUME NEW id \in DOMAIN cmd', cmd'[id].place = "queue"
        PROVE  \E k \in DOMAIN requests' : requests'[k] = id
    <3>1. id # requests[1]
      BY <1>9, <2>6
    <3>2. PICK k \in DOMAIN requests : requests[k] = id
      BY <1>9, <2>2, <2>6, <3>1 DEF QueueInv
    <3>3. k - 1 \in DOMAIN requests'
      BY <1>1, <2>1, <3>1, <3>2
    <3>. QED  BY <1>1, <2>1, <3>2, <3>3
  <2>. QED  BY <1>9, <2>4, <2>5, <2>6 DEF QueueInv
<1>10. CASE LoopAnswersPoll \/ LoopAnswersNobody
  <2>1. requests # <<>> /\ requests' = Tail(requests) /\ UNCHANGED cmd
    BY <1>10 DEF LoopAnswersPoll, LoopAnswersNobody
  <2>2. Head(requests) = requests[1] /\ requests[1] \in Int /\ 1 \in DOMAIN requests
    BY <1>1, <2>1, Shifted
  <2>3. requests[1] <= 0 /\ (requests[1] = 0 => UNCHANGED polls) /\ requests[1] >= -1
    BY <1>10, <2>2 DEF LoopAnswersPoll, LoopAnswersNobody, LinkInv, QueueInv
  <2>4. requests[1] \notin DOMAIN cmd
    BY <2>3, CommandsTyped DEF LinkInv
  <2>. QED  BY <1>9, <2>1, <2>2, <2>3, <2>4, PollsKept
<1>11. CASE LoopHandlesCommand
  <2>1. PICK id, c : /\ Moved(id, c) /\ c.place \in {"done", "refused", "failed"}
                     /\ requests # <<>> /\ id = requests[1] /\ requests' = Tail(requests)
    BY <1>11, HandledMoves
  <2>2. /\ DOMAIN cmd' = DOMAIN cmd /\ cmd'[id] = c
        /\ \A other \in DOMAIN cmd : other # id => cmd'[other] = cmd[other]
    BY <2>1, CommandsTyped, Changed DEF LinkInv, Moved
  <2>3. UNCHANGED polls
    BY <1>11 DEF LoopHandlesCommand
  <2>. QED  BY <1>9, <2>1, <2>2, <2>3, PollsKept
<1>12. CASE \E p \in PollSlots : PollFails(p) \/ PollAborted(p)
  BY <1>8, <1>12 DEF PollFails, PollAborted
<1>. QED  BY <1>2, <1>3, <1>4, <1>5, <1>6, <1>7, <1>10, <1>11, <1>12
     DEF Next, LinkNext, ServerNext, PollNext, CommandNext, CommandStep, FaultNext, vars,
         ForeignChange, Dispose

-------------------------------------------------------------------------------
(* Polls and the commands before them. *)

\* A poll that is not in the channel has nothing there to be before or after.
LEMMA FreshElsewhere ==
    ASSUME LinkInv, [Next]_vars, polls'[1].stage # "queued",
           polls'[1].stage # "none" =>
               polls'[1].after = polls[1].after /\ polls[1].stage # "none",
           polls'[1].stage = "answered" => \A id \in polls'[1].after : cmd'[id].place = "done"
    PROVE  FreshInv'
BY QueueKept, CommandsKept DEF LinkInv, FreshInv, QueueInv, Kept

\* The poll stays where it is, and the channel grows at its end at most.
LEMMA FreshUntouched ==
    ASSUME LinkInv, [Next]_vars, UNCHANGED polls,
           \A k \in DOMAIN requests' :
               \/ k \in DOMAIN requests /\ \A j \in 1..k : requests'[j] = requests[j]
               \/ requests'[k] > 0
    PROVE  FreshInv'
<1>1. FreshInv /\ Kept
  BY CommandsKept DEF LinkInv
<1>2. ASSUME NEW k \in DOMAIN requests', requests'[k] = -1, NEW id \in polls'[1].after
      PROVE  cmd'[id].place = "done" \/ \E j \in 1..(k - 1) : requests'[j] = id
  <2>1. requests' \in Seq(Int) /\ k \in Nat \ {0}
    BY TypeKept, LenProperties DEF TypeOK
  <2>2. k \in DOMAIN requests /\ \A j \in 1..k : requests'[j] = requests[j]
    BY <1>2
  <2>3. requests[k] = -1
    BY <1>2, <2>1, <2>2
  <2>4. polls[1].stage # "none" /\ id \in polls[1].after
    BY <1>2, <2>2, <2>3 DEF LinkInv, QueueInv
  <2>5. cmd[id].place = "done" \/ \E j \in 1..(k - 1) : requests[j] = id
    BY <1>1, <2>2, <2>3, <2>4 DEF FreshInv
  <2>6. id \in DOMAIN cmd
    BY <1>1, <2>4 DEF FreshInv
  <2>. QED  BY <1>1, <2>1, <2>2, <2>5, <2>6 DEF Kept
<1>. QED  BY <1>1, <1>2 DEF FreshInv, Kept

LEMMA FreshKept ==
    ASSUME LinkInv, [Next]_vars
    PROVE  FreshInv'
<1>1. /\ requests \in Seq(Int) /\ Len(requests) \in Nat /\ DOMAIN requests = 1..Len(requests)
      /\ polls \in [PollSlots -> Polls] /\ FreshInv /\ QueueInv /\ Kept /\ QueueInv'
  BY LenProperties, CommandsKept, QueueKept DEF LinkInv, TypeOK
<1>2. CASE UNCHANGED <<requests, polls>>
  BY <1>1, <1>2, FreshUntouched
<1>3. CASE PollStart
  <2>1. polls'[1] = [NoPoll EXCEPT !.stage = "sent", !.after = Accepted] /\ UNCHANGED cmd
    BY <1>1, <1>3 DEF PollStart, PollSlots
  <2>2. polls'[1].stage = "sent" /\ polls'[1].after = Accepted
    BY <2>1 DEF NoPoll
  <2>3. \A id \in Accepted : id \in DOMAIN cmd' /\ cmd'[id].stage = "accepted"
    BY <2>1 DEF Accepted
  <2>. QED  BY <1>1, <2>2, <2>3 DEF FreshInv, QueueInv
<1>4. CASE \E p \in PollSlots : PollEnqueued(p)
  <2>1. PICK p \in PollSlots : PollEnqueued(p)
    BY <1>4
  <2>2. p = 1
    BY <2>1, OneSlot DEF PollEnqueued
  <2>3. polls[1].stage = "sent" /\ requests' = Append(requests, -1) /\ UNCHANGED cmd
    BY <2>1, <2>2 DEF PollEnqueued
  <2>4. polls' = [polls EXCEPT ![1].stage = "queued"]
    BY <2>1, <2>2 DEF PollEnqueued
  <2>5. polls'[1].stage = "queued" /\ polls'[1].after = polls[1].after
    BY <1>1, <2>4 DEF PollSlots, Polls
  <2>6. /\ DOMAIN requests' = 1..(Len(requests) + 1)
        /\ \A k \in 1..Len(requests) : requests'[k] = requests[k]
    BY <1>1, <2>3, Appended
  <2>7. ASSUME NEW id \in polls[1].after
        PROVE  cmd[id].place = "done" \/ \E j \in DOMAIN requests : requests[j] = id
    <3>1. id \in DOMAIN cmd /\ cmd[id].stage = "accepted"
      BY <1>1, <2>3, <2>7 DEF FreshInv
    <3>2. PlaceOK(cmd[id])
      BY <3>1 DEF LinkInv, PlaceInv
    <3>. QED  BY <1>1, <3>1, <3>2 DEF PlaceOK, QueueInv
  <2>8. \A k \in DOMAIN requests : requests[k] # -1
    BY <1>1, <2>3 DEF QueueInv
  <2>9. ASSUME NEW k \in DOMAIN requests', requests'[k] = -1, NEW id \in polls'[1].after
        PROVE  cmd'[id].place = "done" \/ \E j \in 1..(k - 1) : requests'[j] = id
    <3>1. k = Len(requests) + 1
      BY <1>1, <2>6, <2>8, <2>9
    <3>. QED  BY <1>1, <2>3, <2>5, <2>6, <2>7, <3>1
  <2>. QED  BY <1>1, <2>3, <2>5, <2>9 DEF FreshInv
<1>5. CASE \E id \in DOMAIN cmd : CommandEnqueued(id)
  <2>1. PICK id \in DOMAIN cmd : CommandEnqueued(id)
    BY <1>5
  <2>2. id \in Int /\ id > 0
    BY CommandsTyped DEF LinkInv
  <2>3. /\ DOMAIN requests' = 1..(Len(requests) + 1)
        /\ \A k \in 1..Len(requests) : requests'[k] = requests[k]
        /\ requests'[Len(requests) + 1] = id
    BY <1>1, <2>1, <2>2, Appended DEF CommandEnqueued
  <2>4. UNCHANGED polls
    BY <2>1 DEF CommandEnqueued
  <2>. QED  BY <1>1, <2>2, <2>3, <2>4, FreshUntouched
<1>6. ASSUME requests # <<>>, requests' = Tail(requests), UNCHANGED polls,
             requests[1] \in DOMAIN cmd /\ cmd[requests[1]].stage = "accepted"
                 => cmd'[requests[1]].place = "done",
             requests[1] >= 0
      PROVE  FreshInv'
  <2>1. /\ DOMAIN requests' = 1..(Len(requests) - 1) /\ 1 \in DOMAIN requests
        /\ \A k \in DOMAIN requests' : k + 1 \in DOMAIN requests /\ requests'[k] = requests[k + 1]
    BY <1>1, <1>6, Shifted
  <2>2. ASSUME NEW k \in DOMAIN requests', requests'[k] = -1, NEW id \in polls'[1].after
        PROVE  cmd'[id].place = "done" \/ \E j \in 1..(k - 1) : requests'[j] = id
    <3>1. k + 1 \in DOMAIN requests /\ requests[k + 1] = -1 /\ k \in Nat \ {0}
      BY <1>1, <2>1, <2>2
    <3>2. id \in DOMAIN cmd /\ cmd[id].stage = "accepted"
      BY <1>1, <1>6, <2>2, <3>1 DEF FreshInv, QueueInv
    <3>3. cmd[id].place = "done" \/ \E j \in 1..k : requests[j] = id
      BY <1>1, <1>6, <2>2, <3>1 DEF FreshInv
    <3>4. ASSUME NEW j \in 1..k, requests[j] = id, j # 1
          PROVE  \E i \in 1..(k - 1) : requests'[i] = id
      <4>1. j - 1 \in 1..(k - 1) /\ j - 1 \in DOMAIN requests' /\ (j - 1) + 1 = j
        BY <1>1, <2>1, <3>1, <3>4
      <4>. QED  BY <2>1, <3>4, <4>1
    <3>. QED  BY <1>1, <1>6, <3>2, <3>3, <3>4 DEF Kept
  <2>. QED  BY <1>1, <1>6, <2>2 DEF FreshInv, Kept
<1>7. CASE LoopHandlesCommand
  <2>1. PICK id, c : /\ Moved(id, c) /\ cmd[id].place = "queue" /\ c.stage = cmd[id].stage
                     /\ c.type = "pause" => c.place = "done"
                     /\ requests # <<>> /\ id = requests[1] /\ requests' = Tail(requests)
    BY <1>7, HandledMoves
  <2>2. id \in DOMAIN cmd /\ cmd'[id] = c /\ id \in Nat
    BY <2>1, CommandsTyped, Changed DEF LinkInv, Moved
  <2>3. PlaceOK(cmd[id])
    BY <2>2 DEF LinkInv, PlaceInv
  <2>4. UNCHANGED polls
    BY <1>7 DEF LoopHandlesCommand
  <2>. QED  BY <1>6, <2>1, <2>2, <2>3, <2>4 DEF PlaceOK, Moved
<1>8. CASE LoopAnswersNobody
  <2>1. requests # <<>> /\ requests' = Tail(requests) /\ UNCHANGED polls /\ Head(requests) = 0
    BY <1>8 DEF LoopAnswersNobody
  <2>2. requests[1] = 0
    BY <1>1, <2>1, Shifted
  <2>3. requests[1] \notin DOMAIN cmd
    BY <2>2, CommandsTyped DEF LinkInv
  <2>. QED  BY <1>6, <2>1, <2>2, <2>3
<1>9. CASE LoopAnswersPoll
  <2>1. requests # <<>> /\ Head(requests) < 0 /\ UNCHANGED cmd
    BY <1>9 DEF LoopAnswersPoll
  <2>2. requests[1] = Head(requests) /\ 1 \in DOMAIN requests /\ requests[1] \in Int
    BY <1>1, <2>1, Shifted
  <2>3. requests[1] = -1 /\ polls[1].stage = "queued"
    BY <1>1, <2>1, <2>2 DEF QueueInv
  <2>4. \A id \in polls[1].after : cmd[id].place = "done"
    BY <1>1, <2>2, <2>3 DEF FreshInv
  <2>. DEFINE p == -Head(requests)
  <2>5. polls' = [polls EXCEPT ![p].stage = "answered", ![p].status = server,
                               ![p].version = version]
    BY <1>9 DEF LoopAnswersPoll
  <2>6. p = 1
    BY <2>2, <2>3
  <2>. HIDE DEF p
  <2>. DEFINE answer == [polls[1] EXCEPT !.stage = "answered", !.status = server,
                                         !.version = version]
  <2>7. polls[1] \in Polls
    BY <1>1 DEF PollSlots
  <2>8. answer.stage = "answered" /\ answer.after = polls[1].after
    BY <2>7 DEF Polls
  <2>9. polls' = [polls EXCEPT ![1] = answer]
    BY <2>5, <2>6
  <2>. HIDE DEF answer
  <2>10. polls'[1].stage = "answered" /\ polls'[1].after = polls[1].after
    BY <1>1, <2>8, <2>9 DEF PollSlots
  <2>. QED  BY <2>1, <2>3, <2>4, <2>10, FreshElsewhere
<1>10. ASSUME NEW p \in PollSlots, polls[p].stage # "none", polls' = [polls EXCEPT ![p] = NoPoll]
       PROVE  FreshInv'
  <2>1. p = 1
    BY <1>10, OneSlot
  <2>2. polls'[1].stage = "none"
    BY <1>1, <1>10, <2>1 DEF NoPoll, PollSlots
  <2>. QED  BY <2>2, FreshElsewhere
<1>11. CASE \E p \in PollSlots : PollSettles(p) \/ PollAborted(p) \/ PollFails(p)
  BY <1>10, <1>11 DEF PollSettles, PollAborted, PollFails
<1>12. CASE UNCHANGED vars \/ ForeignChange \/ Dispose \/ (\E c \in Commands : Dispatch(c))
            \/ \E id \in DOMAIN cmd : Send(id) \/ Receipt(id) \/ CommandFails(id)
  BY <1>2, <1>12 DEF vars, ForeignChange, Dispose, Dispatch, Send, Receipt, CommandFails
<1>. QED  BY <1>3, <1>4, <1>5, <1>7, <1>8, <1>9, <1>11, <1>12
     DEF Next, LinkNext, ServerNext, PollNext, CommandNext, CommandStep, FaultNext

-------------------------------------------------------------------------------
(* The order of the commands. *)

\* A command leaves the browser only when every earlier one is settled.
LEMMA NowhereKept ==
    ASSUME LinkInv, [Next]_vars
    PROVE  \A a \in DOMAIN cmd' :
               \/ cmd'[a].place = "nowhere"
               \/ a \in DOMAIN cmd /\ cmd[a].place # "nowhere"
               \/ a \in DOMAIN cmd /\ \A other \in 1..(a - 1) : ~Open(other)
<1>. DEFINE Goal(a) == \/ cmd'[a].place = "nowhere"
                       \/ a \in DOMAIN cmd /\ cmd[a].place # "nowhere"
                       \/ a \in DOMAIN cmd /\ \A other \in 1..(a - 1) : ~Open(other)
<1>1. CASE UNCHANGED cmd
  BY <1>1
<1>2. ASSUME NEW id, NEW c, Moved(id, c),
             \/ c.place = cmd[id].place
             \/ cmd[id].place # "nowhere"
             \/ \A other \in 1..(id - 1) : ~Open(other)
      PROVE  \A a \in DOMAIN cmd' : Goal(a)
  <2>1. /\ DOMAIN cmd' = DOMAIN cmd /\ cmd'[id] = c
        /\ \A other \in DOMAIN cmd : other # id => cmd'[other] = cmd[other]
    BY <1>2, CommandsTyped, Changed DEF LinkInv, Moved
  <2>. QED  BY <1>2, <2>1
<1>3. CASE LoopHandlesCommand
  <2>1. PICK id, c : Moved(id, c) /\ cmd[id].place = "queue"
    BY <1>3, HandledMoves
  <2>. QED  BY <1>2, <2>1
<1>4. CASE \E d \in Commands : Dispatch(d)
  <2>1. PICK c : NewCommand(c)
    BY <1>4, DispatchAdds
  <2>2. /\ DOMAIN cmd' = 1..(Len(cmd) + 1) /\ DOMAIN cmd = 1..Len(cmd) /\ Len(cmd) \in Nat
        /\ \A id \in 1..Len(cmd) : cmd'[id] = cmd[id]
        /\ cmd'[Len(cmd) + 1].place = "nowhere"
    BY <2>1, CommandsTyped, Appended DEF LinkInv, NewCommand
  <2>. QED  BY <2>2
<1>5. ASSUME NEW id \in DOMAIN cmd, CommandStep(id) \/ CommandFails(id)
      PROVE  \A a \in DOMAIN cmd' : Goal(a)
  <2>1. CASE Send(id)
    <3>1. PICK c : Moved(id, c) /\ \A other \in 1..(id - 1) : ~Open(other)
      BY <2>1, SendMoves
    <3>. QED  BY <1>2, <3>1
  <2>2. CASE Receipt(id)
    <3>1. PICK c : Moved(id, c) /\ c.place = cmd[id].place
      BY <2>2, ReceiptMoves
    <3>. QED  BY <1>2, <3>1
  <2>3. CASE CommandEnqueued(id)
    <3>1. PICK c : Moved(id, c) /\ cmd[id].place = "transit"
      BY <2>3, EnqueuedMoves
    <3>. QED  BY <1>2, <3>1
  <2>4. CASE CommandFails(id)
    <3>1. PICK c : Moved(id, c) /\ (c.place = cmd[id].place \/ cmd[id].place = "transit")
      BY <2>4, FailureMoves
    <3>. QED  BY <1>2, <3>1
  <2>. QED  BY <1>5, <2>1, <2>2, <2>3, <2>4 DEF CommandStep
<1>. HIDE DEF Goal
<1>6. CASE \E id \in DOMAIN cmd : CommandStep(id) \/ CommandFails(id)
  BY <1>5, <1>6 DEF Goal
<1>7. CASE \/ UNCHANGED vars \/ LoopAnswersPoll \/ LoopAnswersNobody \/ ForeignChange \/ PollNext
           \/ Dispose \/ \E p \in PollSlots : PollFails(p)
  BY <1>1, <1>7 DEF vars, LoopAnswersPoll, LoopAnswersNobody, ForeignChange, PollNext, PollStart,
                    PollEnqueued, PollSettles, PollAborted, PollFails, Dispose, Goal
<1>8. \A a \in DOMAIN cmd' : Goal(a)
  BY <1>3, <1>4, <1>6, <1>7
     DEF Next, LinkNext, ServerNext, CommandNext, FaultNext, Goal
<1>. QED  BY <1>8 DEF Goal

LEMMA OpenKept ==
    ASSUME LinkInv, [Next]_vars
    PROVE  OpenInv'
<1>. SUFFICES ASSUME NEW a \in DOMAIN cmd', NEW b \in DOMAIN cmd', b < a, Open(b)'
              PROVE  cmd'[a].place = "nowhere"
  BY DEF OpenInv
<1>1. DOMAIN cmd = 1..Len(cmd) /\ Len(cmd) \in Nat
  BY CommandsTyped DEF LinkInv
<1>2. DOMAIN cmd' = 1..Len(cmd') /\ Len(cmd') \in Nat
  BY CommandsKept, LenProperties DEF Kept
<1>3. SUFFICES ASSUME a \in DOMAIN cmd, cmd'[a].place # "nowhere"
               PROVE  FALSE
  BY NowhereKept
<1>4. b \in DOMAIN cmd /\ b \in 1..(a - 1)
  BY <1>1, <1>2, <1>3
<1>5. Open(b)
  BY <1>4, CommandsKept DEF Kept, Open
<1>6. cmd[a].place = "nowhere"
  BY <1>3, <1>4, <1>5 DEF LinkInv, OrderInv, OpenInv
<1>. QED  BY <1>3, <1>4, <1>5, <1>6, NowhereKept

\* Commands keep their places in the channel, or all of them move up by d.
LEMMA LineKept ==
    ASSUME LinkInv, [Next]_vars, UNCHANGED handled, NEW d \in {0, 1},
           \A k \in DOMAIN requests' : requests'[k] > 0 =>
               k + d \in DOMAIN requests /\ requests'[k] = requests[k + d]
    PROVE  HandledInv' /\ LineInv'
<1>1. Kept /\ HandledInv /\ LineInv /\ QueueInv
  BY CommandsKept DEF LinkInv, OrderInv
<1>2. HandledInv'
  BY <1>1 DEF HandledInv, Kept
<1>3. CommandsInOrder'
  BY <1>1 DEF CommandsInOrder, LineInv, HandledInv, Kept
<1>4. ASSUME NEW k \in DOMAIN requests', requests'[k] > 0
      PROVE  /\ k + d \in DOMAIN requests /\ requests[k + d] = requests'[k] /\ k \in Nat
             /\ requests[k + d] \in DOMAIN cmd
             /\ cmd[requests[k + d]].stage = "lost" => cmd'[requests'[k]].stage = "lost"
  <2>1. k + d \in DOMAIN requests /\ requests[k + d] = requests'[k]
    BY <1>4
  <2>2. requests' \in Seq(Int)
    BY TypeKept DEF TypeOK
  <2>3. k \in Nat
    BY <1>4, <2>2, LenProperties
  <2>4. requests[k + d] \in DOMAIN cmd
    BY <1>1, <1>4, <2>1 DEF QueueInv
  <2>. QED  BY <1>1, <2>1, <2>3, <2>4 DEF Kept
<1>5. ASSUME NEW i \in DOMAIN handled', NEW k \in DOMAIN requests',
             requests'[k] > 0, handled'[i] > requests'[k]
      PROVE  cmd'[requests'[k]].stage = "lost"
  BY <1>1, <1>4, <1>5 DEF LineInv
<1>6. ASSUME NEW j \in DOMAIN requests', NEW k \in DOMAIN requests',
             j < k, requests'[k] > 0, requests'[j] > requests'[k]
      PROVE  cmd'[requests'[k]].stage = "lost"
  <2>1. requests'[j] > 0
    <3>1. requests' \in Seq(Int)
      BY TypeKept DEF TypeOK
    <3>2. requests'[j] \in Int /\ requests'[k] \in Int
      BY <1>6, <3>1, LenProperties, ElementOfSeq
    <3>. QED  BY <1>6, <3>2
  <2>2. j + d < k + d
    BY <1>4, <1>6, <2>1
  <2>. QED  BY <1>1, <1>4, <1>6, <2>1, <2>2 DEF LineInv
<1>. QED  BY <1>2, <1>3, <1>5, <1>6 DEF LineInv

LEMMA OrderKept ==
    ASSUME LinkInv, [Next]_vars
    PROVE  OrderInv'
<1>1. /\ requests \in Seq(Int) /\ Len(requests) \in Nat /\ DOMAIN requests = 1..Len(requests)
      /\ handled \in Seq(Nat) /\ Len(handled) \in Nat /\ DOMAIN handled = 1..Len(handled)
  BY LenProperties DEF LinkInv, TypeOK
<1>2. Kept /\ OpenInv /\ HandledInv /\ LineInv /\ QueueInv /\ \A id \in DOMAIN cmd : id \in Nat \ {0}
  BY CommandsKept, CommandsTyped DEF LinkInv, OrderInv
<1>3. CASE UNCHANGED <<requests, handled>>
  <2>1. \A k \in DOMAIN requests' : k + 0 \in DOMAIN requests /\ requests'[k] = requests[k + 0]
    BY <1>1, <1>3
  <2>. QED  BY <1>3, <2>1, LineKept, OpenKept DEF OrderInv
<1>4. CASE LoopAnswersPoll \/ LoopAnswersNobody
  <2>1. requests # <<>> /\ requests' = Tail(requests) /\ UNCHANGED handled
    BY <1>4 DEF LoopAnswersPoll, LoopAnswersNobody, serverVars
  <2>2. \A k \in DOMAIN requests' : k + 1 \in DOMAIN requests /\ requests'[k] = requests[k + 1]
    BY <1>1, <2>1, Shifted
  <2>. QED  BY <2>1, <2>2, LineKept, OpenKept DEF OrderInv
<1>5. CASE \E p \in PollSlots : PollEnqueued(p)
  <2>1. PICK p \in PollSlots : PollEnqueued(p)
    BY <1>5
  <2>2. requests' = Append(requests, -p) /\ -p \in Int /\ ~(-p > 0) /\ UNCHANGED handled
    BY <2>1 DEF PollEnqueued, PollSlots, serverVars
  <2>3. /\ DOMAIN requests' = 1..(Len(requests) + 1)
        /\ \A k \in 1..Len(requests) : requests'[k] = requests[k]
        /\ requests'[Len(requests) + 1] = -p
    BY <1>1, <2>2, Appended
  <2>4. \A k \in DOMAIN requests' : requests'[k] > 0 =>
            k + 0 \in DOMAIN requests /\ requests'[k] = requests[k + 0]
    BY <1>1, <2>2, <2>3
  <2>. QED  BY <2>2, <2>4, LineKept, OpenKept DEF OrderInv
<1>6. CASE \E p \in PollSlots : PollFails(p) \/ PollAborted(p)
  <2>1. PICK p \in PollSlots : GivesUp(p) /\ UNCHANGED handled
    BY <1>6 DEF PollFails, PollAborted, serverVars
  <2>2. \A k \in DOMAIN requests' : requests'[k] > 0 =>
            k + 0 \in DOMAIN requests /\ requests'[k] = requests[k + 0]
    BY <1>1, <2>1, GivenUp
  <2>. QED  BY <2>1, <2>2, LineKept, OpenKept DEF OrderInv
<1>7. CASE \E id \in DOMAIN cmd : CommandEnqueued(id)
  <2>1. PICK id \in DOMAIN cmd : CommandEnqueued(id)
    BY <1>7
  <2>2. PICK c : Moved(id, c) /\ cmd[id].place = "transit" /\ c.stage = cmd[id].stage
    BY <2>1, EnqueuedMoves
  <2>3. cmd'[id].stage = cmd[id].stage
    BY <2>2, CommandsTyped, Changed DEF LinkInv, Moved
  <2>4. cmd[id].stage \in {"sent", "lost"}
    BY <2>2 DEF LinkInv, PlaceInv, PlaceOK
  <2>5. ASSUME NEW later \in DOMAIN cmd, later > id, cmd[later].place # "nowhere"
        PROVE  cmd'[id].stage = "lost"
    BY <1>2, <2>3, <2>4, <2>5 DEF OpenInv, Open
  <2>6. /\ DOMAIN requests' = 1..(Len(requests) + 1)
        /\ \A k \in 1..Len(requests) : requests'[k] = requests[k]
        /\ requests'[Len(requests) + 1] = id
    BY <1>1, <1>2, <2>1, Appended DEF CommandEnqueued
  <2>7. UNCHANGED handled
    BY <2>1 DEF CommandEnqueued, serverVars
  <2>8. HandledInv' /\ CommandsInOrder'
    BY <1>2, <2>7 DEF HandledInv, CommandsInOrder, LineInv, Kept
  <2>9. ASSUME NEW i \in DOMAIN handled', NEW k \in DOMAIN requests',
               requests'[k] > 0, handled'[i] > requests'[k]
        PROVE  cmd'[requests'[k]].stage = "lost"
    <3>1. CASE k \in 1..Len(requests)
      <4>1. requests[k] \in DOMAIN cmd /\ cmd[requests[k]].stage = "lost"
        BY <1>1, <1>2, <2>6, <2>7, <2>9, <3>1 DEF QueueInv, LineInv
      <4>. QED  BY <1>2, <2>6, <3>1, <4>1 DEF Kept
    <3>2. CASE k = Len(requests) + 1
      BY <1>2, <2>5, <2>6, <2>7, <2>9, <3>2 DEF HandledInv
    <3>. QED  BY <1>1, <2>6, <3>1, <3>2
  <2>10. ASSUME NEW j \in DOMAIN requests', NEW k \in DOMAIN requests',
                j < k, requests'[k] > 0, requests'[j] > requests'[k]
         PROVE  cmd'[requests'[k]].stage = "lost"
    <3>1. j \in 1..Len(requests) /\ requests'[j] = requests[j] /\ requests[j] \in Int
      BY <1>1, <2>6, <2>10, ElementOfSeq
    <3>2. CASE k \in 1..Len(requests)
      <4>1. requests[k] \in DOMAIN cmd /\ cmd[requests[k]].stage = "lost"
        BY <1>1, <1>2, <2>6, <2>10, <3>1, <3>2 DEF QueueInv, LineInv
      <4>. QED  BY <1>2, <2>6, <3>2, <4>1 DEF Kept
    <3>3. CASE k = Len(requests) + 1
      <4>1. requests[j] > 0 /\ requests[j] > id
        BY <1>2, <2>6, <2>10, <3>1, <3>3
      <4>2. requests[j] \in DOMAIN cmd /\ cmd[requests[j]].place = "queue"
        BY <1>1, <1>2, <3>1, <4>1 DEF QueueInv
      <4>. QED  BY <2>5, <2>6, <3>3, <4>1, <4>2
    <3>. QED  BY <1>1, <2>6, <3>2, <3>3
  <2>. QED  BY <2>8, <2>9, <2>10, OpenKept DEF OrderInv, LineInv
<1>8. CASE LoopHandlesCommand
  <2>1. PICK id, c : /\ Moved(id, c) /\ c.place \in {"done", "refused", "failed"}
                     /\ requests # <<>> /\ id = requests[1] /\ requests' = Tail(requests)
                     /\ handled' = Append(handled, id)
    BY <1>8, HandledMoves
  <2>2. id \in DOMAIN cmd /\ id \in Nat /\ id > 0 /\ cmd'[id] = c
    BY <1>2, <2>1, CommandsTyped, Changed DEF LinkInv, Moved
  <2>3. /\ DOMAIN handled' = 1..(Len(handled) + 1)
        /\ \A i \in 1..Len(handled) : handled'[i] = handled[i]
        /\ handled'[Len(handled) + 1] = id
    BY <1>1, <2>1, <2>2, Appended
  <2>4. /\ DOMAIN requests' = 1..(Len(requests) - 1) /\ 1 \in DOMAIN requests
        /\ \A k \in DOMAIN requests' : k + 1 \in DOMAIN requests /\ requests'[k] = requests[k + 1]
    BY <1>1, <2>1, Shifted
  <2>5. HandledInv'
    <3>1. SUFFICES ASSUME NEW i \in DOMAIN handled'
                   PROVE  /\ handled'[i] \in DOMAIN cmd'
                          /\ cmd'[handled'[i]].place \notin {"nowhere", "transit"}
      BY DEF HandledInv
    <3>2. CASE i \in 1..Len(handled)
      BY <1>1, <1>2, <2>3, <3>2 DEF HandledInv, Kept
    <3>3. CASE i = Len(handled) + 1
      BY <1>2, <2>1, <2>2, <2>3, <3>3 DEF Kept
    <3>. QED  BY <1>1, <2>3, <3>2, <3>3
  <2>6. ASSUME NEW i \in DOMAIN handled', NEW j \in DOMAIN handled',
               i < j, handled'[i] > handled'[j]
        PROVE  cmd'[handled'[j]].stage = "lost"
    <3>1. i \in 1..Len(handled) /\ handled'[i] = handled[i] /\ i \in DOMAIN handled
      BY <1>1, <2>3, <2>6
    <3>2. CASE j \in 1..Len(handled)
      <4>1. handled[j] \in DOMAIN cmd /\ cmd[handled[j]].stage = "lost"
        BY <1>1, <1>2, <2>3, <2>6, <3>1, <3>2 DEF HandledInv, LineInv, CommandsInOrder
      <4>. QED  BY <1>2, <2>3, <3>2, <4>1 DEF Kept
    <3>3. CASE j = Len(handled) + 1
      <4>1. requests[1] > 0 /\ handled[i] > requests[1]
        BY <2>1, <2>2, <2>3, <2>6, <3>1, <3>3
      <4>2. cmd[id].stage = "lost"
        BY <1>2, <2>1, <2>4, <3>1, <4>1 DEF LineInv
      <4>. QED  BY <1>2, <2>2, <2>3, <3>3, <4>2 DEF Kept
    <3>. QED  BY <1>1, <2>3, <3>2, <3>3
  <2>7. ASSUME NEW k \in DOMAIN requests', requests'[k] > 0
        PROVE  /\ k + 1 \in DOMAIN requests /\ requests[k + 1] = requests'[k]
               /\ requests[k + 1] \in DOMAIN cmd /\ k \in Nat \ {0}
               /\ cmd[requests[k + 1]].stage = "lost" => cmd'[requests'[k]].stage = "lost"
    <3>1. k + 1 \in DOMAIN requests /\ requests[k + 1] = requests'[k] /\ k \in Nat \ {0}
      BY <1>1, <2>4, <2>7
    <3>2. requests[k + 1] \in DOMAIN cmd
      BY <1>2, <2>7, <3>1 DEF QueueInv
    <3>. QED  BY <1>2, <3>1, <3>2 DEF Kept
  <2>8. ASSUME NEW i \in DOMAIN handled', NEW k \in DOMAIN requests',
               requests'[k] > 0, handled'[i] > requests'[k]
        PROVE  cmd'[requests'[k]].stage = "lost"
    <3>1. CASE i \in 1..Len(handled)
      BY <1>1, <1>2, <2>3, <2>7, <2>8, <3>1 DEF LineInv
    <3>2. CASE i = Len(handled) + 1
      <4>1. 1 < k + 1 /\ requests[1] > requests[k + 1]
        BY <2>1, <2>3, <2>7, <2>8, <3>2
      <4>. QED  BY <1>2, <2>4, <2>7, <2>8, <4>1 DEF LineInv
    <3>. QED  BY <1>1, <2>3, <3>1, <3>2
  <2>9. ASSUME NEW j \in DOMAIN requests', NEW k \in DOMAIN requests',
               j < k, requests'[k] > 0, requests'[j] > requests'[k]
        PROVE  cmd'[requests'[k]].stage = "lost"
    <3>1. j + 1 \in DOMAIN requests /\ requests'[j] = requests[j + 1] /\ j + 1 < k + 1
      BY <1>1, <2>4, <2>7, <2>9
    <3>. QED  BY <1>2, <2>7, <2>9, <3>1 DEF LineInv
  <2>10. CommandsInOrder'
    BY <2>6 DEF CommandsInOrder
  <2>. QED  BY <2>5, <2>8, <2>9, <2>10, OpenKept DEF OrderInv, LineInv
<1>9. CASE UNCHANGED vars \/ ForeignChange \/ PollStart \/ Dispose
           \/ (\E p \in PollSlots : PollSettles(p)) \/ (\E c \in Commands : Dispatch(c))
           \/ \E id \in DOMAIN cmd : Send(id) \/ Receipt(id) \/ CommandFails(id)
  BY <1>3, <1>9 DEF vars, serverVars, ForeignChange, PollStart, Dispose, PollSettles, Dispatch,
                    Send, Receipt, CommandFails
<1>. QED  BY <1>4, <1>5, <1>6, <1>7, <1>8, <1>9
     DEF Next, LinkNext, ServerNext, PollNext, CommandNext, CommandStep, FaultNext

-------------------------------------------------------------------------------
(* The theorems. *)

LEMMA LinkInit ==
    ASSUME Init
    PROVE  LinkInv
<1>1. /\ snapshot = Blank("connecting") /\ polls = [p \in PollSlots |-> NoPoll]
      /\ cmd = <<>> /\ requests = <<>> /\ handled = <<>> /\ disposed = FALSE
      /\ version = 0 /\ seen = 0 /\ failures = 0 /\ foreign = 0
      /\ server \in ServerStates
  BY ValuesAssumption DEF Init, ServerStates, RunStates
<1>2. NoPoll \in Polls /\ NoPoll.stage = "none"
  BY DEF NoPoll, Polls
<1>3. polls \in [PollSlots -> Polls] /\ polls[1].stage = "none" /\ polls[2].stage = "none"
  BY <1>1, <1>2 DEF PollSlots
<1>4. cmd \in Seq(Cmds) /\ requests \in Seq(Int) /\ handled \in Seq(Nat)
      /\ DOMAIN cmd = {} /\ DOMAIN requests = {} /\ DOMAIN handled = {}
  BY <1>1
<1>5. TypeOK
  <2>1. snapshot \in Snapshots
    BY <1>1 DEF Snapshots
  <2>2. disposed \in BOOLEAN
    BY <1>1
  <2>3. version \in Nat /\ seen \in Nat /\ failures \in Nat /\ foreign \in Nat
    BY <1>1
  <2>. QED  BY <1>1, <1>3, <1>4, <2>1, <2>2, <2>3 DEF TypeOK, Cmds, Snapshots
<1>6. PlaceInv /\ QueueInv /\ PollInv
  BY <1>1, <1>3, <1>4 DEF PlaceInv, QueueInv, PollInv
<1>7. FreshInv /\ OrderInv
  BY <1>3, <1>4 DEF FreshInv, OrderInv, OpenInv, HandledInv, LineInv, CommandsInOrder
<1>. QED  BY <1>5, <1>6, <1>7 DEF LinkInv

LEMMA LinkKept ==
    ASSUME LinkInv, [Next]_vars
    PROVE  LinkInv'
BY TypeKept, QueueKept, PollsKept, FreshKept, OrderKept, CommandsKept DEF LinkInv, Kept

LEMMA LinkAlways == Spec => []LinkInv
BY LinkInit, LinkKept, PTL DEF Spec

\* Every variable keeps the values the code can give it, whatever the number
\* of commands, failures and changes from outside.
THEOREM TypeCorrect == Spec => []TypeOK
<1>1. LinkInv => TypeOK
  BY DEF LinkInv
<1>. QED  BY <1>1, LinkAlways, PTL

\* The chain of commands keeps their order up to the event loop, across lost
\* fetches whose requests arrive late.
THEOREM CommandsStayInOrder == Spec => []CommandsInOrder
<1>1. LinkInv => CommandsInOrder
  BY DEF LinkInv, OrderInv, LineInv
<1>. QED  BY <1>1, LinkAlways, PTL

\* A status asked for after a receipt always shows what the command did: the
\* request of a "pause" that was answered early is before it in the channel.
THEOREM ReceiptsAreFresh == Spec => []FreshAfterReceipt
<1>1. LinkInv => FreshAfterReceipt
  BY DEF LinkInv, FreshInv, QueueInv, FreshAfterReceipt, PollSlots
<1>. QED  BY <1>1, LinkAlways, PTL

\* One poll at a time is enough for the snapshots to follow the server's
\* order, and no continuation that runs after dispose touches the snapshot.
THEOREM NeverShownOlder == Spec => SnapshotsInServerOrder
<1>1. ASSUME LinkInv, [Next]_vars
      PROVE  seen' >= seen \/ UNCHANGED vars
  BY <1>1, PollsKept
<1>2. ASSUME [Next]_vars, disposed
      PROVE  snapshot' = snapshot
  BY <1>2 DEF Next, LinkNext, ServerNext, PollNext, CommandNext, CommandStep, FaultNext, vars,
              LoopAnswersPoll, LoopAnswersNobody, LoopHandlesCommand, ForeignChange, PollStart,
              PollEnqueued, PollSettles, PollAborted, Send, CommandEnqueued, Receipt,
              PollFails, CommandFails, Dispose, Dispatch, clientVars, Publish
<1>3. LinkInv /\ [Next]_vars
        => [seen' >= seen /\ (disposed => snapshot' = snapshot)]_vars
  BY <1>1, <1>2
<1>. QED  BY <1>3, LinkAlways, PTL DEF Spec, SnapshotsInServerOrder

-------------------------------------------------------------------------------
(* The live control. *)

\* A step of the link moves at most one command, and changes the receipt of
\* none that is settled.
LEMMA LinkMoves ==
    ASSUME LinkInv, LinkNext
    PROVE  \/ UNCHANGED cmd
           \/ \E id, c : Moved(id, c) /\ (c.stage = cmd[id].stage \/ Open(id))
<1>1. CASE LoopAnswersPoll \/ LoopAnswersNobody \/ ForeignChange \/ PollNext \/ Dispose
           \/ \E p \in PollSlots : PollFails(p)
  BY <1>1 DEF LoopAnswersPoll, LoopAnswersNobody, ForeignChange, PollNext, PollStart,
              PollEnqueued, PollSettles, PollAborted, PollFails, Dispose
<1>2. CASE LoopHandlesCommand
  BY <1>2, HandledMoves
<1>3. ASSUME NEW id \in DOMAIN cmd, CommandStep(id) \/ CommandFails(id)
      PROVE  \E c : Moved(id, c) /\ (c.stage = cmd[id].stage \/ Open(id))
  BY <1>3, SendMoves, ReceiptMoves, EnqueuedMoves, FailureMoves DEF CommandStep, Open
<1>. QED  BY <1>1, <1>2, <1>3 DEF LinkNext, ServerNext, CommandNext, FaultNext

\* So the user's latest command stays the latest, and one that is refused or
\* lost stays so.
LEMMA LinkSettles ==
    ASSUME LinkInv, LinkNext
    PROVE  /\ LinkInv' /\ Len(cmd') = Len(cmd) /\ DOMAIN cmd' = DOMAIN cmd
           /\ \A id \in DOMAIN cmd :
                  /\ ~Open(id) => cmd'[id].stage = cmd[id].stage
                  /\ cmd'[id].stage \in Stages
<1>1. LinkInv' /\ cmd \in Seq(Cmds) /\ cmd' \in Seq(Cmds)
  BY LinkKept, CommandsTyped DEF Next, LinkInv, TypeOK, Cmds
<1>2. CASE UNCHANGED cmd
  BY <1>1, <1>2, CommandsTyped DEF Cmds, LinkInv
<1>3. ASSUME NEW id, NEW c, Moved(id, c), c.stage = cmd[id].stage \/ Open(id)
      PROVE  /\ Len(cmd') = Len(cmd) /\ DOMAIN cmd' = DOMAIN cmd
             /\ \A other \in DOMAIN cmd :
                    /\ ~Open(other) => cmd'[other].stage = cmd[other].stage
                    /\ cmd'[other].stage \in Stages
  <2>1. /\ DOMAIN cmd' = DOMAIN cmd /\ Len(cmd') = Len(cmd)
        /\ cmd'[id] = c
        /\ \A other \in DOMAIN cmd : other # id => cmd'[other] = cmd[other]
    BY <1>1, <1>3, Changed DEF Moved
  <2>2. \A other \in DOMAIN cmd : cmd[other] \in Cmds
    BY CommandsTyped DEF LinkInv
  <2>. QED  BY <1>3, <2>1, <2>2 DEF Moved, Cmds
<1>. QED  BY <1>1, <1>2, <1>3, LinkMoves

-------------------------------------------------------------------------------
(* How the hook stands with the commands and with what is rendered. *)

Hooks == [phase : {"idle", "preview", "pending"}, desired : Nat, error : BOOLEAN, token : Nat]

\* A change that is pending is the latest command.  Without a connection there
\* is no change; what is changed to is a value of the setting.
HookInv ==
    /\ hook \in Hooks /\ rendered \in Snapshots
    /\ hook.token = IF hook.phase = "pending" THEN Len(cmd) ELSE 0
    /\ hook.phase = "pending" => Len(cmd) > 0 /\ ~hook.error
    /\ hook.phase = "preview" => ~hook.error
    /\ hook.phase # "idle" => hook.desired \in Values /\ Available
    /\ ShowsItsOwnState

LiveInv == LinkInv /\ HookInv

\* What a commit does: nothing, the end of the change, or a command of its own.
LEMMA CommitDoes ==
    ASSUME LiveInv, NEW value \in Values, Commit(value)
    PROVE  \/ ~Adjustable /\ UNCHANGED <<hook, vars>>
           \/ Adjustable /\ hook' = Idle(Applied, FALSE) /\ UNCHANGED vars
           \/ /\ Adjustable /\ \E c \in Commands : Dispatch(c)
              /\ \E c : NewCommand(c)
              /\ \/ hook' = Idle(Applied, TRUE) /\ cmd'[Len(cmd) + 1].stage = "rejected"
                 \/ hook' = [phase |-> "pending", desired |-> value, error |-> FALSE,
                             token |-> Len(cmd) + 1]
<1>1. CASE ~Adjustable
  BY <1>1 DEF Commit
<1>2. CASE Adjustable /\ value = Applied
  <2>1. hook.token = 0
    BY <1>2 DEF Adjustable, LiveInv, HookInv
  <2>. QED  BY <1>2, <2>1 DEF Commit, Idle
<1>3. CASE Adjustable /\ value # Applied
  <2>. DEFINE c == [type |-> "set-live", value |-> value]
  <2>1. c \in Commands
    BY LiveAssumption DEF Commands, Setters
  <2>2. Dispatch(c) /\ (\/ hook' = Idle(Applied, TRUE) /\ cmd'[Len(cmd) + 1].stage = "rejected"
                        \/ hook' = [phase |-> "pending", desired |-> value, error |-> FALSE,
                                    token |-> Len(cmd) + 1])
    BY <1>3 DEF Commit
  <2>. HIDE DEF c
  <2>3. \E d : NewCommand(d)
    BY <2>1, <2>2, DispatchAdds DEF LiveInv
  <2>. QED  BY <1>3, <2>1, <2>2, <2>3
<1>. QED  BY <1>1, <1>2, <1>3

\* A commit of no value of the setting can only be one that is applied.
LEMMA CommitDesired ==
    ASSUME LiveInv, hook.desired \notin Values, Commit(hook.desired)
    PROVE  \/ ~Adjustable /\ UNCHANGED <<hook, vars>>
           \/ Adjustable /\ hook' = Idle(Applied, FALSE) /\ UNCHANGED vars
BY DEF LiveInv, HookInv, ShowsItsOwnState, Commit, Adjustable, Idle
LEMMA LiveStart ==
    ASSUME LiveInit
    PROVE  LiveInv
<1>1. LinkInv /\ cmd = <<>>
  BY LinkInit DEF LiveInit, Init
<1>2. snapshot \in Snapshots /\ snapshot.connection # "connected" /\ snapshot.live \in Nat
  BY <1>1 DEF LiveInit, Init, LinkInv, TypeOK, Snapshots, Blank, NoValue
<1>. QED  BY <1>1, <1>2 DEF LiveInv, HookInv, LiveInit, Idle, Hooks, ShowsItsOwnState, Applied

\* A snapshot shows a value of the setting when it is connected.
LEMMA ShownValues ==
    ASSUME LiveInv
    PROVE  /\ Applied \in Nat /\ snapshot.live \in Nat
           /\ Available => Applied \in Values
           /\ snapshot.connection = "connected" => snapshot.live \in Values
<1>1. ASSUME NEW s \in Snapshots
      PROVE  s.live \in Nat /\ (s.connection = "connected" => s.live \in Values)
  <2>1. CASE s \in {Blank("connecting"), Blank("error")}
    BY <2>1 DEF Blank, NoValue
  <2>2. CASE s \in [connection : {"connected"}, run : RunStates, live : Values,
                   idleOnly : Values, version : Nat]
    BY <2>2, ValuesAssumption
  <2>. QED  BY <2>1, <2>2 DEF Snapshots
<1>2. snapshot \in Snapshots /\ rendered \in Snapshots
  BY DEF LiveInv, HookInv, LinkInv, TypeOK, Snapshots
<1>. QED  BY <1>1, <1>2 DEF Applied, Available

\* What the user and the timer do, apart from what a commit does.
Chosen == \E value \in Values : Preview(value)
Committed ==
    \/ \E value \in Values : Commit(value)
    \/ Commit(hook.desired)

LEMMA Gestures ==
    ASSUME LiveInv, User \/ Timer
    PROVE  /\ UNCHANGED viewVars
           /\ \/ Adjustable /\ Chosen /\ UNCHANGED vars
              \/ Committed
              \/ UNCHANGED <<vars, hook>>
              \/ hook' = Cancelled /\ UNCHANGED vars
<1>1. ASSUME NEW delta \in {-1, 1}, Press(delta) \/ KeyStep(delta)
      PROVE  UNCHANGED viewVars /\ ((Adjustable /\ Chosen /\ UNCHANGED vars) \/ Committed)
  BY <1>1 DEF Press, KeyStep, CanStep, Chosen, Committed
<1>2. ASSUME NEW value \in Values, TypeValue(value) \/ LeaveValid(value)
      PROVE  UNCHANGED viewVars /\ ((Adjustable /\ Chosen /\ UNCHANGED vars) \/ Committed)
  BY <1>2 DEF TypeValue, LeaveValid, Chosen, Committed
<1>3. CASE Release \/ Abandon \/ Focus \/ LeaveWithout
  BY <1>3 DEF Release, Abandon, Focus, LeaveWithout, Committed
<1>4. CASE Timer
  BY <1>4 DEF Timer, Repeat, RepeatAtLimit, RepeatUnheard, CanStep, Chosen, Committed
<1>. QED  BY <1>1, <1>2, <1>3, <1>4 DEF User

\* Whatever is committed, the link takes a step of its own or none.
LEMMA CommittedDoes ==
    ASSUME LiveInv, Committed
    PROVE  \/ ~Adjustable /\ UNCHANGED <<hook, vars>>
           \/ Adjustable /\ hook' = Idle(Applied, FALSE) /\ UNCHANGED vars
           \/ /\ Adjustable /\ \E c \in Commands : Dispatch(c)
              /\ \E c : NewCommand(c)
              /\ \/ hook' = Idle(Applied, TRUE) /\ cmd'[Len(cmd) + 1].stage = "rejected"
                 \/ \E value \in Values :
                        hook' = [phase |-> "pending", desired |-> value, error |-> FALSE,
                                 token |-> Len(cmd) + 1]
<1>1. ASSUME NEW value \in Values, Commit(value)
      PROVE  \/ ~Adjustable /\ UNCHANGED <<hook, vars>>
             \/ Adjustable /\ hook' = Idle(Applied, FALSE) /\ UNCHANGED vars
             \/ /\ Adjustable /\ \E c \in Commands : Dispatch(c)
                /\ \E c : NewCommand(c)
                /\ \/ hook' = Idle(Applied, TRUE) /\ cmd'[Len(cmd) + 1].stage = "rejected"
                   \/ hook' = [phase |-> "pending", desired |-> value, error |-> FALSE,
                               token |-> Len(cmd) + 1]
  BY <1>1, CommitDoes
<1>2. CASE hook.desired \notin Values /\ Commit(hook.desired)
  BY <1>2, CommitDesired
<1>. QED  BY <1>1, <1>2 DEF Committed

\* A step of the control is a step of the adapter or leaves it alone.
LEMMA LiveStepsLink ==
    ASSUME LiveInv, [LiveNext]_liveVars
    PROVE  [Next]_vars
<1>1. CASE Link
  BY <1>1 DEF Link, Next, LinkNext
<1>2. CASE User \/ Timer
  <2>1. CASE Committed
    BY <2>1, CommittedDoes DEF Next
  <2>. QED  BY <1>2, <2>1, Gestures
<1>3. CASE Render \/ UNCHANGED liveVars
  BY <1>3 DEF Render, liveVars
<1>. QED  BY <1>1, <1>2, <1>3 DEF LiveNext

LEMMA HookKept ==
    ASSUME LiveInv, [LiveNext]_liveVars
    PROVE  HookInv'
<1>. USE DEF ShowsItsOwnState, Applied, Available
<1>0. /\ hook \in Hooks /\ rendered \in Snapshots /\ snapshot \in Snapshots
      /\ cmd \in Seq(Cmds) /\ Len(cmd) \in Nat /\ DOMAIN cmd = 1..Len(cmd)
      /\ Values \subseteq Nat
  BY CommandsTyped, ValuesAssumption DEF LiveInv, HookInv, LinkInv, TypeOK, Snapshots
<1>1. CASE Link
  <2>1. LinkNext /\ UNCHANGED rendered
    BY <1>1 DEF Link, LinkNext
  <2>2. /\ Len(cmd') = Len(cmd) /\ DOMAIN cmd' = DOMAIN cmd
        /\ \A id \in DOMAIN cmd :
               /\ ~Open(id) => cmd'[id].stage = cmd[id].stage
               /\ cmd'[id].stage \in Stages
    BY <2>1, LinkSettles DEF LiveInv
  <2>3. hook.error => cmd'[Len(cmd)].stage \in {"rejected", "lost"}
    BY <1>0, <2>2 DEF LiveInv, HookInv, Open
  <2>4. CASE UNCHANGED hook
    BY <2>1, <2>2, <2>3, <2>4 DEF LiveInv, HookInv
  <2>5. CASE hook' # hook
    <3>1. PICK id \in DOMAIN cmd : Settles(id) /\ hook' = AfterReceipt(id, cmd'[id].stage)
      BY <1>1, <2>5 DEF Link
    <3>2. id = hook.token /\ hook' = Idle(rendered.live, TRUE)
          /\ cmd'[id].stage \in {"rejected", "lost"}
      BY <2>2, <2>5, <3>1 DEF AfterReceipt, Settles, Stages
    <3>3. id = Len(cmd) /\ Len(cmd) > 0
      BY <1>0, <3>2 DEF LiveInv, HookInv
    <3>. QED  BY <1>0, <2>1, <2>2, <3>2, <3>3, ShownValues DEF HookInv, Idle, Hooks
  <2>. QED  BY <2>4, <2>5
<1>2. CASE User \/ Timer
  <2>1. UNCHANGED rendered
    BY <1>2, Gestures DEF viewVars
  <2>2. CASE Adjustable /\ Chosen /\ UNCHANGED vars
    <3>1. PICK value \in Values : Preview(value)
      BY <2>2 DEF Chosen
    <3>2. /\ hook' \in Hooks /\ hook'.phase = "preview" /\ hook'.desired = value
          /\ ~hook'.error /\ hook'.token = hook.token
      BY <1>0, <3>1 DEF Preview, Hooks
    <3>. QED  BY <1>0, <2>1, <2>2, <3>2 DEF LiveInv, HookInv, Adjustable, vars
  <2>3. CASE Committed
    <3>1. CASE UNCHANGED <<hook, vars>>
      BY <2>1, <3>1 DEF LiveInv, HookInv, vars
    <3>2. CASE hook' = Idle(rendered.live, FALSE) /\ UNCHANGED vars
      BY <1>0, <2>1, <3>2, ShownValues DEF HookInv, Idle, Hooks, vars
    <3>3. CASE Adjustable /\ \E c : NewCommand(c)
      <4>1. Len(cmd') = Len(cmd) + 1
        BY <1>0, <3>3, LenProperties DEF NewCommand
      <4>2. CASE hook' = Idle(rendered.live, TRUE) /\ cmd'[Len(cmd) + 1].stage = "rejected"
        BY <1>0, <2>1, <4>1, <4>2, ShownValues DEF HookInv, Idle, Hooks
      <4>3. ASSUME NEW value \in Values,
                   hook' = [phase |-> "pending", desired |-> value, error |-> FALSE,
                            token |-> Len(cmd) + 1]
            PROVE  HookInv'
        BY <1>0, <2>1, <3>3, <4>1, <4>3 DEF HookInv, Hooks, Adjustable
      <4>. QED  BY <2>3, <3>1, <3>2, <4>2, <4>3, CommittedDoes
    <3>. QED  BY <2>3, <3>1, <3>2, <3>3, CommittedDoes
  <2>4. CASE UNCHANGED <<vars, hook>>
    BY <2>1, <2>4 DEF LiveInv, HookInv, vars
  <2>5. CASE hook' = Cancelled /\ UNCHANGED vars
    BY <1>0, <2>1, <2>5, ShownValues DEF LiveInv, HookInv, Cancelled, Idle, Hooks, vars
  <2>. QED  BY <1>2, <2>2, <2>3, <2>4, <2>5, Gestures
<1>3. CASE Render
  <2>1. rendered' = snapshot /\ hook' = Effect(snapshot) /\ UNCHANGED vars
    BY <1>3 DEF Render
  <2>2. CASE snapshot.connection # "connected"
    <3>1. hook' = Idle(snapshot.live, FALSE)
      BY <1>0, <2>1, <2>2 DEF Effect, Idle, LiveInv, HookInv
    <3>. QED  BY <1>0, <2>1, <3>1, ShownValues DEF HookInv, Idle, Hooks, vars
  <2>3. CASE snapshot.connection = "connected" /\ hook.phase = "idle"
    <3>1. /\ hook' \in Hooks /\ hook'.phase = "idle" /\ hook'.desired = snapshot.live
          /\ hook'.error = hook.error /\ hook'.token = hook.token
      BY <1>0, <2>1, <2>3, ShownValues DEF Effect, Hooks
    <3>. QED  BY <1>0, <2>1, <2>3, <3>1 DEF LiveInv, HookInv, vars
  <2>4. CASE snapshot.connection = "connected" /\ hook.phase # "idle"
    <3>1. CASE hook' = Idle(snapshot.live, FALSE)
      BY <1>0, <2>1, <3>1, ShownValues DEF HookInv, Idle, Hooks, vars
    <3>2. CASE hook' = hook
      BY <1>0, <2>1, <2>4, <3>2 DEF LiveInv, HookInv, vars
    <3>. QED  BY <2>1, <2>4, <3>1, <3>2 DEF Effect
  <2>. QED  BY <2>2, <2>3, <2>4
<1>4. CASE UNCHANGED liveVars
  BY <1>4 DEF liveVars, viewVars, vars, LiveInv, HookInv
<1>. QED  BY <1>1, <1>2, <1>3, <1>4 DEF LiveNext

LEMMA LiveAlways == LiveSpec => []LiveInv
<1>1. LiveInit => LiveInv
  BY LiveStart
<1>2. LiveInv /\ [LiveNext]_liveVars => LiveInv'
  BY LiveStepsLink, LinkKept, HookKept DEF LiveInv
<1>. QED  BY <1>1, <1>2, PTL DEF LiveSpec

\* The control adds nothing to what the adapter may do: with it, too, the
\* commands stay in order and a status asked for after a receipt is fresh.
THEOREM ControlKeepsToTheLink == LiveSpec => Spec
<1>1. LiveInit => Init
  BY DEF LiveInit
<1>2. LiveInv /\ [LiveNext]_liveVars => [Next]_vars
  BY LiveStepsLink
<1>. QED  BY <1>1, <1>2, LiveAlways, PTL DEF LiveSpec, Spec

\* However a change ends, the control is back to what the server last
\* reported, and an error on display is the latest command's.
THEOREM ControlShowsItsOwn == LiveSpec => []ShowsItsOwnState
<1>1. LiveInv => ShowsItsOwnState
  BY DEF LiveInv, HookInv
<1>. QED  BY <1>1, LiveAlways, PTL

\* The stepper of the worker leaves no preview behind, whatever gestures of
\* the stepper and of the field overlap; the valve's does, at its limit.
THEOREM WorkerPreviewHasGesture ==
    ASSUME Stepper = "worker"
    PROVE  LiveSpec => []PreviewHasGesture
<1>1. LiveInit => PreviewHasGesture
  BY DEF LiveInit, Idle, PreviewHasGesture
<1>2. ASSUME LiveInv, PreviewHasGesture, [LiveNext]_liveVars
      PROVE  PreviewHasGesture'
  <2>. USE DEF PreviewHasGesture
  <2>1. CASE Link
    BY <1>2, <2>1 DEF Link, AfterReceipt, Idle
  <2>2. CASE Render
    <3>1. hook' = hook \/ hook'.phase = "idle"
      BY <1>2, <2>2 DEF Render, Effect, Idle, LiveInv, HookInv, Hooks
    <3>. QED  BY <1>2, <2>2, <3>1 DEF Render
  <2>3. ASSUME Committed PROVE hook'.phase # "preview" \/ (~Adjustable /\ UNCHANGED hook)
    BY <1>2, <2>3, CommittedDoes DEF Idle
  <2>4. ~Adjustable => hook.phase # "preview"
    BY <1>2 DEF LiveInv, HookInv, Adjustable
  <2>5. ASSUME Committed PROVE hook'.phase # "preview"
    BY <2>3, <2>4, <2>5
  <2>6. Cancelled.phase # "preview"
    BY DEF Cancelled, Idle
  <2>7. ASSUME NEW delta \in {-1, 1}, Press(delta) \/ KeyStep(delta)
        PROVE  PreviewHasGesture'
    BY <2>5, <2>7 DEF Press, KeyStep, CanStep, Committed
  <2>8. ASSUME NEW value \in Values, TypeValue(value) \/ LeaveValid(value)
        PROVE  PreviewHasGesture'
    BY <2>5, <2>8 DEF TypeValue, LeaveValid, Committed
  <2>9. CASE Release \/ Abandon \/ Focus \/ LeaveWithout
    BY <1>2, <2>5, <2>6, <2>9 DEF Release, Abandon, Focus, LeaveWithout, Committed
  <2>10. CASE Timer
    BY <1>2, <2>4, <2>5, <2>10 DEF Timer, Repeat, RepeatAtLimit, RepeatUnheard, Committed
  <2>11. CASE UNCHANGED liveVars
    BY <1>2, <2>11 DEF liveVars
  <2>. QED  BY <1>2, <2>1, <2>2, <2>7, <2>8, <2>9, <2>10, <2>11 DEF LiveNext, User
<1>3. LiveInv /\ PreviewHasGesture /\ [LiveNext]_liveVars => PreviewHasGesture'
  BY <1>2
<1>. QED  BY <1>1, <1>3, LiveAlways, PTL DEF LiveSpec
===============================================================================
