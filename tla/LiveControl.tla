----------------------------- MODULE LiveControl -----------------------------
(***************************************************************************)
(* One live control on top of the HTTP adapter: the hook that keeps what   *)
(* the user wants apart from what the server has applied, and the two that *)
(* drive it: a stepper to press and hold in the pipeline, and a field to   *)
(* type into in the inspector.                                             *)
(* (src/frontend/src/hooks/useDesiredControl.ts; WorkerActor.tsx,          *)
(* ThrottlerActor.tsx, NumericControl.tsx, LabShell.tsx)                   *)
(*                                                                         *)
(* A token of the hook is the number of the command it was taken for; 0    *)
(* is a token no receipt matches.  Every render shows a later revision     *)
(* than the one before, so the hook's comparison of revisions comes out    *)
(* true in every effect after the commit and is left out.  Callbacks read  *)
(* the snapshot of the last render, which may be behind the adapter's.  A  *)
(* receipt is awaited and looked at in the task that settles it.           *)
(***************************************************************************)
EXTENDS HttpAdapter

CONSTANT Stepper    \* "worker": WorkerActor's stepper; "valve": the throttler's

ASSUME StepperAssumption == Stepper \in {"worker", "valve"}
ASSUME LiveAssumption == "set-live" \in CommandTypes
ASSUME RangeAssumption == \E low, high \in Values : Values = low..high

VARIABLES
    rendered,   \* the snapshot of the last render
    fresh,      \* the listener was called since
    hook,       \* state and tokenRef: [phase, desired, error, token]
    held,       \* the press in progress: 1, -1, or 0
    editing     \* the field has the focus

viewVars == <<rendered, fresh>>
liveVars == <<vars, viewVars, hook, held, editing>>

Applied == rendered.live
Available == rendered.connection = "connected"
Idle(desired, error) ==
    [phase |-> "idle", desired |-> desired, error |-> error, token |-> 0]

\* The run state does not bear on this control.
LiveInit ==
    /\ Init
    /\ server.run = "idle"
    /\ rendered = snapshot /\ fresh = FALSE
    /\ hook = Idle(snapshot.live, FALSE)
    /\ held = 0 /\ editing = FALSE

-------------------------------------------------------------------------------
(* useDesiredControl *)

Adjustable == Available /\ hook.phase # "pending"

Preview(value) ==
    hook' = [hook EXCEPT !.phase = "preview", !.desired = value, !.error = FALSE]

\* cancel: only a preview is taken back.
Cancelled == IF hook.phase = "preview" THEN Idle(Applied, FALSE) ELSE hook

\* commit: a value that is applied already is not sent.  One the adapter
\* refuses on the spot is pending until its receipt is looked at, in the same
\* task.
Commit(value) ==
    IF ~Adjustable THEN UNCHANGED <<hook, vars>>
    ELSE IF value = Applied
         THEN hook' = [Idle(Applied, FALSE) EXCEPT !.token = hook.token] /\ UNCHANGED vars
         ELSE /\ Dispatch([type |-> "set-live", value |-> value])
              /\ hook' = IF cmd'[Len(cmd) + 1].stage = "rejected" THEN Idle(Applied, TRUE)
                         ELSE [phase |-> "pending", desired |-> value, error |-> FALSE,
                               token |-> Len(cmd) + 1]

\* Mutant: a receipt is taken for the change in progress, whichever it was for.
AnyReceipt(id, stage) == IF stage # "accepted" THEN Idle(Applied, TRUE) ELSE hook

\* The hook when the receipt of command id says `stage`.
AfterReceipt(id, stage) ==
    IF id = hook.token /\ stage # "accepted" THEN Idle(Applied, TRUE) ELSE hook

\* Mutant: a pending change is never compared with what is shown.
EffectNeverConfirms(s) ==
    IF s.connection # "connected"
    THEN [Idle(s.live, FALSE) EXCEPT !.token = IF hook.phase = "idle" THEN hook.token ELSE 0]
    ELSE IF hook.phase = "idle" THEN [hook EXCEPT !.desired = s.live] ELSE hook

\* The effect of a render that shows snapshot s.
Effect(s) ==
    IF s.connection # "connected"
    THEN [Idle(s.live, FALSE) EXCEPT !.token = IF hook.phase = "idle" THEN hook.token ELSE 0]
    ELSE IF hook.phase = "idle" THEN [hook EXCEPT !.desired = s.live]
    ELSE IF hook.phase = "pending" /\ s.live = hook.desired THEN Idle(s.live, FALSE)
    ELSE hook

Render ==
    /\ fresh
    /\ rendered' = snapshot /\ fresh' = FALSE
    /\ hook' = Effect(snapshot)
    /\ UNCHANGED <<vars, held, editing>>

-------------------------------------------------------------------------------
(* The stepper. *)

Wanted == IF hook.phase = "idle" THEN Applied ELSE hook.desired
CanStep(delta) == Wanted + delta \in Values

\* Pointer down: a step at once, and the press is held.
Press(delta) ==
    /\ held = 0 /\ Adjustable /\ CanStep(delta)
    /\ Preview(Wanted + delta)
    /\ held' = delta
    /\ UNCHANGED <<vars, viewVars, editing>>

\* Each repeat of a held press is a step while the control can be adjusted.
Repeat ==
    /\ held # 0 /\ Adjustable /\ CanStep(held)
    /\ Preview(Wanted + held)
    /\ UNCHANGED <<vars, viewVars, held, editing>>

\* At the limit the worker stepper ends the press and commits; the valve ends
\* it, and with it the listeners that would commit or cancel.
RepeatAtLimit ==
    /\ held # 0 /\ Adjustable /\ ~CanStep(held)
    /\ held' = 0
    /\ IF Stepper = "worker" THEN Commit(hook.desired) ELSE UNCHANGED <<vars, hook>>
    /\ UNCHANGED <<viewVars, editing>>

\* The worker stepper goes on counting while its previews are ignored and
\* may meet the limit.
RepeatUnheard ==
    /\ held # 0 /\ ~Adjustable /\ Stepper = "worker"
    /\ held' = 0
    /\ UNCHANGED <<vars, viewVars, hook, editing>>

Release ==
    /\ held # 0
    /\ held' = 0
    /\ Commit(hook.desired)
    /\ UNCHANGED <<viewVars, editing>>

\* Pointer cancel, Escape, or the window loses focus.
Abandon ==
    /\ held # 0
    /\ held' = 0
    /\ hook' = Cancelled
    /\ UNCHANGED <<vars, viewVars, editing>>

\* A click by keyboard, or an arrow key on the valve: step and commit.
KeyStep(delta) ==
    /\ Adjustable /\ CanStep(delta)
    /\ Commit(Wanted + delta)
    /\ UNCHANGED <<viewVars, held, editing>>

-------------------------------------------------------------------------------
(* The field.  It is disabled while the control cannot be adjusted.  What is *)
(* typed may be anything, so the draft is not kept.                          *)

Focus ==
    /\ ~editing /\ Adjustable
    /\ editing' = TRUE
    /\ UNCHANGED <<vars, viewVars, hook, held>>

\* A change that leaves a valid value is previewed.
TypeValue(value) ==
    /\ editing /\ Adjustable /\ value \in Values
    /\ Preview(value)
    /\ UNCHANGED <<vars, viewVars, held, editing>>

\* Enter, and the blur that comes with it, or the focus goes elsewhere.
LeaveValid(value) ==
    /\ editing /\ value \in Values
    /\ editing' = FALSE
    /\ Commit(value)
    /\ UNCHANGED <<viewVars, held>>

\* Mutant: an invalid draft is dropped without taking the preview back.
LeaveForgets ==
    /\ editing
    /\ editing' = FALSE
    /\ UNCHANGED <<vars, viewVars, hook, held>>

\* Escape, or the draft is no valid value: a preview is taken back.
LeaveWithout ==
    /\ editing
    /\ editing' = FALSE
    /\ hook' = Cancelled
    /\ UNCHANGED <<vars, viewVars, held>>

-------------------------------------------------------------------------------
Published == \E p \in PollSlots : polls[p].stage # "none" /\ polls'[p].stage = "none"

Settles(id) == Open(id) /\ cmd'[id].stage \notin {"queued", "sent"}

\* The link without `dispose`, which comes with the end of the view.
Link ==
    /\ ServerNext \/ ForeignChange \/ PollNext \/ CommandNext \/ FaultNext
    /\ fresh' = (fresh \/ Published)
    /\ hook' = IF \E id \in DOMAIN cmd : Settles(id)
               THEN LET id == CHOOSE i \in DOMAIN cmd : Settles(i)
                    IN  AfterReceipt(id, cmd'[id].stage)
               ELSE hook
    /\ UNCHANGED <<rendered, held, editing>>

User ==
    \/ \E delta \in {-1, 1} : Press(delta) \/ KeyStep(delta)
    \/ Release \/ Abandon \/ Focus \/ LeaveWithout
    \/ \E value \in Values : TypeValue(value) \/ LeaveValid(value)
Timer == Repeat \/ RepeatAtLimit \/ RepeatUnheard

LiveNext == Link \/ User \/ Timer \/ Render

LiveSpec == LiveInit /\ [][LiveNext]_liveVars

\* As for the link, and renders happen.  A press may be held for ever.
LiveFairness ==
    /\ WF_liveVars(Link /\ ServerNext) /\ WF_liveVars(Link /\ PollNext)
    /\ \A id \in 1..MaxCommands :
           WF_liveVars(Link /\ id \in DOMAIN cmd /\ CommandStep(id))
    /\ WF_liveVars(Render)

FairLiveSpec == LiveSpec /\ LiveFairness

-------------------------------------------------------------------------------
\* A control nobody is changing shows what the server last reported, however
\* the last change ended: confirmed, refused, lost or cut off by an error.  And
\* an error on display is about the user's latest change: the receipt of an
\* earlier one, overtaken by a failed poll, says nothing any more.
ShowsItsOwnState ==
    /\ hook.phase = "idle" => hook.desired = Applied
    /\ hook.error => Len(cmd) > 0 /\ cmd[Len(cmd)].stage \in {"rejected", "lost"}

\* A preview belongs to a press or an edit in progress: no gesture ends with a
\* value on display that was neither committed nor taken back.
PreviewHasGesture == hook.phase = "preview" => held # 0 \/ editing

\* A pending change is resolved.  It stays pending for good only when the
\* server carried it out and another client has changed the value since.
PendingResolves ==
    \/ []<>(hook.phase # "pending")
    \/ <>[](/\ hook.phase = "pending" /\ hook.token \in DOMAIN cmd
            /\ cmd[hook.token].stage = "accepted" /\ server.live # hook.desired)
===============================================================================
