---------------------------- MODULE SenderDelivery ----------------------------
(***************************************************************************)
(* What a sender pool promises to the run that owns it, without workers,   *)
(* locks or gates: batches are taken in channel order until the pool is    *)
(* sealed; each one taken is delivered, or dropped once the run has ended; *)
(* the run's counter gets every delivered batch exactly once; and when the *)
(* pool reports itself closed nothing it took is left open.                *)
(* (the promises of src/docs/plans/current/product-refactoring.md, item 12,*)
(* and of the callers in src/loadgen/pipeline_runtime.go)                  *)
(***************************************************************************)
EXTENDS Integers, FiniteSets

CONSTANT MaxBatches

VARIABLES
    taken,      \* batches taken from the channel: 1 .. taken
    fate,       \* how the service of each batch ended, or "open"
    counted,    \* delivered batches the run has been told of
    ended,      \* the context of the run is cancelled
    sealed,     \* nothing is taken any more
    closed      \* the pool has reported the end of all its goroutines

vars == <<taken, fate, counted, ended, sealed, closed>>

Delivered == {b \in 1..MaxBatches : fate[b] = "delivered"}

Init ==
    /\ taken = 0
    /\ fate = [b \in 1..MaxBatches |-> "open"]
    /\ counted = 0
    /\ ended = FALSE /\ sealed = FALSE /\ closed = FALSE

Take ==
    /\ ~sealed
    /\ taken < MaxBatches
    /\ taken' = taken + 1
    /\ UNCHANGED <<fate, counted, ended, sealed, closed>>

Deliver(b) ==
    /\ fate[b] = "open"
    /\ fate' = [fate EXCEPT ![b] = "delivered"]
    /\ UNCHANGED <<taken, counted, ended, sealed, closed>>

Drop(b) ==
    /\ ended
    /\ fate[b] = "open"
    /\ fate' = [fate EXCEPT ![b] = "dropped"]
    /\ UNCHANGED <<taken, counted, ended, sealed, closed>>

Count ==
    /\ counted < Cardinality(Delivered)
    /\ counted' = counted + 1
    /\ UNCHANGED <<taken, fate, ended, sealed, closed>>

End ==
    /\ ended' = TRUE
    /\ UNCHANGED <<taken, fate, counted, sealed, closed>>

Seal ==
    /\ ended
    /\ sealed' = TRUE
    /\ UNCHANGED <<taken, fate, counted, ended, closed>>

Close ==
    /\ sealed
    /\ \A b \in 1..taken : fate[b] # "open"
    /\ counted = Cardinality(Delivered)
    /\ closed' = TRUE
    /\ UNCHANGED <<taken, fate, counted, ended, sealed>>

Next ==
    \/ Take \/ Count \/ End \/ Seal \/ Close
    \/ \E b \in 1..taken : Deliver(b) \/ Drop(b)

Spec == Init /\ [][Next]_vars
===============================================================================
