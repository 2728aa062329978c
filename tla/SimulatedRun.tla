----------------------------- MODULE SimulatedRun -----------------------------
(***************************************************************************)
(* What the simulation promises to whoever works with it, without          *)
(* channels, buckets, stages or workers: batches are numbered as they are  *)
(* produced and attempted in that order; each one attempted is open until  *)
(* it is delivered or given up, once; nothing moves but while the          *)
(* simulation runs; and nothing is taken back but by a reset of one that   *)
(* does not run.                                                           *)
(* (src/frontend/src/adapters/SimulationAdapter.ts and the figures of      *)
(* src/frontend/src/model/simulation.ts that it shows)                     *)
(***************************************************************************)
EXTENDS Integers, FiniteSets

VARIABLES
    running,    \* the simulation is stepped
    made,       \* batches produced: 0 .. made - 1
    begun,      \* batches attempted: 0 .. begun - 1
    open,       \* those attempted that have no end yet
    delivered,  \* how many were delivered
    givenUp     \* and how many given up

vars == <<running, made, begun, open, delivered, givenUp>>

Init ==
    /\ running = FALSE
    /\ made = 0 /\ begun = 0 /\ open = {}
    /\ delivered = 0 /\ givenUp = 0

Make ==
    /\ running
    /\ made' = made + 1
    /\ UNCHANGED <<running, begun, open, delivered, givenUp>>

Begin ==
    /\ running
    /\ begun < made
    /\ begun' = begun + 1
    /\ open' = open \cup {begun}
    /\ UNCHANGED <<running, made, delivered, givenUp>>

\* Several attempts may end at the same time.
Settle ==
    /\ running
    /\ \E won, lost \in SUBSET open :
           /\ won \cap lost = {}
           /\ open' = open \ (won \cup lost)
           /\ delivered' = delivered + Cardinality(won)
           /\ givenUp' = givenUp + Cardinality(lost)
    /\ UNCHANGED <<running, made, begun>>

Switch ==
    /\ running' = ~running
    /\ UNCHANGED <<made, begun, open, delivered, givenUp>>

Reset ==
    /\ ~running
    /\ made' = 0 /\ begun' = 0 /\ open' = {}
    /\ delivered' = 0 /\ givenUp' = 0
    /\ UNCHANGED running

Next == Make \/ Begin \/ Settle \/ Switch \/ Reset

Spec == Init /\ [][Next]_vars
===============================================================================
