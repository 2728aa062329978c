------------------------- MODULE MCPipelineSimulation -------------------------
(* A small instance of the simulation for TLC. *)
EXTENDS PipelineSimulation

OneAndTwo == {1, 2}
OneAndThree == {1, 3}
TwoRates == {0, 2}
ZeroAndTwo == {0, 2}
===============================================================================
