---------------------------- MODULE MCControlPlane ----------------------------
(* A small instance of the event loop for TLC. *)
EXTENDS ControlPlane

TwoValues == {1, 2}
===============================================================================
