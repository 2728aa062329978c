------------------------------ MODULE MCService ------------------------------
(* A small instance of the service for TLC. *)
EXTENDS Service

CONSTANTS h1, h2

TwoHandlers == {h1, h2}
===============================================================================
