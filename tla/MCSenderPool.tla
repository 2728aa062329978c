----------------------------- MODULE MCSenderPool -----------------------------
(* Small instances of the sender pool for TLC. *)
EXTENDS SenderPool

OneToTwo == 1..2
===============================================================================
