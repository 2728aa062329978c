---------------------------- MODULE MCReaderStages ----------------------------
(* A small instance of the stages before the sender pool for TLC. *)
EXTENDS ReaderStages

CONSTANTS w1, w2

TwoSlots == {w1, w2}
OneToTwo == 1..2
ZeroAndOne == {0, 1}
AllSettings == {"off", "zero", "timed"}
===============================================================================
