---------------------------- MODULE MCLiveControl ----------------------------
(* Small instances of a live control for TLC. *)
EXTENDS LiveControl

LiveTypes == {"set-live"}
ThreeValues == {1, 2, 3}
TwoValues == {1, 2}
===============================================================================
