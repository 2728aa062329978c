---------------------------- MODULE MCHttpAdapter ----------------------------
(* Small instances of the HTTP adapter for TLC. *)
EXTENDS HttpAdapter

LinkTypes == {"run", "pause", "set-idle-only"}

OneValue == {1}
TwoValues == {1, 2}
===============================================================================
