---------------------------- MODULE MCTelnetProxy ----------------------------
(* Small instances of TelnetProxy. *)
EXTENDS TelnetProxy

AllFront == {"text", "line", "bad", "nego", "do"}
=============================================================================
