----------------------------- MODULE MCMainLoop ------------------------------
(***************************************************************************)
(* Small instances of the daemon's threads: one receive buffer, so that it *)
(* is soon used up, two AMS messages and two posts ahead.                  *)
(***************************************************************************)
EXTENDS MainLoop
==============================================================================
