----------------------------- MODULE MCUcsiPrint -----------------------------
(***************************************************************************)
(* One route between two nodes with one resource.  Nodes come and go at    *)
(* two positions, and there is room for one of them.  The clock wraps, so  *)
(* that the times to come are out of its reach now and then.               *)
(***************************************************************************)
EXTENDS UcsiPrint

CONSTANTS amplifier, radio, music, socket

MCNodes == {amplifier, radio}
MCRoutes == {music}
MCSource == [r \in MCRoutes |-> radio]
MCSink == [r \in MCRoutes |-> amplifier]
=============================================================================
