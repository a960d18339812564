------------------------------- MODULE MCUcsi --------------------------------
(***************************************************************************)
(* Small instances of the integration layer, one configuration for each    *)
(* question:                                                               *)
(*   MCUcsi             commands of all kinds, reconfigurations, errors    *)
(*   MCUcsiModes        mode requests, restarts and failed starts          *)
(*   MCUcsiProgramming  the modes with the programming mode                *)
(***************************************************************************)
EXTENDS Ucsi
==============================================================================
