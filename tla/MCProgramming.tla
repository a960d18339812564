---------------------------- MODULE MCProgramming ----------------------------
(***************************************************************************)
(* Three nodes with every choice of addresses out of four and of MAC       *)
(* addresses out of three, where 0 is no address, so that increments wrap; *)
(* nodes with and without a diagnosis id.                                  *)
(***************************************************************************)
EXTENDS Programming
==============================================================================
