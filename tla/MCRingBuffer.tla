---------------------------- MODULE MCRingBuffer -----------------------------
(***************************************************************************)
(* Three slots and counters that wrap after five: the counters and the     *)
(* pointers wrap at different times, as 40 and 2^32 do.                    *)
(***************************************************************************)
EXTENDS RingBuffer
==============================================================================
