----------------------------- MODULE CommandFifo -----------------------------
(***************************************************************************)
(* What the command queue of the UNICENS integration layer promises to the *)
(* code that enqueues commands: at most Capacity commands are pending,     *)
(* they are executed in the order in which they were accepted, at most one *)
(* of them is being executed at any time, and that one stays the oldest    *)
(* pending command until it is finished.                                   *)
(*                                                                         *)
(* RingBuffer implements this at the level of slots and cursors, Ucsi at   *)
(* the level of the commands and the callbacks that finish them.           *)
(***************************************************************************)
EXTENDS Naturals, Sequences

CONSTANTS
  Command,   \* the commands that can be enqueued
  Capacity   \* the number of commands that can be pending (CMD_QUEUE_LEN)

VARIABLES
  pending,   \* the accepted commands that are not finished, oldest first
  active     \* the oldest pending command is being executed

vars == <<pending, active>>

Init ==
  /\ pending = <<>>
  /\ active = FALSE

\* What one call can add: a command, or the pair Stop and Init of a
\* reconfiguration.
Burst == {<<>>} \cup {<<c>> : c \in Command} \cup {<<c, d>> : c, d \in Command}

Add(rest, new) ==
  /\ Len(rest \o new) <= Capacity
  /\ pending' = rest \o new

\* New commands go behind the pending ones.
Accept ==
  /\ \E new \in Burst : Add(pending, new)
  /\ UNCHANGED active

\* The oldest command is handed over for execution.
Begin ==
  /\ ~active
  /\ pending # <<>>
  /\ active' = TRUE
  /\ UNCHANGED pending

\* The command in execution is finished; the step that finishes it may
\* enqueue a follow-up.
Finish ==
  /\ active
  /\ pending # <<>>
  /\ active' = FALSE
  /\ \E new \in Burst : Add(Tail(pending), new)

\* The oldest command is finished, or refused, by the very call that starts it.
Pass ==
  /\ ~active
  /\ pending # <<>>
  /\ pending' = Tail(pending)
  /\ UNCHANGED active

Next == Accept \/ Begin \/ Finish \/ Pass

Spec == Init /\ [][Next]_vars
==============================================================================
