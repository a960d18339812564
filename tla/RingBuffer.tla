----------------------------- MODULE RingBuffer ------------------------------
(***************************************************************************)
(* The ring buffer RB_t of libraries/ucsi/ucsi_impl.c, with the one client *)
(* it has: the command queue.  Entries are written in place at pTx, the    *)
(* entry at pRx is used in place through the pointer currentCmd, and the   *)
(* fill level is the difference of two unsigned 32 bit counters that wrap. *)
(*                                                                         *)
(* Pointers are slot numbers; the width of the counters is a constant, so  *)
(* that the wrap is reached on small instances.  The build defines NDEBUG, *)
(* so the assertion txPos >= rxPos, which a wrapped counter breaks, is not *)
(* part of the program.                                                    *)
(*                                                                         *)
(* A definition Faulty<Name> is not part of the model: it is <Name> with a *)
(* mistake that the code could have had, and stands here to show that the  *)
(* properties would notice.                                                *)
(***************************************************************************)
EXTENDS Integers, Sequences

CONSTANTS
  Entry,            \* the values a slot can hold
  Blank,            \* what memset() leaves in a slot
  AmountOfEntries,  \* CMD_QUEUE_LEN
  CounterRange,     \* rxPos and txPos count modulo this (2^32)
  NoSlot            \* the NULL pointer

ASSUME RingAssumption ==
  /\ AmountOfEntries \in Nat \ {0}
  /\ CounterRange \in Nat
  /\ AmountOfEntries < CounterRange
  /\ NoSlot \notin 0 .. AmountOfEntries - 1

VARIABLES
  slots,       \* dataQueue
  pRx, pTx,    \* the slots that are read and written next
  rxPos, txPos,
  currentCmd   \* the slot in use, or NoSlot

vars == <<slots, pRx, pTx, rxPos, txPos, currentCmd>>

Slot == 0 .. AmountOfEntries - 1
Position == 0 .. CounterRange - 1

TypeOK ==
  /\ slots \in [Slot -> Entry \cup {Blank}]
  /\ pRx \in Slot
  /\ pTx \in Slot
  /\ rxPos \in Position
  /\ txPos \in Position
  /\ currentCmd \in Slot \cup {NoSlot}

RB_Init ==
  /\ slots = [s \in Slot |-> Blank]
  /\ pRx = 0
  /\ pTx = 0
  /\ rxPos = 0
  /\ txPos = 0

Init == RB_Init /\ currentCmd = NoSlot

\* txPos - rxPos in unsigned arithmetic.
Used == IF txPos >= rxPos THEN txPos - rxPos ELSE txPos + CounterRange - rxPos

\* ++rxPos and ++txPos, and the step of a pointer that is set back at the end.
Bump(position) == IF position + 1 = CounterRange THEN 0 ELSE position + 1
Wrap(slot) == IF slot >= AmountOfEntries THEN slot - AmountOfEntries ELSE slot

FaultyRB_CanRead == Used >= 0
RB_CanRead == Used > 0
FaultyRB_CanWrite == Used <= AmountOfEntries
RB_CanWrite == Used < AmountOfEntries

FaultyRB_PopReadPtr == pRx' = Wrap(pRx + 1) /\ UNCHANGED rxPos
RB_PopReadPtr ==
  /\ pRx' = Wrap(pRx + 1)
  /\ rxPos' = Bump(rxPos)

RB_PopWritePtr ==
  /\ pTx' = Wrap(pTx + 1)
  /\ txPos' = Bump(txPos)

\* RB_GetWritePtr, filling the entry and RB_PopWritePtr.
Write(e) ==
  /\ RB_CanWrite
  /\ slots' = [slots EXCEPT ![pTx] = e]
  /\ RB_PopWritePtr
  /\ UNCHANGED <<pRx, rxPos, currentCmd>>

\* RB_GetReadPtr: the entry stays in its slot while it is being executed.
Hold ==
  /\ currentCmd = NoSlot
  /\ RB_CanRead
  /\ currentCmd' = pRx
  /\ UNCHANGED <<slots, pRx, pTx, rxPos, txPos>>

\* The command in execution is done: its slot is given back.
Release ==
  /\ currentCmd # NoSlot
  /\ currentCmd' = NoSlot
  /\ RB_PopReadPtr
  /\ UNCHANGED <<slots, pTx, txPos>>

\* RB_GetReadPtr and RB_PopReadPtr in one call, for a command that is done
\* when the call that starts it returns.
Consume ==
  /\ currentCmd = NoSlot
  /\ RB_CanRead
  /\ RB_PopReadPtr
  /\ UNCHANGED <<slots, pTx, txPos, currentCmd>>

Next == (\E e \in Entry : Write(e)) \/ Hold \/ Release \/ Consume

Spec == Init /\ [][Next]_vars

------------------------------------------------------------------------------
(***************************************************************************)
(* Properties                                                              *)
(***************************************************************************)

\* The counters and the pointers, which wrap at different values, never
\* drift apart: the write pointer is as far ahead of the read pointer as the
\* counters say, and the slot in use is the one at the read pointer.
CursorsAgree ==
  /\ Used <= AmountOfEntries
  /\ pTx = Wrap(pRx + Used)
  /\ currentCmd # NoSlot => currentCmd = pRx /\ Used > 0

\* A producer never writes into the slot whose entry is being executed: the
\* library keeps pointers into that slot until the command is finished.
HeldEntryStable ==
  [][currentCmd # NoSlot => slots'[currentCmd] = slots[currentCmd]]_vars

\* The pending entries, oldest first.
Contents == [i \in 1 .. Used |-> slots[Wrap(pRx + i - 1)]]

\* The ring buffer is a FIFO of at most AmountOfEntries commands with at most
\* one of them, the oldest, in execution.
Fifo == INSTANCE CommandFifo WITH
          Command  <- Entry,
          Capacity <- AmountOfEntries,
          pending  <- Contents,
          active   <- (currentCmd # NoSlot)

RefinesFifo == Fifo!Spec
==============================================================================
