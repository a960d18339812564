-------------------------- MODULE RingBufferProofs ---------------------------
(***************************************************************************)
(* For every number of slots and every counter width above it: the ring    *)
(* buffer is well typed, its cursors agree, the entry in use is never      *)
(* overwritten, and it implements the command FIFO.                        *)
(***************************************************************************)
EXTENDS RingBuffer, SequenceTheorems, TLAPS

IInv == TypeOK /\ CursorsAgree

LEMMA UsedIsNat ==
  ASSUME TypeOK PROVE Used \in Nat /\ (Used > 0 <=> rxPos # txPos)
  BY RingAssumption DEF TypeOK, Position, Used

LEMMA WrapIsSlot ==
  ASSUME NEW p \in 0 .. 2 * AmountOfEntries - 1 PROVE Wrap(p) \in Slot
  BY RingAssumption DEF Wrap, Slot

\* The counters as the fill level sees them.
LEMMA PopWriteUsed ==
  ASSUME TypeOK, Used < AmountOfEntries, RB_PopWritePtr, UNCHANGED rxPos
  PROVE  Used' = Used + 1 /\ txPos' \in Position
  BY RingAssumption DEF TypeOK, Position, Used, RB_PopWritePtr, Bump

LEMMA PopReadUsed ==
  ASSUME TypeOK, Used > 0, RB_PopReadPtr, UNCHANGED txPos
  PROVE  Used' = Used - 1 /\ rxPos' \in Position
  BY RingAssumption DEF TypeOK, Position, Used, RB_PopReadPtr, Bump

LEMMA InitIInv == Init => IInv
  BY RingAssumption
  DEF Init, RB_Init, IInv, TypeOK, CursorsAgree, Slot, Position, Used, Wrap

LEMMA WriteIInv == ASSUME IInv, NEW e \in Entry, Write(e) PROVE IInv'
  <1>1. Used' = Used + 1 /\ txPos' \in Position
    BY PopWriteUsed DEF IInv, Write, RB_CanWrite
  <1>2. Used \in Nat
    BY UsedIsNat DEF IInv
  <1>3. TypeOK'
    BY <1>1, RingAssumption
    DEF IInv, TypeOK, Write, RB_PopWritePtr, Slot, Wrap
  <1>4. CursorsAgree'
    BY <1>1, <1>2, RingAssumption
    DEF IInv, TypeOK, CursorsAgree, Write, RB_CanWrite, RB_PopWritePtr, Slot, Wrap
  <1>5. QED
    BY <1>3, <1>4 DEF IInv

LEMMA PopReadIInv ==
  ASSUME IInv, Used > 0, RB_PopReadPtr, UNCHANGED <<slots, pTx, txPos>>,
         currentCmd' = NoSlot
  PROVE  IInv'
  <1>1. Used' = Used - 1 /\ rxPos' \in Position
    BY PopReadUsed DEF IInv
  <1>2. Used \in Nat
    BY UsedIsNat DEF IInv
  <1>3. TypeOK'
    BY <1>1, RingAssumption DEF IInv, TypeOK, RB_PopReadPtr, Slot, Wrap
  <1>4. CursorsAgree'
    BY <1>1, <1>2, RingAssumption
    DEF IInv, TypeOK, CursorsAgree, RB_PopReadPtr, Slot, Wrap
  <1>5. QED
    BY <1>3, <1>4 DEF IInv

LEMMA NextIInv == IInv /\ [Next]_vars => IInv'
  <1> SUFFICES ASSUME IInv, [Next]_vars PROVE IInv'
    OBVIOUS
  <1>1. ASSUME NEW e \in Entry, Write(e) PROVE IInv'
    BY <1>1, WriteIInv
  <1>2. CASE Hold
    BY <1>2, RingAssumption
    DEF Hold, RB_CanRead, IInv, TypeOK, CursorsAgree, Used, Slot
  <1>3. CASE Release
    BY <1>3, PopReadIInv DEF Release, IInv, CursorsAgree
  <1>4. CASE Consume
    BY <1>4, PopReadIInv DEF Consume, RB_CanRead
  <1>5. CASE UNCHANGED vars
    BY <1>5 DEF vars, IInv, TypeOK, CursorsAgree, Used
  <1>6. QED
    BY <1>1, <1>2, <1>3, <1>4, <1>5 DEF Next

\* The pointers of RB_t stay in its array, and its counters in their range.
THEOREM RingTypeOK == Spec => []TypeOK
  BY InitIInv, NextIInv, PTL DEF Spec, IInv

\* The distance of the counters is that of the pointers, however often the
\* pointers and the 32 bit counters have wrapped.
THEOREM RingCursorsAgree == Spec => []CursorsAgree
  BY InitIInv, NextIInv, PTL DEF Spec, IInv

\* While a command is in execution nobody writes into its slot.
THEOREM RingHeldEntryStable == Spec => HeldEntryStable
  <1>1. IInv /\ [Next]_vars
        => [currentCmd # NoSlot => slots'[currentCmd] = slots[currentCmd]]_vars
    <2> SUFFICES ASSUME IInv, Next, currentCmd # NoSlot
                 PROVE  slots'[currentCmd] = slots[currentCmd]
      OBVIOUS
    <2>1. ASSUME NEW e \in Entry, Write(e)
          PROVE  slots'[currentCmd] = slots[currentCmd]
      <3>1. Used \in Nat /\ Used > 0 /\ Used < AmountOfEntries
        BY <2>1, UsedIsNat DEF IInv, CursorsAgree, Write, RB_CanWrite
      <3>2. pTx # pRx
        BY <3>1, RingAssumption DEF IInv, CursorsAgree, TypeOK, Slot, Wrap
      <3>3. QED
        BY <2>1, <3>2 DEF Write, IInv, TypeOK, CursorsAgree
    <2>2. CASE Hold \/ Release \/ Consume
      BY <2>2 DEF Hold, Release, Consume
    <2>3. QED
      BY <2>1, <2>2 DEF Next
  <1>2. QED
    BY <1>1, InitIInv, NextIInv, PTL DEF Spec, HeldEntryStable

------------------------------------------------------------------------------
(***************************************************************************)
(* The ring buffer implements the command FIFO.                            *)
(***************************************************************************)

Item == Entry \cup {Blank}

\* The pending entries form a sequence as long as the fill level.
ContentsSeq ==
  /\ Contents \in Seq(Item)
  /\ Len(Contents) = Used
  /\ \A i \in 1 .. Used : Contents[i] = slots[Wrap(pRx + i - 1)]

LEMMA ContentsIsSeq == IInv => ContentsSeq
  <1> SUFFICES ASSUME IInv PROVE ContentsSeq
    OBVIOUS
  <1>1. Used \in Nat /\ Used <= AmountOfEntries
    BY UsedIsNat DEF IInv, CursorsAgree
  <1>2. \A i \in 1 .. Used : slots[Wrap(pRx + i - 1)] \in Item
    BY <1>1, RingAssumption DEF IInv, TypeOK, Slot, Wrap, Item
  <1>3. Contents \in [1 .. Used -> Item]
    BY <1>2 DEF Contents
  <1>4. QED
    BY <1>1, <1>3 DEF Contents, ContentsSeq

LEMMA WriteContents ==
  ASSUME IInv, NEW e \in Entry, Write(e)
  PROVE  Contents' = Contents \o <<e>>
  <1>1. Used' = Used + 1 /\ Used \in Nat /\ Used < AmountOfEntries
    BY PopWriteUsed, UsedIsNat DEF IInv, Write, RB_CanWrite
  <1>2. IInv'
    BY WriteIInv
  <1>3. /\ Contents \in Seq(Item) /\ Len(Contents) = Used
        /\ \A i \in 1 .. Used : Contents[i] = slots[Wrap(pRx + i - 1)]
    BY ContentsIsSeq DEF ContentsSeq
  <1>4. /\ Contents' \in Seq(Item) /\ Len(Contents') = Used'
        /\ \A i \in 1 .. Used' : Contents'[i] = slots'[Wrap(pRx' + i - 1)]
    <2>1. ContentsSeq'
      BY <1>2, ContentsIsSeq, PTL
    <2>2. QED
      BY <2>1 DEF ContentsSeq
  <1>5. pTx = Wrap(pRx + Used) /\ pRx' = pRx /\ slots' = [slots EXCEPT ![pTx] = e]
    BY DEF IInv, CursorsAgree, Write
  <1>6. \A i \in 1 .. Used : Contents'[i] = Contents[i]
    <2> SUFFICES ASSUME NEW i \in 1 .. Used PROVE Contents'[i] = Contents[i]
      OBVIOUS
    <2>1. Wrap(pRx + i - 1) # pTx /\ Wrap(pRx + i - 1) \in Slot
      BY <1>1, <1>5, RingAssumption DEF IInv, TypeOK, Slot, Wrap
    <2>2. QED
      BY <2>1, <1>1, <1>3, <1>4, <1>5 DEF IInv, TypeOK
  <1>7. Contents'[Used + 1] = e
    BY <1>1, <1>4, <1>5, RingAssumption DEF IInv, TypeOK, Slot
  <1>8. QED
    BY <1>1, <1>3, <1>4, <1>6, <1>7 DEF Item

LEMMA PopReadContents ==
  ASSUME IInv, Used > 0, RB_PopReadPtr, UNCHANGED <<slots, pTx, txPos>>,
         currentCmd' = NoSlot
  PROVE  Contents' = Tail(Contents)
  <1>1. Used' = Used - 1 /\ Used \in Nat /\ Used <= AmountOfEntries
    BY PopReadUsed, UsedIsNat DEF IInv, CursorsAgree
  <1>2. IInv'
    BY PopReadIInv
  <1>3. /\ Contents \in Seq(Item) /\ Len(Contents) = Used
        /\ \A i \in 1 .. Used : Contents[i] = slots[Wrap(pRx + i - 1)]
    BY ContentsIsSeq DEF ContentsSeq
  <1>4. /\ Contents' \in Seq(Item) /\ Len(Contents') = Used'
        /\ \A i \in 1 .. Used' : Contents'[i] = slots'[Wrap(pRx' + i - 1)]
    <2>1. ContentsSeq'
      BY <1>2, ContentsIsSeq, PTL
    <2>2. QED
      BY <2>1 DEF ContentsSeq
  <1>5. \A i \in 1 .. Used - 1 : Wrap(pRx' + i - 1) = Wrap(pRx + (i + 1) - 1)
    BY <1>1, RingAssumption DEF RB_PopReadPtr, IInv, TypeOK, Slot, Wrap
  <1>6. \A i \in 1 .. Used - 1 : Contents'[i] = Contents[i + 1]
    BY <1>1, <1>3, <1>4, <1>5
  <1>7. /\ Tail(Contents) \in Seq(Item)
        /\ Len(Tail(Contents)) = Used - 1
        /\ \A i \in 1 .. Used - 1 : Tail(Contents)[i] = Contents[i + 1]
    BY <1>1, <1>3
  <1>8. QED
    BY <1>1, <1>4, <1>6, <1>7

\* Seen through its contents, every step of the ring buffer is a step of a
\* FIFO that holds at most AmountOfEntries commands and executes the oldest.
THEOREM RingRefinesFifo == Spec => RefinesFifo
  <1>1. Init => Fifo!Init
    <2> SUFFICES ASSUME Init PROVE Fifo!Init
      OBVIOUS
    <2>1. Used = 0
      BY DEF Init, RB_Init, Used
    <2>2. Contents = <<>>
      BY <2>1 DEF Contents
    <2>3. QED
      BY <2>2 DEF Init, Fifo!Init
  <1>2. IInv /\ [Next]_vars => [Fifo!Next]_Fifo!vars
    <2> SUFFICES ASSUME IInv, [Next]_vars PROVE [Fifo!Next]_Fifo!vars
      OBVIOUS
    <2>0. /\ Contents \in Seq(Item) /\ Len(Contents) = Used /\ Used \in Nat
          /\ Used <= AmountOfEntries
      BY ContentsIsSeq, UsedIsNat DEF IInv, CursorsAgree, ContentsSeq
    <2>1. ASSUME NEW e \in Entry, Write(e) PROVE Fifo!Accept
      <3>1. Contents' = Contents \o <<e>>
        BY <2>1, WriteContents
      <3>2. Len(Contents \o <<e>>) <= AmountOfEntries
        BY <2>0, <2>1, RingAssumption DEF Write, RB_CanWrite, Item
      <3>3. Fifo!Add(Contents, <<e>>)
        BY <3>1, <3>2 DEF Fifo!Add
      <3>4. <<e>> \in Fifo!Burst
        BY DEF Fifo!Burst
      <3>5. currentCmd' = currentCmd
        BY <2>1 DEF Write
      <3>6. QED
        BY <3>3, <3>4, <3>5 DEF Fifo!Accept
    <2>2. CASE Hold
      <3>1. UNCHANGED Contents
        BY <2>2 DEF Hold, Contents, Used
      <3>2. Contents # <<>>
        BY <2>0, <2>2 DEF Hold, RB_CanRead
      <3>3. pRx # NoSlot
        BY RingAssumption DEF IInv, TypeOK, Slot
      <3>4. QED
        BY <2>2, <3>1, <3>2, <3>3 DEF Hold, Fifo!Next, Fifo!Begin
    <2>3. CASE Release
      <3>1. Used > 0
        BY <2>3 DEF Release, IInv, CursorsAgree
      <3>2. Contents' = Tail(Contents)
        BY <2>3, <3>1, PopReadContents DEF Release
      <3>3. /\ Tail(Contents) \in Seq(Item) /\ Len(Tail(Contents)) = Used - 1
            /\ Contents # <<>>
        BY <2>0, <3>1
      <3>4. Tail(Contents) \o <<>> = Tail(Contents)
        BY <3>3
      <3>5. Fifo!Add(Tail(Contents), <<>>)
        BY <2>0, <3>2, <3>3, <3>4, RingAssumption DEF Fifo!Add
      <3>6. <<>> \in Fifo!Burst
        BY DEF Fifo!Burst
      <3>7. QED
        BY <2>3, <3>3, <3>5, <3>6 DEF Release, Fifo!Next, Fifo!Finish
    <2>4. CASE Consume
      <3>1. Contents' = Tail(Contents)
        BY <2>4, PopReadContents DEF Consume, RB_CanRead
      <3>2. Contents # <<>>
        BY <2>0, <2>4 DEF Consume, RB_CanRead
      <3>3. QED
        BY <2>4, <3>1, <3>2 DEF Consume, Fifo!Next, Fifo!Pass
    <2>5. CASE UNCHANGED vars
      BY <2>5 DEF vars, Fifo!vars, Contents, Used
    <2>6. QED
      BY <2>1, <2>2, <2>3, <2>4, <2>5 DEF Next, Fifo!Next
  <1>3. QED
    BY <1>1, <1>2, InitIInv, NextIInv, PTL DEF Spec, RefinesFifo, Fifo!Spec
==============================================================================
