--------------------------- MODULE MainLoopProofs ----------------------------
(***************************************************************************)
(* Proofs about the threads of the daemon for any number of receive        *)
(* buffers and any bounds: received data is handed over exactly once, and  *)
(* the main loop never sleeps over a flag that was raised.                 *)
(***************************************************************************)
EXTENDS MainLoop, TLAPS

\* The receive thread and the main loop own the receive buffer in turn: it is
\* filled, flagged, taken, the flag reset, and rxSem gives it back.
RxInv ==
  /\ rxPc \in {"read", "notify"} =>
       /\ ~unicensDataAvailable
       /\ rxSem = 0
       /\ pc \notin {"clear", "pop"}
       /\ unread <=> rxPc = "notify"
  /\ rxPc \in {"post", "wait"} =>
       /\ pc = "clear" => unicensDataAvailable /\ ~unread /\ rxSem = 0
       /\ pc = "pop" => ~unicensDataAvailable /\ ~unread /\ rxSem = 0
       /\ pc \notin {"clear", "pop"} =>
            IF unicensDataAvailable THEN unread /\ rxSem = 0
                                    ELSE ~unread /\ rxSem = 1

\* The main thread before its check of a flag.
BeforeTimeout == {"service", "inUcsi", "inService", "timeout"}
BeforeData == BeforeTimeout \cup {"inTimeout", "data"}
BeforeAms == BeforeData \cup {"clear", "pop", "ams"}

\* A raised flag is still to be tested in this round, or a post of serviceSem
\* that starts another round has come or is coming.
WakeInv ==
  /\ unicensTimeout => posting > 0 \/ serviceSem > 0 \/ pc \in BeforeTimeout
  /\ unicensDataAvailable =>
       rxPc = "post" \/ serviceSem > 0 \/ rxWanted \/ pc \in BeforeData \cup {"clear"}
  /\ amsReceived => serviceSem > 0 \/ pc \in BeforeAms
  /\ unicensTrigger =>
       serviceSem > 0 \/ pc = "service" \/ (rxWanted /\ pc \in {"ams", "diagnosis", "wait"})

IInv == TypeOK /\ RxInv /\ WakeInv


LEMMA InitIInv == Init => IInv
  <1> SUFFICES ASSUME Init PROVE IInv
    OBVIOUS
  <1>1. FlagsTypeOK
    BY DEF Init, FlagsTypeOK
  <1>2. PlacesTypeOK
    BY LoopAssumption DEF Init, PlacesTypeOK
  <1>3. RxInv /\ WakeInv
    BY DEF Init, RxInv, WakeInv
  <1>4. QED
    BY <1>1, <1>2, <1>3 DEF IInv, TypeOK

\* The main loop.
LEMMA MainIInv == ASSUME IInv, MainStep PROVE IInv'
  <1> USE DEF IInv, TypeOK, FlagsTypeOK, PlacesTypeOK, vars, flags, rxVars, timerVars, libVars, taskVars
  <1>1. CASE Service
    <2>1. FlagsTypeOK'
      BY <1>1 DEF Service
    <2>2. PlacesTypeOK'
      BY <1>1, LoopAssumption DEF Service
    <2>3. RxInv'
      BY <1>1 DEF RxInv, Service
    <2>4. WakeInv'
      BY <1>1 DEF RxInv, WakeInv,
       BeforeTimeout, BeforeData, BeforeAms, Service
    <2>5. QED
      BY <2>1, <2>2, <2>3, <2>4
  <1>2. CASE LibReturn
    <2>1. FlagsTypeOK'
      BY <1>2 DEF LibReturn
    <2>2. PlacesTypeOK'
      BY <1>2, LoopAssumption DEF LibReturn
    <2>3. RxInv'
      BY <1>2 DEF RxInv, LibReturn
    <2>4. WakeInv'
      BY <1>2 DEF RxInv, WakeInv,
       BeforeTimeout, BeforeData, BeforeAms, LibReturn
    <2>5. QED
      BY <2>1, <2>2, <2>3, <2>4
  <1>3. CASE Timeout
    <2>1. FlagsTypeOK'
      BY <1>3 DEF Timeout
    <2>2. PlacesTypeOK'
      BY <1>3, LoopAssumption DEF Timeout
    <2>3. RxInv'
      BY <1>3 DEF RxInv, Timeout
    <2>4. WakeInv'
      BY <1>3 DEF RxInv, WakeInv,
       BeforeTimeout, BeforeData, BeforeAms, Timeout
    <2>5. QED
      BY <2>1, <2>2, <2>3, <2>4
  <1>4. CASE NoData
    <2>1. FlagsTypeOK'
      BY <1>4 DEF NoData
    <2>2. PlacesTypeOK'
      BY <1>4, LoopAssumption DEF NoData
    <2>3. RxInv'
      BY <1>4 DEF RxInv, NoData
    <2>4. WakeInv'
      BY <1>4 DEF RxInv, WakeInv,
       BeforeTimeout, BeforeData, BeforeAms, NoData
    <2>5. QED
      BY <2>1, <2>2, <2>3, <2>4
  <1>5. CASE DiscardData
    <2>1. FlagsTypeOK'
      BY <1>5 DEF DiscardData
    <2>2. PlacesTypeOK'
      BY <1>5, LoopAssumption DEF DiscardData
    <2>3. RxInv'
      BY <1>5 DEF RxInv, DiscardData
    <2>4. WakeInv'
      BY <1>5 DEF RxInv, WakeInv,
       BeforeTimeout, BeforeData, BeforeAms, DiscardData
    <2>5. QED
      BY <2>1, <2>2, <2>3, <2>4
  <1>6. CASE ProcessData
    <2>1. FlagsTypeOK'
      BY <1>6 DEF ProcessData, UCSI_ProcessRxData, OnServiceRequired, SemPost
    <2>2. PlacesTypeOK'
      BY <1>6, LoopAssumption DEF ProcessData, UCSI_ProcessRxData, OnServiceRequired, SemPost
    <2>3. RxInv'
      BY <1>6 DEF RxInv, ProcessData, UCSI_ProcessRxData, OnServiceRequired, SemPost
    <2>4. WakeInv'
      BY <1>6 DEF RxInv, WakeInv,
       BeforeTimeout, BeforeData, BeforeAms, ProcessData, UCSI_ProcessRxData, OnServiceRequired, SemPost
    <2>5. QED
      BY <2>1, <2>2, <2>3, <2>4
  <1>7. CASE RxOverflow
    <2>1. FlagsTypeOK'
      BY <1>7 DEF RxOverflow
    <2>2. PlacesTypeOK'
      BY <1>7, LoopAssumption DEF RxOverflow
    <2>3. RxInv'
      BY <1>7 DEF RxInv, RxOverflow
    <2>4. WakeInv'
      BY <1>7 DEF RxInv, WakeInv,
       BeforeTimeout, BeforeData, BeforeAms, RxOverflow
    <2>5. QED
      BY <2>1, <2>2, <2>3, <2>4
  <1>8. CASE ReleaseData
    <2>1. FlagsTypeOK'
      BY <1>8 DEF ReleaseData, Cdev_PopRx
    <2>2. PlacesTypeOK'
      BY <1>8, LoopAssumption DEF RxInv, ReleaseData, Cdev_PopRx
    <2>3. RxInv'
      BY <1>8 DEF RxInv, ReleaseData, Cdev_PopRx
    <2>4. WakeInv'
      BY <1>8 DEF RxInv, WakeInv,
       BeforeTimeout, BeforeData, BeforeAms, ReleaseData, Cdev_PopRx
    <2>5. QED
      BY <2>1, <2>2, <2>3, <2>4
  <1>9. CASE TakeAms
    <2>1. FlagsTypeOK'
      BY <1>9 DEF TakeAms, UCSI_GetAmsMessage, UCSI_ReleaseAmsMessage
    <2>2. PlacesTypeOK'
      BY <1>9, LoopAssumption DEF TakeAms, UCSI_GetAmsMessage, UCSI_ReleaseAmsMessage
    <2>3. RxInv'
      BY <1>9 DEF RxInv, TakeAms, UCSI_GetAmsMessage, UCSI_ReleaseAmsMessage
    <2>4. WakeInv'
      BY <1>9 DEF RxInv, WakeInv,
       BeforeTimeout, BeforeData, BeforeAms, TakeAms, UCSI_GetAmsMessage, UCSI_ReleaseAmsMessage
    <2>5. QED
      BY <2>1, <2>2, <2>3, <2>4
  <1>10. CASE Diagnosis
    <2>1. FlagsTypeOK'
      BY <1>10 DEF Diagnosis, OnServiceRequired, SemPost
    <2>2. PlacesTypeOK'
      BY <1>10, LoopAssumption DEF Diagnosis, OnServiceRequired, SemPost
    <2>3. RxInv'
      BY <1>10 DEF RxInv, Diagnosis, OnServiceRequired, SemPost
    <2>4. WakeInv'
      BY <1>10 DEF RxInv, WakeInv,
       BeforeTimeout, BeforeData, BeforeAms, Diagnosis, OnServiceRequired, SemPost
    <2>5. QED
      BY <2>1, <2>2, <2>3, <2>4
  <1>11. CASE SemWait
    <2>1. FlagsTypeOK'
      BY <1>11 DEF SemWait
    <2>2. PlacesTypeOK'
      BY <1>11, LoopAssumption DEF SemWait
    <2>3. RxInv'
      BY <1>11 DEF RxInv, SemWait
    <2>4. WakeInv'
      BY <1>11 DEF RxInv, WakeInv,
       BeforeTimeout, BeforeData, BeforeAms, SemWait
    <2>5. QED
      BY <2>1, <2>2, <2>3, <2>4
  <1>12. QED
    BY <1>1, <1>2, <1>3, <1>4, <1>5, <1>6, <1>7, <1>8, <1>9, <1>10, <1>11 DEF MainStep

\* The callbacks of the library.
LEMMA CallbackIInv == ASSUME IInv, Callback PROVE IInv'
  <1> USE DEF IInv, TypeOK, FlagsTypeOK, PlacesTypeOK, vars, flags, rxVars, timerVars, libVars, taskVars
  <1>1. CASE EnqueueCommand
    <2>1. FlagsTypeOK'
      BY <1>1 DEF EnqueueCommand, InLibrary, OnServiceRequired, SemPost
    <2>2. PlacesTypeOK'
      BY <1>1, LoopAssumption DEF EnqueueCommand, InLibrary, OnServiceRequired, SemPost
    <2>3. RxInv'
      BY <1>1 DEF RxInv, EnqueueCommand, InLibrary, OnServiceRequired, SemPost
    <2>4. WakeInv'
      BY <1>1 DEF RxInv, WakeInv,
       BeforeTimeout, BeforeData, BeforeAms, EnqueueCommand, InLibrary, OnServiceRequired, SemPost
    <2>5. QED
      BY <2>1, <2>2, <2>3, <2>4
  <1>2. CASE OnUnicensService
    <2>1. FlagsTypeOK'
      BY <1>2 DEF OnUnicensService, InLibrary, OnServiceRequired, SemPost
    <2>2. PlacesTypeOK'
      BY <1>2, LoopAssumption DEF OnUnicensService, InLibrary, OnServiceRequired, SemPost
    <2>3. RxInv'
      BY <1>2 DEF RxInv, OnUnicensService, InLibrary, OnServiceRequired, SemPost
    <2>4. WakeInv'
      BY <1>2 DEF RxInv, WakeInv,
       BeforeTimeout, BeforeData, BeforeAms, OnUnicensService, InLibrary, OnServiceRequired, SemPost
    <2>5. QED
      BY <2>1, <2>2, <2>3, <2>4
  <1>3. CASE FreeBuffer
    <2>1. FlagsTypeOK'
      BY <1>3 DEF FreeBuffer, InLibrary, OnServiceRequired, SemPost
    <2>2. PlacesTypeOK'
      BY <1>3, LoopAssumption DEF FreeBuffer, InLibrary, OnServiceRequired, SemPost
    <2>3. RxInv'
      BY <1>3 DEF RxInv, FreeBuffer, InLibrary, OnServiceRequired, SemPost
    <2>4. WakeInv'
      BY <1>3 DEF RxInv, WakeInv,
       BeforeTimeout, BeforeData, BeforeAms, FreeBuffer, InLibrary, OnServiceRequired, SemPost
    <2>5. QED
      BY <2>1, <2>2, <2>3, <2>4
  <1>4. CASE OnAmsMessageReceived
    <2>1. FlagsTypeOK'
      BY <1>4 DEF OnAmsMessageReceived, InLibrary, SemPost
    <2>2. PlacesTypeOK'
      BY <1>4, LoopAssumption DEF OnAmsMessageReceived, InLibrary, SemPost
    <2>3. RxInv'
      BY <1>4 DEF RxInv, OnAmsMessageReceived, InLibrary, SemPost
    <2>4. WakeInv'
      BY <1>4 DEF RxInv, WakeInv,
       BeforeTimeout, BeforeData, BeforeAms, OnAmsMessageReceived, InLibrary, SemPost
    <2>5. QED
      BY <2>1, <2>2, <2>3, <2>4
  <1>5. ASSUME NEW on \in BOOLEAN, OnSetServiceTimer(on) PROVE IInv'
    <2>1. FlagsTypeOK'
      BY <1>5 DEF OnSetServiceTimer, TimerSetTimeOut, InLibrary
    <2>2. PlacesTypeOK'
      BY <1>5, LoopAssumption DEF OnSetServiceTimer, TimerSetTimeOut, InLibrary
    <2>3. RxInv'
      BY <1>5 DEF RxInv, OnSetServiceTimer, TimerSetTimeOut, InLibrary
    <2>4. WakeInv'
      BY <1>5 DEF RxInv, WakeInv,
       BeforeTimeout, BeforeData, BeforeAms, OnSetServiceTimer, TimerSetTimeOut, InLibrary
    <2>5. QED
      BY <2>1, <2>2, <2>3, <2>4
  <1>6. ASSUME NEW isAvailable \in BOOLEAN, OnNetworkState(isAvailable) PROVE IInv'
    <2>1. FlagsTypeOK'
      BY <1>6 DEF OnNetworkState, InLibrary
    <2>2. PlacesTypeOK'
      BY <1>6, LoopAssumption DEF OnNetworkState, InLibrary
    <2>3. RxInv'
      BY <1>6 DEF RxInv, OnNetworkState, InLibrary
    <2>4. WakeInv'
      BY <1>6 DEF RxInv, WakeInv,
       BeforeTimeout, BeforeData, BeforeAms, OnNetworkState, InLibrary
    <2>5. QED
      BY <2>1, <2>2, <2>3, <2>4
  <1>7. CASE OnStart
    <2>1. FlagsTypeOK'
      BY <1>7 DEF OnStart, InLibrary
    <2>2. PlacesTypeOK'
      BY <1>7, LoopAssumption DEF OnStart, InLibrary
    <2>3. RxInv'
      BY <1>7 DEF RxInv, OnStart, InLibrary
    <2>4. WakeInv'
      BY <1>7 DEF RxInv, WakeInv,
       BeforeTimeout, BeforeData, BeforeAms, OnStart, InLibrary
    <2>5. QED
      BY <2>1, <2>2, <2>3, <2>4
  <1>8. CASE OnStop
    <2>1. FlagsTypeOK'
      BY <1>8 DEF OnStop, InLibrary
    <2>2. PlacesTypeOK'
      BY <1>8, LoopAssumption DEF OnStop, InLibrary
    <2>3. RxInv'
      BY <1>8 DEF RxInv, OnStop, InLibrary
    <2>4. WakeInv'
      BY <1>8 DEF RxInv, WakeInv,
       BeforeTimeout, BeforeData, BeforeAms, OnStop, InLibrary
    <2>5. QED
      BY <2>1, <2>2, <2>3, <2>4
  <1>9. QED
    BY <1>1, <1>2, <1>3, <1>4, <1>5, <1>6, <1>7, <1>8 DEF Callback

\* The receive thread.
LEMMA RxIInv == ASSUME IInv, RxStep PROVE IInv'
  <1> USE DEF IInv, TypeOK, FlagsTypeOK, PlacesTypeOK, vars, flags, rxVars, timerVars, libVars, taskVars
  <1>1. CASE OpenDevice
    <2>1. FlagsTypeOK'
      BY <1>1 DEF OpenDevice, RxUnchanged
    <2>2. PlacesTypeOK'
      BY <1>1, LoopAssumption DEF OpenDevice, RxUnchanged
    <2>3. RxInv'
      BY <1>1 DEF RxInv, OpenDevice, RxUnchanged
    <2>4. WakeInv'
      BY <1>1 DEF RxInv, WakeInv,
       BeforeTimeout, BeforeData, BeforeAms, OpenDevice, RxUnchanged
    <2>5. QED
      BY <2>1, <2>2, <2>3, <2>4
  <1>2. CASE ReadMessage
    <2>1. FlagsTypeOK'
      BY <1>2 DEF ReadMessage, RxUnchanged
    <2>2. PlacesTypeOK'
      BY <1>2, LoopAssumption DEF ReadMessage, RxUnchanged
    <2>3. RxInv'
      BY <1>2 DEF RxInv, ReadMessage, RxUnchanged
    <2>4. WakeInv'
      BY <1>2 DEF RxInv, WakeInv,
       BeforeTimeout, BeforeData, BeforeAms, ReadMessage, RxUnchanged
    <2>5. QED
      BY <2>1, <2>2, <2>3, <2>4
  <1>3. CASE ReadFails
    <2>1. FlagsTypeOK'
      BY <1>3 DEF ReadFails, RxUnchanged
    <2>2. PlacesTypeOK'
      BY <1>3, LoopAssumption DEF ReadFails, RxUnchanged
    <2>3. RxInv'
      BY <1>3 DEF RxInv, ReadFails, RxUnchanged
    <2>4. WakeInv'
      BY <1>3 DEF RxInv, WakeInv,
       BeforeTimeout, BeforeData, BeforeAms, ReadFails, RxUnchanged
    <2>5. QED
      BY <2>1, <2>2, <2>3, <2>4
  <1>4. CASE OnDataAvailable
    <2>1. FlagsTypeOK'
      BY <1>4 DEF OnDataAvailable, SemPost, RxUnchanged
    <2>2. PlacesTypeOK'
      BY <1>4, LoopAssumption DEF OnDataAvailable, SemPost, RxUnchanged
    <2>3. RxInv'
      BY <1>4 DEF RxInv, OnDataAvailable, SemPost, RxUnchanged
    <2>4. WakeInv'
      BY <1>4 DEF RxInv, WakeInv,
       BeforeTimeout, BeforeData, BeforeAms, OnDataAvailable, SemPost, RxUnchanged
    <2>5. QED
      BY <2>1, <2>2, <2>3, <2>4
  <1>5. CASE WaitForPop
    <2>1. FlagsTypeOK'
      BY <1>5 DEF WaitForPop, RxUnchanged
    <2>2. PlacesTypeOK'
      BY <1>5, LoopAssumption DEF WaitForPop, RxUnchanged
    <2>3. RxInv'
      BY <1>5 DEF RxInv, WaitForPop, RxUnchanged
    <2>4. WakeInv'
      BY <1>5 DEF RxInv, WakeInv,
       BeforeTimeout, BeforeData, BeforeAms, WaitForPop, RxUnchanged
    <2>5. QED
      BY <2>1, <2>2, <2>3, <2>4
  <1>6. QED
    BY <1>1, <1>2, <1>3, <1>4, <1>5 DEF RxStep

\* The service timer.
LEMMA TimerIInv == ASSUME IInv, TimerStep PROVE IInv'
  <1> USE DEF IInv, TypeOK, FlagsTypeOK, PlacesTypeOK, vars, flags, rxVars, timerVars, libVars, taskVars
  <1>1. CASE TimerExpires
    <2>1. FlagsTypeOK'
      BY <1>1 DEF TimerExpires
    <2>2. PlacesTypeOK'
      BY <1>1, LoopAssumption DEF TimerExpires
    <2>3. RxInv'
      BY <1>1 DEF RxInv, TimerExpires
    <2>4. WakeInv'
      BY <1>1 DEF RxInv, WakeInv,
       BeforeTimeout, BeforeData, BeforeAms, TimerExpires
    <2>5. QED
      BY <2>1, <2>2, <2>3, <2>4
  <1>2. CASE OnTimeout
    <2>1. FlagsTypeOK'
      BY <1>2 DEF OnTimeout, SemPost
    <2>2. PlacesTypeOK'
      BY <1>2, LoopAssumption DEF OnTimeout, SemPost
    <2>3. RxInv'
      BY <1>2 DEF RxInv, OnTimeout, SemPost
    <2>4. WakeInv'
      BY <1>2 DEF RxInv, WakeInv,
       BeforeTimeout, BeforeData, BeforeAms, OnTimeout, SemPost
    <2>5. QED
      BY <2>1, <2>2, <2>3, <2>4
  <1>3. QED
    BY <1>1, <1>2 DEF TimerStep

LEMMA NextIInv == IInv /\ [Next]_vars => IInv'
  <1> SUFFICES ASSUME IInv, [Next]_vars PROVE IInv'
    OBVIOUS
  <1>1. CASE DelayPasses
    BY <1>1 DEF IInv, TypeOK, FlagsTypeOK, PlacesTypeOK, RxInv, WakeInv, DelayPasses, flags, rxVars, timerVars,
       libVars, taskVars
  <1>2. CASE UNCHANGED vars
    BY <1>2 DEF IInv, TypeOK, FlagsTypeOK, PlacesTypeOK, RxInv, WakeInv, vars, flags, rxVars, timerVars,
       libVars, taskVars
  <1>3. QED
    BY <1>1, <1>2, MainIInv, CallbackIInv, RxIInv, TimerIInv DEF Next

LEMMA IInvAlways == Spec => []IInv
  BY InitIInv, NextIInv, PTL DEF Spec

\* The state of every thread stays well typed, for any bounds.
THEOREM LoopTypeOK == Spec => []TypeOK
  <1>1. IInv => TypeOK
    BY DEF IInv
  <1>2. QED
    BY <1>1, IInvAlways, PTL

\* The main loop never sleeps in SemWait() over a raised flag unless whoever
\* raised it is still going to post serviceSem.
THEOREM LoopNoLostWakeup == Spec => []NoLostWakeup
  <1>1. IInv => NoLostWakeup
    BY DEF IInv, TypeOK, FlagsTypeOK, PlacesTypeOK, RxInv, WakeInv, NoLostWakeup, BeforeTimeout, BeforeData,
       BeforeAms
  <1>2. QED
    BY <1>1, IInvAlways, PTL

\* Each message of the device is handed over or discarded exactly once before
\* the receive thread reads the next one over it.
THEOREM LoopRxExactlyOnce == Spec => RxExactlyOnce
  <1>1. IInv /\ [Next]_vars =>
          [/\ ReadMessage => ~unread
           /\ DiscardData \/ ProcessData => unread]_vars
    BY DEF IInv, TypeOK, FlagsTypeOK, PlacesTypeOK, RxInv, ReadMessage, DiscardData, ProcessData, UCSI_ProcessRxData
  <1>2. QED
    BY <1>1, IInvAlways, PTL DEF Spec, RxExactlyOnce
==============================================================================
