------------------------------ MODULE MainLoop -------------------------------
(***************************************************************************)
(* The threads of the daemon: the main loop of src/task-unicens.c, the     *)
(* receive thread of libraries/cdev-handler/CdevHandler.c and the threads  *)
(* that deliver the expiry of the service timer.  They share flags and two *)
(* semaphores: serviceSem wakes the main loop, rxSem gives the receive     *)
(* buffer back to the receive thread.                                      *)
(*                                                                         *)
(* pc is the place of the main thread in TaskUnicens_Service():            *)
(*   "service"    before the check of unicensTrigger,                      *)
(*   "inUcsi"     in UCSI_Service(), which does not serve the library,     *)
(*   "inService"  in Ucs_Service(), called by UCSI_Service(),              *)
(*   "timeout"    before the check of unicensTimeout,                      *)
(*   "inTimeout"  in Ucs_ReportTimeout(), called by UCSI_Timeout(),        *)
(*   "data"       before the check of unicensDataAvailable,                *)
(*   "clear", "pop"  the received data is done with,                       *)
(*   "ams"        before the check of amsReceived,                         *)
(*   "diagnosis"  before the check of cableDiagnosisTimer,                 *)
(*   "wait"       in SemWait().                                            *)
(* The UNICENS library is not part of the repository: freeBuffers,         *)
(* rxWanted and amsQueue are the state of it that its callbacks depend on. *)
(* The commands of the integration layer are left out, see module Ucsi.    *)
(***************************************************************************)
EXTENDS Naturals

CONSTANTS
  Buffers,    \* the receive buffers of the library
  MaxAms,     \* bound: AMS messages in the library
  MaxPosts    \* bound: posts of serviceSem that were not consumed

ASSUME LoopAssumption ==
  /\ Buffers \in Nat \ {0}
  /\ MaxAms \in Nat \ {0}
  /\ MaxPosts \in Nat \ {0}

VARIABLES
  pc,
  unicensTrigger, unicensTimeout, unicensDataAvailable, amsReceived,
  unicensRunning,
  cableDiagnosisTimer,  \* "off", "running", or "due" when its time has come
  serviceSem,
  triggerService,       \* of the integration layer
  (* the receive thread *)
  rxPc,                 \* "read", "notify", "post" or "wait"
  fileHandle,           \* the device is open
  rxSem,
  unread,               \* rxBuffer holds a message nobody has taken
  (* the service timer *)
  ucsTimer,             \* it is armed
  expired,              \* expiries before they set unicensTimeout
  posting,              \* expiries before they post serviceSem
  (* the library *)
  freeBuffers,
  rxWanted,             \* it owes OnLldCtrlRxMsgAvailable
  amsQueue              \* the AMS messages it holds

flags == <<unicensTrigger, unicensTimeout, unicensDataAvailable, amsReceived>>
rxVars == <<rxPc, fileHandle, rxSem, unread>>
timerVars == <<ucsTimer, expired, posting>>
libVars == <<freeBuffers, rxWanted, amsQueue>>
taskVars == <<unicensRunning, cableDiagnosisTimer, triggerService>>
vars == <<pc, flags, serviceSem, taskVars, rxVars, timerVars, libVars>>

FlagsTypeOK ==
  /\ unicensTrigger \in BOOLEAN
  /\ unicensTimeout \in BOOLEAN
  /\ unicensDataAvailable \in BOOLEAN
  /\ amsReceived \in BOOLEAN
  /\ unicensRunning \in BOOLEAN
  /\ triggerService \in BOOLEAN
  /\ fileHandle \in BOOLEAN
  /\ unread \in BOOLEAN
  /\ ucsTimer \in BOOLEAN
  /\ rxWanted \in BOOLEAN

PlacesTypeOK ==
  /\ pc \in {"service", "inUcsi", "inService", "timeout", "inTimeout", "data",
             "clear", "pop", "ams", "diagnosis", "wait"}
  /\ rxPc \in {"read", "notify", "post", "wait"}
  /\ cableDiagnosisTimer \in {"off", "running", "due"}
  /\ serviceSem \in Nat
  /\ rxSem \in 0 .. 1
  /\ expired \in Nat
  /\ posting \in Nat
  /\ freeBuffers \in 0 .. Buffers
  /\ amsQueue \in 0 .. MaxAms

TypeOK == FlagsTypeOK /\ PlacesTypeOK

\* TaskUnicens_Init has enqueued the configuration and started the threads.
Init ==
  /\ pc = "service"
  /\ unicensTrigger = TRUE
  /\ unicensTimeout = FALSE
  /\ unicensDataAvailable = FALSE
  /\ amsReceived = FALSE
  /\ unicensRunning = FALSE
  /\ cableDiagnosisTimer = "off"
  /\ serviceSem = 1
  /\ triggerService = FALSE
  /\ rxPc = "read"
  /\ fileHandle = FALSE
  /\ rxSem = 0
  /\ unread = FALSE
  /\ ucsTimer = FALSE
  /\ expired = 0
  /\ posting = 0
  /\ freeBuffers = Buffers
  /\ rxWanted = FALSE
  /\ amsQueue = 0

SemPost == serviceSem' = serviceSem + 1

\* UCSI_CB_OnServiceRequired.
OnServiceRequired == unicensTrigger' = TRUE /\ SemPost

------------------------------------------------------------------------------
(***************************************************************************)
(* The main loop                                                           *)
(***************************************************************************)

\* UCSI_Service() serves the library only if it asked for it.
Service ==
  /\ pc = "service"
  /\ unicensTrigger' = FALSE
  /\ IF unicensTrigger
     THEN /\ pc' = IF triggerService THEN "inService" ELSE "inUcsi"
          /\ triggerService' = FALSE
     ELSE pc' = "timeout" /\ UNCHANGED triggerService
  /\ UNCHANGED <<unicensTimeout, unicensDataAvailable, amsReceived, serviceSem,
                 unicensRunning, cableDiagnosisTimer, rxVars, timerVars, libVars>>

\* The library does not return while it holds a received message unless it
\* asked to be called again.
FaultyLibReturn ==
  /\ pc \in {"inUcsi", "inService", "inTimeout"}
  /\ freeBuffers < Buffers => triggerService \/ ucsTimer \/ expired > 0
                                \/ unicensTimeout
  /\ pc' = IF pc = "inTimeout" THEN "data" ELSE "timeout"
  /\ unicensTimeout' = IF pc = "inTimeout" THEN FALSE ELSE unicensTimeout
  /\ UNCHANGED <<unicensTrigger, unicensDataAvailable, amsReceived, serviceSem,
                 taskVars, rxVars, timerVars, libVars>>
LibReturn ==
  /\ pc \in {"inUcsi", "inService", "inTimeout"}
  /\ freeBuffers < Buffers => triggerService \/ ucsTimer \/ expired > 0
                                \/ unicensTimeout
  /\ pc' = IF pc = "inTimeout" THEN "data" ELSE "timeout"
  /\ UNCHANGED <<flags, serviceSem, taskVars, rxVars, timerVars, libVars>>

Timeout ==
  /\ pc = "timeout"
  /\ unicensTimeout' = FALSE
  /\ pc' = IF unicensTimeout THEN "inTimeout" ELSE "data"
  /\ UNCHANGED <<unicensTrigger, unicensDataAvailable, amsReceived, serviceSem,
                 taskVars, rxVars, timerVars, libVars>>

NoData ==
  /\ pc = "data"
  /\ ~unicensDataAvailable
  /\ pc' = "ams"
  /\ UNCHANGED <<flags, serviceSem, taskVars, rxVars, timerVars, libVars>>

\* The library is not ready yet: the data is thrown away.
DiscardData ==
  /\ pc = "data"
  /\ unicensDataAvailable
  /\ ~unicensRunning
  /\ pc' = "clear"
  /\ unread' = FALSE
  /\ UNCHANGED <<flags, serviceSem, taskVars, rxPc, fileHandle, rxSem,
                 timerVars, libVars>>

\* The library gets the data, if it has a buffer for it, and asks to be served.
UCSI_ProcessRxData ==
  /\ freeBuffers > 0
  /\ freeBuffers' = freeBuffers - 1
  /\ triggerService' = TRUE
  /\ OnServiceRequired

ProcessData ==
  /\ pc = "data"
  /\ unicensDataAvailable
  /\ unicensRunning
  /\ UCSI_ProcessRxData
  /\ pc' = "clear"
  /\ unread' = FALSE
  /\ UNCHANGED <<unicensTimeout, unicensDataAvailable, amsReceived,
                 unicensRunning, cableDiagnosisTimer, rxPc, fileHandle, rxSem,
                 timerVars, rxWanted, amsQueue>>

\* The library has no buffer: the data stays where it is.
RxOverflow ==
  /\ pc = "data"
  /\ unicensDataAvailable
  /\ unicensRunning
  /\ freeBuffers = 0
  /\ rxWanted' = TRUE
  /\ unicensTrigger' = TRUE
  /\ pc' = "ams"
  /\ UNCHANGED <<unicensTimeout, unicensDataAvailable, amsReceived, serviceSem,
                 taskVars, rxVars, timerVars, freeBuffers, amsQueue>>

Cdev_PopRx == rxSem' = rxSem + 1

\* The flag is reset before Cdev_PopRx lets the receive thread go on.
FaultyReleaseData ==
  /\ \/ /\ pc = "clear"
        /\ Cdev_PopRx
        /\ pc' = "pop"
        /\ UNCHANGED unicensDataAvailable
     \/ /\ pc = "pop"
        /\ unicensDataAvailable' = FALSE
        /\ pc' = "ams"
        /\ UNCHANGED rxSem
  /\ UNCHANGED <<unicensTrigger, unicensTimeout, amsReceived, serviceSem,
                 taskVars, rxPc, fileHandle, unread, timerVars, libVars>>
ReleaseData ==
  /\ \/ /\ pc = "clear"
        /\ unicensDataAvailable' = FALSE
        /\ pc' = "pop"
        /\ UNCHANGED rxSem
     \/ /\ pc = "pop"
        /\ Cdev_PopRx
        /\ pc' = "ams"
        /\ UNCHANGED unicensDataAvailable
  /\ UNCHANGED <<unicensTrigger, unicensTimeout, amsReceived, serviceSem,
                 taskVars, rxPc, fileHandle, unread, timerVars, libVars>>

UCSI_GetAmsMessage == amsQueue > 0
UCSI_ReleaseAmsMessage == amsQueue' = amsQueue - 1

\* One message is taken for each time that the flag is found set.
TakeAms ==
  /\ pc = "ams"
  /\ amsReceived' = FALSE
  /\ IF amsReceived /\ UCSI_GetAmsMessage THEN UCSI_ReleaseAmsMessage
                                          ELSE UNCHANGED amsQueue
  /\ pc' = "diagnosis"
  /\ UNCHANGED <<unicensTrigger, unicensTimeout, unicensDataAvailable,
                 serviceSem, taskVars, rxVars, timerVars, freeBuffers, rxWanted>>

\* UCSI_RunCableDiagnosis requires service unless the command queue is full.
Diagnosis ==
  /\ pc = "diagnosis"
  /\ pc' = "wait"
  /\ IF cableDiagnosisTimer = "due"
     THEN /\ cableDiagnosisTimer' = "off"
          /\ \/ OnServiceRequired
             \/ UNCHANGED <<unicensTrigger, serviceSem>>
     ELSE UNCHANGED <<cableDiagnosisTimer, unicensTrigger, serviceSem>>
  /\ UNCHANGED <<unicensTimeout, unicensDataAvailable, amsReceived,
                 unicensRunning, triggerService, rxVars, timerVars, libVars>>

SemWait ==
  /\ pc = "wait"
  /\ serviceSem > 0
  /\ serviceSem' = serviceSem - 1
  /\ pc' = "service"
  /\ UNCHANGED <<flags, taskVars, rxVars, timerVars, libVars>>

MainStep ==
  \/ Service \/ LibReturn \/ Timeout
  \/ NoData \/ DiscardData \/ ProcessData \/ RxOverflow \/ ReleaseData
  \/ TakeAms \/ Diagnosis \/ SemWait

------------------------------------------------------------------------------
(***************************************************************************)
(* The callbacks of the library, on the main thread                        *)
(***************************************************************************)

InLibrary == pc \in {"inService", "inTimeout"}

\* A callback enqueues a command of its own (OnSupvModeReport and others).
EnqueueCommand ==
  /\ InLibrary \/ pc = "inUcsi"
  /\ serviceSem < MaxPosts
  /\ OnServiceRequired
  /\ UNCHANGED <<pc, unicensTimeout, unicensDataAvailable, amsReceived, taskVars,
                 rxVars, timerVars, libVars>>

\* OnUnicensService; starting a command may lead to it as well.
OnUnicensService ==
  /\ InLibrary \/ pc = "inUcsi"
  /\ serviceSem < MaxPosts
  /\ triggerService' = TRUE
  /\ OnServiceRequired
  /\ UNCHANGED <<pc, unicensTimeout, unicensDataAvailable, amsReceived,
                 unicensRunning, cableDiagnosisTimer, rxVars, timerVars, libVars>>

\* The library is done with a received message.  If it had to refuse one it
\* calls OnLldCtrlRxMsgAvailable.
FreeBuffer ==
  /\ InLibrary
  /\ freeBuffers < Buffers
  /\ freeBuffers' = freeBuffers + 1
  /\ rxWanted' = FALSE
  /\ IF rxWanted THEN OnServiceRequired
                 ELSE UNCHANGED <<unicensTrigger, serviceSem>>
  /\ UNCHANGED <<pc, unicensTimeout, unicensDataAvailable, amsReceived, taskVars,
                 rxVars, timerVars, amsQueue>>

\* OnUcsAmsRxMsgReceived and UCSI_CB_OnAmsMessageReceived.
OnAmsMessageReceived ==
  /\ InLibrary
  /\ serviceSem < MaxPosts
  /\ amsQueue < MaxAms
  /\ amsQueue' = amsQueue + 1
  /\ amsReceived' = TRUE
  /\ SemPost
  /\ UNCHANGED <<pc, unicensTrigger, unicensTimeout, unicensDataAvailable,
                 taskVars, rxVars, timerVars, freeBuffers, rxWanted>>

\* 0 disarms the timer.
TimerSetTimeOut(on) == ucsTimer' = on

\* OnUnicensAppTimer, the callback of the library, and UCSI_CB_OnSetServiceTimer.
OnSetServiceTimer(on) ==
  /\ InLibrary
  /\ on => serviceSem + expired + posting < MaxPosts
  /\ TimerSetTimeOut(on)
  /\ UNCHANGED <<pc, flags, serviceSem, taskVars, rxVars, expired, posting,
                 libVars>>

OnNetworkState(isAvailable) ==
  /\ InLibrary
  /\ cableDiagnosisTimer' = IF isAvailable THEN "off" ELSE "running"
  /\ UNCHANGED <<pc, flags, serviceSem, unicensRunning, triggerService, rxVars,
                 timerVars, libVars>>

\* OnLldCtrlStart.
OnStart ==
  /\ InLibrary
  /\ unicensRunning' = TRUE
  /\ UNCHANGED <<pc, flags, serviceSem, cableDiagnosisTimer, triggerService,
                 rxVars, timerVars, libVars>>

\* OnLldCtrlStop: the channel and its buffers are gone.
OnStop ==
  /\ InLibrary
  /\ unicensRunning' = FALSE
  /\ freeBuffers' = Buffers
  /\ rxWanted' = FALSE
  /\ UNCHANGED <<pc, flags, serviceSem, cableDiagnosisTimer, triggerService,
                 rxVars, timerVars, amsQueue>>

Callback ==
  \/ EnqueueCommand \/ OnUnicensService \/ FreeBuffer \/ OnAmsMessageReceived
  \/ \E on \in BOOLEAN : OnSetServiceTimer(on)
  \/ \E isAvailable \in BOOLEAN : OnNetworkState(isAvailable)
  \/ OnStart \/ OnStop

------------------------------------------------------------------------------
(***************************************************************************)
(* The receive thread, the timer and the clock                             *)
(***************************************************************************)

RxUnchanged ==
  UNCHANGED <<pc, unicensTrigger, unicensTimeout, amsReceived, taskVars,
              timerVars, libVars>>

\* The device is opened; a failed attempt is repeated.
OpenDevice ==
  /\ rxPc = "read"
  /\ ~fileHandle
  /\ fileHandle' = TRUE
  /\ RxUnchanged
  /\ UNCHANGED <<unicensDataAvailable, serviceSem, rxPc, rxSem, unread>>

ReadMessage ==
  /\ rxPc = "read"
  /\ fileHandle
  /\ serviceSem < MaxPosts
  /\ unread' = TRUE
  /\ rxPc' = "notify"
  /\ RxUnchanged
  /\ UNCHANGED <<unicensDataAvailable, serviceSem, fileHandle, rxSem>>

ReadFails ==
  /\ rxPc = "read"
  /\ fileHandle
  /\ fileHandle' = FALSE
  /\ RxUnchanged
  /\ UNCHANGED <<unicensDataAvailable, serviceSem, rxPc, rxSem, unread>>

\* Cdev_CB_OnDataAvailable sets the flag, then posts serviceSem.
OnDataAvailable ==
  /\ \/ /\ rxPc = "notify"
        /\ rxPc' = "post"
        /\ unicensDataAvailable' = TRUE
        /\ UNCHANGED serviceSem
     \/ /\ rxPc = "post"
        /\ rxPc' = "wait"
        /\ SemPost
        /\ UNCHANGED unicensDataAvailable
  /\ RxUnchanged
  /\ UNCHANGED <<fileHandle, rxSem, unread>>

\* The thread waits for Cdev_PopRx before it reads again.
FaultyWaitForPop ==
  /\ rxPc = "wait"
  /\ rxSem' = 0
  /\ rxPc' = "read"
  /\ RxUnchanged
  /\ UNCHANGED <<unicensDataAvailable, serviceSem, fileHandle, unread>>
WaitForPop ==
  /\ rxPc = "wait"
  /\ rxSem > 0
  /\ rxSem' = rxSem - 1
  /\ rxPc' = "read"
  /\ RxUnchanged
  /\ UNCHANGED <<unicensDataAvailable, serviceSem, fileHandle, unread>>

RxStep == OpenDevice \/ ReadMessage \/ ReadFails \/ OnDataAvailable \/ WaitForPop

TimerExpires ==
  /\ ucsTimer
  /\ ucsTimer' = FALSE
  /\ expired' = expired + 1
  /\ UNCHANGED <<pc, flags, serviceSem, taskVars, rxVars, posting, libVars>>

\* UcsTimerOnTimeout sets the flag, then posts serviceSem.
FaultyOnTimeout ==
  /\ \/ /\ expired > 0
        /\ expired' = expired - 1
        /\ posting' = posting + 1
        /\ SemPost
        /\ UNCHANGED unicensTimeout
     \/ /\ posting > 0
        /\ posting' = posting - 1
        /\ unicensTimeout' = TRUE
        /\ UNCHANGED <<serviceSem, expired>>
  /\ UNCHANGED <<pc, unicensTrigger, unicensDataAvailable, amsReceived, taskVars,
                 rxVars, ucsTimer, libVars>>
OnTimeout ==
  /\ \/ /\ expired > 0
        /\ expired' = expired - 1
        /\ posting' = posting + 1
        /\ unicensTimeout' = TRUE
        /\ UNCHANGED serviceSem
     \/ /\ posting > 0
        /\ posting' = posting - 1
        /\ SemPost
        /\ UNCHANGED <<unicensTimeout, expired>>
  /\ UNCHANGED <<pc, unicensTrigger, unicensDataAvailable, amsReceived, taskVars,
                 rxVars, ucsTimer, libVars>>

\* CABLE_DIAGNOSYS_DELAY has passed.
DelayPasses ==
  /\ cableDiagnosisTimer = "running"
  /\ cableDiagnosisTimer' = "due"
  /\ UNCHANGED <<pc, flags, serviceSem, unicensRunning, triggerService, rxVars,
                 timerVars, libVars>>

TimerStep == TimerExpires \/ OnTimeout

Next == MainStep \/ Callback \/ RxStep \/ TimerStep \/ DelayPasses

Spec == Init /\ [][Next]_vars

\* Every thread runs; the library is done with each message at some time.
FairSpec ==
  /\ Spec
  /\ WF_vars(MainStep)
  /\ WF_vars(OnDataAvailable)
  /\ WF_vars(WaitForPop)
  /\ WF_vars(TimerExpires)
  /\ WF_vars(OnTimeout)
  /\ SF_vars(FreeBuffer)

------------------------------------------------------------------------------
(***************************************************************************)
(* Properties                                                              *)
(***************************************************************************)

\* CdevHandler.h:100: the content stays valid until Cdev_PopRx is called.  Each
\* message is taken exactly once before the next one is read over it.
RxExactlyOnce ==
  [][/\ ReadMessage => ~unread
     /\ DiscardData \/ ProcessData => unread]_vars

\* When the main loop sleeps, whoever raised a flag is still going to post the
\* semaphore.  After an overflow that is the library, with
\* OnLldCtrlRxMsgAvailable.
NoLostWakeup ==
  pc = "wait" /\ serviceSem = 0 =>
    /\ unicensTimeout => posting > 0
    /\ unicensDataAvailable => rxPc = "post" \/ rxWanted
    /\ unicensTrigger => rxWanted
    /\ ~amsReceived

\* Received data is handed over or discarded, and the receive thread goes on.
RxIsServed == unicensDataAvailable ~> rxPc = "read"

\* An expiry of the service timer is never swallowed: its flag stays until the
\* loop tests it, also when it is set while the library serves an earlier one.
TimeoutIsServed == unicensTimeout ~> pc = "timeout" /\ unicensTimeout

\* task-unicens.c:260: after an overflow the service routine is called to make
\* the library work again.
OverflowReactivates == pc = "wait" /\ serviceSem = 0 => ~unicensTrigger

\* ucsi_api.h:415: UCSI_GetAmsMessage is called after each
\* UCSI_CB_OnAmsMessageReceived, so that no message is left when the loop
\* sleeps and no thread is about to wake it.
AmsIsFetched ==
  /\ pc = "wait" /\ serviceSem = 0
  /\ expired = 0 /\ posting = 0 /\ ~ucsTimer /\ rxPc = "read"
  => amsQueue = 0
==============================================================================
