-------------------------------- MODULE Ucsi ---------------------------------
(***************************************************************************)
(* The UNICENS integration layer, libraries/ucsi/ucsi_impl.c: the command  *)
(* queue, the service routine that starts one command per call, and the    *)
(* callbacks of the UNICENS library that finish commands, report the       *)
(* supervisor mode, the routes, the cable diagnosis and the programming    *)
(* mode, and that enqueue commands of their own.                           *)
(*                                                                         *)
(* Everything runs on the main thread.  ctx says where that thread is:     *)
(*   "loop"     outside of this layer,                                     *)
(*   "service"  in Ucs_Service(), called by UCSI_Service(),                *)
(*   "start"    in the part of UCSI_Service() that starts a command,       *)
(*   "timeout"  in Ucs_ReportTimeout(), called by UCSI_Timeout().          *)
(* The library calls back in "service" and "timeout".  The queue is the    *)
(* content of the ring buffer (module RingBuffer), and currentCmd, a       *)
(* pointer to its oldest entry, is represented by the entry it points to.  *)
(*                                                                         *)
(* The library itself is not part of the repository.  owed, scripts,       *)
(* supvMode, supvReady, supvReq and nodeCount are the part of its state    *)
(* that decides which callbacks it can make.                               *)
(*                                                                         *)
(* A definition Faulty<Name> is not part of the model: it is <Name> with a *)
(* mistake that the code could have had, and stands here to show that the  *)
(* properties would notice.                                                *)
(***************************************************************************)
EXTENDS Naturals, Sequences

CONSTANTS
  QueueLen,     \* CMD_QUEUE_LEN
  MaxNodes,     \* MAX_NODES
  MaxScripts,   \* bound: scripts that run in the library at the same time
  Routes,       \* the routes of the configuration
  RemoteCmds,   \* those in use of GpioCreatePort, GpioWritePort, GpioPortMode,
                \* I2CWrite, I2CRead, SendAmsMessage, PacketFilterMode
  Calls,        \* the calls and events that happen, see CallNames
  MayFail,      \* the commands the library may refuse to start
  Null          \* the NULL pointer, and "none"

Modes == {"NORMAL", "INACTIVE", "FALLBACK", "DIAGNOSIS", "PROGRAMMING"}
RouteInfos == {"BUILT", "DESTROYED", "ATD_UPDATE", "ATD_ERROR"}
CallNames == {"newconfig", "script", "route", "remote", "mode", "program",
              "error"}

\* Commands that stay in the queue until a result callback of their own.
Answered == {"Init", "Stop", "ProgramNode"} \cup RemoteCmds
\* Commands that stay in the queue until the library calls back.
Async == Answered \cup {"RmSetRoute", "SupvSetMode"}
\* Commands that are done when the call that starts them returns.
Sync == {"NsRun", "ProgramExit"}
CmdNames == Async \cup Sync

ASSUME UcsiAssumption ==
  /\ QueueLen \in Nat \ {0}
  /\ MaxNodes \in Nat \ {0}
  /\ MaxScripts \in Nat \ {0}
  /\ RemoteCmds \cap {"Init", "Stop", "ProgramNode", "RmSetRoute",
                      "SupvSetMode", "NsRun", "ProgramExit"} = {}
  /\ Calls \subseteq CallNames
  /\ MayFail \subseteq CmdNames
  /\ Null \notin Routes \cup Modes \cup CmdNames

\* A queue entry: UnicensCmdEntry_t without the payload of remote commands.
Entry ==
       [cmd : CmdNames \ {"RmSetRoute", "SupvSetMode"},
        route : {Null}, on : {FALSE}, mode : {Null}]
  \cup [cmd : {"RmSetRoute"}, route : Routes, on : BOOLEAN, mode : {Null}]
  \cup [cmd : {"SupvSetMode"}, route : {Null}, on : {FALSE}, mode : Modes]

\* A call of UCSI_CB_OnCommandResult.
Result == [cmd : CmdNames, ok : BOOLEAN]

ASSUME NullAssumption == Null \notin Entry /\ Null \notin Result

VARIABLES
  (* UCSI_Data_t *)
  queue,                \* rb
  currentCmd,
  initialized,
  triggerService,
  supvShallMode,
  switchOnlyInInactive,
  pendingRoutePtr,
  initMode,             \* uniInitData.supv.mode, Null before a configuration
  triggerNodeCount,
  allowProgramming,
  signatureValid,       \* the positions whose signature is valid
  (* the caller of this layer *)
  ctx,
  serviceRequired,      \* UCSI_CB_OnServiceRequired was raised
  (* observations *)
  result,               \* the result reported by the last step, or Null
  (* the UNICENS library *)
  owed,                 \* the command it owes a result callback, or Null
  scripts,              \* the number of scripts it is running
  supvMode, supvReady,  \* the mode it is in, and whether it reported READY
  supvReq,              \* the mode it was asked for and did not enter, or Null
  nodeCount             \* the nodes of the network, 0 while it is down

engineVars == <<currentCmd, pendingRoutePtr, owed>>
modeVars == <<supvShallMode, switchOnlyInInactive>>
configVars == <<initialized, initMode>>
programVars == <<triggerNodeCount, allowProgramming, signatureValid, nodeCount>>
supvVars == <<supvMode, supvReady, supvReq>>
libVars == <<supvVars, scripts>>
vars == <<queue, engineVars, modeVars, configVars, programVars, libVars,
          ctx, triggerService, serviceRequired, result>>

TypeOK ==
  /\ queue \in Seq(Entry)
  /\ Len(queue) <= QueueLen
  /\ currentCmd \in Entry \cup {Null}
  /\ initialized \in BOOLEAN
  /\ triggerService \in BOOLEAN
  /\ supvShallMode \in Modes
  /\ switchOnlyInInactive \in BOOLEAN
  /\ pendingRoutePtr \in Routes \cup {Null}
  /\ initMode \in {"NORMAL", "INACTIVE", Null}
  /\ triggerNodeCount \in 0 .. MaxNodes
  /\ allowProgramming \in BOOLEAN
  /\ signatureValid \subseteq 0 .. MaxNodes - 1
  /\ ctx \in {"loop", "service", "start", "timeout"}
  /\ serviceRequired \in BOOLEAN
  /\ result \in Result \cup {Null}
  /\ owed \in Answered \cup {Null}
  /\ scripts \in 0 .. MaxScripts
  /\ supvMode \in Modes
  /\ supvReady \in BOOLEAN
  /\ supvReq \in Modes \cup {Null}
  /\ nodeCount \in 0 .. MaxNodes + 1

------------------------------------------------------------------------------
(***************************************************************************)
(* Commands and the queue                                                  *)
(***************************************************************************)

Plain(name) == [cmd |-> name, route |-> Null, on |-> FALSE, mode |-> Null]
SetRoute(r, on) == [Plain("RmSetRoute") EXCEPT !.route = r, !.on = on]
SetMode(m) == [Plain("SupvSetMode") EXCEPT !.mode = m]

Report(name, ok) == [cmd |-> name, ok |-> ok]

HasRoom(q) == Len(q) < QueueLen

\* RB_GetWritePtr, RB_PopWritePtr and UCSI_CB_OnServiceRequired, on the queue q
\* that the handler has left so far: nothing is added to a full queue.
EnqueueCommand(q, e) ==
  \/ /\ HasRoom(q)
     /\ queue' = Append(q, e)
     /\ serviceRequired' = TRUE
  \/ /\ ~HasRoom(q)
     /\ queue' = q
     /\ UNCHANGED serviceRequired

\* OnCommandExecuted finishes the current command only if it is the command
\* that the callback is about.
FaultyIsCurrent(name) == currentCmd # Null
IsCurrent(name) == currentCmd # Null /\ currentCmd.cmd = name
QueueAfter(name) == IF IsCurrent(name) THEN Tail(queue) ELSE queue
OnCommandExecuted(name, ok) ==
  /\ currentCmd' = IF IsCurrent(name) THEN Null ELSE currentCmd
  /\ result' = IF IsCurrent(name) THEN Report(name, ok) ELSE Null

Init ==
  /\ queue = <<>>
  /\ currentCmd = Null
  /\ initialized = FALSE
  /\ triggerService = FALSE
  /\ supvShallMode = "NORMAL"
  /\ switchOnlyInInactive = FALSE
  /\ pendingRoutePtr = Null
  /\ initMode = Null
  /\ triggerNodeCount = 0
  /\ allowProgramming = FALSE
  /\ signatureValid = {}
  /\ ctx = "loop"
  /\ serviceRequired = FALSE
  /\ result = Null
  /\ owed = Null
  /\ scripts = 0
  /\ supvMode = "INACTIVE"
  /\ supvReady = TRUE
  /\ supvReq = Null
  /\ nodeCount = 0

\* The step reports no command result.
Quiet == result' = Null

------------------------------------------------------------------------------
(***************************************************************************)
(* The service routine                                                     *)
(***************************************************************************)

\* The caller reacts to UCSI_CB_OnServiceRequired.  The library is served
\* first, but only if it asked for it.
UCSI_Service ==
  /\ ctx = "loop"
  /\ serviceRequired
  /\ serviceRequired' = FALSE
  /\ triggerService' = FALSE
  /\ ctx' = IF triggerService THEN "service" ELSE "start"
  /\ Quiet
  /\ UNCHANGED <<queue, engineVars, modeVars, configVars, programVars, libVars>>

\* The timer that the library had set has expired.
UCSI_Timeout ==
  /\ ctx = "loop"
  /\ ctx' = "timeout"
  /\ Quiet
  /\ UNCHANGED <<queue, engineVars, modeVars, configVars, programVars, libVars,
                 triggerService, serviceRequired>>

\* Ucs_Service() or Ucs_ReportTimeout() returns.  Only UCSI_Service() goes on
\* to start a command.
FaultyLibReturn ==
  /\ ctx \in {"service", "timeout"}
  /\ ctx' = "loop"
  /\ Quiet
  /\ UNCHANGED <<queue, engineVars, modeVars, configVars, programVars, libVars,
                 triggerService, serviceRequired>>
LibReturn ==
  /\ ctx \in {"service", "timeout"}
  /\ ctx' = IF ctx = "service" THEN "start" ELSE "loop"
  /\ Quiet
  /\ UNCHANGED <<queue, engineVars, modeVars, configVars, programVars, libVars,
                 triggerService, serviceRequired>>

\* UCSI_Service() starts a command if none is being executed.
FaultyCanStart == queue # <<>>
CanStart == currentCmd = Null /\ queue # <<>>

NothingToStart ==
  /\ ctx = "start"
  /\ ~CanStart
  /\ ctx' = "loop"
  /\ Quiet
  /\ UNCHANGED <<queue, engineVars, modeVars, configVars, programVars, libVars,
                 triggerService, serviceRequired>>

\* What UCSI_Service() has in common for every command it starts.
StartCommand ==
  /\ ctx = "start"
  /\ CanStart
  /\ ctx' = "loop"
  /\ UNCHANGED <<modeVars, configVars, programVars, supvMode, supvReady,
                 triggerService, serviceRequired>>

\* The library accepts a command that it will answer: popEntry is FALSE.
AcceptCommand ==
  /\ StartCommand
  /\ Head(queue).cmd \in Async
  /\ currentCmd' = Head(queue)
  /\ pendingRoutePtr' = IF Head(queue).cmd = "RmSetRoute"
                        THEN Head(queue).route ELSE pendingRoutePtr
  /\ supvReq' = IF Head(queue).cmd = "SupvSetMode"
                THEN Head(queue).mode ELSE supvReq
  /\ owed' = IF Head(queue).cmd \in Answered THEN Head(queue).cmd ELSE owed
  /\ Quiet
  /\ UNCHANGED <<queue, scripts>>

\* The library accepts a command that is done with that: NsRun, whose result
\* is reported when the script ends, and ProgramExit, which has no result.
PassCommand ==
  /\ StartCommand
  /\ Head(queue).cmd \in Sync
  /\ Head(queue).cmd = "NsRun" => scripts < MaxScripts
  /\ queue' = Tail(queue)
  /\ scripts' = IF Head(queue).cmd = "NsRun" THEN scripts + 1 ELSE scripts
  /\ supvReq' = IF Head(queue).cmd = "ProgramExit" THEN "INACTIVE" ELSE supvReq
  /\ Quiet
  /\ UNCHANGED engineVars

\* The library refuses the command.
RefuseCommand ==
  /\ StartCommand
  /\ \/ Head(queue).cmd \in MayFail
     \/ Head(queue).cmd = "NsRun" /\ scripts = MaxScripts
  /\ queue' = Tail(queue)
  /\ result' = IF Head(queue).cmd = "ProgramExit"
               THEN Null ELSE Report(Head(queue).cmd, FALSE)
  /\ UNCHANGED <<engineVars, scripts, supvReq>>

------------------------------------------------------------------------------
(***************************************************************************)
(* The functions that the integrator calls, from the main loop or from a   *)
(* callback.  An early return with false changes nothing and has no step.  *)
(***************************************************************************)

Callable == ctx # "start"

\* What an API function leaves alone that only enqueues a command.
EnqueueOnly ==
  UNCHANGED <<engineVars, modeVars, configVars, programVars, libVars, ctx,
              triggerService>>

\* n is programAmountOfNodes.  The Stop command stays in the queue, and the
\* configuration is the new one, even if there is no room for Init.
UCSI_NewConfig(n) ==
  LET stopped == IF initialized THEN Append(queue, Plain("Stop")) ELSE queue
      nodes   == IF n >= 1 THEN n - 1 ELSE triggerNodeCount
  IN  /\ "newconfig" \in Calls
      /\ Callable
      /\ initialized => HasRoom(queue)
      /\ triggerNodeCount' = nodes
      /\ supvShallMode' = IF nodes = 0 THEN "NORMAL" ELSE "PROGRAMMING"
      /\ initMode' = IF nodes = 0 THEN "NORMAL" ELSE "INACTIVE"
      /\ EnqueueCommand(stopped, Plain("Init"))
      /\ Quiet
      /\ UNCHANGED <<engineVars, switchOnlyInInactive, initialized,
                     allowProgramming, signatureValid, nodeCount, libVars, ctx,
                     triggerService>>

UCSI_ExecuteScript ==
  /\ "script" \in Calls
  /\ Callable
  /\ initialized
  /\ initMode = "NORMAL"
  /\ HasRoom(queue)
  /\ EnqueueCommand(queue, Plain("NsRun"))
  /\ Quiet
  /\ EnqueueOnly

UCSI_SetRouteActive(r, on) ==
  /\ "route" \in Calls
  /\ Callable
  /\ initMode # Null
  /\ HasRoom(queue)
  /\ EnqueueCommand(queue, SetRoute(r, on))
  /\ Quiet
  /\ EnqueueOnly

\* UCSI_SendAmsMessage, UCSI_I2CWrite, UCSI_I2CRead, UCSI_SetGpioState,
\* UCSI_SetGpioMode and UCSI_EnablePromiscuousMode.
EnqueueRemote(c) ==
  /\ "remote" \in Calls
  /\ Callable
  /\ HasRoom(queue)
  /\ EnqueueCommand(queue, Plain(c))
  /\ Quiet
  /\ EnqueueOnly

\* UCSI_RunCableDiagnosis, UCSI_RunFallbackMode and UCSI_ShutdownNetwork: the
\* network is stopped first, the mode follows when that is reported.
RequestMode(m) ==
  /\ "mode" \in Calls
  /\ Callable
  /\ HasRoom(queue)
  /\ supvShallMode' = m
  /\ EnqueueCommand(queue, SetMode("INACTIVE"))
  /\ Quiet
  /\ UNCHANGED <<engineVars, switchOnlyInInactive, configVars, programVars,
                 libVars, ctx, triggerService>>

------------------------------------------------------------------------------
(***************************************************************************)
(* The callbacks of the library                                            *)
(***************************************************************************)

InLibrary == ctx \in {"service", "timeout"}

\* The library asks to be served; it may do that at any time.
OnUnicensService ==
  /\ ~triggerService \/ ~serviceRequired
  /\ triggerService' = TRUE
  /\ serviceRequired' = TRUE
  /\ Quiet
  /\ UNCHANGED <<queue, engineVars, modeVars, configVars, programVars, libVars,
                 ctx>>

\* The control channel can receive again: the caller is asked for service, the
\* library is not.
OnLldCtrlRxMsgAvailable ==
  /\ InLibrary
  /\ ~serviceRequired
  /\ serviceRequired' = TRUE
  /\ Quiet
  /\ UNCHANGED <<queue, engineVars, modeVars, configVars, programVars, libVars,
                 ctx, triggerService>>

\* A general error of the library: restart it.
OnUnicensError ==
  /\ "error" \in Calls
  /\ InLibrary
  /\ EnqueueCommand(queue, Plain("Init"))
  /\ Quiet
  /\ UNCHANGED <<engineVars, modeVars, configVars, programVars, libVars, ctx,
                 triggerService>>

\* A failed start is tried again.  After a successful one the supervisor enters
\* the configured mode.
FaultyOnUcsInitResult(ok) ==
  /\ InLibrary
  /\ owed = "Init"
  /\ owed' = Null
  /\ initialized' = ok
  /\ OnCommandExecuted("Init", ok)
  /\ queue' = IF ok \/ ~HasRoom(queue) THEN QueueAfter("Init")
              ELSE Append(QueueAfter("Init"), Plain("Init"))
  /\ serviceRequired' = (serviceRequired \/ ~ok)
  /\ supvReq' = IF ok THEN initMode ELSE supvReq
  /\ UNCHANGED <<pendingRoutePtr, modeVars, initMode, programVars, supvMode,
                 supvReady, scripts, ctx, triggerService>>
OnUcsInitResult(ok) ==
  /\ InLibrary
  /\ owed = "Init"
  /\ owed' = Null
  /\ initialized' = ok
  /\ OnCommandExecuted("Init", ok)
  /\ IF ok
     THEN /\ queue' = QueueAfter("Init")
          /\ supvReq' = initMode
          /\ UNCHANGED <<serviceRequired>>
     ELSE /\ EnqueueCommand(QueueAfter("Init"), Plain("Init"))
          /\ UNCHANGED supvReq
  /\ UNCHANGED <<pendingRoutePtr, modeVars, initMode, programVars, supvMode,
                 supvReady, scripts, ctx, triggerService>>

\* Even a Stop that failed leaves the layer uninitialized.
OnUcsStopResult(ok) ==
  /\ InLibrary
  /\ owed = "Stop"
  /\ owed' = Null
  /\ initialized' = FALSE
  /\ OnCommandExecuted("Stop", ok)
  /\ queue' = QueueAfter("Stop")
  /\ supvMode' = "INACTIVE"
  /\ supvReady' = TRUE
  /\ supvReq' = Null
  /\ nodeCount' = 0
  /\ UNCHANGED <<pendingRoutePtr, modeVars, initMode, triggerNodeCount,
                 allowProgramming, signatureValid, scripts, ctx, triggerService,
                 serviceRequired>>

\* OnUcsGpioPortCreate, OnUcsGpioPortWrite, OnUcsGpioPinMode, OnUcsI2CWrite,
\* OnUcsI2CRead, OnUcsAmsWrite, OnUcsPacketFilterMode and OnProgramResult.
OnRemoteResult(c, ok) ==
  /\ InLibrary
  /\ owed = c
  /\ owed' = Null
  /\ OnCommandExecuted(c, ok)
  /\ queue' = QueueAfter(c)
  /\ UNCHANGED <<pendingRoutePtr, modeVars, configVars, programVars, libVars,
                 ctx, triggerService, serviceRequired>>

\* Any report about the route that is waited for finishes the command; the
\* reports about other routes only go to the integrator.
RouteSucceeded(on, info) == info = IF on THEN "BUILT" ELSE "DESTROYED"
FaultyOnUnicensRoutingResult(r, info) ==
  /\ InLibrary
  /\ r = pendingRoutePtr
  /\ OnCommandExecuted("RmSetRoute", RouteSucceeded(currentCmd.on, info))
  /\ queue' = QueueAfter("RmSetRoute")
  /\ UNCHANGED <<pendingRoutePtr, owed, modeVars, configVars, programVars,
                 libVars, ctx, triggerService, serviceRequired>>
OnUnicensRoutingResult(r, info) ==
  /\ InLibrary
  /\ r = pendingRoutePtr
  /\ pendingRoutePtr' = Null
  /\ OnCommandExecuted("RmSetRoute", RouteSucceeded(currentCmd.on, info))
  /\ queue' = QueueAfter("RmSetRoute")
  /\ UNCHANGED <<owed, modeVars, configVars, programVars, libVars, ctx,
                 triggerService, serviceRequired>>

\* A script has ended; its command has left the queue long ago.
OnUcsNsRun(ok) ==
  /\ InLibrary
  /\ scripts > 0
  /\ scripts' = scripts - 1
  /\ result' = Report("NsRun", ok)
  /\ UNCHANGED <<queue, engineVars, modeVars, configVars, programVars, supvVars,
                 ctx, triggerService, serviceRequired>>

\* The supervisor reports BUSY when it enters a mode.
OnSupvModeBusy ==
  /\ InLibrary
  /\ supvReq # Null
  /\ supvMode' = supvReq
  /\ supvReady' = FALSE
  /\ supvReq' = Null
  /\ Quiet
  /\ UNCHANGED <<queue, engineVars, modeVars, configVars, programVars, scripts,
                 ctx, triggerService, serviceRequired>>

\* It reports READY when it is there.  That finishes a SupvSetMode command,
\* whatever mode it had asked for, and leads on to the mode that shall be.
MaySwitch == switchOnlyInInactive => supvMode = "INACTIVE"
FaultyOnSupvModeReady ==
  /\ InLibrary
  /\ ~supvReady
  /\ supvReady' = TRUE
  /\ Quiet
  /\ IF MaySwitch /\ supvShallMode # supvMode
     THEN /\ switchOnlyInInactive' = FALSE
          /\ EnqueueCommand(queue, SetMode(supvShallMode))
     ELSE UNCHANGED <<queue, switchOnlyInInactive, serviceRequired>>
  /\ UNCHANGED <<currentCmd, pendingRoutePtr, owed, supvShallMode, configVars,
                 programVars, supvMode, supvReq, scripts, ctx, triggerService>>
OnSupvModeReady ==
  /\ InLibrary
  /\ ~supvReady
  /\ supvReady' = TRUE
  /\ OnCommandExecuted("SupvSetMode", TRUE)
  /\ IF MaySwitch /\ supvShallMode # supvMode
     THEN /\ switchOnlyInInactive' = FALSE
          /\ EnqueueCommand(QueueAfter("SupvSetMode"), SetMode(supvShallMode))
     ELSE /\ queue' = QueueAfter("SupvSetMode")
          /\ UNCHANGED <<switchOnlyInInactive, serviceRequired>>
  /\ UNCHANGED <<pendingRoutePtr, owed, supvShallMode, configVars,
                 programVars, supvMode, supvReq, scripts, ctx, triggerService>>

\* A report of the cable diagnosis.  With the last one, whose code is
\* UCS_HDX_RES_END, the supervisor goes back to INACTIVE.
FaultyOnHdxReport(end) ==
  /\ InLibrary
  /\ supvMode = "DIAGNOSIS"
  /\ switchOnlyInInactive' = TRUE
  /\ supvReq' = IF end /\ supvReq = Null THEN "INACTIVE" ELSE supvReq
  /\ Quiet
  /\ UNCHANGED <<queue, engineVars, supvShallMode, configVars, programVars,
                 supvMode, supvReady, scripts, ctx, triggerService,
                 serviceRequired>>
OnHdxReport(end) ==
  /\ InLibrary
  /\ supvMode = "DIAGNOSIS"
  /\ switchOnlyInInactive' = TRUE
  /\ supvShallMode' = "NORMAL"
  /\ supvReq' = IF end /\ supvReq = Null THEN "INACTIVE" ELSE supvReq
  /\ Quiet
  /\ UNCHANGED <<queue, engineVars, configVars, programVars, supvMode,
                 supvReady, scripts, ctx, triggerService, serviceRequired>>

------------------------------------------------------------------------------
(***************************************************************************)
(* The programming mode                                                    *)
(***************************************************************************)

\* The network came up with count nodes, the root node included, or went down.
OnUnicensNetworkStatus(count) ==
  /\ "program" \in Calls
  /\ InLibrary
  /\ nodeCount' = count
  /\ allowProgramming' = IF count > 0 /\ supvShallMode = "PROGRAMMING"
                         THEN count - 1 = triggerNodeCount
                         ELSE allowProgramming
  /\ Quiet
  /\ UNCHANGED <<queue, engineVars, modeVars, configVars, triggerNodeCount,
                 signatureValid, libVars, ctx, triggerService, serviceRequired>>

\* ProgrammingGetNodeCount: the positions from the first one on without a gap.
Discovered(valid) ==
  CHOOSE k \in 0 .. MaxNodes : /\ \A i \in 0 .. k - 1 : i \in valid
                               /\ k < MaxNodes => k \notin valid

\* ProgrammingStoreSignature: once all nodes are known the integrator decides
\* whether one of them is programmed or the programming mode is left.
FaultyShallModeAfter(flash) == supvShallMode
ShallModeAfter(flash) == IF flash THEN supvShallMode ELSE "NORMAL"
OnProgramSignature(pos, flash) ==
  /\ "program" \in Calls
  /\ InLibrary
  /\ supvMode = "PROGRAMMING"
  /\ signatureValid' = signatureValid \cup {pos}
  /\ IF /\ allowProgramming
        /\ triggerNodeCount # 0
        /\ Discovered(signatureValid') = triggerNodeCount
     THEN /\ EnqueueCommand(queue, Plain(IF flash THEN "ProgramNode"
                                                ELSE "ProgramExit"))
          /\ supvShallMode' = ShallModeAfter(flash)
     ELSE UNCHANGED <<queue, serviceRequired, supvShallMode>>
  /\ Quiet
  /\ UNCHANGED <<engineVars, switchOnlyInInactive, configVars,
                 triggerNodeCount, allowProgramming, nodeCount, libVars, ctx,
                 triggerService>>

\* OnProgramEvent with UCS_SUPV_PROG_INFO_SCAN_NEW.
OnProgramScan ==
  /\ "program" \in Calls
  /\ InLibrary
  /\ supvMode = "PROGRAMMING"
  /\ signatureValid' = {}
  /\ Quiet
  /\ UNCHANGED <<queue, engineVars, modeVars, configVars, triggerNodeCount,
                 allowProgramming, nodeCount, libVars, ctx, triggerService,
                 serviceRequired>>

------------------------------------------------------------------------------
(***************************************************************************)
(* The specification                                                       *)
(***************************************************************************)

StartStep == NothingToStart \/ AcceptCommand \/ PassCommand \/ RefuseCommand

ServiceStep == UCSI_Service \/ UCSI_Timeout \/ LibReturn \/ StartStep

\* Bound: without "program" no configuration asks for the programming mode.
ProgramSizes == IF "program" \in Calls THEN 0 .. MaxNodes + 1 ELSE {0}
Reconfigure == \E n \in ProgramSizes : UCSI_NewConfig(n)
AskForMode == \E m \in {"DIAGNOSIS", "FALLBACK", "INACTIVE"} : RequestMode(m)

ApiCall ==
  \/ Reconfigure
  \/ AskForMode
  \/ UCSI_ExecuteScript
  \/ \E r \in Routes, on \in BOOLEAN : UCSI_SetRouteActive(r, on)
  \/ \E c \in RemoteCmds : EnqueueRemote(c)

Answer ==
  \/ \E ok \in BOOLEAN : OnUcsInitResult(ok)
  \/ \E ok \in BOOLEAN : OnUcsStopResult(ok)
  \/ \E c \in RemoteCmds \cup {"ProgramNode"}, ok \in BOOLEAN :
        OnRemoteResult(c, ok)
  \/ \E r \in Routes, info \in RouteInfos : OnUnicensRoutingResult(r, info)

Callback ==
  \/ Answer
  \/ OnUnicensService
  \/ OnLldCtrlRxMsgAvailable
  \/ OnUnicensError
  \/ \E ok \in BOOLEAN : OnUcsNsRun(ok)
  \/ OnSupvModeBusy
  \/ OnSupvModeReady
  \/ \E end \in BOOLEAN : OnHdxReport(end)

ProgrammingCallback ==
  \/ \E count \in 0 .. MaxNodes + 1 : OnUnicensNetworkStatus(count)
  \/ \E pos \in 0 .. MaxNodes - 1, flash \in BOOLEAN :
        OnProgramSignature(pos, flash)
  \/ OnProgramScan

Next == ServiceStep \/ ApiCall \/ Callback \/ ProgrammingCallback

Spec == Init /\ [][Next]_vars

\* The main loop serves the layer whenever that was required, before it looks
\* at the timer, and every function returns.
LoopFairness == SF_vars(UCSI_Service) /\ WF_vars(LibReturn) /\ WF_vars(StartStep)

\* The library answers what it accepted, each time within a call of
\* Ucs_Service() or Ucs_ReportTimeout(), and keeps asking for service.
LibraryFairness ==
  /\ WF_vars(OnUnicensService)
  /\ SF_vars(Answer)
  /\ SF_vars(OnSupvModeBusy)
  /\ SF_vars(OnSupvModeReady)
  /\ SF_vars(OnHdxReport(TRUE))

FairSpec == Spec /\ LoopFairness /\ LibraryFairness

------------------------------------------------------------------------------
(***************************************************************************)
(* Properties                                                              *)
(***************************************************************************)

\* currentCmd points to the entry at the read position: what OnCommandExecuted
\* removes from the queue is the command that was executed.
CurrentIsOldest == currentCmd # Null => queue # <<>> /\ currentCmd = Head(queue)

\* A command in execution never waits for nothing: the library still has to
\* call back with an answer that will finish it.
NoAnswerIsLost ==
  currentCmd # Null =>
    \/ currentCmd.cmd \in Answered /\ owed = currentCmd.cmd
    \/ currentCmd.cmd = "RmSetRoute" /\ pendingRoutePtr = currentCmd.route
    \/ currentCmd.cmd = "SupvSetMode" /\ (supvReq # Null \/ ~supvReady)

\* No answer finds the queue without its command: OnCommandExecuted never sees
\* a wrong command, and OnUnicensRoutingResult, which reads currentCmd without
\* a check, finds the command that set the pending route.
NoStrayAnswer ==
  /\ owed # Null => IsCurrent(owed)
  /\ pendingRoutePtr # Null =>
       IsCurrent("RmSetRoute") /\ currentCmd.route = pendingRoutePtr

\* The oldest command leaves the queue.
Finished ==
  \/ currentCmd # Null /\ currentCmd' = Null
  \/ currentCmd = Null /\ Len(queue') < Len(queue)

\* Every command that leaves the queue is reported to the integrator exactly
\* once, at that moment; only the result of a script comes later, and leaving
\* the programming mode has none.
EveryCommandIsAnswered ==
  [][/\ Finished => LET c == Head(queue).cmd IN
          \/ result' # Null /\ result'.cmd = c
          \/ result' = Null /\ c = "NsRun" /\ scripts' = scripts + 1
          \/ result' = Null /\ c = "ProgramExit"
     /\ result' # Null =>
          \/ Finished
          \/ result'.cmd = "NsRun" /\ scripts' = scripts - 1]_vars

\* What has to follow a command is never lost to a full queue: another start
\* after a start that failed, and the mode that shall be after INACTIVE.
FollowUpFits ==
  [][/\ OnUcsInitResult(FALSE) => queue'[Len(queue')] = Plain("Init")
     /\ OnSupvModeReady /\ IsCurrent("SupvSetMode") /\ supvMode = "INACTIVE"
          => \/ supvShallMode = "INACTIVE"
             \/ queue'[Len(queue')] = SetMode(supvShallMode)]_vars

\* The commands are executed one by one in the order they were accepted.
Fifo == INSTANCE CommandFifo WITH
          Command  <- Entry,
          Capacity <- QueueLen,
          pending  <- queue,
          active   <- (currentCmd # Null)

RefinesFifo == Fifo!Spec

\* As long as the library keeps asking for service, the queue never gets stuck.
QueueAdvances == []<>(queue = <<>>) \/ []<><<Finished>>_vars

\* When nobody asks for another mode or configuration any more, and the library
\* stays initialized, the supervisor ends up in the mode that shall be, unless
\* the queue was full at some time, so that a follow-up may have been lost, or a
\* late report of a diagnosis that was left for another mode makes the layer wait
\* for INACTIVE for ever.
Settled == supvReady /\ supvReq = Null /\ supvMode = supvShallMode
ModeConverges ==
  \/ []<><<Reconfigure \/ AskForMode>>_vars
  \/ []<>(~initialized)
  \/ <>~HasRoom(queue)
  \/ <>[]switchOnlyInInactive
  \/ <>[]Settled

\* ucsi_api.h:370: UCSI_CB_OnServiceRequired is raised whenever the instance needs
\* to be serviced.  A command that could be started needs that.
ServiceRequestedWhenNeeded == ctx = "loop" /\ CanStart => serviceRequired

\* ucsi_api.h:75: a network that was shut down carries nothing any more, until
\* the integrator asks for something else.
ShutdownStands ==
  [][supvShallMode = "INACTIVE"
       => Reconfigure \/ AskForMode \/ supvShallMode' = "INACTIVE"]_vars

==============================================================================
