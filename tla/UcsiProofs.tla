----------------------------- MODULE UcsiProofs ------------------------------
(***************************************************************************)
(* For every queue length, set of routes and set of commands, and whatever *)
(* the library refuses: the integration layer is well typed, its current   *)
(* command is the oldest one and is always waited for, no answer comes     *)
(* without its command.  The layer executes the commands one by one in the *)
(* order it accepted them, it reports each of them exactly once, and a     *)
(* follow-up always finds room in the queue: it implements the FIFO.       *)
(***************************************************************************)
EXTENDS Ucsi, SequenceTheorems, TLAPS

IInv == TypeOK /\ CurrentIsOldest /\ NoAnswerIsLost /\ NoStrayAnswer

------------------------------------------------------------------------------
(***************************************************************************)
(* Commands and the queue                                                  *)
(***************************************************************************)

LEMMA CommandNames ==
  /\ Answered = {"Init", "Stop", "ProgramNode"} \cup RemoteCmds
  /\ "RmSetRoute" \notin Answered
  /\ "SupvSetMode" \notin Answered
  /\ Async \cap Sync = {}
  /\ Null \notin CmdNames /\ Null \notin Routes /\ Null \notin Modes
  BY UcsiAssumption DEF Answered, Async, Sync, CmdNames

LEMMA CommandTypes ==
  /\ \A c \in CmdNames \ {"RmSetRoute", "SupvSetMode"} :
       Plain(c) \in Entry /\ Plain(c).cmd = c
  /\ \A r \in Routes, on \in BOOLEAN : SetRoute(r, on) \in Entry
  /\ \A m \in Modes : SetMode(m) \in Entry
  BY DEF Plain, SetRoute, SetMode, Entry

LEMMA EntryFields ==
  ASSUME NEW e \in Entry
  PROVE  /\ e.cmd \in CmdNames
         /\ e.on \in BOOLEAN
         /\ e.cmd = "RmSetRoute" => e.route \in Routes
         /\ e.cmd = "SupvSetMode" => e.mode \in Modes
  BY DEF Entry, CmdNames, Async, Sync

\* A command behind the others leaves the oldest one where it is.
LEMMA AppendQueue ==
  ASSUME NEW q \in Seq(Entry), NEW e \in Entry
  PROVE  /\ Append(q, e) \in Seq(Entry)
         /\ Len(Append(q, e)) = Len(q) + 1
         /\ Append(q, e) # <<>>
         /\ q # <<>> => Head(Append(q, e)) = Head(q)
  BY AppendProperties, HeadTailProperties

LEMMA TailQueue ==
  ASSUME NEW q \in Seq(Entry), q # <<>>
  PROVE  Head(q) \in Entry /\ Tail(q) \in Seq(Entry) /\ Len(Tail(q)) = Len(q) - 1
         /\ Len(q) > 0
  BY HeadTailProperties, EmptySeq

LEMMA EnqueueQueue ==
  ASSUME NEW q \in Seq(Entry), Len(q) <= QueueLen, NEW e \in Entry,
         EnqueueCommand(q, e), serviceRequired \in BOOLEAN
  PROVE  /\ queue' \in Seq(Entry)
         /\ Len(queue') <= QueueLen
         /\ queue' \in {q, Append(q, e)}
         /\ q # <<>> => queue' # <<>> /\ Head(queue') = Head(q)
         /\ serviceRequired' \in BOOLEAN
  <1>1. Len(q) \in Nat
    OBVIOUS
  <1>2. QueueLen \in Nat
    BY UcsiAssumption
  <1>3. CASE HasRoom(q)
    <2>1. queue' = Append(q, e) /\ serviceRequired' = TRUE
      BY <1>3 DEF EnqueueCommand
    <2>2. Len(q) + 1 <= QueueLen
      BY <1>1, <1>2, <1>3 DEF HasRoom
    <2>3. QED
      BY <2>1, <2>2, AppendQueue
  <1>4. CASE ~HasRoom(q)
    BY <1>4 DEF EnqueueCommand
  <1>5. QED
    BY <1>3, <1>4

------------------------------------------------------------------------------
(***************************************************************************)
(* The inductive invariant                                                 *)
(***************************************************************************)

EngineInv == CurrentIsOldest /\ NoAnswerIsLost /\ NoStrayAnswer

\* A step that leaves the command in execution and its oldest place alone, and
\* that does not end the change of the supervisor mode.
LEMMA EngineKept ==
  ASSUME IInv, UNCHANGED engineVars,
         queue # <<>> => queue' # <<>> /\ Head(queue') = Head(queue),
         supvReq # Null \/ ~supvReady => supvReq' # Null \/ ~supvReady'
  PROVE  EngineInv'
  BY DEF IInv, EngineInv, CurrentIsOldest, NoAnswerIsLost, NoStrayAnswer,
         IsCurrent, engineVars

\* Without a command in execution nothing can be waited for.
LEMMA EngineIdle ==
  ASSUME currentCmd' = Null, owed' = Null, pendingRoutePtr' = Null
  PROVE  EngineInv'
  BY DEF EngineInv, CurrentIsOldest, NoAnswerIsLost, NoStrayAnswer

\* An answer finds its command.
LEMMA AnswerFindsCommand ==
  ASSUME IInv, NEW c \in Answered, owed = c
  PROVE  /\ IsCurrent(c) /\ queue # <<>> /\ QueueAfter(c) = Tail(queue)
         /\ pendingRoutePtr = Null
  BY CommandNames, UcsiAssumption
  DEF IInv, NoStrayAnswer, CurrentIsOldest, IsCurrent, QueueAfter, CmdNames,
      Async

LEMMA RouteFindsCommand ==
  ASSUME IInv, pendingRoutePtr # Null
  PROVE  /\ IsCurrent("RmSetRoute") /\ queue # <<>>
         /\ QueueAfter("RmSetRoute") = Tail(queue)
         /\ owed = Null
  BY CommandNames DEF IInv, TypeOK, NoStrayAnswer, CurrentIsOldest, IsCurrent,
     QueueAfter

\* What READY of the supervisor leaves of the queue.
LEMMA ModeFindsCommand ==
  ASSUME IInv
  PROVE  /\ IsCurrent("SupvSetMode") => /\ queue # <<>>
                                        /\ owed = Null /\ pendingRoutePtr = Null
         /\ QueueAfter("SupvSetMode") \in Seq(Entry)
         /\ Len(QueueAfter("SupvSetMode")) <= QueueLen
  <1>1. queue \in Seq(Entry) /\ Len(queue) <= QueueLen /\ QueueLen \in Nat
    BY UcsiAssumption DEF IInv, TypeOK
  <1>2. CASE IsCurrent("SupvSetMode")
    <2>1. queue # <<>> /\ QueueAfter("SupvSetMode") = Tail(queue)
      BY <1>2 DEF IInv, CurrentIsOldest, IsCurrent, QueueAfter
    <2>2. owed = Null /\ pendingRoutePtr = Null
      BY <1>2, CommandNames DEF IInv, TypeOK, NoStrayAnswer, IsCurrent
    <2>3. Tail(queue) \in Seq(Entry) /\ Len(Tail(queue)) = Len(queue) - 1
      BY <1>1, <2>1, TailQueue
    <2>4. Len(Tail(queue)) <= QueueLen
      BY <1>1, <2>3
    <2>5. QED
      BY <2>1, <2>2, <2>3, <2>4
  <1>3. CASE ~IsCurrent("SupvSetMode")
    BY <1>1, <1>3 DEF QueueAfter
  <1>4. QED
    BY <1>2, <1>3

LEMMA InitIInv == Init => IInv
  <1> SUFFICES ASSUME Init PROVE IInv
    OBVIOUS
  <1>1. queue \in Seq(Entry) /\ Len(queue) <= QueueLen
    BY UcsiAssumption, EmptySeq DEF Init
  <1>2. TypeOK
    <2>1. scripts \in 0 .. MaxScripts /\ nodeCount \in 0 .. MaxNodes + 1
          /\ triggerNodeCount \in 0 .. MaxNodes
      BY UcsiAssumption DEF Init
    <2>2. signatureValid \subseteq 0 .. MaxNodes - 1
      BY DEF Init
    <2>3. supvShallMode \in Modes /\ supvMode \in Modes
      BY DEF Init, Modes
    <2>4. QED
      BY <1>1, <2>1, <2>2, <2>3 DEF Init, TypeOK
  <1>3. CurrentIsOldest /\ NoAnswerIsLost /\ NoStrayAnswer
    BY DEF Init, CurrentIsOldest, NoAnswerIsLost, NoStrayAnswer
  <1>4. QED
    BY <1>2, <1>3 DEF IInv

------------------------------------------------------------------------------
(***************************************************************************)
(* The steps of the service routine                                        *)
(***************************************************************************)

LEMMA ServiceIInv ==
  ASSUME IInv, UCSI_Service \/ UCSI_Timeout \/ LibReturn \/ NothingToStart
  PROVE  IInv'
  <1>1. CASE UCSI_Service
    <2>1. TypeOK'
      BY <1>1, ZenonT(60) DEF IInv, TypeOK, UCSI_Service, Quiet, engineVars, modeVars,
         configVars, programVars, libVars, supvVars
    <2>2. EngineInv'
      BY <1>1, EngineKept DEF UCSI_Service, libVars, supvVars
    <2>3. QED
      BY <2>1, <2>2 DEF IInv, EngineInv
  <1>2. CASE UCSI_Timeout
    <2>1. TypeOK'
      BY <1>2, SMTT(30) DEF IInv, TypeOK, UCSI_Timeout, Quiet, engineVars, modeVars,
         configVars, programVars, libVars, supvVars
    <2>2. EngineInv'
      BY <1>2, EngineKept DEF UCSI_Timeout, libVars, supvVars
    <2>3. QED
      BY <2>1, <2>2 DEF IInv, EngineInv
  <1>3. CASE LibReturn
    <2>1. TypeOK'
      BY <1>3, SMTT(30) DEF IInv, TypeOK, LibReturn, Quiet, engineVars, modeVars,
         configVars, programVars, libVars, supvVars
    <2>2. EngineInv'
      BY <1>3, EngineKept DEF LibReturn, libVars, supvVars
    <2>3. QED
      BY <2>1, <2>2 DEF IInv, EngineInv
  <1>4. CASE NothingToStart
    <2>1. TypeOK'
      BY <1>4, SMTT(30) DEF IInv, TypeOK, NothingToStart, Quiet, engineVars, modeVars,
         configVars, programVars, libVars, supvVars
    <2>2. EngineInv'
      BY <1>4, EngineKept DEF NothingToStart, libVars, supvVars
    <2>3. QED
      BY <2>1, <2>2 DEF IInv, EngineInv
  <1>5. QED
    BY <1>1, <1>2, <1>3, <1>4

LEMMA AcceptCommandIInv == ASSUME IInv, AcceptCommand PROVE IInv'
  <1> DEFINE e == Head(queue)
  <1>1. queue # <<>> /\ e \in Entry /\ e # Null
    BY TailQueue, NullAssumption
    DEF IInv, TypeOK, AcceptCommand, StartCommand, CanStart
  <1>2. currentCmd = Null /\ owed = Null /\ pendingRoutePtr = Null
    BY CommandNames
    DEF IInv, TypeOK, NoStrayAnswer, IsCurrent, AcceptCommand, StartCommand,
        CanStart
  <1>3. TypeOK'
    BY <1>1, EntryFields, SMTT(30)
    DEF IInv, TypeOK, AcceptCommand, StartCommand, Quiet, modeVars, configVars,
        programVars
  <1>4. EngineInv'
    BY <1>1, <1>2, EntryFields, CommandNames
    DEF IInv, EngineInv, CurrentIsOldest, NoAnswerIsLost, NoStrayAnswer,
        IsCurrent, AcceptCommand, Async
  <1>5. QED
    BY <1>3, <1>4 DEF IInv, EngineInv

\* Nothing was in execution, and nothing is afterwards.
LEMMA PopIInv ==
  ASSUME IInv, PassCommand \/ RefuseCommand
  PROVE  IInv'
  <1>1. currentCmd = Null /\ queue # <<>> /\ queue' = Tail(queue)
    BY DEF PassCommand, RefuseCommand, StartCommand, CanStart
  <1>2. queue \in Seq(Entry) /\ Len(queue) <= QueueLen /\ QueueLen \in Nat
    BY UcsiAssumption DEF IInv, TypeOK
  <1>3. /\ Head(queue) \in Entry
        /\ queue' \in Seq(Entry) /\ Len(queue') <= QueueLen
    BY <1>1, <1>2, TailQueue
  <1>4. Head(queue).cmd \in CmdNames
    BY <1>3, EntryFields
  <1>5. owed = Null /\ pendingRoutePtr = Null
    BY <1>1, CommandNames DEF IInv, TypeOK, NoStrayAnswer, IsCurrent
  <1>6. UNCHANGED engineVars
    BY DEF PassCommand, RefuseCommand
  <1>7. TypeOK'
    <2>1. CASE PassCommand
      <3>1. scripts' \in 0 .. MaxScripts
        BY <2>1, UcsiAssumption DEF IInv, TypeOK, PassCommand
      <3>2. result' = Null /\ supvReq' \in Modes \cup {Null}
        BY <2>1 DEF IInv, TypeOK, PassCommand, Quiet, Modes
      <3>3. QED
        BY <1>3, <1>6, <2>1, <3>1, <3>2
        DEF IInv, TypeOK, PassCommand, StartCommand, engineVars, modeVars,
            configVars, programVars
    <2>2. CASE RefuseCommand
      <3>1. result' \in Result \cup {Null}
        BY <1>4, <2>2 DEF RefuseCommand, Report, Result
      <3>2. QED
        BY <1>3, <1>6, <2>2, <3>1
        DEF IInv, TypeOK, RefuseCommand, StartCommand, engineVars, modeVars,
            configVars, programVars
    <2>3. QED
      BY <2>1, <2>2
  <1>8. EngineInv'
    BY <1>1, <1>5, <1>6, EngineIdle DEF engineVars
  <1>9. QED
    BY <1>7, <1>8 DEF IInv, EngineInv

------------------------------------------------------------------------------
(***************************************************************************)
(* The functions that the integrator calls                                 *)
(***************************************************************************)

LEMMA EnqueueIInv ==
  ASSUME IInv, NEW e \in Entry, EnqueueCommand(queue, e), Quiet, EnqueueOnly
  PROVE  IInv'
  <1>1. /\ queue' \in Seq(Entry) /\ Len(queue') <= QueueLen
        /\ queue # <<>> => queue' # <<>> /\ Head(queue') = Head(queue)
        /\ serviceRequired' \in BOOLEAN
    BY EnqueueQueue DEF IInv, TypeOK
  <1>2. TypeOK'
    BY <1>1, SMTT(30) DEF IInv, TypeOK, Quiet, EnqueueOnly, engineVars, modeVars,
       configVars, programVars, libVars, supvVars
  <1>3. EngineInv'
    BY <1>1, EngineKept DEF EnqueueOnly, libVars, supvVars
  <1>4. QED
    BY <1>2, <1>3 DEF IInv, EngineInv

LEMMA ReconfigureIInv == ASSUME IInv, Reconfigure PROVE IInv'
  <1> PICK n \in ProgramSizes : UCSI_NewConfig(n)
    BY DEF Reconfigure
  <1> DEFINE stopped == IF initialized THEN Append(queue, Plain("Stop")) ELSE queue
  <1>1. /\ Plain("Stop") \in Entry /\ Plain("Init") \in Entry
    BY CommandTypes DEF CmdNames, Async, Answered
  <1>2. queue \in Seq(Entry) /\ Len(queue) \in Nat /\ Len(queue) <= QueueLen
        /\ QueueLen \in Nat
    BY UcsiAssumption DEF IInv, TypeOK
  <1>3. /\ stopped \in Seq(Entry) /\ Len(stopped) <= QueueLen
        /\ queue # <<>> => stopped # <<>> /\ Head(stopped) = Head(queue)
    <2>1. CASE initialized
      <3>1. Len(queue) + 1 <= QueueLen
        BY <1>2, <2>1 DEF UCSI_NewConfig, HasRoom
      <3>2. QED
        BY <1>1, <1>2, <2>1, <3>1, AppendQueue
    <2>2. CASE ~initialized
      BY <1>2, <2>2
    <2>3. QED
      BY <2>1, <2>2
  <1>4. EnqueueCommand(stopped, Plain("Init"))
    BY DEF UCSI_NewConfig
  <1>5. serviceRequired \in BOOLEAN
    BY DEF IInv, TypeOK
  <1> HIDE DEF stopped
  <1>6. /\ queue' \in Seq(Entry) /\ Len(queue') <= QueueLen
        /\ stopped # <<>> => queue' # <<>> /\ Head(queue') = Head(stopped)
        /\ serviceRequired' \in BOOLEAN
    BY <1>1, <1>3, <1>4, <1>5, EnqueueQueue
  <1>7. /\ triggerNodeCount' \in 0 .. MaxNodes
        /\ supvShallMode' \in Modes
        /\ initMode' \in {"NORMAL", "INACTIVE", Null}
    <2>1. n \in 0 .. MaxNodes + 1
      BY UcsiAssumption DEF ProgramSizes
    <2>2. triggerNodeCount' \in 0 .. MaxNodes
      BY <2>1, UcsiAssumption DEF UCSI_NewConfig, IInv, TypeOK
    <2>3. QED
      BY <2>2 DEF UCSI_NewConfig, Modes
  <1>8. TypeOK'
    BY <1>6, <1>7, SMTT(30) DEF IInv, TypeOK, UCSI_NewConfig, Quiet, engineVars, libVars,
       supvVars
  <1>9. EngineInv'
    BY <1>3, <1>6, EngineKept DEF UCSI_NewConfig, libVars, supvVars
  <1>10. QED
    BY <1>8, <1>9 DEF IInv, EngineInv

LEMMA AskForModeIInv == ASSUME IInv, AskForMode PROVE IInv'
  <1> PICK m \in {"DIAGNOSIS", "FALLBACK", "INACTIVE"} : RequestMode(m)
    BY DEF AskForMode
  <1>1. SetMode("INACTIVE") \in Entry
    BY CommandTypes DEF Modes
  <1>2. /\ queue' \in Seq(Entry) /\ Len(queue') <= QueueLen
        /\ queue # <<>> => queue' # <<>> /\ Head(queue') = Head(queue)
        /\ serviceRequired' \in BOOLEAN
    BY <1>1, EnqueueQueue DEF IInv, TypeOK, RequestMode
  <1>3. TypeOK'
    BY <1>2, SMTT(30) DEF IInv, TypeOK, RequestMode, Quiet, Modes, engineVars, configVars,
       programVars, libVars, supvVars
  <1>4. EngineInv'
    BY <1>2, EngineKept DEF RequestMode, libVars, supvVars
  <1>5. QED
    BY <1>3, <1>4 DEF IInv, EngineInv

LEMMA ApiCallIInv == ASSUME IInv, ApiCall PROVE IInv'
  <1>1. CASE UCSI_ExecuteScript
    <2>1. Plain("NsRun") \in Entry
      BY CommandTypes DEF CmdNames, Sync
    <2>2. QED
      BY <1>1, <2>1, EnqueueIInv DEF UCSI_ExecuteScript
  <1>2. ASSUME NEW r \in Routes, NEW on \in BOOLEAN, UCSI_SetRouteActive(r, on)
        PROVE  IInv'
    BY <1>2, CommandTypes, EnqueueIInv DEF UCSI_SetRouteActive
  <1>3. ASSUME NEW c \in RemoteCmds, EnqueueRemote(c) PROVE IInv'
    <2>1. Plain(c) \in Entry
      BY CommandTypes, UcsiAssumption DEF CmdNames, Async, Answered
    <2>2. QED
      BY <1>3, <2>1, EnqueueIInv DEF EnqueueRemote
  <1>4. QED
    BY <1>1, <1>2, <1>3, ReconfigureIInv, AskForModeIInv DEF ApiCall

------------------------------------------------------------------------------
(***************************************************************************)
(* The callbacks of the library                                            *)
(***************************************************************************)

\* A command that is finished leaves a queue with room for its follow-up.
LEMMA PoppedQueue ==
  ASSUME IInv, queue # <<>>
  PROVE  /\ Tail(queue) \in Seq(Entry)
         /\ Len(Tail(queue)) < QueueLen
         /\ HasRoom(Tail(queue))
  <1>1. queue \in Seq(Entry) /\ Len(queue) <= QueueLen /\ QueueLen \in Nat
    BY UcsiAssumption DEF IInv, TypeOK
  <1>2. Tail(queue) \in Seq(Entry) /\ Len(Tail(queue)) = Len(queue) - 1
    BY <1>1, TailQueue
  <1>3. QED
    BY <1>1, <1>2 DEF HasRoom

LEMMA ReportIsResult ==
  ASSUME NEW c \in CmdNames, NEW ok \in BOOLEAN, OnCommandExecuted(c, ok)
  PROVE  result' \in Result \cup {Null}
  BY DEF OnCommandExecuted, Report, Result

LEMMA InitResultIInv ==
  ASSUME IInv, NEW ok \in BOOLEAN, OnUcsInitResult(ok)
  PROVE  IInv'
  <1>1. "Init" \in Answered /\ "Init" \in CmdNames /\ Plain("Init") \in Entry
    BY CommandTypes DEF CmdNames, Async, Answered
  <1>2. /\ IsCurrent("Init") /\ queue # <<>> /\ QueueAfter("Init") = Tail(queue)
        /\ pendingRoutePtr = Null
    BY <1>1, AnswerFindsCommand DEF OnUcsInitResult
  <1>3. currentCmd' = Null /\ owed' = Null /\ pendingRoutePtr' = Null
    BY <1>2 DEF OnUcsInitResult, OnCommandExecuted
  <1>4. result' \in Result \cup {Null}
    BY <1>1, ReportIsResult DEF OnUcsInitResult
  <1>5. Tail(queue) \in Seq(Entry) /\ Len(Tail(queue)) <= QueueLen
    <2>1. Len(Tail(queue)) < QueueLen /\ Tail(queue) \in Seq(Entry)
      BY <1>2, PoppedQueue
    <2>2. QueueLen \in Nat /\ Len(Tail(queue)) \in Nat
      BY <2>1, UcsiAssumption
    <2>3. QED
      BY <2>1, <2>2
  <1>6. /\ queue' \in Seq(Entry) /\ Len(queue') <= QueueLen
        /\ serviceRequired' \in BOOLEAN
    <2>1. serviceRequired \in BOOLEAN
      BY DEF IInv, TypeOK
    <2>2. CASE ok
      BY <1>2, <1>5, <2>1, <2>2 DEF OnUcsInitResult
    <2>3. CASE ~ok
      <3>1. EnqueueCommand(Tail(queue), Plain("Init"))
        BY <1>2, <2>3 DEF OnUcsInitResult
      <3>2. QED
        BY <1>1, <1>5, <2>1, <3>1, EnqueueQueue
    <2>4. QED
      BY <2>2, <2>3
  <1>7. supvReq' \in Modes \cup {Null}
    BY DEF OnUcsInitResult, IInv, TypeOK, Modes
  <1>8. TypeOK'
    BY <1>3, <1>4, <1>6, <1>7, SMTT(30)
    DEF IInv, TypeOK, OnUcsInitResult, modeVars, programVars
  <1>9. EngineInv'
    BY <1>3, EngineIdle
  <1>10. QED
    BY <1>8, <1>9 DEF IInv, EngineInv

LEMMA StopResultIInv ==
  ASSUME IInv, NEW ok \in BOOLEAN, OnUcsStopResult(ok)
  PROVE  IInv'
  <1>1. "Stop" \in Answered /\ "Stop" \in CmdNames
    BY DEF CmdNames, Async, Answered
  <1>2. /\ IsCurrent("Stop") /\ queue # <<>> /\ QueueAfter("Stop") = Tail(queue)
        /\ pendingRoutePtr = Null
    BY <1>1, AnswerFindsCommand DEF OnUcsStopResult
  <1>3. currentCmd' = Null /\ owed' = Null /\ pendingRoutePtr' = Null
    BY <1>2 DEF OnUcsStopResult, OnCommandExecuted
  <1>4. result' \in Result \cup {Null}
    BY <1>1, ReportIsResult DEF OnUcsStopResult
  <1>5. queue' \in Seq(Entry) /\ Len(queue') <= QueueLen
    BY <1>2, PoppedQueue, UcsiAssumption DEF OnUcsStopResult
  <1>6. nodeCount' \in 0 .. MaxNodes + 1
    BY UcsiAssumption DEF OnUcsStopResult
  <1>7. TypeOK'
    BY <1>3, <1>4, <1>5, <1>6, ZenonT(60)
    DEF IInv, TypeOK, OnUcsStopResult, modeVars, Modes
  <1>8. EngineInv'
    BY <1>3, EngineIdle
  <1>9. QED
    BY <1>7, <1>8 DEF IInv, EngineInv

LEMMA RemoteResultIInv ==
  ASSUME IInv, NEW c \in RemoteCmds \cup {"ProgramNode"}, NEW ok \in BOOLEAN,
         OnRemoteResult(c, ok)
  PROVE  IInv'
  <1>1. c \in Answered /\ c \in CmdNames
    BY DEF CmdNames, Async, Answered
  <1>2. /\ IsCurrent(c) /\ queue # <<>> /\ QueueAfter(c) = Tail(queue)
        /\ pendingRoutePtr = Null
    BY <1>1, AnswerFindsCommand DEF OnRemoteResult
  <1>3. currentCmd' = Null /\ owed' = Null /\ pendingRoutePtr' = Null
    BY <1>2 DEF OnRemoteResult, OnCommandExecuted
  <1>4. result' \in Result \cup {Null}
    BY <1>1, ReportIsResult DEF OnRemoteResult
  <1>5. queue' \in Seq(Entry) /\ Len(queue') <= QueueLen
    BY <1>2, PoppedQueue, UcsiAssumption DEF OnRemoteResult
  <1>6. TypeOK'
    BY <1>3, <1>4, <1>5, SMTT(30)
    DEF IInv, TypeOK, OnRemoteResult, modeVars, configVars, programVars,
        libVars, supvVars
  <1>7. EngineInv'
    BY <1>3, EngineIdle
  <1>8. QED
    BY <1>6, <1>7 DEF IInv, EngineInv

LEMMA RoutingResultIInv ==
  ASSUME IInv, NEW r \in Routes, NEW info \in RouteInfos,
         OnUnicensRoutingResult(r, info)
  PROVE  IInv'
  <1>1. "RmSetRoute" \in CmdNames /\ r # Null
    BY CommandNames DEF CmdNames, Async
  <1>2. /\ IsCurrent("RmSetRoute") /\ queue # <<>>
        /\ QueueAfter("RmSetRoute") = Tail(queue)
        /\ owed = Null
    BY <1>1, RouteFindsCommand DEF OnUnicensRoutingResult
  <1>3. currentCmd' = Null /\ owed' = Null /\ pendingRoutePtr' = Null
    BY <1>2 DEF OnUnicensRoutingResult, OnCommandExecuted
  <1>4. result' \in Result \cup {Null}
    BY <1>1, ReportIsResult DEF OnUnicensRoutingResult, RouteSucceeded
  <1>5. queue' \in Seq(Entry) /\ Len(queue') <= QueueLen
    BY <1>2, PoppedQueue, UcsiAssumption DEF OnUnicensRoutingResult
  <1>6. TypeOK'
    BY <1>3, <1>4, <1>5, SMTT(30)
    DEF IInv, TypeOK, OnUnicensRoutingResult, modeVars, configVars, programVars,
        libVars, supvVars
  <1>7. EngineInv'
    BY <1>3, EngineIdle
  <1>8. QED
    BY <1>6, <1>7 DEF IInv, EngineInv

\* The callbacks that report no result and leave the queue alone.
LEMMA NotifyIInv ==
  ASSUME IInv,
         OnUnicensService \/ OnLldCtrlRxMsgAvailable \/ OnProgramScan
  PROVE  IInv'
  <1>1. CASE OnUnicensService
    <2>1. TypeOK'
      BY <1>1, SMTT(30) DEF IInv, TypeOK, OnUnicensService, Quiet, engineVars, modeVars,
         configVars, programVars, libVars, supvVars
    <2>2. EngineInv'
      BY <1>1, EngineKept DEF OnUnicensService, libVars, supvVars
    <2>3. QED
      BY <2>1, <2>2 DEF IInv, EngineInv
  <1>2. CASE OnLldCtrlRxMsgAvailable
    <2>1. TypeOK'
      BY <1>2, SMTT(30) DEF IInv, TypeOK, OnLldCtrlRxMsgAvailable, Quiet, engineVars,
         modeVars, configVars, programVars, libVars, supvVars
    <2>2. EngineInv'
      BY <1>2, EngineKept DEF OnLldCtrlRxMsgAvailable, libVars, supvVars
    <2>3. QED
      BY <2>1, <2>2 DEF IInv, EngineInv
  <1>3. CASE OnProgramScan
    <2>1. TypeOK'
      BY <1>3, SMTT(30) DEF IInv, TypeOK, OnProgramScan, Quiet, engineVars, modeVars,
         configVars, libVars, supvVars
    <2>2. EngineInv'
      BY <1>3, EngineKept DEF OnProgramScan, libVars, supvVars
    <2>3. QED
      BY <2>1, <2>2 DEF IInv, EngineInv
  <1>4. QED
    BY <1>1, <1>2, <1>3

LEMMA ErrorIInv == ASSUME IInv, OnUnicensError PROVE IInv'
  <1>1. Plain("Init") \in Entry
    BY CommandTypes DEF CmdNames, Async, Answered
  <1>2. /\ queue' \in Seq(Entry) /\ Len(queue') <= QueueLen
        /\ queue # <<>> => queue' # <<>> /\ Head(queue') = Head(queue)
        /\ serviceRequired' \in BOOLEAN
    BY <1>1, EnqueueQueue DEF IInv, TypeOK, OnUnicensError
  <1>3. TypeOK'
    BY <1>2, SMTT(30) DEF IInv, TypeOK, OnUnicensError, Quiet, engineVars, modeVars,
       configVars, programVars, libVars, supvVars
  <1>4. EngineInv'
    BY <1>2, EngineKept DEF OnUnicensError, libVars, supvVars
  <1>5. QED
    BY <1>3, <1>4 DEF IInv, EngineInv

LEMMA ScriptEndIInv ==
  ASSUME IInv, NEW ok \in BOOLEAN, OnUcsNsRun(ok)
  PROVE  IInv'
  <1>1. "NsRun" \in CmdNames
    BY DEF CmdNames, Sync
  <1>2. result' \in Result /\ scripts' \in 0 .. MaxScripts
    <2>1. result' \in Result
      BY <1>1 DEF OnUcsNsRun, Report, Result
    <2>2. scripts' \in 0 .. MaxScripts
      BY UcsiAssumption DEF IInv, TypeOK, OnUcsNsRun
    <2>3. QED
      BY <2>1, <2>2
  <1>3. TypeOK'
    BY <1>2, SMTT(30) DEF IInv, TypeOK, OnUcsNsRun, engineVars, modeVars, configVars,
       programVars, supvVars
  <1>4. EngineInv'
    BY EngineKept DEF OnUcsNsRun, supvVars
  <1>5. QED
    BY <1>3, <1>4 DEF IInv, EngineInv

LEMMA ModeBusyIInv == ASSUME IInv, OnSupvModeBusy PROVE IInv'
  <1>1. TypeOK'
    BY ZenonT(60) DEF IInv, TypeOK, OnSupvModeBusy, Quiet, engineVars, modeVars, configVars,
       programVars
  <1>2. EngineInv'
    BY EngineKept DEF OnSupvModeBusy
  <1>3. QED
    BY <1>1, <1>2 DEF IInv, EngineInv

LEMMA ModeReadyIInv == ASSUME IInv, OnSupvModeReady PROVE IInv'
  <1> DEFINE q == QueueAfter("SupvSetMode")
  <1>1. q \in Seq(Entry) /\ Len(q) <= QueueLen
    BY ModeFindsCommand
  <1>2. serviceRequired \in BOOLEAN /\ SetMode(supvShallMode) \in Entry
    BY CommandTypes DEF IInv, TypeOK
  <1>3. \/ EnqueueCommand(q, SetMode(supvShallMode))
        \/ queue' = q /\ UNCHANGED serviceRequired
    BY DEF OnSupvModeReady
  <1> HIDE DEF q
  <1>4. /\ queue' \in Seq(Entry) /\ Len(queue') <= QueueLen
        /\ q # <<>> => queue' # <<>> /\ Head(queue') = Head(q)
        /\ serviceRequired' \in BOOLEAN
    BY <1>1, <1>2, <1>3, EnqueueQueue
  <1>5. "SupvSetMode" \in CmdNames
    BY DEF CmdNames, Async
  <1>6. result' \in Result \cup {Null} /\ currentCmd' \in Entry \cup {Null}
    <2>1. result' \in Result \cup {Null}
      BY <1>5, ReportIsResult DEF OnSupvModeReady
    <2>2. currentCmd' \in Entry \cup {Null}
      BY DEF IInv, TypeOK, OnSupvModeReady, OnCommandExecuted
    <2>3. QED
      BY <2>1, <2>2
  <1>7. TypeOK'
    BY <1>4, <1>6, ZenonT(60) DEF IInv, TypeOK, OnSupvModeReady, configVars, programVars
  <1>8. EngineInv'
    <2>1. CASE IsCurrent("SupvSetMode")
      <3>1. currentCmd' = Null
        BY <2>1 DEF OnSupvModeReady, OnCommandExecuted
      <3>2. owed' = Null /\ pendingRoutePtr' = Null
        BY <2>1, ModeFindsCommand DEF OnSupvModeReady
      <3>3. QED
        BY <3>1, <3>2, EngineIdle
    <2>2. CASE ~IsCurrent("SupvSetMode")
      <3>1. q = queue /\ currentCmd' = currentCmd
        BY <2>2 DEF q, QueueAfter, OnSupvModeReady, OnCommandExecuted
      <3>2. UNCHANGED <<pendingRoutePtr, owed>>
        BY DEF OnSupvModeReady
      <3>3. currentCmd # Null => currentCmd.cmd # "SupvSetMode"
        BY <2>2 DEF IsCurrent
      <3>4. QED
        BY <1>4, <3>1, <3>2, <3>3
        DEF IInv, EngineInv, CurrentIsOldest, NoAnswerIsLost, NoStrayAnswer,
            IsCurrent
    <2>3. QED
      BY <2>1, <2>2
  <1>9. QED
    BY <1>7, <1>8 DEF IInv, EngineInv

LEMMA HdxReportIInv ==
  ASSUME IInv, NEW end \in BOOLEAN, OnHdxReport(end)
  PROVE  IInv'
  <1>1. supvReq' \in Modes \cup {Null} /\ (supvReq # Null => supvReq' # Null)
    BY DEF IInv, TypeOK, OnHdxReport, Modes
  <1>2. TypeOK'
    BY <1>1, SMTT(30) DEF IInv, TypeOK, OnHdxReport, Quiet, Modes, engineVars, configVars,
       programVars
  <1>3. EngineInv'
    BY <1>1, EngineKept DEF OnHdxReport
  <1>4. QED
    BY <1>2, <1>3 DEF IInv, EngineInv

LEMMA NetworkStatusIInv ==
  ASSUME IInv, NEW count \in 0 .. MaxNodes + 1, OnUnicensNetworkStatus(count)
  PROVE  IInv'
  <1>1. allowProgramming' \in BOOLEAN
    BY DEF IInv, TypeOK, OnUnicensNetworkStatus
  <1>2. TypeOK'
    BY <1>1, SMTT(30) DEF IInv, TypeOK, OnUnicensNetworkStatus, Quiet, engineVars,
       modeVars, configVars, libVars, supvVars
  <1>3. EngineInv'
    BY EngineKept DEF OnUnicensNetworkStatus, libVars, supvVars
  <1>4. QED
    BY <1>2, <1>3 DEF IInv, EngineInv

LEMMA ProgramSignatureIInv ==
  ASSUME IInv, NEW pos \in 0 .. MaxNodes - 1, NEW flash \in BOOLEAN,
         OnProgramSignature(pos, flash)
  PROVE  IInv'
  <1> DEFINE name == IF flash THEN "ProgramNode" ELSE "ProgramExit"
  <1>1. Plain(name) \in Entry
    BY CommandTypes DEF CmdNames, Async, Answered, Sync
  <1>2. \/ EnqueueCommand(queue, Plain(name))
        \/ queue' = queue /\ UNCHANGED serviceRequired
    BY DEF OnProgramSignature
  <1> HIDE DEF name
  <1>3. /\ queue' \in Seq(Entry) /\ Len(queue') <= QueueLen
        /\ queue # <<>> => queue' # <<>> /\ Head(queue') = Head(queue)
        /\ serviceRequired' \in BOOLEAN
    BY <1>1, <1>2, EnqueueQueue DEF IInv, TypeOK
  <1>4. supvShallMode' \in Modes
    BY DEF IInv, TypeOK, OnProgramSignature, ShallModeAfter, Modes
  <1>5. signatureValid' \subseteq 0 .. MaxNodes - 1
    BY DEF IInv, TypeOK, OnProgramSignature
  <1>6. TypeOK'
    BY <1>3, <1>4, <1>5, SMTT(30) DEF IInv, TypeOK, OnProgramSignature, Quiet, engineVars,
       configVars, libVars, supvVars
  <1>7. EngineInv'
    BY <1>3, EngineKept DEF OnProgramSignature, libVars, supvVars
  <1>8. QED
    BY <1>6, <1>7 DEF IInv, EngineInv

------------------------------------------------------------------------------
(***************************************************************************)
(* The invariant                                                           *)
(***************************************************************************)

LEMMA StutterIInv == ASSUME IInv, UNCHANGED vars PROVE IInv'
  BY DEF IInv, TypeOK, CurrentIsOldest, NoAnswerIsLost, NoStrayAnswer, IsCurrent,
     vars, engineVars, modeVars, configVars, programVars, libVars, supvVars

LEMMA ServiceStepIInv == ASSUME IInv, ServiceStep PROVE IInv'
  BY ServiceIInv, AcceptCommandIInv, PopIInv DEF ServiceStep, StartStep

LEMMA AnswerIInv == ASSUME IInv, Answer PROVE IInv'
  BY InitResultIInv, StopResultIInv, RemoteResultIInv, RoutingResultIInv
  DEF Answer

LEMMA CallbackIInv == ASSUME IInv, Callback PROVE IInv'
  <1>1. CASE OnUnicensService \/ OnLldCtrlRxMsgAvailable
    BY <1>1, NotifyIInv
  <1>2. CASE OnUnicensError
    BY <1>2, ErrorIInv
  <1>3. CASE OnSupvModeBusy
    BY <1>3, ModeBusyIInv
  <1>4. CASE OnSupvModeReady
    BY <1>4, ModeReadyIInv
  <1>5. QED
    BY <1>1, <1>2, <1>3, <1>4, AnswerIInv, ScriptEndIInv, HdxReportIInv
    DEF Callback

LEMMA ProgrammingIInv == ASSUME IInv, ProgrammingCallback PROVE IInv'
  <1>1. CASE OnProgramScan
    BY <1>1, NotifyIInv
  <1>2. QED
    BY <1>1, NetworkStatusIInv, ProgramSignatureIInv DEF ProgrammingCallback

LEMMA NextIInv == ASSUME IInv, [Next]_vars PROVE IInv'
  BY StutterIInv, ServiceStepIInv, ApiCallIInv, CallbackIInv, ProgrammingIInv
  DEF Next

LEMMA IInvAlways == Spec => []IInv
  <1>1. Init => IInv
    BY InitIInv
  <1>2. IInv /\ [Next]_vars => IInv'
    BY NextIInv
  <1>3. QED
    BY <1>1, <1>2, PTL DEF Spec

\* Every reachable state of the layer is well typed: UCSI_Data_t and the mode
\* the supervisor was asked for hold what their fields are declared for.
THEOREM UcsiTypeOK == Spec => []TypeOK
  <1>1. IInv => TypeOK
    BY DEF IInv
  <1>2. QED
    BY <1>1, IInvAlways, PTL

\* currentCmd, when it points to a slot, points to the oldest command: the one
\* that RB_GetReadPtr gave and that RB_PopReadPtr will remove.
THEOREM UcsiCurrentIsOldest == Spec => []CurrentIsOldest
  <1>1. IInv => CurrentIsOldest
    BY DEF IInv
  <1>2. QED
    BY <1>1, IInvAlways, PTL

\* Whatever the application and the library do, a command in execution is one
\* the library still has to answer, so OnCommandExecuted comes for it.
THEOREM UcsiNoAnswerIsLost == Spec => []NoAnswerIsLost
  <1>1. IInv => NoAnswerIsLost
    BY DEF IInv
  <1>2. QED
    BY <1>1, IInvAlways, PTL

\* No callback of the library ends a command that is not in execution: what
\* OnCommandExecuted and the routing result dereference is there.
THEOREM UcsiNoStrayAnswer == Spec => []NoStrayAnswer
  <1>1. IInv => NoStrayAnswer
    BY DEF IInv
  <1>2. QED
    BY <1>1, IInvAlways, PTL

------------------------------------------------------------------------------
(* The queue and what leaves it. *)

\* A step that only adds to the queue, with no result to report.
Adds(rest) == \E new \in Fifo!Burst : Fifo!Add(rest, new)
Grows == currentCmd' = currentCmd /\ Adds(queue)
Keeps == Grows /\ result' = Null

\* A step that finishes the command in execution and reports that.
Ends ==
  /\ currentCmd # Null
  /\ currentCmd' = Null
  /\ Adds(Tail(queue))
  /\ result' # Null
  /\ result'.cmd = Head(queue).cmd

\* What EveryCommandIsAnswered says of a step.
AnswersCommand ==
  /\ Finished => LET c == Head(queue).cmd IN
       \/ result' # Null /\ result'.cmd = c
       \/ result' = Null /\ c = "NsRun" /\ scripts' = scripts + 1
       \/ result' = Null /\ c = "ProgramExit"
  /\ result' # Null =>
       \/ Finished
       \/ result'.cmd = "NsRun" /\ scripts' = scripts - 1

------------------------------------------------------------------------------
(***************************************************************************)
(* What the steps do to the queue                                          *)
(***************************************************************************)

LEMMA AddsNothing ==
  ASSUME NEW q \in Seq(Entry), Len(q) <= QueueLen, queue' = q
  PROVE  Adds(q)
  <1>1. q \o <<>> = q /\ <<>> \in Fifo!Burst
    BY ConcatEmptySeq DEF Fifo!Burst
  <1>2. Fifo!Add(q, <<>>)
    BY <1>1 DEF Fifo!Add
  <1>3. QED
    BY <1>1, <1>2 DEF Adds

LEMMA AddsCommand ==
  ASSUME NEW q \in Seq(Entry), Len(q) <= QueueLen, NEW e \in Entry,
         EnqueueCommand(q, e)
  PROVE  Adds(q)
  <1>1. CASE HasRoom(q)
    <2>1. queue' = q \o <<e>> /\ Len(q \o <<e>>) = Len(q) + 1
      BY <1>1, AppendIsConcat, ConcatProperties DEF EnqueueCommand
    <2>2. Len(q) + 1 <= QueueLen
      BY <1>1, UcsiAssumption DEF HasRoom
    <2>3. Fifo!Add(q, <<e>>) /\ <<e>> \in Fifo!Burst
      BY <2>1, <2>2 DEF Fifo!Add, Fifo!Burst
    <2>4. QED
      BY <2>3 DEF Adds
  <1>2. CASE ~HasRoom(q)
    <2>1. queue' = q
      BY <1>2 DEF EnqueueCommand
    <2>2. QED
      BY <2>1, AddsNothing
  <1>3. QED
    BY <1>1, <1>2

LEMMA KeepsQueue ==
  ASSUME IInv, UNCHANGED <<queue, currentCmd>>, result' = Null
  PROVE  Keeps
  BY AddsNothing DEF Keeps, Grows, IInv, TypeOK

LEMMA KeepsCommand ==
  ASSUME IInv, NEW e \in Entry, EnqueueCommand(queue, e), UNCHANGED currentCmd,
         result' = Null
  PROVE  Keeps
  BY AddsCommand DEF Keeps, Grows, IInv, TypeOK

\* A reconfiguration adds Init, and Stop in front of it if there is something
\* to stop.
LEMMA ReconfigureKeeps == ASSUME IInv, Reconfigure PROVE Keeps
  <1> PICK n \in ProgramSizes : UCSI_NewConfig(n)
    BY DEF Reconfigure
  <1> DEFINE stop == Plain("Stop")  init == Plain("Init")
  <1>1. stop \in Entry /\ init \in Entry
    BY CommandTypes DEF CmdNames, Async, Answered
  <1>2. queue \in Seq(Entry) /\ Len(queue) <= QueueLen /\ QueueLen \in Nat
    BY UcsiAssumption DEF IInv, TypeOK
  <1>3. currentCmd' = currentCmd /\ result' = Null
    BY DEF UCSI_NewConfig, Quiet, engineVars
  <1> HIDE DEF stop, init
  <1>4. Adds(queue)
    <2>1. CASE ~initialized
      <3>1. EnqueueCommand(queue, init)
        BY <2>1 DEF UCSI_NewConfig, init
      <3>2. QED
        BY <1>1, <1>2, <3>1, AddsCommand
    <2>2. CASE initialized
      <3>1. EnqueueCommand(Append(queue, stop), init) /\ HasRoom(queue)
        BY <2>2 DEF UCSI_NewConfig, init, stop
      <3>2. /\ Append(queue, stop) = queue \o <<stop>>
            /\ Append(queue, stop) \in Seq(Entry)
            /\ Len(Append(queue, stop)) = Len(queue) + 1
        BY <1>1, <1>2, AppendIsConcat, AppendQueue
      <3>3. Len(queue) + 1 <= QueueLen
        BY <1>2, <3>1 DEF HasRoom
      <3>4. CASE HasRoom(Append(queue, stop))
        <4>1. queue' = Append(Append(queue, stop), init)
          BY <3>1, <3>4 DEF EnqueueCommand
        <4>2. Append(Append(queue, stop), init) = queue \o <<stop, init>>
          BY <1>1, <1>2
        <4>3. Len(queue \o <<stop, init>>) <= QueueLen
          <5>1. Len(Append(Append(queue, stop), init)) = Len(queue) + 2
            BY <1>1, <1>2, <3>2, AppendQueue
          <5>2. Len(queue) + 2 <= QueueLen
            BY <1>2, <3>2, <3>4 DEF HasRoom
          <5>3. QED
            BY <4>2, <5>1, <5>2
        <4>4. <<stop, init>> \in Fifo!Burst
          BY <1>1 DEF Fifo!Burst
        <4>5. QED
          BY <4>1, <4>2, <4>3, <4>4 DEF Adds, Fifo!Add
      <3>5. CASE ~HasRoom(Append(queue, stop))
        <4>1. queue' = queue \o <<stop>>
          BY <3>1, <3>2, <3>5 DEF EnqueueCommand
        <4>2. <<stop>> \in Fifo!Burst
          BY <1>1 DEF Fifo!Burst
        <4>3. Len(queue \o <<stop>>) <= QueueLen
          BY <3>2, <3>3
        <4>4. QED
          BY <4>1, <4>2, <4>3 DEF Adds, Fifo!Add
      <3>6. QED
        BY <3>4, <3>5
    <2>3. QED
      BY <2>1, <2>2
  <1>5. QED
    BY <1>3, <1>4 DEF Keeps, Grows

LEMMA ApiCallKeeps == ASSUME IInv, ApiCall PROVE Keeps
  <1>1. ASSUME NEW m \in {"DIAGNOSIS", "FALLBACK", "INACTIVE"}, RequestMode(m)
        PROVE  Keeps
    <2>1. SetMode("INACTIVE") \in Entry
      BY CommandTypes DEF Modes
    <2>2. QED
      BY <1>1, <2>1, KeepsCommand DEF RequestMode, Quiet, engineVars
  <1>2. CASE UCSI_ExecuteScript
    <2>1. Plain("NsRun") \in Entry
      BY CommandTypes DEF CmdNames, Sync
    <2>2. QED
      BY <1>2, <2>1, KeepsCommand
      DEF UCSI_ExecuteScript, Quiet, EnqueueOnly, engineVars
  <1>3. ASSUME NEW r \in Routes, NEW on \in BOOLEAN, UCSI_SetRouteActive(r, on)
        PROVE  Keeps
    BY <1>3, CommandTypes, KeepsCommand
    DEF UCSI_SetRouteActive, Quiet, EnqueueOnly, engineVars
  <1>4. ASSUME NEW c \in RemoteCmds, EnqueueRemote(c) PROVE Keeps
    <2>1. Plain(c) \in Entry
      BY CommandTypes, UcsiAssumption DEF CmdNames, Async, Answered
    <2>2. QED
      BY <1>4, <2>1, KeepsCommand
      DEF EnqueueRemote, Quiet, EnqueueOnly, engineVars
  <1>5. QED
    BY <1>1, <1>2, <1>3, <1>4, ReconfigureKeeps DEF ApiCall, AskForMode

\* An answer finishes the command it is about.
LEMMA FinishedCommand ==
  ASSUME IInv, NEW c \in CmdNames, IsCurrent(c), NEW ok \in BOOLEAN,
         OnCommandExecuted(c, ok)
  PROVE  /\ currentCmd # Null /\ currentCmd' = Null /\ queue # <<>>
         /\ result' # Null /\ result'.cmd = Head(queue).cmd
         /\ QueueAfter(c) = Tail(queue)
  <1>1. Report(c, ok) \in Result /\ Report(c, ok).cmd = c
    BY DEF Report, Result
  <1>2. QED
    BY <1>1, NullAssumption
    DEF IInv, CurrentIsOldest, IsCurrent, OnCommandExecuted, QueueAfter

LEMMA EndsWithTail ==
  ASSUME IInv, NEW c \in CmdNames, IsCurrent(c), NEW ok \in BOOLEAN,
         OnCommandExecuted(c, ok), queue' = QueueAfter(c)
  PROVE  Ends
  <1>1. queue # <<>> /\ queue' = Tail(queue)
    BY FinishedCommand
  <1>2. Tail(queue) \in Seq(Entry) /\ Len(Tail(queue)) < QueueLen
    BY <1>1, PoppedQueue
  <1>3. Len(Tail(queue)) <= QueueLen
    BY <1>2, UcsiAssumption
  <1>4. Adds(Tail(queue))
    BY <1>1, <1>2, <1>3, AddsNothing
  <1>5. QED
    BY <1>4, FinishedCommand DEF Ends

LEMMA EndsWithFollowUp ==
  ASSUME IInv, NEW c \in CmdNames, IsCurrent(c), NEW ok \in BOOLEAN,
         OnCommandExecuted(c, ok), NEW e \in Entry,
         EnqueueCommand(QueueAfter(c), e)
  PROVE  /\ Ends
         /\ queue' = Append(Tail(queue), e) /\ queue'[Len(queue')] = e
  <1>1. queue # <<>> /\ QueueAfter(c) = Tail(queue)
    BY FinishedCommand
  <1>2. /\ Tail(queue) \in Seq(Entry) /\ Len(Tail(queue)) < QueueLen
        /\ HasRoom(Tail(queue))
    BY <1>1, PoppedQueue
  <1>3. Len(Tail(queue)) <= QueueLen
    BY <1>2, UcsiAssumption
  <1>4. Adds(Tail(queue))
    BY <1>1, <1>2, <1>3, AddsCommand
  <1>5. Ends
    BY <1>4, FinishedCommand DEF Ends
  <1>6. queue' = Append(Tail(queue), e)
    BY <1>1, <1>2 DEF EnqueueCommand
  <1>7. queue'[Len(queue')] = e
    BY <1>2, <1>6, AppendProperties
  <1>8. QED
    BY <1>5, <1>6, <1>7

LEMMA InitResultEnds ==
  ASSUME IInv, NEW ok \in BOOLEAN, OnUcsInitResult(ok)
  PROVE  /\ Ends
         /\ ~ok => queue'[Len(queue')] = Plain("Init")
  <1>1. "Init" \in Answered /\ "Init" \in CmdNames /\ Plain("Init") \in Entry
    BY CommandTypes DEF CmdNames, Async, Answered
  <1>2. IsCurrent("Init") /\ OnCommandExecuted("Init", ok)
    BY <1>1, AnswerFindsCommand DEF OnUcsInitResult
  <1>3. CASE ok
    BY <1>1, <1>2, <1>3, EndsWithTail DEF OnUcsInitResult
  <1>4. CASE ~ok
    <2>1. EnqueueCommand(QueueAfter("Init"), Plain("Init"))
      BY <1>4 DEF OnUcsInitResult
    <2>2. QED
      BY <1>1, <1>2, <2>1, EndsWithFollowUp
  <1>5. QED
    BY <1>3, <1>4

LEMMA AnswerEnds == ASSUME IInv, Answer PROVE Ends
  <1>1. /\ Answered \subseteq CmdNames /\ "RmSetRoute" \in CmdNames
        /\ "Stop" \in Answered /\ RemoteCmds \cup {"ProgramNode"} \subseteq Answered
    BY DEF CmdNames, Async, Answered
  <1>2. ASSUME NEW ok \in BOOLEAN, OnUcsStopResult(ok) PROVE Ends
    BY <1>1, <1>2, AnswerFindsCommand, EndsWithTail DEF OnUcsStopResult
  <1>3. ASSUME NEW c \in RemoteCmds \cup {"ProgramNode"}, NEW ok \in BOOLEAN,
               OnRemoteResult(c, ok)
        PROVE  Ends
    BY <1>1, <1>3, AnswerFindsCommand, EndsWithTail DEF OnRemoteResult
  <1>4. ASSUME NEW r \in Routes, NEW info \in RouteInfos,
               OnUnicensRoutingResult(r, info)
        PROVE  Ends
    <2>1. IsCurrent("RmSetRoute")
      BY <1>4, CommandNames, RouteFindsCommand DEF OnUnicensRoutingResult
    <2>2. RouteSucceeded(currentCmd.on, info) \in BOOLEAN
      BY DEF RouteSucceeded
    <2>3. QED
      BY <1>1, <1>4, <2>1, <2>2, EndsWithTail DEF OnUnicensRoutingResult
  <1>5. QED
    BY <1>2, <1>3, <1>4, InitResultEnds DEF Answer

LEMMA ModeReadyEnds ==
  ASSUME IInv, OnSupvModeReady
  PROVE  /\ Ends \/ Keeps
         /\ IsCurrent("SupvSetMode") /\ supvMode = "INACTIVE" =>
              \/ supvShallMode = "INACTIVE"
              \/ queue'[Len(queue')] = SetMode(supvShallMode)
  <1> DEFINE next == SetMode(supvShallMode)
  <1>1. "SupvSetMode" \in CmdNames /\ next \in Entry
    BY CommandTypes DEF CmdNames, Async, IInv, TypeOK
  <1>2. OnCommandExecuted("SupvSetMode", TRUE)
    BY DEF OnSupvModeReady
  <1>3. IF MaySwitch /\ supvShallMode # supvMode
        THEN EnqueueCommand(QueueAfter("SupvSetMode"), next)
        ELSE queue' = QueueAfter("SupvSetMode")
    BY DEF OnSupvModeReady
  <1> HIDE DEF next
  <1>4. CASE IsCurrent("SupvSetMode")
    <2>1. CASE MaySwitch /\ supvShallMode # supvMode
      <3>1. Ends /\ queue'[Len(queue')] = next
        BY <1>1, <1>2, <1>3, <1>4, <2>1, EndsWithFollowUp
      <3>2. QED
        BY <3>1 DEF next
    <2>2. CASE ~(MaySwitch /\ supvShallMode # supvMode)
      <3>1. Ends
        BY <1>1, <1>2, <1>3, <1>4, <2>2, EndsWithTail
      <3>2. supvMode = "INACTIVE" => supvShallMode = "INACTIVE"
        BY <2>2 DEF MaySwitch
      <3>3. QED
        BY <3>1, <3>2
    <2>3. QED
      BY <2>1, <2>2
  <1>5. CASE ~IsCurrent("SupvSetMode")
    <2>1. QueueAfter("SupvSetMode") = queue /\ currentCmd' = currentCmd
          /\ result' = Null
      BY <1>2, <1>5 DEF QueueAfter, OnCommandExecuted
    <2>2. CASE MaySwitch /\ supvShallMode # supvMode
      BY <1>1, <1>3, <1>5, <2>1, <2>2, KeepsCommand
    <2>3. CASE ~(MaySwitch /\ supvShallMode # supvMode)
      BY <1>3, <1>5, <2>1, <2>3, KeepsQueue
    <2>4. QED
      BY <2>2, <2>3
  <1>6. QED
    BY <1>4, <1>5

LEMMA ProgramSignatureKeeps ==
  ASSUME IInv, NEW pos \in 0 .. MaxNodes - 1, NEW flash \in BOOLEAN,
         OnProgramSignature(pos, flash)
  PROVE  Keeps
  <1> DEFINE name == IF flash THEN "ProgramNode" ELSE "ProgramExit"
  <1>1. Plain(name) \in Entry
    BY CommandTypes DEF CmdNames, Async, Answered, Sync
  <1>2. EnqueueCommand(queue, Plain(name)) \/ queue' = queue
    BY DEF OnProgramSignature
  <1>3. currentCmd' = currentCmd /\ result' = Null
    BY DEF OnProgramSignature, Quiet, engineVars
  <1> HIDE DEF name
  <1>4. QED
    BY <1>1, <1>2, <1>3, KeepsCommand, KeepsQueue

LEMMA ErrorKeeps == ASSUME IInv, OnUnicensError PROVE Keeps
  <1>1. Plain("Init") \in Entry
    BY CommandTypes DEF CmdNames, Async, Answered
  <1>2. QED
    BY <1>1, KeepsCommand DEF OnUnicensError, Quiet, engineVars

\* The end of a script reports a command that has left the queue before.
ScriptEnds ==
  /\ Grows
  /\ result' # Null /\ result'.cmd = "NsRun"
  /\ scripts' = scripts - 1

LEMMA ScriptEndReports ==
  ASSUME IInv, NEW ok \in BOOLEAN, OnUcsNsRun(ok)
  PROVE  ScriptEnds
  <1>1. Report("NsRun", ok) \in Result /\ Report("NsRun", ok).cmd = "NsRun"
    BY DEF Report, Result, CmdNames, Sync
  <1>2. Adds(queue)
    BY AddsNothing DEF IInv, TypeOK, OnUcsNsRun
  <1>3. QED
    BY <1>1, <1>2, NullAssumption DEF ScriptEnds, Grows, OnUcsNsRun, engineVars

LEMMA CallbackSteps ==
  ASSUME IInv, Callback \/ ProgrammingCallback
  PROVE  Keeps \/ Ends \/ ScriptEnds
  <1>1. OnUnicensService \/ OnLldCtrlRxMsgAvailable \/ OnSupvModeBusy
          \/ OnProgramScan => Keeps
    BY KeepsQueue DEF OnUnicensService, OnLldCtrlRxMsgAvailable, OnSupvModeBusy,
       OnProgramScan, Quiet, engineVars
  <1>2. ASSUME NEW end \in BOOLEAN, OnHdxReport(end) PROVE Keeps
    BY <1>2, KeepsQueue DEF OnHdxReport, Quiet, engineVars
  <1>3. ASSUME NEW count \in 0 .. MaxNodes + 1, OnUnicensNetworkStatus(count)
        PROVE  Keeps
    BY <1>3, KeepsQueue DEF OnUnicensNetworkStatus, Quiet, engineVars
  <1>4. CASE Callback
    <2>1. OnUnicensError => Keeps
      BY ErrorKeeps
    <2>2. OnSupvModeReady => Keeps \/ Ends
      BY ModeReadyEnds
    <2>3. QED
      BY <1>1, <1>2, <1>4, <2>1, <2>2, AnswerEnds, ScriptEndReports DEF Callback
  <1>5. CASE ProgrammingCallback
    BY <1>1, <1>3, <1>5, ProgramSignatureKeeps DEF ProgrammingCallback
  <1>6. QED
    BY <1>4, <1>5

\* A step of the queue that keeps the invariant is a step of the abstract FIFO.
LEMMA KeptIsAccept == Grows => Fifo!Accept
  BY DEF Grows, Adds, Fifo!Accept

LEMMA EndsIsFinish == IInv /\ Ends => Fifo!Finish
  BY DEF IInv, CurrentIsOldest, Ends, Adds, Fifo!Finish

LEMMA ServiceStepFifo ==
  ASSUME IInv, ServiceStep
  PROVE  [Fifo!Next]_Fifo!vars /\ AnswersCommand
  <1>1. CASE UCSI_Service \/ UCSI_Timeout \/ LibReturn \/ NothingToStart
    BY <1>1 DEF UCSI_Service, UCSI_Timeout, LibReturn, NothingToStart, Quiet,
       engineVars, Fifo!vars, AnswersCommand, Finished
  <1>2. CASE AcceptCommand
    <2>1. queue \in Seq(Entry) /\ queue # <<>> /\ currentCmd = Null
      BY <1>2 DEF IInv, TypeOK, AcceptCommand, StartCommand, CanStart
    <2>2. currentCmd' = Head(queue) /\ Head(queue) # Null
      BY <1>2, <2>1, TailQueue, NullAssumption DEF AcceptCommand
    <2>3. queue' = queue /\ result' = Null
      BY <1>2 DEF AcceptCommand, Quiet
    <2>4. QED
      BY <2>1, <2>2, <2>3
      DEF Fifo!Next, Fifo!Begin, AnswersCommand, Finished
  <1>3. CASE PassCommand \/ RefuseCommand
    <2>1. queue \in Seq(Entry) /\ queue # <<>> /\ queue' = Tail(queue)
          /\ currentCmd = Null /\ currentCmd' = Null
      BY <1>3 DEF IInv, TypeOK, PassCommand, RefuseCommand, StartCommand,
         CanStart, engineVars
    <2>2. Head(queue) \in Entry /\ Len(queue') < Len(queue)
      BY <2>1, TailQueue
    <2>3. Finished
      BY <2>1, <2>2 DEF Finished
    <2>4. [Fifo!Next]_Fifo!vars
      BY <2>1 DEF Fifo!Next, Fifo!Pass
    <2>5. CASE PassCommand
      BY <2>3, <2>4, <2>5 DEF PassCommand, Quiet, AnswersCommand, Sync
    <2>6. CASE RefuseCommand
      <3>1. Report(Head(queue).cmd, FALSE) \in Result
        BY <2>2, EntryFields DEF Report, Result
      <3>2. Report(Head(queue).cmd, FALSE).cmd = Head(queue).cmd
        BY DEF Report
      <3>3. QED
        BY <2>3, <2>4, <2>6, <3>1, <3>2, NullAssumption
        DEF RefuseCommand, AnswersCommand
    <2>7. QED
      BY <1>3, <2>4, <2>5, <2>6
  <1>4. QED
    BY <1>1, <1>2, <1>3 DEF ServiceStep, StartStep

LEMMA OtherStepFifo ==
  ASSUME IInv, Keeps \/ Ends \/ ScriptEnds
  PROVE  [Fifo!Next]_Fifo!vars /\ AnswersCommand
  <1>1. CASE Keeps \/ ScriptEnds
    <2>1. Grows
      BY <1>1 DEF Keeps, ScriptEnds
    <2>2. Fifo!Accept
      BY <2>1, KeptIsAccept
    <2>3. ~Finished
      <3>1. queue \in Seq(Entry)
        BY DEF IInv, TypeOK
      <3>2. PICK new \in Fifo!Burst : queue' = queue \o new
        BY <2>1 DEF Grows, Adds, Fifo!Add
      <3>3. new \in Seq(Entry)
        <4>1. \/ new = <<>>
              \/ \E c \in Entry : new = <<c>>
              \/ \E c, d \in Entry : new = <<c, d>>
          BY DEF Fifo!Burst
        <4>2. \A c \in Entry : <<c>> \in Seq(Entry)
          OBVIOUS
        <4>3. \A c, d \in Entry : <<c, d>> \in Seq(Entry)
          OBVIOUS
        <4>4. <<>> \in Seq(Entry)
          BY EmptySeq
        <4>5. QED
          BY <4>1, <4>2, <4>3, <4>4, Zenon
      <3>4. Len(queue') = Len(queue) + Len(new) /\ Len(queue) \in Nat
            /\ Len(new) \in Nat
        BY <3>1, <3>2, <3>3, ConcatProperties
      <3>5. QED
        BY <2>1, <3>4 DEF Grows, Finished
    <2>4. AnswersCommand
      BY <1>1, <2>3 DEF Keeps, ScriptEnds, AnswersCommand
    <2>5. QED
      BY <2>2, <2>4 DEF Fifo!Next
  <1>2. CASE Ends
    BY <1>2, EndsIsFinish DEF Ends, AnswersCommand, Finished, Fifo!Next
  <1>3. QED
    BY <1>1, <1>2

LEMMA NextFifo ==
  ASSUME IInv, Next
  PROVE  [Fifo!Next]_Fifo!vars /\ AnswersCommand
  BY ServiceStepFifo, OtherStepFifo, ApiCallKeeps, CallbackSteps DEF Next

------------------------------------------------------------------------------
(***************************************************************************)
(* The theorems                                                            *)
(***************************************************************************)

\* For every instance of the layer: a command that leaves the queue is reported
\* at that moment, and nothing is reported twice (OnCommandExecuted and the
\* refusals of UCSI_Service).
THEOREM UcsiAnswers == Spec => EveryCommandIsAnswered
  <1>1. IInv /\ [Next]_vars => [AnswersCommand]_vars
    BY NextFifo
  <1>2. QED
    BY <1>1, IInvAlways, PTL
    DEF Spec, EveryCommandIsAnswered, AnswersCommand

\* For every instance of the layer: the queue has room for the second attempt
\* after a failed start and for the mode that follows INACTIVE.
THEOREM UcsiFollowUpFits == Spec => FollowUpFits
  <1> DEFINE Fits ==
        /\ OnUcsInitResult(FALSE) => queue'[Len(queue')] = Plain("Init")
        /\ OnSupvModeReady /\ IsCurrent("SupvSetMode") /\ supvMode = "INACTIVE"
             => \/ supvShallMode = "INACTIVE"
                \/ queue'[Len(queue')] = SetMode(supvShallMode)
  <1>1. IInv /\ [Next]_vars => [Fits]_vars
    BY InitResultEnds, ModeReadyEnds
  <1>2. QED
    BY <1>1, IInvAlways, PTL DEF Spec, FollowUpFits

\* For every instance of the layer: it implements the command FIFO.
THEOREM UcsiRefinesFifo == Spec => RefinesFifo
  <1>1. Init => Fifo!Init
    BY DEF Init, Fifo!Init
  <1>2. IInv /\ [Next]_vars => [Fifo!Next]_Fifo!vars
    <2>1. UNCHANGED vars => UNCHANGED Fifo!vars
      BY DEF vars, engineVars, Fifo!vars
    <2>2. QED
      BY <2>1, NextFifo
  <1>3. QED
    BY <1>1, <1>2, IInvAlways, PTL DEF Spec, RefinesFifo, Fifo!Spec
==============================================================================
