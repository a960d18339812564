------------------------------ MODULE Startup ------------------------------
(***************************************************************************)
(* The start of the daemon (main.c, TaskUnicens_Init): the command line    *)
(* decides where the names of the two control devices come from.  With     *)
(* -drv1 or -drv2 the configurator is started, and the daemon waits until  *)
(* it has linked them.                                                     *)
(*                                                                         *)
(* Afterwards the service is used as its API allows: stopped, and started  *)
(* again (the daemon itself leaves it running).                            *)
(***************************************************************************)
EXTENDS MldConfig

VARIABLE task  \* pc, whether -drv was given, how many of -crx and -ctx, names of the control devices

vars == <<mldVars, task>>

\* The names: of the command line, of DEFAULT_CONTROL_CDEV_*, of the links, or none yet.
Names == {"given", "default", "linked", NULL}

Init ==
  /\ MldInit
  /\ task = [pc |-> "parse", drv |-> FALSE, given |-> 0, names |-> NULL]

\* ParseCommandLine for a configuration file or none, the driver options or none, and none,
\* one or both of -crx and -ctx; the driver without a file ends the program.
ParseCommandLine(file, drv, given) ==
  /\ task.pc = "parse"
  /\ task' = [pc |-> IF drv /\ ~file THEN "failed" ELSE "init", drv |-> drv, given |-> given,
              names |-> CASE given = 2 -> "given"
                          [] given < 2 /\ ~drv -> "default"
                          [] OTHER -> NULL]
  /\ UNCHANGED mldVars

InvalidParameter ==
  /\ task.pc = "parse"
  /\ task' = [task EXCEPT !.pc = "failed"]
  /\ UNCHANGED mldVars

\* Timer and semaphore, the parser of the file, --persistent without -program.
InitFails ==
  /\ task.pc = "init"
  /\ task' = [task EXCEPT !.pc = "failed"]
  /\ UNCHANGED mldVars

StartDriver(filter, success) ==
  /\ task.pc = "init" /\ task.drv
  /\ Start(filter, success)
  /\ task' = [task EXCEPT !.pc = CASE ~success -> "failed"
                                   [] task.given = 0 -> "wait"
                                   [] OTHER -> "config"]

NoDriver ==
  /\ task.pc = "init" /\ ~task.drv
  /\ task' = [task EXCEPT !.pc = "config"]
  /\ UNCHANGED mldVars

\* The loop that waits for the control devices.
WaitForControl ==
  /\ task.pc = "wait" /\ GetControlCdevName
  /\ task' = [task EXCEPT !.pc = "config", !.names = "linked"]
  /\ UNCHANGED mldVars

\* UCSI_NewConfig finds an empty queue; InitializeCdevs may fail.
InitializeCdevs(success) ==
  /\ task.pc = "config"
  /\ task' = [task EXCEPT !.pc = IF success THEN "running" ELSE "failed"]
  /\ UNCHANGED mldVars

\* The process ends with its threads; the links stay.
Exit ==
  /\ task.pc = "failed"
  /\ task' = [task EXCEPT !.pc = "ended"]
  /\ m' = [m EXCEPT !.started = FALSE, !.allowRun = FALSE, !.createAlsaCard = FALSE]
  /\ worker' = [threads |-> 0, pc |-> "none", walk |-> NoWalk]
  /\ UNCHANGED <<sys, faults, plugs, restarts>>

\* The service in the hands of an integrator.
Restart ==
  /\ task.pc = "running"
  /\ \/ Stop
     \/ EndStop
     \/ restarts > 0 /\ \E filter \in Filters, success \in BOOLEAN : Start(filter, success)
  /\ UNCHANGED task

Main ==
  \/ \E file, drv \in BOOLEAN, given \in 0..2 : ParseCommandLine(file, drv, given)
  \/ InvalidParameter
  \/ InitFails
  \/ \E filter \in Filters, success \in BOOLEAN : StartDriver(filter, success)
  \/ NoDriver
  \/ WaitForControl
  \/ \E success \in BOOLEAN : InitializeCdevs(success)
  \/ Exit

Next == Main \/ Restart \/ ((Worker \/ Hotplug) /\ UNCHANGED task)

Spec == Init /\ [][Next]_vars

\* Both threads run; the file system answers.
FairSpec == Spec /\ WF_vars(Main) /\ WF_vars(Worker /\ UNCHANGED task)

-----------------------------------------------------------------------------
TypeOK ==
  /\ MldTypeOK
  /\ task.pc \in {"parse", "init", "wait", "config", "running", "failed", "ended"}
  /\ task.drv \in BOOLEAN /\ task.given \in 0..2 /\ task.names \in Names

\* The wait for the control devices ends: a device with both control channels that
\* the filter accepts is enough, if no write fails.  Version 2 with a filter is left out: it
\* looks for names that it does not create.
ControlDevice(d) ==
  /\ d \in sys.plugged /\ (m.filter => d \in Accepted)
  /\ \A aim \in {"control-tx", "control-rx"} : \E c \in Channels[d] :
       \E drv \in ToSet(HardWired(c)) : drv.aim = aim
WaitEnds ==
  (task.pc = "wait") ~>
    \/ task.pc # "wait"
    \/ faults > 0 \/ plugs > 1
    \/ m.version = 2 /\ m.filter
    \/ ~\E d \in Devices : ControlDevice(d)
=============================================================================
