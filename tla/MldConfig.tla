----------------------------- MODULE MldConfig -----------------------------
(***************************************************************************)
(* The configuration of the MOST Linux driver (libraries/mld-configurator),*)
(* in its two versions.  A worker thread polls the devices in the sys fs,  *)
(* and configures and links every channel that is not configured yet.      *)
(*                                                                         *)
(* Each step of the worker is one access to the file system, or one that   *)
(* only it could tell from the next.  The driver behind the files is       *)
(* external: devices come and go, a write may fail.  The settings of a     *)
(* channel are one thing, written completely or not; set_buffer_size is    *)
(* kept apart, as it tells whether a channel is configured.                *)
(***************************************************************************)
EXTENDS Naturals, Sequences, SequencesExt

CONSTANTS
  Versions,       \* the versions of the driver, of 1 and 2
  Devices,        \* the devices that may be plugged in
  Channels,       \* the channels of each device
  Interface,      \* what the file "interface" of each device says
  Accepted,       \* devices whose "description" contains the filter
  Filters,        \* whether there is a filter, a set of BOOLEAN
  Drivers,        \* pConfig for the local node, a sequence of Driver
  MaxFaults,      \* bound: writes that fail, and threads that cannot be created
  MaxPlugs,       \* bound: how often devices are plugged in or out
  MaxRestarts     \* bound: calls of Stop and of Start after the first one

NULL == "null"
Kinds == {"Cdev", "Alsa", "V4l2", "Network"}

\* valid: the driver knows the data type (StoreDriverInfo takes it from the connection).
Driver == [kind : Kinds, aim : STRING, phy : STRING, channel : STRING, valid : BOOLEAN]

\* A place is a channel of a device.
AllChannels == UNION {Channels[d] : d \in Devices}
Places == Devices \X AllChannels

ASSUME MldAssumption ==
  /\ Versions \subseteq {1, 2}
  /\ Channels \in [Devices -> SUBSET STRING]
  /\ Interface \in [Devices -> STRING]
  /\ Accepted \subseteq Devices
  /\ NULL \notin Devices /\ NULL \notin AllChannels
  /\ Filters \subseteq BOOLEAN
  /\ Drivers \in Seq(Driver)
  /\ {MaxFaults, MaxPlugs, MaxRestarts} \subseteq Nat

VARIABLES
  m,        \* struct MldConfigLocal, with the version and whether there is a filter
  worker,   \* the thread: pc, the buffers of Worker, and what is left of the walk
  sys,      \* the driver: devices; channels configured, in part only; links; the card
  faults, plugs, restarts

mldVars == <<m, worker, sys, faults, plugs, restarts>>


\* opened is the history of the walk: the value of plugs when it came to the device.
NoWalk == [intf |-> NULL, descr |-> NULL, unvisited |-> {}, device |-> NULL, opened |-> 0,
           unchecked |-> {}, channel |-> NULL, todo |-> <<>>]

MldInit ==
  /\ \E v \in Versions :
       m = [version |-> v, filter |-> FALSE, started |-> FALSE, allowRun |-> FALSE,
            createAlsaCard |-> FALSE]
  /\ worker = [threads |-> 0, pc |-> "none", walk |-> NoWalk]
  /\ \E plugged \in SUBSET Devices :
       sys = [plugged |-> plugged, configured |-> {}, partly |-> {}, links |-> {},
              card |-> FALSE]
  /\ faults = 0 /\ plugs = 0 /\ restarts = 0

-----------------------------------------------------------------------------
(* The service. *)

\* Start of a service that is not started (one that is has to be stopped first).
\* A call without a filter keeps the one of an earlier call.
Start(filter, success) ==
  /\ ~m.started
  /\ m' = [m EXCEPT !.filter = @ \/ filter, !.allowRun = TRUE, !.started = success]
  /\ IF success
     THEN worker' = [worker EXCEPT !.threads = @ + 1, !.pc = "poll"] /\ UNCHANGED faults
     ELSE faults < MaxFaults /\ faults' = faults + 1 /\ UNCHANGED worker
  /\ UNCHANGED <<sys, plugs, restarts>>

\* Stop, up to the join of the thread, and from there on.
Stop ==
  /\ m.started
  /\ m.allowRun
  /\ restarts < MaxRestarts
  /\ restarts' = restarts + 1
  /\ m' = [m EXCEPT !.allowRun = FALSE]
  /\ UNCHANGED <<worker, sys, faults, plugs>>

FaultyJoined == TRUE
Joined == worker.threads = 0
EndStop ==
  /\ m.started /\ ~m.allowRun
  /\ Joined
  /\ m' = [m EXCEPT !.started = FALSE]
  /\ UNCHANGED <<worker, sys, faults, plugs, restarts>>

-----------------------------------------------------------------------------
(* The walk through the devices. *)

At(pc) == worker.threads > 0 /\ worker.pc = pc
Go(pc, walk) == worker' = [worker EXCEPT !.pc = pc, !.walk = walk]
Walk == worker.walk
Present == Walk.device \in sys.plugged
Others == UNCHANGED <<faults, plugs, restarts>>

\* The condition of the loop.  Each poll begins with empty buffers.
Poll ==
  /\ At("poll")
  /\ IF m.allowRun
     THEN Go("walk", [NoWalk EXCEPT !.unvisited = Devices])
     ELSE worker' = [worker EXCEPT !.threads = @ - 1, !.pc = "none"]
  /\ UNCHANGED <<m, sys>> /\ Others

\* IterateDirectory opens the directories of the devices in any order; one that
\* is not there is passed over.
OpenDevice(d) ==
  /\ At("walk") /\ d \in Walk.unvisited
  /\ Go(IF d \in sys.plugged THEN "read" ELSE "walk",
        [Walk EXCEPT !.unvisited = @ \ {d}, !.device = d, !.opened = plugs])
  /\ UNCHANGED <<m, sys>> /\ Others

\* The files come first.  A buffer keeps its content if the file cannot be read.
ReadDevice ==
  /\ At("read")
  /\ Go("enter", IF Present
                 THEN [Walk EXCEPT !.intf = Interface[Walk.device], !.descr = Walk.device]
                 ELSE Walk)
  /\ UNCHANGED <<m, sys>> /\ Others

\* The directory is opened once more for its sub directories.
EnterDevice ==
  /\ At("enter")
  /\ Go("channels",
        [Walk EXCEPT !.unchecked = IF Present THEN Channels[Walk.device] ELSE {}])
  /\ UNCHANGED <<m, sys>> /\ Others

CloseDevice ==
  /\ At("channels") /\ Walk.unchecked = {}
  /\ Go("walk", Walk)
  /\ UNCHANGED <<m, sys>> /\ Others

\* The channels that need no entry in the configuration.
HardWired(c) ==
  LET Control(aim) == <<[kind |-> "Cdev", aim |-> aim, valid |-> TRUE]>>
      Network(aim) == <<[kind |-> "Network", aim |-> aim, valid |-> TRUE]>>
  IN  CASE c \in {"ep0f", "ep07", "ca4"} -> Control("control-tx")
        [] c \in {"ep8f", "ep87", "ca2"} -> Control("control-rx")
        [] c \in {"ep0e", "ep06", "ca8"} -> Network("network-tx")
        [] c \in {"ep8e", "ep86", "ca6"} -> Network("network-rx")
        [] OTHER -> <<>>

\* The network is no driver that the configuration may name.
Fits(drv, c, phy) == drv.phy = phy /\ drv.channel = c /\ drv.kind # "Network"
Entry(drv) == [kind |-> drv.kind, aim |-> drv.aim, valid |-> drv.valid]

\* The loop over pConfig: the fitting ones of the first i drivers.
Configured(c, phy) ==
  LET fitting[i \in 0 .. Len(Drivers)] ==
        IF i = 0 THEN <<>>
        ELSE IF Fits(Drivers[i], c, phy) THEN Append(fitting[i - 1], Entry(Drivers[i]))
        ELSE fitting[i - 1]
  IN  fitting[Len(Drivers)]

Phy(intf) == CASE intf = "usb" -> "Usb" [] intf = "mlb_dim2" -> "Mlb" [] OTHER -> NULL

FaultyDriversFor(c) ==
  IF Phy(Walk.intf) = NULL THEN <<>>
  ELSE HardWired(c) \o Configured(c, "Usb") \o Configured(c, "Mlb")
DriversFor(c) ==
  IF Phy(Walk.intf) = NULL THEN <<>> ELSE HardWired(c) \o Configured(c, Phy(Walk.intf))

\* CheckDriverSettings.
Filtered == m.filter /\ Walk.descr \notin Accepted

CheckDriverSettings(c) ==
  LET todo == IF Filtered \/ ~Present \/ <<Walk.device, c>> \in sys.configured
              THEN <<>> ELSE DriversFor(c)
  IN  /\ At("channels") /\ c \in Walk.unchecked
      /\ Go(IF todo = <<>> THEN "channels" ELSE "write",
            [Walk EXCEPT !.unchecked = @ \ {c}, !.channel = c, !.todo = todo])
      /\ UNCHANGED <<m, sys>> /\ Others

-----------------------------------------------------------------------------
(* One driver of a channel is written. *)

Current == Head(Walk.todo)
Place == <<Walk.device, Walk.channel>>
FaultyNextDriver == Go("write", [Walk EXCEPT !.todo = Tail(@)])
NextDriver == Go(IF Len(Walk.todo) = 1 THEN "channels" ELSE "write", [Walk EXCEPT !.todo = Tail(@)])
Fault == faults < MaxFaults /\ faults' = faults + 1

\* The files of a channel are written, some of them perhaps not.
Written(complete) ==
  [sys EXCEPT !.configured = @ \cup {Place},
              !.partly = IF complete THEN @ \ {Place} ELSE @ \cup {Place}]

\* A link remembers its driver, and whether all settings had been written for it.
\* sure: the device was not unplugged and plugged in again since the walk came to it.
LinkOf(complete) == [place |-> Place, driver |-> Current, complete |-> complete,
                     sure |-> plugs < Walk.opened + 2]

\* Nothing is written: the device is gone, the type is invalid, or a folder or the
\* write that matters fails.
FaultySkip ==
  /\ At("write")
  /\ IF Present /\ Current.valid THEN Fault ELSE UNCHANGED faults
  /\ Go("channels", Walk)
  /\ UNCHANGED <<m, sys, plugs, restarts>>
Skip ==
  /\ At("write")
  /\ IF Present /\ Current.valid THEN Fault ELSE UNCHANGED faults
  /\ NextDriver
  /\ UNCHANGED <<m, sys, plugs, restarts>>

\* Version 1: ConfigureCdev and the like write the files of the channel, the
\* size of the buffers last.  Another setting may fail, which does not keep the
\* last one from being written, but keeps the channel from being linked.
FaultyConfigure(complete) ==
  /\ At("write") /\ m.version = 1 /\ Present /\ Current.valid
  /\ sys' = Written(complete)
  /\ IF complete THEN UNCHANGED faults ELSE Fault
  /\ Go("link", Walk)
  /\ UNCHANGED <<m, plugs, restarts>>
Configure(complete) ==
  /\ At("write") /\ m.version = 1 /\ Present /\ Current.valid
  /\ sys' = Written(complete)
  /\ IF complete THEN Go("link", Walk) /\ UNCHANGED faults ELSE NextDriver /\ Fault
  /\ UNCHANGED <<m, plugs, restarts>>

\* LinkCdev and the like.
Link ==
  /\ At("link")
  /\ \/ /\ Present
        /\ sys' = [sys EXCEPT !.links = @ \cup {LinkOf(Place \in sys.configured \ sys.partly)}]
        /\ UNCHANGED faults
     \/ /\ IF Present THEN Fault ELSE UNCHANGED faults
        /\ UNCHANGED sys
  /\ NextDriver
  /\ UNCHANGED <<m, plugs, restarts>>

\* Version 2: the settings go to a folder of their own, and create_link makes the
\* driver use them, whether all of them could be written or not.
FaultyCreateLink(complete) ==
  /\ At("write") /\ m.version = 2 /\ Present /\ Current.valid
  /\ IF complete THEN UNCHANGED faults ELSE Fault
  /\ sys' = [Written(complete) EXCEPT !.links = @ \cup {LinkOf(complete)}]
  /\ NextDriver
  /\ UNCHANGED <<m, plugs, restarts>>
CreateLink(complete) ==
  /\ At("write") /\ m.version = 2 /\ Present /\ Current.valid
  /\ IF complete THEN UNCHANGED faults ELSE Fault
  /\ sys' = [Written(complete) EXCEPT !.links = @ \cup {LinkOf(complete)}]
  /\ m' = [m EXCEPT !.createAlsaCard = @ \/ (Current.kind = "Alsa" /\ complete)]
  /\ NextDriver
  /\ UNCHANGED <<plugs, restarts>>

\* The end of a poll: CreateAlsaCard, which is not tried again.  Then the worker sleeps.
FaultyEndWalk ==
  /\ At("walk") /\ Walk.unvisited = {}
  /\ m' = [m EXCEPT !.createAlsaCard = FALSE]
  /\ \/ sys' = [sys EXCEPT !.card = @ \/ m.createAlsaCard] /\ UNCHANGED faults
     \/ m.createAlsaCard /\ Fault /\ UNCHANGED sys
  /\ worker' = [worker EXCEPT !.threads = @ - 1, !.pc = "none"]
  /\ UNCHANGED <<plugs, restarts>>
EndWalk ==
  /\ At("walk") /\ Walk.unvisited = {}
  /\ m' = [m EXCEPT !.createAlsaCard = FALSE]
  /\ \/ sys' = [sys EXCEPT !.card = @ \/ m.createAlsaCard] /\ UNCHANGED faults
     \/ m.createAlsaCard /\ Fault /\ UNCHANGED sys
  /\ Go("poll", NoWalk)
  /\ UNCHANGED <<plugs, restarts>>

Worker ==
  \/ Poll
  \/ \E d \in Devices : OpenDevice(d)
  \/ ReadDevice \/ EnterDevice
  \/ \E c \in AllChannels : CheckDriverSettings(c)
  \/ CloseDevice
  \/ Skip \/ Link
  \/ \E complete \in BOOLEAN : Configure(complete) \/ CreateLink(complete)
  \/ EndWalk

-----------------------------------------------------------------------------
(* The devices. *)

Plug(d) ==
  /\ d \notin sys.plugged /\ plugs < MaxPlugs
  /\ plugs' = plugs + 1
  /\ sys' = [sys EXCEPT !.plugged = @ \cup {d}]
  /\ UNCHANGED <<m, worker, faults, restarts>>

Unplug(d) ==
  LET elsewhere(place) == place[1] # d IN
  /\ d \in sys.plugged /\ plugs < MaxPlugs
  /\ plugs' = plugs + 1
  /\ sys' = [sys EXCEPT !.plugged = @ \ {d},
                        !.configured = {p \in @ : elsewhere(p)},
                        !.partly = {p \in @ : elsewhere(p)},
                        !.links = {l \in @ : elsewhere(l.place)}]
  /\ UNCHANGED <<m, worker, faults, restarts>>

Hotplug == \E d \in Devices : Plug(d) \/ Unplug(d)

\* GetControlCdevName: the names of both character devices exist.  Those it looks for
\* end with the filter, as the links of version 1 do and those of version 2 do not.
LinkNames == {<<l.driver.aim, m.version = 1 /\ m.filter>> : l \in sys.links}
FaultyGetControlCdevName ==
  \A aim \in {"control-tx", "control-rx"} : <<aim, FALSE>> \in LinkNames
GetControlCdevName == \A aim \in {"control-tx", "control-rx"} : <<aim, m.filter>> \in LinkNames

-----------------------------------------------------------------------------
Idle == worker.pc = "poll"

\* The drivers that are meant for a channel of a device.
DriversAt(place) ==
  HardWired(place[2]) \o Configured(place[2], Phy(Interface[place[1]]))

Aims ==
  {"control-tx", "control-rx", "network-tx", "network-rx"} \cup {Drivers[i].aim : i \in DOMAIN Drivers}
Entries == [kind : Kinds, aim : Aims, valid : BOOLEAN]
Walks ==
  [intf : {Interface[d] : d \in Devices} \cup {NULL}, descr : Devices \cup {NULL}, unvisited : SUBSET Devices,
   device : Devices \cup {NULL}, opened : 0..MaxPlugs, unchecked : SUBSET AllChannels,
   channel : AllChannels \cup {NULL}, todo : Seq(Entries)]
Links == [place : Places, driver : Entries, complete : BOOLEAN, sure : BOOLEAN]

\* The service, the thread that works, and the driver, each of its kind.
MldTypeOK ==
  /\ m \in [version : Versions, filter : BOOLEAN, started : BOOLEAN, allowRun : BOOLEAN,
            createAlsaCard : BOOLEAN]
  /\ worker \in [threads : {0, 1}, walk : Walks,
                 pc : {"none", "poll", "walk", "read", "enter", "channels", "write", "link"}]
  /\ worker.pc = "none" <=> worker.threads = 0
  /\ worker.pc \notin {"none", "poll", "walk"} => Walk.device # NULL
  /\ worker.pc \in {"write", "link"} => Walk.todo # <<>> /\ Walk.channel # NULL
  /\ sys \in [plugged : SUBSET Devices, configured : SUBSET Places, partly : SUBSET Places,
              links : SUBSET Links, card : BOOLEAN]
  /\ \A l \in sys.links : l.place[1] \in sys.plugged
  /\ sys.partly \subseteq sys.configured
  /\ faults \in 0..MaxFaults /\ plugs \in 0..MaxPlugs /\ restarts \in 0..MaxRestarts

\* Stop joins the thread: once it has returned nothing works on the devices any more,
\* and a later Start adds no second worker.
StopIsFinal == (~m.started => worker.threads = 0) /\ worker.threads <= 1

\* Version 1: a channel is linked only after all of its settings have been written,
\* whatever write failed before, and whoever unplugs it (unless it comes back meanwhile).
LinksAreComplete == m.version = 1 => \A l \in sys.links : l.sure => l.complete

\* The buffers of Worker carry what one file said to the channels found later:
\* no link is made with a driver for another channel, another physical
\* layer, or a device that the filter excludes.
LinksFitDevice ==
  \A l \in sys.links : l.sure =>
    /\ l.driver \in ToSet(DriversAt(l.place))
    /\ m.filter /\ restarts = 0 => l.place[1] \in Accepted

\* A configured channel is never looked at again: after the walk all of its valid drivers
\* have been linked, unless a write failed or the device was gone for a while.
ConfiguredAreLinked ==
  Idle /\ faults = 0 /\ plugs < 2 =>
    \A place \in sys.configured : \A drv \in ToSet(DriversAt(place)) :
      drv.valid => \E l \in sys.links : l.place = place /\ l.driver = drv

\* Version 2: a sound device that was linked completely gets its card, if that can be
\* written at all; there is no second attempt.
CardIsCreated ==
  m.version = 2 /\ Idle /\ faults = 0 =>
    \A l \in sys.links : l.driver.kind = "Alsa" => sys.card

\* The channel of a device that is and stays plugged in is configured some time, however
\* late the device came and whatever failed before, while the service runs.
Wanted(place) ==
  /\ m.started /\ m.allowRun
  /\ place[1] \in sys.plugged
  /\ m.filter => place[1] \in Accepted
ChannelsAreConfigured ==
  \A place \in Places :
    (\E drv \in ToSet(DriversAt(place)) : drv.valid) /\ place[2] \in Channels[place[1]]
      => (Wanted(place) ~> place \in sys.configured \/ ~Wanted(place))
=============================================================================
