--------------------------- MODULE StartupProofs ---------------------------
(***************************************************************************)
(* Proofs about the worker of the configurator, for any devices, channels  *)
(* and drivers, whatever is unplugged or fails meanwhile: Stop leaves no   *)
(* thread behind, version 1 links only what was written completely, a link *)
(* fits its device and the filter, and what the worker leaves when it      *)
(* sleeps is complete, the card of version 2 included.                     *)
(***************************************************************************)
EXTENDS Startup, WellFoundedInduction, SequenceTheorems, TLAPS

\* The walk is at a device.
AtDevice == {"read", "enter", "channels", "write", "link"}

\* The fields of the records.  Nothing is said about the values of most of them.
WalkShape(w) ==
  w \in [intf : {w.intf}, descr : {w.descr}, unvisited : {w.unvisited}, device : {w.device},
         opened : {w.opened}, unchecked : {w.unchecked}, channel : {w.channel}, todo : {w.todo}]
WorkerShape(w) ==
  w \in [threads : {0, 1}, walk : {w.walk}, pc : AtDevice \cup {"none", "poll", "walk"}]
SysShape(s) ==
  s \in [plugged : {s.plugged}, configured : {s.configured}, partly : {s.partly},
         links : {s.links}, card : {s.card}]
Shape ==
  /\ m \in [version : Versions, filter : BOOLEAN, started : BOOLEAN, allowRun : BOOLEAN,
            createAlsaCard : BOOLEAN]
  /\ WorkerShape(worker) /\ WalkShape(worker.walk) /\ SysShape(sys)
  /\ plugs \in Nat

\* There is a thread exactly if it is somewhere, and only while the service is started.
ThreadInv ==
  /\ worker.pc = "none" <=> worker.threads = 0
  /\ ~m.started => worker.threads = 0

\* While the walk is at a device, the device is there unless something was plugged in or out
\* since, and a channel about to be linked keeps its files unless the device went and
\* came back, which takes two such events.
WalkInv ==
  worker.pc \in AtDevice =>
    /\ Walk.opened \in Nat /\ Walk.opened <= plugs
    /\ Walk.opened = plugs => Present
    /\ worker.pc = "link" /\ Present /\ plugs < Walk.opened + 2
         => Place \in sys.configured \ sys.partly

IInv == Shape /\ ThreadInv /\ WalkInv /\ LinksAreComplete

LEMMA InitIInv == Init => IInv
  <1> SUFFICES ASSUME Init PROVE IInv
    OBVIOUS
  <1>1. Shape
    BY DEF Init, MldInit, Shape, WorkerShape, WalkShape, SysShape, NoWalk
  <1>2. worker.pc = "none" /\ worker.threads = 0 /\ sys.links = {}
    BY DEF Init, MldInit
  <1>3. QED
    BY <1>1, <1>2 DEF IInv, ThreadInv, WalkInv, LinksAreComplete, AtDevice

-----------------------------------------------------------------------------
(* The walk. *)

LEMMA GoShape ==
  ASSUME Shape, worker.threads = 1, NEW pc \in AtDevice \cup {"poll", "walk"}, NEW walk,
         WalkShape(walk), Go(pc, walk)
  PROVE  /\ WorkerShape(worker') /\ WalkShape(worker'.walk)
         /\ worker'.walk = walk /\ worker'.pc = pc /\ worker'.threads = 1
  <1>1. worker' = [worker EXCEPT !.pc = pc, !.walk = walk]
    BY DEF Go
  <1>2. worker'.walk = walk /\ worker'.pc = pc /\ worker'.threads = 1
    BY <1>1 DEF Shape, WorkerShape
  <1>3. WorkerShape(worker')
    BY <1>1, <1>2 DEF Shape, WorkerShape
  <1>4. QED
    BY <1>2, <1>3

\* The thread lives on while it works.
LEMMA AtThreads ==
  ASSUME Shape, NEW pc, At(pc)
  PROVE  worker.threads = 1 /\ worker.pc = pc
  BY DEF Shape, WorkerShape, At

\* A walk that stays at its device, and does not come to a link, keeps WalkInv.
LEMMA StayWalkInv ==
  ASSUME WalkInv, worker.pc \in AtDevice, UNCHANGED <<plugs, sys.plugged>>,
         worker'.pc # "link",
         worker'.walk.device = Walk.device, worker'.walk.opened = Walk.opened
  PROVE  WalkInv'
  BY DEF WalkInv, Walk, Present

\* Without a new link the links stay complete.
LEMMA SameLinks ==
  ASSUME LinksAreComplete, UNCHANGED m.version, sys'.links \subseteq sys.links
  PROVE  LinksAreComplete'
  BY DEF LinksAreComplete

LEMMA PollIInv == ASSUME IInv, Poll PROVE IInv'
  <1>1. UNCHANGED <<m, sys, plugs>> /\ worker.threads = 1
    BY AtThreads DEF IInv, Poll, Others
  <1>2. CASE m.allowRun
    <2> DEFINE walk == [NoWalk EXCEPT !.unvisited = Devices]
    <2>1. WalkShape(walk)
      BY DEF WalkShape, NoWalk
    <2>2. Go("walk", walk)
      BY <1>2 DEF Poll
    <2> HIDE DEF walk
    <2>3. WorkerShape(worker') /\ WalkShape(worker'.walk) /\ worker'.pc = "walk" /\ worker'.threads = 1
      BY <1>1, <2>1, <2>2, GoShape DEF IInv
    <2>4. QED
      BY <1>1, <2>3, SameLinks DEF IInv, Shape, ThreadInv, WalkInv, AtDevice
  <1>3. CASE ~m.allowRun
    <2>1. worker' = [worker EXCEPT !.threads = 0, !.pc = "none"]
      BY <1>1, <1>3 DEF Poll
    <2>2. WorkerShape(worker') /\ worker'.walk = worker.walk /\ worker'.pc = "none" /\ worker'.threads = 0
      BY <2>1 DEF IInv, Shape, WorkerShape
    <2>3. QED
      BY <1>1, <2>2, SameLinks DEF IInv, Shape, ThreadInv, WalkInv, AtDevice
  <1>4. QED
    BY <1>2, <1>3

LEMMA OpenDeviceIInv == ASSUME IInv, NEW d \in Devices, OpenDevice(d) PROVE IInv'
  <1> DEFINE walk == [Walk EXCEPT !.unvisited = @ \ {d}, !.device = d, !.opened = plugs]
             pc == IF d \in sys.plugged THEN "read" ELSE "walk"
  <1>1. UNCHANGED <<m, sys, plugs>> /\ worker.threads = 1
    BY AtThreads DEF IInv, OpenDevice, Others
  <1>2. WalkShape(walk) /\ walk.device = d /\ walk.opened = plugs
    BY DEF IInv, Shape, WalkShape, Walk
  <1>3. Go(pc, walk) /\ pc \in AtDevice \cup {"walk"}
    BY DEF OpenDevice, AtDevice
  <1>4. pc \in AtDevice => pc = "read" /\ d \in sys.plugged
    BY DEF AtDevice
  <1> HIDE DEF walk, pc
  <1>5. /\ WorkerShape(worker') /\ WalkShape(worker'.walk)
        /\ worker'.pc = pc /\ worker'.threads = 1 /\ worker'.walk = walk
    BY <1>1, <1>2, <1>3, GoShape DEF IInv
  <1>6. WalkInv'
    BY <1>1, <1>2, <1>4, <1>5 DEF IInv, Shape, WalkInv, Walk, Present
  <1>7. ThreadInv'
    BY <1>1, <1>3, <1>5 DEF IInv, ThreadInv, AtDevice
  <1>8. QED
    BY <1>1, <1>5, <1>6, <1>7, SameLinks DEF IInv, Shape

\* The worker changes nothing of the service but the flag for the card.
SameService ==
  /\ m' \in [version : Versions, filter : BOOLEAN, started : BOOLEAN, allowRun : BOOLEAN,
             createAlsaCard : BOOLEAN]
  /\ UNCHANGED <<m.version, m.started>>

\* The steps at a device that do not lead to a link.
LEMMA AtDeviceIInv ==
  ASSUME IInv, worker.pc \in AtDevice, worker.threads = 1,
         NEW pc \in {"enter", "channels", "walk", "write"},
         NEW walk, WalkShape(walk), walk.device = Walk.device, walk.opened = Walk.opened,
         Go(pc, walk), SameService, UNCHANGED <<plugs, sys.plugged>>, SysShape(sys'),
         LinksAreComplete'
  PROVE  IInv'
  <1>1. /\ WorkerShape(worker') /\ WalkShape(worker'.walk)
        /\ worker'.pc = pc /\ worker'.threads = 1 /\ worker'.walk = walk
    BY GoShape DEF IInv, AtDevice
  <1>2. WalkInv'
    BY <1>1, StayWalkInv DEF IInv
  <1>3. ThreadInv'
    BY <1>1 DEF IInv, ThreadInv, AtDevice, SameService
  <1>4. QED
    BY <1>1, <1>2, <1>3 DEF IInv, Shape, SameService

LEMMA ReadDeviceIInv == ASSUME IInv, ReadDevice PROVE IInv'
  <1> DEFINE walk == IF Present
                     THEN [Walk EXCEPT !.intf = Interface[Walk.device], !.descr = Walk.device]
                     ELSE Walk
  <1>1. UNCHANGED <<m, sys, plugs>> /\ worker.threads = 1 /\ worker.pc \in AtDevice
    BY AtThreads DEF IInv, ReadDevice, Others, AtDevice
  <1>2. WalkShape(walk) /\ walk.device = Walk.device /\ walk.opened = Walk.opened
    BY DEF IInv, Shape, WalkShape, Walk
  <1>3. Go("enter", walk)
    BY DEF ReadDevice
  <1> HIDE DEF walk
  <1>4. QED
    BY <1>1, <1>2, <1>3, AtDeviceIInv, SameLinks DEF IInv, Shape, SameService

LEMMA EnterDeviceIInv == ASSUME IInv, EnterDevice PROVE IInv'
  <1> DEFINE walk == [Walk EXCEPT !.unchecked = IF Present THEN Channels[Walk.device] ELSE {}]
  <1>1. UNCHANGED <<m, sys, plugs>> /\ worker.threads = 1 /\ worker.pc \in AtDevice
    BY AtThreads DEF IInv, EnterDevice, Others, AtDevice
  <1>2. WalkShape(walk) /\ walk.device = Walk.device /\ walk.opened = Walk.opened
    BY DEF IInv, Shape, WalkShape, Walk
  <1>3. Go("channels", walk)
    BY DEF EnterDevice
  <1> HIDE DEF walk
  <1>4. QED
    BY <1>1, <1>2, <1>3, AtDeviceIInv, SameLinks DEF IInv, Shape, SameService

LEMMA CloseDeviceIInv == ASSUME IInv, CloseDevice PROVE IInv'
  <1>1. UNCHANGED <<m, sys, plugs>> /\ worker.threads = 1 /\ worker.pc \in AtDevice
    BY AtThreads DEF IInv, CloseDevice, Others, AtDevice
  <1>2. WalkShape(Walk) /\ Go("walk", Walk)
    BY DEF IInv, Shape, CloseDevice, Walk
  <1>3. QED
    BY <1>1, <1>2, AtDeviceIInv, SameLinks DEF IInv, Shape, SameService

LEMMA CheckIInv == ASSUME IInv, NEW c \in AllChannels, CheckDriverSettings(c) PROVE IInv'
  <1>1. UNCHANGED <<m, sys, plugs>> /\ worker.threads = 1 /\ worker.pc \in AtDevice
    BY AtThreads DEF IInv, CheckDriverSettings, Others, AtDevice
  <1> DEFINE todo == IF Filtered \/ ~Present \/ <<Walk.device, c>> \in sys.configured
                     THEN <<>> ELSE DriversFor(c)
             pc == IF todo = <<>> THEN "channels" ELSE "write"
             walk == [Walk EXCEPT !.unchecked = @ \ {c}, !.channel = c, !.todo = todo]
  <1>2. Go(pc, walk)
    BY DEF CheckDriverSettings
  <1>6. pc \in {"channels", "write"}
    OBVIOUS
  <1> HIDE DEF todo, pc
  <1>3. WalkShape(walk) /\ walk.device = Walk.device /\ walk.opened = Walk.opened
    BY DEF IInv, Shape, WalkShape, Walk
  <1> HIDE DEF walk
  <1>4. QED
    BY <1>1, <1>2, <1>6, <1>3, AtDeviceIInv, SameLinks DEF IInv, Shape, SameService

-----------------------------------------------------------------------------
(* The drivers of a channel. *)

\* A driver is done, whatever it left in the files.
LEMMA NextDriverIInv ==
  ASSUME IInv, worker.pc \in {"write", "link"}, worker.threads = 1, NextDriver,
         SameService, UNCHANGED <<plugs, sys.plugged>>, SysShape(sys'), LinksAreComplete'
  PROVE  IInv'
  <1> DEFINE walk == [Walk EXCEPT !.todo = Tail(@)]
             pc == IF Len(Walk.todo) = 1 THEN "channels" ELSE "write"
  <1>1. WalkShape(walk) /\ walk.device = Walk.device /\ walk.opened = Walk.opened
    BY DEF IInv, Shape, WalkShape, Walk
  <1>2. Go(pc, walk) /\ pc \in {"channels", "write"}
    BY DEF NextDriver
  <1> HIDE DEF walk, pc
  <1>3. QED
    BY <1>1, <1>2, AtDeviceIInv DEF AtDevice

LEMMA SkipIInv == ASSUME IInv, Skip PROVE IInv'
  <1>1. /\ UNCHANGED <<m, sys, plugs>> /\ NextDriver
        /\ worker.threads = 1 /\ worker.pc = "write"
    BY AtThreads DEF IInv, Skip
  <1>2. QED
    BY <1>1, NextDriverIInv, SameLinks DEF IInv, Shape, SameService

LEMMA WrittenShape ==
  ASSUME SysShape(sys), NEW complete \in BOOLEAN
  PROVE  /\ SysShape(Written(complete))
         /\ Written(complete).links = sys.links /\ Written(complete).plugged = sys.plugged
         /\ complete => Place \in Written(complete).configured \ Written(complete).partly
  BY DEF SysShape, Written

LEMMA ConfigureIInv == ASSUME IInv, NEW complete \in BOOLEAN, Configure(complete) PROVE IInv'
  <1>1. /\ UNCHANGED <<m, plugs>> /\ sys' = Written(complete) /\ Present
        /\ worker.threads = 1 /\ worker.pc = "write"
    BY AtThreads DEF IInv, Configure
  <1>2. SysShape(sys') /\ sys'.plugged = sys.plugged /\ LinksAreComplete'
    BY <1>1, WrittenShape, SameLinks DEF IInv, Shape
  <1>3. CASE complete
    <2>1. Go("link", Walk) /\ WalkShape(Walk)
      BY <1>3 DEF Configure, IInv, Shape, Walk
    <2>2. /\ WorkerShape(worker') /\ WalkShape(worker'.walk)
          /\ worker'.pc = "link" /\ worker'.threads = 1 /\ worker'.walk = Walk
      BY <1>1, <2>1, GoShape DEF IInv, AtDevice
    <2>3. Place' = Place /\ Place \in sys'.configured \ sys'.partly
      BY <1>1, <1>3, <2>2, WrittenShape DEF IInv, Shape, Place, Walk
    <2>4. WalkInv'
      BY <1>1, <1>2, <2>2, <2>3 DEF IInv, WalkInv, AtDevice, Walk, Present
    <2>5. QED
      BY <1>1, <1>2, <2>2, <2>4 DEF IInv, Shape, ThreadInv
  <1>4. CASE ~complete
    BY <1>1, <1>2, <1>4, NextDriverIInv DEF Configure, IInv, Shape, SameService
  <1>5. QED
    BY <1>3, <1>4

LEMMA LinkIInv == ASSUME IInv, Link PROVE IInv'
  <1> DEFINE complete == Place \in sys.configured \ sys.partly
  <1>1. /\ UNCHANGED <<m, plugs>> /\ NextDriver
        /\ worker.threads = 1 /\ worker.pc = "link"
    BY AtThreads DEF IInv, Link
  <1>2. CASE UNCHANGED sys
    BY <1>1, <1>2, NextDriverIInv, SameLinks DEF IInv, Shape, SameService
  <1>3. CASE Present /\ sys' = [sys EXCEPT !.links = @ \cup {LinkOf(complete)}]
    <2>1. SysShape(sys') /\ sys'.plugged = sys.plugged /\ sys'.links = sys.links \cup {LinkOf(complete)}
      BY <1>3 DEF IInv, Shape, SysShape
    <2>2. LinkOf(complete).complete = complete /\ LinkOf(complete).sure = (plugs < Walk.opened + 2)
      BY DEF LinkOf
    <2>3. LinkOf(complete).sure => LinkOf(complete).complete
      BY <1>1, <1>3, <2>2 DEF IInv, WalkInv, AtDevice
    <2>4. LinksAreComplete'
      BY <1>1, <2>1, <2>3 DEF IInv, LinksAreComplete
    <2>5. QED
      BY <1>1, <2>1, <2>4, NextDriverIInv DEF IInv, Shape, SameService
  <1>4. QED
    BY <1>2, <1>3 DEF Link

LEMMA CreateLinkIInv == ASSUME IInv, NEW complete \in BOOLEAN, CreateLink(complete) PROVE IInv'
  <1>1. /\ UNCHANGED plugs /\ NextDriver /\ m.version = 2
        /\ worker.threads = 1 /\ worker.pc = "write"
        /\ m' = [m EXCEPT !.createAlsaCard = @ \/ (Current.kind = "Alsa" /\ complete)]
        /\ sys' = [Written(complete) EXCEPT !.links = @ \cup {LinkOf(complete)}]
    BY AtThreads DEF IInv, CreateLink
  <1>2. SysShape(sys') /\ sys'.plugged = sys.plugged
    BY <1>1, WrittenShape DEF IInv, Shape, SysShape
  <1>3. SameService
    BY <1>1 DEF IInv, Shape, SameService
  <1>4. LinksAreComplete'
    BY <1>1, <1>3 DEF LinksAreComplete, SameService
  <1>5. QED
    BY <1>1, <1>2, <1>3, <1>4, NextDriverIInv

LEMMA EndWalkIInv == ASSUME IInv, EndWalk PROVE IInv'
  <1>1. /\ UNCHANGED plugs /\ Go("poll", NoWalk)
        /\ worker.threads = 1 /\ m' = [m EXCEPT !.createAlsaCard = FALSE]
    BY AtThreads DEF IInv, EndWalk
  <1>2. SameService
    BY <1>1 DEF IInv, Shape, SameService
  <1>3. SysShape(sys') /\ sys'.links = sys.links
    BY DEF IInv, Shape, SysShape, EndWalk
  <1>4. WalkShape(NoWalk)
    BY DEF WalkShape, NoWalk
  <1>5. /\ WorkerShape(worker') /\ WalkShape(worker'.walk)
        /\ worker'.pc = "poll" /\ worker'.threads = 1
    BY <1>1, <1>4, GoShape DEF IInv
  <1>6. LinksAreComplete'
    BY <1>2, <1>3, SameLinks DEF IInv, SameService
  <1>7. QED
    BY <1>1, <1>2, <1>3, <1>5, <1>6 DEF IInv, Shape, ThreadInv, WalkInv, AtDevice, SameService

LEMMA WorkerIInv == IInv /\ Worker => IInv'
  BY PollIInv, OpenDeviceIInv, ReadDeviceIInv, EnterDeviceIInv, CheckIInv, CloseDeviceIInv,
     SkipIInv, LinkIInv, ConfigureIInv, CreateLinkIInv, EndWalkIInv DEF Worker

-----------------------------------------------------------------------------
(* The devices. *)

LEMMA PlugIInv == ASSUME IInv, NEW d \in Devices, Plug(d) PROVE IInv'
  <1>1. UNCHANGED <<m, worker>> /\ plugs' = plugs + 1 /\ plugs \in Nat
    BY DEF Plug, IInv, Shape
  <1>2. /\ SysShape(sys') /\ sys'.links = sys.links
        /\ sys'.configured = sys.configured /\ sys'.partly = sys.partly
    BY DEF IInv, Shape, SysShape, Plug
  <1>3. WalkInv'
    <2> SUFFICES ASSUME worker.pc \in AtDevice
                 PROVE  /\ Walk.opened \in Nat /\ Walk.opened <= plugs + 1
                        /\ Walk.opened # plugs + 1
                        /\ worker.pc = "link" /\ plugs + 1 < Walk.opened + 2
                             => Place \in sys.configured \ sys.partly
      BY <1>1, <1>2 DEF WalkInv, Walk, Place
    <2>1. Walk.opened \in Nat /\ Walk.opened <= plugs /\ (Walk.opened = plugs => Present)
      BY DEF IInv, WalkInv
    <2>2. ASSUME worker.pc = "link", plugs + 1 < Walk.opened + 2
          PROVE  Place \in sys.configured \ sys.partly
      <3>1. Walk.opened = plugs /\ plugs < Walk.opened + 2
        BY <1>1, <2>1, <2>2
      <3>2. QED
        BY <2>1, <2>2, <3>1 DEF IInv, WalkInv
    <2>3. QED
      BY <1>1, <2>1, <2>2
  <1>4. QED
    BY <1>1, <1>2, <1>3, SameLinks DEF IInv, Shape, ThreadInv

LEMMA UnplugIInv == ASSUME IInv, NEW d \in Devices, Unplug(d) PROVE IInv'
  <1>1. UNCHANGED <<m, worker>> /\ plugs' = plugs + 1 /\ plugs \in Nat
    BY DEF Unplug, IInv, Shape
  <1>2. /\ SysShape(sys') /\ sys'.links \subseteq sys.links
        /\ sys'.plugged = sys.plugged \ {d}
        /\ sys'.configured = {p \in sys.configured : p[1] # d}
        /\ sys'.partly \subseteq sys.partly
    BY DEF IInv, Shape, SysShape, Unplug
  <1>3. WalkInv'
    <2> SUFFICES ASSUME worker.pc \in AtDevice
                 PROVE  /\ Walk.opened \in Nat /\ Walk.opened <= plugs + 1
                        /\ Walk.opened # plugs + 1
                        /\ worker.pc = "link" /\ Walk.device \in sys.plugged \ {d}
                           /\ plugs + 1 < Walk.opened + 2
                             => Place \in sys'.configured \ sys'.partly
      BY <1>1, <1>2 DEF WalkInv, Walk, Place, Present
    <2>1. Walk.opened \in Nat /\ Walk.opened <= plugs
      BY DEF IInv, WalkInv
    <2>2. ASSUME worker.pc = "link", Walk.device \in sys.plugged \ {d},
                 plugs + 1 < Walk.opened + 2
          PROVE  Place \in sys'.configured \ sys'.partly
      <3>1. plugs < Walk.opened + 2
        BY <1>1, <2>1, <2>2
      <3>2. Place \in sys.configured \ sys.partly
        BY <2>2, <3>1 DEF IInv, WalkInv, Present
      <3>3. Place[1] # d
        BY <2>2 DEF Place
      <3>4. QED
        BY <1>2, <3>2, <3>3
    <2>3. QED
      BY <1>1, <2>1, <2>2
  <1>4. QED
    BY <1>1, <1>2, <1>3, SameLinks DEF IInv, Shape, ThreadInv

-----------------------------------------------------------------------------
(* The service and the start of the daemon. *)

LEMMA StartIInv ==
  ASSUME IInv, NEW filter \in Filters, NEW success \in BOOLEAN, Start(filter, success)
  PROVE  IInv'
  <1>1. /\ UNCHANGED <<sys, plugs>> /\ worker.threads = 0 /\ worker.pc = "none"
        /\ m' = [m EXCEPT !.filter = @ \/ filter, !.allowRun = TRUE, !.started = success]
    BY DEF IInv, ThreadInv, Start
  <1>2. filter \in BOOLEAN
    BY MldAssumption
  <1>3. /\ m' \in [version : Versions, filter : BOOLEAN, started : BOOLEAN, allowRun : BOOLEAN,
                   createAlsaCard : BOOLEAN]
        /\ m'.version = m.version /\ m'.started = success
    BY <1>1, <1>2 DEF IInv, Shape
  <1>4. LinksAreComplete'
    BY <1>1, <1>3, SameLinks DEF IInv
  <1>5. CASE success
    <2>1. worker' = [worker EXCEPT !.threads = 1, !.pc = "poll"]
      BY <1>1, <1>5 DEF Start
    <2>2. /\ WorkerShape(worker') /\ worker'.walk = worker.walk
          /\ worker'.pc = "poll" /\ worker'.threads = 1
      BY <2>1 DEF IInv, Shape, WorkerShape
    <2>3. QED
      BY <1>1, <1>3, <1>4, <1>5, <2>2 DEF IInv, Shape, ThreadInv, WalkInv, AtDevice
  <1>6. CASE ~success
    <2>1. UNCHANGED worker
      BY <1>6 DEF Start
    <2>2. QED
      BY <1>1, <1>3, <1>4, <2>1 DEF IInv, Shape, ThreadInv, WalkInv, AtDevice
  <1>7. QED
    BY <1>5, <1>6

\* What leaves the worker, the driver and the version alone, and stops only what has no thread.
LEMMA SameWorkerIInv ==
  ASSUME IInv, UNCHANGED <<worker, sys, plugs, m.version>>, ~m'.started => worker.threads = 0,
         m' \in [version : Versions, filter : BOOLEAN, started : BOOLEAN, allowRun : BOOLEAN,
                 createAlsaCard : BOOLEAN]
  PROVE  IInv'
  BY SameLinks DEF IInv, Shape, ThreadInv, WalkInv, Walk, Present, Place

LEMMA StopIInv == ASSUME IInv, Stop \/ EndStop PROVE IInv'
  <1>1. UNCHANGED <<worker, sys, plugs>>
    BY DEF Stop, EndStop
  <1>2. /\ m' \in [version : Versions, filter : BOOLEAN, started : BOOLEAN, allowRun : BOOLEAN,
                   createAlsaCard : BOOLEAN]
        /\ m'.version = m.version
        /\ ~m'.started => worker.threads = 0
    BY DEF IInv, Shape, Stop, EndStop, Joined
  <1>3. QED
    BY <1>1, <1>2, SameWorkerIInv

LEMMA ExitIInv == ASSUME IInv, Exit PROVE IInv'
  <1>1. /\ UNCHANGED <<sys, plugs>>
        /\ m' = [m EXCEPT !.started = FALSE, !.allowRun = FALSE, !.createAlsaCard = FALSE]
        /\ worker' = [threads |-> 0, pc |-> "none", walk |-> NoWalk]
    BY DEF Exit
  <1>3. /\ m' \in [version : Versions, filter : BOOLEAN, started : BOOLEAN, allowRun : BOOLEAN,
                   createAlsaCard : BOOLEAN]
        /\ m'.version = m.version
    BY <1>1 DEF IInv, Shape
  <1>4. WorkerShape(worker') /\ WalkShape(worker'.walk) /\ worker'.pc = "none" /\ worker'.threads = 0
    BY <1>1 DEF WorkerShape, WalkShape, NoWalk
  <1>5. LinksAreComplete'
    BY <1>1, <1>3, SameLinks DEF IInv
  <1>6. QED
    BY <1>1, <1>3, <1>4, <1>5 DEF IInv, Shape, ThreadInv, WalkInv, AtDevice

\* The other steps of the daemon leave the configurator alone.
LEMMA MldUnchangedIInv == ASSUME IInv, UNCHANGED mldVars PROVE IInv'
  <1>1. UNCHANGED <<m, worker, sys, plugs>>
    BY DEF mldVars
  <1>2. QED
    BY <1>1, SameWorkerIInv DEF IInv, Shape, ThreadInv

LEMMA MainIInv == IInv /\ Main => IInv'
  <1> SUFFICES ASSUME IInv, Main PROVE IInv'
    OBVIOUS
  <1>1. CASE UNCHANGED mldVars
    BY <1>1, MldUnchangedIInv
  <1>2. ASSUME NEW filter \in Filters, NEW success \in BOOLEAN, StartDriver(filter, success)
        PROVE  IInv'
    BY <1>2, StartIInv DEF StartDriver
  <1>3. CASE Exit
    BY <1>3, ExitIInv
  <1>4. QED
    BY <1>1, <1>2, <1>3
       DEF Main, ParseCommandLine, InvalidParameter, InitFails, NoDriver, WaitForControl,
           InitializeCdevs

LEMMA NextIInv == IInv /\ [Next]_vars => IInv'
  <1> SUFFICES ASSUME IInv, [Next]_vars PROVE IInv'
    OBVIOUS
  <1>1. CASE Main
    BY <1>1, MainIInv
  <1>2. CASE Restart
    BY <1>2, StopIInv, StartIInv DEF Restart
  <1>3. CASE Worker
    BY <1>3, WorkerIInv
  <1>4. CASE Hotplug
    BY <1>4, PlugIInv, UnplugIInv DEF Hotplug
  <1>5. CASE UNCHANGED vars
    BY <1>5, MldUnchangedIInv DEF vars
  <1>6. QED
    BY <1>1, <1>2, <1>3, <1>4, <1>5 DEF Next

-----------------------------------------------------------------------------
(* What the configurator promises. *)

\* Stop of mld-configurator-v1.c and -v2.c: once it has returned there is no thread, and
\* there are never two, however often the service is stopped and started.
THEOREM StartupStopIsFinal == Spec => []StopIsFinal
  <1>1. IInv => StopIsFinal
    BY DEF IInv, Shape, WorkerShape, ThreadInv, StopIsFinal
  <1>2. QED
    BY <1>1, InitIInv, NextIInv, PTL DEF Spec

\* ConfigureCdev to LinkNetwork of version 1: a link is made only for a channel whose
\* settings were all written, for any devices and drivers and whatever write fails.
THEOREM StartupLinksAreComplete == Spec => []LinksAreComplete
  <1>1. IInv => LinksAreComplete
    BY DEF IInv
  <1>2. QED
    BY <1>1, InitIInv, NextIInv, PTL DEF Spec

-----------------------------------------------------------------------------
(* The drivers of a channel. *)

LEMMA MinimumOfNats ==
  ASSUME NEW T, T \subseteq Nat, T # {}
  PROVE  \E x \in T : \A y \in T : x <= y
  <1> DEFINE R == OpToRel(<, Nat)
  <1>1. IsWellFoundedOn(R, Nat)
    BY NatLessThanWellFounded
  <1>2. PICK x \in T : \A y \in T : <<y, x>> \notin R
    <2> HIDE DEF R
    <2> QED
      BY <1>1, WFMin
  <1>3. ASSUME NEW y \in T PROVE x <= y
    <2>1. ~ (y < x)
      BY <1>2 DEF OpToRel
    <2>2. QED
      BY <2>1
  <1>4. QED
    BY <1>3

\* One round of the loop over the first n drivers.
Round(f, c, phy, n) ==
  [i \in 0 .. n |-> IF i = 0 THEN <<>>
                    ELSE IF Fits(Drivers[i], c, phy) THEN Append(f[i - 1], Entry(Drivers[i]))
                    ELSE f[i - 1]]

\* The loop can be run to its end, for any number of drivers.
LEMMA LoopExists ==
  ASSUME NEW c, NEW phy, NEW n \in Nat
  PROVE  \E f : f = Round(f, c, phy, n)
  <1> DEFINE Runs(k) == \E f : f = Round(f, c, phy, k)
             T == {k \in Nat : ~Runs(k)}
  <1>1. SUFFICES ASSUME T # {} PROVE FALSE
    OBVIOUS
  <1>2. PICK x \in T : \A y \in T : x <= y
    <2>1. T \subseteq Nat
      OBVIOUS
    <2> HIDE DEF T
    <2>2. QED
      BY <1>1, <2>1, MinimumOfNats
  <1>3. x # 0
    <2>1. [i \in 0 .. 0 |-> <<>>] = Round([i \in 0 .. 0 |-> <<>>], c, phy, 0)
      BY DEF Round
    <2>2. Runs(0)
      BY <2>1
    <2>3. QED
      BY <2>2
  <1>4. PICK f : f = Round(f, c, phy, x - 1)
    <2>1. x - 1 \in Nat /\ ~(x <= x - 1)
      BY <1>3
    <2>2. Runs(x - 1)
      BY <1>2, <2>1
    <2>3. QED
      BY <2>2
  <1> DEFINE last == IF Fits(Drivers[x], c, phy) THEN Append(f[x - 1], Entry(Drivers[x]))
                     ELSE f[x - 1]
             g == [i \in 0 .. x |-> IF i = x THEN last ELSE f[i]]
  <1>5. g = Round(g, c, phy, x)
    <2>1. x \in Nat /\ x - 1 \in 0 .. x /\ x - 1 # x
      BY <1>3
    <2>2. g[x - 1] = f[x - 1]
      BY <2>1
    <2>3. \A i \in 0 .. x : i # 0 /\ i # x => i \in 0 .. x - 1 /\ i - 1 \in 0 .. x /\ i - 1 # x
      BY <2>1
    <2>4. f = [i \in 0 .. x - 1 |->
                IF i = 0 THEN <<>>
                ELSE IF Fits(Drivers[i], c, phy) THEN Append(f[i - 1], Entry(Drivers[i]))
                ELSE f[i - 1]]
      BY <1>4 DEF Round
    <2> DEFINE h == Round(g, c, phy, x)
    <2>5. ASSUME NEW i \in 0 .. x PROVE g[i] = h[i]
      <3>1. h[i] = IF i = 0 THEN <<>>
                   ELSE IF Fits(Drivers[i], c, phy) THEN Append(g[i - 1], Entry(Drivers[i]))
                   ELSE g[i - 1]
        BY DEF Round
      <3>2. CASE i = x
        BY <1>3, <2>2, <3>1, <3>2
      <3>3. CASE i = 0
        <4>1. 0 \in 0 .. x - 1 /\ 0 # x
          BY <1>3
        <4>2. f[0] = <<>>
          BY <2>4, <4>1
        <4>3. QED
          BY <3>1, <3>3, <4>1, <4>2
      <3>4. CASE i # 0 /\ i # x
        <4>1. i \in 0 .. x - 1 /\ g[i] = f[i] /\ g[i - 1] = f[i - 1]
          BY <2>3, <3>4
        <4>2. f[i] = IF Fits(Drivers[i], c, phy) THEN Append(f[i - 1], Entry(Drivers[i]))
                     ELSE f[i - 1]
          BY <2>4, <3>4, <4>1
        <4>3. QED
          BY <3>1, <3>4, <4>1, <4>2
      <3>5. QED
        BY <3>2, <3>3, <3>4
    <2>6. DOMAIN g = 0 .. x /\ DOMAIN h = 0 .. x
      BY DEF Round
    <2>7. g = [i \in 0 .. x |-> g[i]] /\ h = [i \in 0 .. x |-> h[i]]
      BY DEF Round
    <2> HIDE DEF g, h
    <2>8. g = h
      BY <2>5, <2>7
    <2>9. QED
      BY <2>8 DEF h
  <1>6. Runs(x)
    <2> HIDE DEF g
    <2>1. QED
      BY <1>5
  <1>7. QED
    BY <1>6

\* The drivers that fit are a sequence, however many there are.
LEMMA ConfiguredIsSeq ==
  ASSUME NEW c, NEW phy
  PROVE  Configured(c, phy) \in Seq(Entries)
  <1> DEFINE n == Len(Drivers)
             f == CHOOSE g : g = Round(g, c, phy, n)
  <1>1. n \in Nat /\ DOMAIN Drivers = 1 .. n /\ \A i \in 1 .. n : Drivers[i] \in Driver
    BY MldAssumption
  <1>2. Configured(c, phy) = f[n]
    BY DEF Configured, Round
  <1>3. f = Round(f, c, phy, n)
    <2> HIDE DEF n
    <2>1. QED
      BY <1>1, LoopExists
  <1> HIDE DEF f, n
  <1> DEFINE T == {k \in 0 .. n : f[k] \notin Seq(Entries)}
  <1>4. T = {}
    <2> SUFFICES ASSUME T # {} PROVE FALSE
      OBVIOUS
    <2>1. PICK x \in T : \A y \in T : x <= y
      <3>1. T \subseteq Nat
        BY <1>1
      <3> HIDE DEF T
      <3>2. QED
        BY <3>1, MinimumOfNats
    <2>2. x \in 0 .. n /\ f[x] \notin Seq(Entries)
      OBVIOUS
    <2>3. f[x] = IF x = 0 THEN <<>>
                 ELSE IF Fits(Drivers[x], c, phy) THEN Append(f[x - 1], Entry(Drivers[x]))
                 ELSE f[x - 1]
      <3>1. Round(f, c, phy, n)[x]
              = IF x = 0 THEN <<>>
                ELSE IF Fits(Drivers[x], c, phy) THEN Append(f[x - 1], Entry(Drivers[x]))
                ELSE f[x - 1]
        BY <2>2 DEF Round
      <3>2. QED
        BY <1>3, <3>1, Zenon
    <2>4. x # 0
      <3>1. <<>> \in Seq(Entries)
        OBVIOUS
      <3>2. QED
        BY <2>2, <2>3, <3>1
    <2>5. f[x - 1] \in Seq(Entries)
      <3>1. x - 1 \in 0 .. n /\ ~(x <= x - 1)
        BY <1>1, <2>2, <2>4
      <3>2. QED
        BY <2>1, <3>1
    <2>6. Entry(Drivers[x]) \in Entries
      <3>1. Drivers[x] \in Driver /\ x \in DOMAIN Drivers
        BY <1>1, <2>2, <2>4, MldAssumption
      <3>2. QED
        BY <3>1 DEF Driver, Entry, Entries, Aims
    <2> DEFINE e == Entry(Drivers[x])
               q == f[x - 1]
    <2>7. Append(q, e) \in Seq(Entries)
      <3>1. e \in Entries /\ q \in Seq(Entries)
        BY <2>5, <2>6
      <3> HIDE DEF e, q
      <3>2. QED
        BY <3>1
    <2>8. QED
      BY <2>2, <2>3, <2>4, <2>5, <2>7
  <1>5. QED
    BY <1>1, <1>2, <1>4

LEMMA HardWiredIsSeq ==
  ASSUME NEW c
  PROVE  HardWired(c) \in Seq(Entries)
  <1> DEFINE E(kind, aim) == [kind |-> kind, aim |-> aim, valid |-> TRUE]
  <1>1. /\ E("Cdev", "control-tx") \in Entries /\ E("Cdev", "control-rx") \in Entries
        /\ E("Network", "network-tx") \in Entries /\ E("Network", "network-rx") \in Entries
    <2>1. \A kind \in Kinds, aim \in Aims : E(kind, aim) \in Entries
      BY DEF Entries
    <2>2. "Cdev" \in Kinds /\ "Network" \in Kinds
      BY DEF Kinds
    <2>3. /\ "control-tx" \in Aims /\ "control-rx" \in Aims
          /\ "network-tx" \in Aims /\ "network-rx" \in Aims
      BY DEF Aims
    <2> HIDE DEF E
    <2>4. QED
      BY <2>1, <2>2, <2>3
  <1>2. \/ HardWired(c) = <<>>
        \/ HardWired(c) = <<E("Cdev", "control-tx")>> \/ HardWired(c) = <<E("Cdev", "control-rx")>>
        \/ HardWired(c) = <<E("Network", "network-tx")>>
        \/ HardWired(c) = <<E("Network", "network-rx")>>
    BY DEF HardWired
  <1> HIDE DEF E
  <1>3. \A e \in Entries : <<e>> \in Seq(Entries)
    OBVIOUS
  <1>4. <<>> \in Seq(Entries)
    OBVIOUS
  <1>5. QED
    BY <1>1, <1>2, <1>3, <1>4, Zenon

LEMMA DriversForIsSeq ==
  ASSUME NEW c
  PROVE  DriversFor(c) \in Seq(Entries)
  <1>1. <<>> \in Seq(Entries)
    OBVIOUS
  <1>2. HardWired(c) \o Configured(c, Phy(Walk.intf)) \in Seq(Entries)
    BY HardWiredIsSeq, ConfiguredIsSeq
  <1>3. QED
    BY <1>1, <1>2 DEF DriversFor

-----------------------------------------------------------------------------
(* The types, and what each step does to the walk. *)

Services ==
  [version : Versions, filter : BOOLEAN, started : BOOLEAN, allowRun : BOOLEAN,
   createAlsaCard : BOOLEAN]
Systems ==
  [plugged : SUBSET Devices, configured : SUBSET Places, partly : SUBSET Places,
   links : SUBSET Links, card : BOOLEAN]
Threads ==
  [threads : {0, 1}, walk : Walks,
   pc : {"none", "poll", "walk", "read", "enter", "channels", "write", "link"}]
Tasks ==
  [pc : {"parse", "init", "wait", "config", "running", "failed", "ended"},
   drv : BOOLEAN, given : 0 .. 2, names : Names]

\* What a device had is gone with it.
SysType(s) ==
  /\ s \in Systems
  /\ \A l \in s.links : l.place[1] \in s.plugged
  /\ s.partly \subseteq s.configured
  /\ \A place \in s.configured : place[1] \in s.plugged

WalkType(pc, walk) ==
  /\ walk \in Walks
  /\ pc \notin {"none", "poll", "walk"} => walk.device # NULL
  /\ pc \in {"write", "link"} => walk.todo # <<>> /\ walk.channel # NULL

WorkerType ==
  /\ worker \in Threads
  /\ worker.pc = "none" <=> worker.threads = 0
  /\ WalkType(worker.pc, Walk)

CountsType ==
  faults \in 0 .. MaxFaults /\ plugs \in 0 .. MaxPlugs /\ restarts \in 0 .. MaxRestarts

TypeInv == m \in Services /\ WorkerType /\ SysType(sys) /\ CountsType /\ task \in Tasks

LEMMA TypeInvIsTypeOK == TypeInv => TypeOK
  <1> SUFFICES ASSUME TypeInv PROVE TypeOK
    OBVIOUS
  <1>1. MldTypeOK
    BY DEF TypeInv, MldTypeOK, WorkerType, WalkType, SysType, CountsType, Walk, Services, Systems,
           Threads
  <1>2. QED
    BY <1>1 DEF TypeInv, TypeOK, Tasks

LEMMA NoWalkType == NoWalk \in Walks /\ [NoWalk EXCEPT !.unvisited = Devices] \in Walks
  <1>1. <<>> \in Seq(Entries) /\ 0 \in 0 .. MaxPlugs
    BY MldAssumption
  <1>2. QED
    BY <1>1 DEF NoWalk, Walks

LEMMA InitType == Init => TypeInv
  <1> SUFFICES ASSUME Init PROVE TypeInv
    OBVIOUS
  <1>1. worker = [threads |-> 0, pc |-> "none", walk |-> NoWalk]
    BY DEF Init, MldInit
  <1>2. WorkerType
    <2> HIDE DEF NoWalk
    <2>1. QED
      BY <1>1, NoWalkType DEF WorkerType, Threads, WalkType, Walk
  <1>3. m \in Services
    BY DEF Init, MldInit, Services
  <1>4. SysType(sys)
    BY DEF Init, MldInit, SysType, Systems
  <1>5. CountsType
    BY MldAssumption DEF Init, MldInit, CountsType
  <1>6. task \in Tasks
    BY DEF Init, Tasks, Names
  <1>7. QED
    BY <1>2, <1>3, <1>4, <1>5, <1>6 DEF TypeInv

LEMMA AtType ==
  ASSUME TypeInv, NEW pc, At(pc)
  PROVE  worker.threads = 1 /\ worker.pc = pc
  BY DEF TypeInv, WorkerType, Threads, At

LEMMA GoType ==
  ASSUME TypeInv, worker.threads = 1, NEW pc \in AtDevice \cup {"poll", "walk"}, NEW walk,
         WalkType(pc, walk), Go(pc, walk)
  PROVE  /\ WorkerType'
         /\ worker'.walk = walk /\ worker'.pc = pc /\ worker'.threads = 1
  <1>1. worker' = [worker EXCEPT !.pc = pc, !.walk = walk] /\ worker \in Threads
    BY DEF Go, TypeInv, WorkerType
  <1>2. worker'.walk = walk /\ worker'.pc = pc /\ worker'.threads = 1 /\ worker' \in Threads
    BY <1>1 DEF Threads, WalkType, AtDevice
  <1>3. QED
    BY <1>2 DEF WorkerType, AtDevice, Walk

\* Places that the walk may be at.
LEMMA PlaceType ==
  ASSUME TypeInv, worker.pc \in {"write", "link"}
  PROVE  /\ Place \in Places /\ Place[1] = Walk.device
         /\ Walk.todo \in Seq(Entries) /\ Walk.todo # <<>> /\ Current \in Entries
  <1>1. Walk \in Walks /\ Walk.device # NULL /\ Walk.channel # NULL /\ Walk.todo # <<>>
    BY DEF TypeInv, WorkerType, WalkType
  <1>2. Walk.device \in Devices /\ Walk.channel \in AllChannels /\ Walk.todo \in Seq(Entries)
    BY <1>1 DEF Walks
  <1>3. QED
    BY <1>1, <1>2 DEF Place, Places, Current

LEMMA PollStep ==
  ASSUME TypeInv, Poll
  PROVE  /\ WorkerType' /\ UNCHANGED <<m, sys, faults, plugs, restarts>>
         /\ worker.pc = "poll" /\ worker'.pc \in {"walk", "none"}
  <1>1. worker.threads = 1 /\ worker.pc = "poll" /\ UNCHANGED <<m, sys, faults, plugs, restarts>>
    BY AtType DEF Poll, Others
  <1>2. CASE m.allowRun
    <2> DEFINE walk == [NoWalk EXCEPT !.unvisited = Devices]
    <2>1. Go("walk", walk)
      BY <1>2 DEF Poll
    <2>2. walk \in Walks
      BY NoWalkType
    <2> HIDE DEF walk
    <2>3. WalkType("walk", walk)
      BY <2>2 DEF WalkType
    <2>4. QED
      BY <1>1, <2>1, <2>3, GoType
  <1>3. CASE ~m.allowRun
    <2>1. worker' = [worker EXCEPT !.threads = 0, !.pc = "none"] /\ worker \in Threads
      BY <1>1, <1>3 DEF Poll, TypeInv, WorkerType
    <2>2. /\ worker' \in Threads /\ worker'.pc = "none" /\ worker'.threads = 0
          /\ worker'.walk = worker.walk /\ worker.walk \in Walks
      BY <2>1 DEF Threads
    <2>3. QED
      BY <1>1, <2>2 DEF WorkerType, WalkType, Walk
  <1>4. QED
    BY <1>2, <1>3

LEMMA OpenDeviceStep ==
  ASSUME TypeInv, NEW d \in Devices, OpenDevice(d)
  PROVE  /\ WorkerType' /\ UNCHANGED <<m, sys, faults, plugs, restarts>>
         /\ worker.pc = "walk" /\ worker'.pc \in {"walk", "read"}
  <1> DEFINE walk == [Walk EXCEPT !.unvisited = @ \ {d}, !.device = d, !.opened = plugs]
             pc == IF d \in sys.plugged THEN "read" ELSE "walk"
  <1>1. worker.threads = 1 /\ worker.pc = "walk" /\ UNCHANGED <<m, sys, faults, plugs, restarts>>
    BY AtType DEF OpenDevice, Others
  <1>2. Go(pc, walk) /\ pc \in {"walk", "read"}
    BY DEF OpenDevice
  <1>3. d # NULL /\ plugs \in 0 .. MaxPlugs /\ Walk \in Walks
    BY MldAssumption DEF TypeInv, CountsType, WorkerType, WalkType
  <1>4. walk \in Walks /\ walk.device = d
    BY <1>3 DEF Walks
  <1> HIDE DEF walk, pc
  <1>5. WalkType(pc, walk) /\ pc \in AtDevice \cup {"poll", "walk"}
    BY <1>2, <1>3, <1>4 DEF WalkType, AtDevice
  <1>6. QED
    BY <1>1, <1>2, <1>5, GoType

\* What the walk knows of its device stays the same.
SameDevice ==
  UNCHANGED <<worker.walk.device, worker.walk.opened, worker.walk.intf, worker.walk.descr>>

LEMMA ReadDeviceStep ==
  ASSUME TypeInv, ReadDevice
  PROVE  /\ WorkerType' /\ UNCHANGED <<m, sys, faults, plugs, restarts>>
         /\ worker.pc = "read" /\ worker'.pc = "enter"
         /\ UNCHANGED <<worker.walk.device, worker.walk.opened>>
         /\ Present => worker'.walk.intf = Interface[Walk.device]
                       /\ worker'.walk.descr = Walk.device
  <1> DEFINE walk == IF Present
                     THEN [Walk EXCEPT !.intf = Interface[Walk.device], !.descr = Walk.device]
                     ELSE Walk
  <1>1. worker.threads = 1 /\ worker.pc = "read" /\ UNCHANGED <<m, sys, faults, plugs, restarts>>
    BY AtType DEF ReadDevice, Others
  <1>2. Go("enter", walk)
    BY DEF ReadDevice
  <1>3. Walk \in Walks /\ Walk.device # NULL
    BY <1>1 DEF TypeInv, WorkerType, WalkType
  <1>4. Walk.device \in Devices
    BY <1>3 DEF Walks
  <1>5. /\ walk \in Walks /\ walk.device = Walk.device /\ walk.opened = Walk.opened
        /\ Present => walk.intf = Interface[Walk.device] /\ walk.descr = Walk.device
    BY <1>3, <1>4 DEF Walks
  <1> HIDE DEF walk
  <1>6. WalkType("enter", walk) /\ "enter" \in AtDevice
    BY <1>3, <1>5 DEF WalkType, AtDevice
  <1>7. WorkerType' /\ worker'.walk = walk /\ worker'.pc = "enter"
    BY <1>1, <1>2, <1>6, GoType
  <1>8. QED
    BY <1>1, <1>5, <1>7 DEF Walk

LEMMA EnterDeviceStep ==
  ASSUME TypeInv, EnterDevice
  PROVE  /\ WorkerType' /\ UNCHANGED <<m, sys, faults, plugs, restarts>>
         /\ worker.pc = "enter" /\ worker'.pc = "channels" /\ SameDevice
  <1> DEFINE found == IF Present THEN Channels[Walk.device] ELSE {}
             walk == [Walk EXCEPT !.unchecked = found]
  <1>1. worker.threads = 1 /\ worker.pc = "enter" /\ UNCHANGED <<m, sys, faults, plugs, restarts>>
    BY AtType DEF EnterDevice, Others
  <1>2. Go("channels", walk)
    BY DEF EnterDevice
  <1>3. Walk \in Walks /\ Walk.device # NULL
    BY <1>1 DEF TypeInv, WorkerType, WalkType
  <1>4. found \in SUBSET AllChannels
    BY <1>3 DEF Walks, AllChannels
  <1> HIDE DEF found
  <1>5. /\ walk \in Walks /\ walk.device = Walk.device /\ walk.opened = Walk.opened
        /\ walk.intf = Walk.intf /\ walk.descr = Walk.descr
    BY <1>3, <1>4 DEF Walks
  <1> HIDE DEF walk
  <1>6. WalkType("channels", walk) /\ "channels" \in AtDevice
    BY <1>3, <1>5 DEF WalkType, AtDevice
  <1>7. WorkerType' /\ worker'.walk = walk /\ worker'.pc = "channels"
    BY <1>1, <1>2, <1>6, GoType
  <1>8. QED
    BY <1>1, <1>5, <1>7 DEF Walk, SameDevice

LEMMA CloseDeviceStep ==
  ASSUME TypeInv, CloseDevice
  PROVE  /\ WorkerType' /\ UNCHANGED <<m, sys, faults, plugs, restarts>>
         /\ worker.pc = "channels" /\ worker'.pc = "walk"
  <1>1. worker.threads = 1 /\ worker.pc = "channels" /\ UNCHANGED <<m, sys, faults, plugs, restarts>>
    BY AtType DEF CloseDevice, Others
  <1>2. Go("walk", Walk) /\ WalkType("walk", Walk)
    BY DEF CloseDevice, TypeInv, WorkerType, WalkType
  <1>3. QED
    BY <1>1, <1>2, GoType

LEMMA CheckStep ==
  ASSUME TypeInv, NEW c \in AllChannels, CheckDriverSettings(c)
  PROVE  /\ WorkerType' /\ UNCHANGED <<m, sys, faults, plugs, restarts>>
         /\ worker.pc = "channels" /\ worker'.pc \in {"channels", "write"} /\ SameDevice
         /\ worker'.pc = "write" =>
              /\ worker'.walk.channel = c /\ worker'.walk.todo = DriversFor(c)
              /\ DriversFor(c) # <<>> /\ ~Filtered /\ Present
              /\ <<Walk.device, c>> \notin sys.configured
  <1> DEFINE none == Filtered \/ ~Present \/ <<Walk.device, c>> \in sys.configured
             todo == IF none THEN <<>> ELSE DriversFor(c)
             pc == IF todo = <<>> THEN "channels" ELSE "write"
             walk == [Walk EXCEPT !.unchecked = @ \ {c}, !.channel = c, !.todo = todo]
  <1>1. worker.threads = 1 /\ worker.pc = "channels" /\ UNCHANGED <<m, sys, faults, plugs, restarts>>
    BY AtType DEF CheckDriverSettings, Others
  <1>2. Go(pc, walk)
    BY DEF CheckDriverSettings
  <1>3. Walk \in Walks /\ Walk.device # NULL /\ c # NULL
    BY <1>1, MldAssumption DEF TypeInv, WorkerType, WalkType
  <1>4. todo \in Seq(Entries)
    <2>1. <<>> \in Seq(Entries)
      OBVIOUS
    <2>2. QED
      BY <2>1, DriversForIsSeq
  <1>5. pc \in {"channels", "write"} /\ (pc = "write" => ~none /\ todo = DriversFor(c) /\ todo # <<>>)
    OBVIOUS
  <1> HIDE DEF todo, pc
  <1>6. /\ walk \in Walks /\ walk.device = Walk.device /\ walk.opened = Walk.opened
        /\ walk.intf = Walk.intf /\ walk.descr = Walk.descr
        /\ walk.channel = c /\ walk.todo = todo
    BY <1>3, <1>4 DEF Walks
  <1> HIDE DEF walk
  <1>7. WalkType(pc, walk) /\ pc \in AtDevice
    BY <1>3, <1>5, <1>6 DEF WalkType, AtDevice
  <1>8. WorkerType' /\ worker'.walk = walk /\ worker'.pc = pc
    BY <1>1, <1>2, <1>7, GoType
  <1>9. SameDevice
    BY <1>6, <1>8 DEF SameDevice, Walk
  <1> HIDE DEF none
  <1>10. worker'.pc = "write" =>
           /\ worker'.walk.channel = c /\ worker'.walk.todo = DriversFor(c)
           /\ DriversFor(c) # <<>> /\ ~none
    BY <1>5, <1>6, <1>8
  <1>11. QED
    BY <1>1, <1>5, <1>8, <1>9, <1>10 DEF none

\* The first driver, and those that are left.
LEMMA TailOfSeq ==
  ASSUME NEW S, NEW q \in Seq(S), q # <<>>
  PROVE  /\ Tail(q) \in Seq(S)
         /\ Len(q) = 1 => Tail(q) = <<>>
         /\ Len(q) # 1 => Tail(q) # <<>>
         /\ ToSet(q) = {Head(q)} \cup ToSet(Tail(q))
  <1> DEFINE t == Tail(q)
  <1>1. t \in Seq(S) /\ Len(t) = Len(q) - 1 /\ \A i \in 1 .. Len(t) : t[i] = q[i + 1]
    BY HeadTailProperties
  <1>2. Len(q) \in Nat \ {0} /\ DOMAIN q = 1 .. Len(q) /\ Head(q) = q[1]
    BY EmptySeq, LenProperties
  <1>3. Len(t) \in Nat /\ DOMAIN t = 1 .. Len(t) /\ Len(<<>>) = 0 /\ (t # <<>> => Len(t) # 0)
    BY <1>1, EmptySeq, LenProperties
  <1> HIDE DEF t
  <1>4. (Len(q) = 1 => t = <<>>) /\ (Len(q) # 1 => t # <<>>)
    BY <1>1, <1>2, <1>3
  <1>5. ASSUME NEW i \in DOMAIN q PROVE q[i] \in {q[1]} \cup {t[k] : k \in DOMAIN t}
    <2>1. i = 1 \/ (i - 1 \in DOMAIN t /\ t[i - 1] = q[i])
      BY <1>1, <1>2, <1>3
    <2>2. QED
      BY <2>1
  <1>6. q[1] \in ToSet(q) /\ \A i \in DOMAIN t : t[i] \in ToSet(q)
    <2>1. 1 \in DOMAIN q /\ \A i \in DOMAIN t : i + 1 \in DOMAIN q /\ q[i + 1] = t[i]
      BY <1>1, <1>2, <1>3
    <2>2. QED
      BY <2>1 DEF ToSet
  <1>7. ToSet(q) = {q[1]} \cup ToSet(t)
    BY <1>5, <1>6 DEF ToSet
  <1>8. QED
    BY <1>1, <1>2, <1>4, <1>7 DEF t

\* The next driver of the channel, or the next channel.
Advance ==
  /\ WorkerType' /\ SameDevice /\ worker'.walk.channel = Walk.channel
  /\ worker'.pc \in {"channels", "write"} /\ worker'.walk.todo = Tail(Walk.todo)
  /\ worker'.pc = "channels" => Tail(Walk.todo) = <<>>

LEMMA NextDriverStep ==
  ASSUME TypeInv, worker.pc \in {"write", "link"}, worker.threads = 1, NextDriver
  PROVE  Advance
  <1> DEFINE todo == Tail(Walk.todo)
             walk == [Walk EXCEPT !.todo = todo]
             pc == IF Len(Walk.todo) = 1 THEN "channels" ELSE "write"
  <1>1. Go(pc, walk)
    BY DEF NextDriver
  <1>2. Walk \in Walks /\ Walk.device # NULL /\ Walk.channel # NULL
    BY DEF TypeInv, WorkerType, WalkType
  <1>3. Walk.todo \in Seq(Entries) /\ Walk.todo # <<>>
    BY PlaceType
  <1>4. todo \in Seq(Entries) /\ pc \in {"channels", "write"}
        /\ (pc = "channels" => todo = <<>>) /\ (pc = "write" => todo # <<>>)
    BY <1>3, TailOfSeq, Zenon
  <1> HIDE DEF todo, pc
  <1>5. /\ walk \in Walks /\ walk.device = Walk.device /\ walk.opened = Walk.opened
        /\ walk.intf = Walk.intf /\ walk.descr = Walk.descr
        /\ walk.channel = Walk.channel /\ walk.todo = todo
    BY <1>2, <1>4 DEF Walks
  <1> HIDE DEF walk
  <1>6. WalkType(pc, walk) /\ pc \in AtDevice
    BY <1>2, <1>4, <1>5 DEF WalkType, AtDevice
  <1>7. WorkerType' /\ worker'.walk = walk /\ worker'.pc = pc
    BY <1>1, <1>6, GoType
  <1>8. QED
    BY <1>4, <1>5, <1>7 DEF Advance, SameDevice, Walk, todo

LEMMA FaultType ==
  ASSUME TypeInv, Fault \/ UNCHANGED faults, UNCHANGED <<plugs, restarts>>
  PROVE  CountsType' /\ (Fault => faults' # 0)
  BY MldAssumption DEF TypeInv, CountsType, Fault

LEMMA SkipStep ==
  ASSUME TypeInv, Skip
  PROVE  /\ Advance /\ UNCHANGED <<m, sys, plugs, restarts>> /\ CountsType'
         /\ worker.pc = "write"
         /\ faults' = 0 => faults = 0 /\ ~(Present /\ Current.valid)
  <1>1. worker.threads = 1 /\ worker.pc = "write" /\ NextDriver /\ UNCHANGED <<m, sys, plugs, restarts>>
    BY AtType DEF Skip
  <1>2. IF Present /\ Current.valid THEN Fault ELSE UNCHANGED faults
    BY DEF Skip
  <1>3. QED
    BY <1>1, <1>2, NextDriverStep, FaultType

\* The files of a place.
LEMMA WrittenType ==
  ASSUME TypeInv, worker.pc \in {"write", "link"}, Present, NEW complete \in BOOLEAN
  PROVE  /\ SysType(Written(complete))
         /\ Written(complete).configured = sys.configured \cup {Place}
         /\ Written(complete).links = sys.links /\ Written(complete).plugged = sys.plugged
         /\ Written(complete).card = sys.card
  <1>1. Place \in Places /\ Place[1] \in sys.plugged
    BY PlaceType DEF Present
  <1>2. sys \in Systems /\ SysType(sys)
    BY DEF TypeInv, SysType
  <1>3. /\ Written(complete) \in Systems
        /\ Written(complete).configured = sys.configured \cup {Place}
        /\ Written(complete).partly \subseteq sys.partly \cup {Place}
        /\ Written(complete).links = sys.links /\ Written(complete).plugged = sys.plugged
        /\ Written(complete).card = sys.card
    <2> DEFINE configured == sys.configured \cup {Place}
               partly == IF complete THEN sys.partly \ {Place} ELSE sys.partly \cup {Place}
    <2>1. /\ configured \in SUBSET Places /\ partly \in SUBSET Places
          /\ partly \subseteq sys.partly \cup {Place}
      BY <1>1, <1>2 DEF Systems
    <2>2. Written(complete) = [sys EXCEPT !.configured = configured, !.partly = partly]
      BY DEF Written
    <2>3. configured = sys.configured \cup {Place}
      OBVIOUS
    <2> HIDE DEF configured, partly
    <2>4. ASSUME NEW t, t = [sys EXCEPT !.configured = configured, !.partly = partly]
          PROVE  /\ t \in Systems /\ t.configured = configured /\ t.partly = partly
                 /\ t.links = sys.links /\ t.plugged = sys.plugged /\ t.card = sys.card
      BY <1>2, <2>1, <2>4 DEF Systems
    <2>5. QED
      BY <2>1, <2>2, <2>3, <2>4
  <1>4. QED
    BY <1>1, <1>2, <1>3 DEF SysType

LEMMA LinkOfType ==
  ASSUME TypeInv, worker.pc \in {"write", "link"}, NEW complete \in BOOLEAN
  PROVE  /\ LinkOf(complete) \in Links
         /\ LinkOf(complete).place = Place /\ LinkOf(complete).driver = Current
         /\ LinkOf(complete).sure = (plugs < Walk.opened + 2)
  <1> DEFINE place == Place
             driver == Current
             sure == plugs < Walk.opened + 2
  <1>1. place \in Places /\ driver \in Entries /\ sure \in BOOLEAN
    BY PlaceType
  <1>2. LinkOf(complete) = [place |-> place, driver |-> driver, complete |-> complete, sure |-> sure]
    BY DEF LinkOf
  <1> HIDE DEF place, driver, sure
  <1>3. /\ LinkOf(complete) \in Links
        /\ LinkOf(complete).place = place /\ LinkOf(complete).driver = driver
        /\ LinkOf(complete).sure = sure
    BY <1>1, <1>2 DEF Links
  <1>4. QED
    BY <1>3 DEF place, driver, sure

LEMMA AddLinkType ==
  ASSUME NEW s, SysType(s), NEW l \in Links, l.place[1] \in s.plugged,
         NEW t, t = [s EXCEPT !.links = @ \cup {l}]
  PROVE  /\ SysType(t) /\ t.links = s.links \cup {l}
         /\ t.configured = s.configured /\ t.plugged = s.plugged /\ t.card = s.card
  <1>1. /\ t \in Systems /\ t.links = s.links \cup {l} /\ t.partly = s.partly
        /\ t.configured = s.configured /\ t.plugged = s.plugged /\ t.card = s.card
    BY DEF SysType, Systems
  <1>2. QED
    BY <1>1 DEF SysType

LEMMA ConfigureStep ==
  ASSUME TypeInv, NEW complete \in BOOLEAN, Configure(complete)
  PROVE  /\ WorkerType' /\ SameDevice /\ UNCHANGED <<m, plugs, restarts>> /\ CountsType'
         /\ worker'.walk.channel = Walk.channel /\ m.version = 1
         /\ worker.pc = "write" /\ Present /\ Current.valid
         /\ SysType(sys') /\ sys'.configured = sys.configured \cup {Place}
         /\ sys'.links = sys.links /\ sys'.plugged = sys.plugged /\ sys'.card = sys.card
         /\ Advance \/ (worker'.pc = "link" /\ worker'.walk.todo = Walk.todo)
         /\ faults' = 0 => faults = 0 /\ worker'.pc = "link"
  <1>1. /\ worker.threads = 1 /\ worker.pc = "write" /\ UNCHANGED <<m, plugs, restarts>>
        /\ m.version = 1 /\ Present /\ Current.valid /\ sys' = Written(complete)
        /\ IF complete THEN Go("link", Walk) /\ UNCHANGED faults ELSE NextDriver /\ Fault
    BY AtType DEF Configure
  <1>2. /\ SysType(sys') /\ sys'.configured = sys.configured \cup {Place}
        /\ sys'.links = sys.links /\ sys'.plugged = sys.plugged /\ sys'.card = sys.card
    BY <1>1, WrittenType
  <1>3. CASE complete
    <2>1. WalkType("link", Walk) /\ Go("link", Walk) /\ "link" \in AtDevice
      BY <1>1, <1>3 DEF TypeInv, WorkerType, WalkType, AtDevice
    <2>2. WorkerType' /\ worker'.walk = Walk /\ worker'.pc = "link"
      BY <1>1, <2>1, GoType
    <2>3. QED
      BY <1>1, <1>2, <1>3, <2>2, FaultType DEF SameDevice, Walk
  <1>4. CASE ~complete
    <2>1. Advance /\ CountsType' /\ faults' # 0
      BY <1>1, <1>4, NextDriverStep, FaultType
    <2>2. QED
      BY <1>1, <1>2, <2>1 DEF Advance
  <1>5. QED
    BY <1>3, <1>4

\* A link is made, or not.
LinkMade ==
  /\ sys'.plugged = sys.plugged /\ sys'.card = sys.card
  /\ \E l \in Links : /\ sys'.links = sys.links \cup {l}
                      /\ l.place = Place /\ l.driver = Current
                      /\ l.sure = (plugs < Walk.opened + 2)

LEMMA LinkStep ==
  ASSUME TypeInv, Link
  PROVE  /\ Advance /\ UNCHANGED <<m, plugs, restarts>> /\ CountsType'
         /\ worker.pc = "link" /\ SysType(sys')
         /\ \/ Present /\ LinkMade /\ UNCHANGED <<faults, sys.configured>>
            \/ UNCHANGED sys /\ (faults' = 0 => faults = 0 /\ ~Present)
  <1> DEFINE complete == Place \in sys.configured \ sys.partly
  <1>1. worker.threads = 1 /\ worker.pc = "link" /\ NextDriver /\ UNCHANGED <<m, plugs, restarts>>
    BY AtType DEF Link
  <1>2. Advance
    BY <1>1, NextDriverStep
  <1>3. CASE Present /\ sys' = [sys EXCEPT !.links = @ \cup {LinkOf(complete)}] /\ UNCHANGED faults
    <2> DEFINE l == LinkOf(complete)
    <2>1. /\ l \in Links /\ l.place = Place /\ l.driver = Current
          /\ l.sure = (plugs < Walk.opened + 2)
      <3>1. complete \in BOOLEAN
        OBVIOUS
      <3> HIDE DEF complete
      <3>2. QED
        BY <1>1, <3>1, LinkOfType
    <2>2. SysType(sys) /\ l.place[1] \in sys.plugged /\ sys' = [sys EXCEPT !.links = @ \cup {l}]
      BY <1>1, <1>3, <2>1, PlaceType DEF TypeInv, Present
    <2> HIDE DEF l
    <2>3. /\ SysType(sys') /\ sys'.links = sys.links \cup {l} /\ sys'.configured = sys.configured
          /\ sys'.plugged = sys.plugged /\ sys'.card = sys.card
      BY <2>1, <2>2, AddLinkType
    <2>4. LinkMade
      BY <2>1, <2>3 DEF LinkMade
    <2>5. QED
      BY <1>1, <1>2, <1>3, <2>3, <2>4, FaultType
  <1>4. CASE UNCHANGED sys /\ IF Present THEN Fault ELSE UNCHANGED faults
    <2>1. SysType(sys')
      BY <1>4 DEF TypeInv
    <2>2. QED
      BY <1>1, <1>2, <1>4, <2>1, FaultType
  <1>5. QED
    BY <1>3, <1>4 DEF Link

LEMMA CreateLinkStep ==
  ASSUME TypeInv, NEW complete \in BOOLEAN, CreateLink(complete)
  PROVE  /\ Advance /\ UNCHANGED <<plugs, restarts>> /\ CountsType'
         /\ worker.pc = "write" /\ Present /\ Current.valid
         /\ SysType(sys') /\ sys'.configured = sys.configured \cup {Place} /\ LinkMade
         /\ m' \in Services /\ UNCHANGED <<m.version, m.started, m.filter>>
         /\ faults' = 0 =>
              /\ faults = 0
              /\ m'.createAlsaCard = (m.createAlsaCard \/ Current.kind = "Alsa")
  <1>1. /\ worker.threads = 1 /\ worker.pc = "write" /\ NextDriver /\ UNCHANGED <<plugs, restarts>>
        /\ Present /\ Current.valid
        /\ sys' = [Written(complete) EXCEPT !.links = @ \cup {LinkOf(complete)}]
        /\ m' = [m EXCEPT !.createAlsaCard = @ \/ (Current.kind = "Alsa" /\ complete)]
        /\ IF complete THEN UNCHANGED faults ELSE Fault
    BY AtType DEF CreateLink
  <1>2. Advance /\ CountsType' /\ (faults' = 0 => complete /\ faults = 0)
    BY <1>1, NextDriverStep, FaultType
  <1>3. /\ SysType(sys') /\ sys'.configured = sys.configured \cup {Place} /\ LinkMade
    <2> DEFINE l == LinkOf(complete)
               s == Written(complete)
    <2>1. /\ l \in Links /\ l.place = Place /\ l.driver = Current
          /\ l.sure = (plugs < Walk.opened + 2)
      BY <1>1, LinkOfType
    <2>2. /\ SysType(s) /\ s.configured = sys.configured \cup {Place}
          /\ s.links = sys.links /\ s.plugged = sys.plugged /\ s.card = sys.card
      BY <1>1, WrittenType
    <2>3. l.place[1] \in s.plugged /\ sys' = [s EXCEPT !.links = @ \cup {l}]
      BY <1>1, <2>1, <2>2, PlaceType DEF Present
    <2> HIDE DEF l, s
    <2>4. /\ SysType(sys') /\ sys'.links = s.links \cup {l} /\ sys'.configured = s.configured
          /\ sys'.plugged = s.plugged /\ sys'.card = s.card
      BY <2>1, <2>2, <2>3, AddLinkType
    <2>5. QED
      BY <2>1, <2>2, <2>4 DEF LinkMade
  <1>4. /\ m' \in Services /\ UNCHANGED <<m.version, m.started, m.filter>>
        /\ complete => m'.createAlsaCard = (m.createAlsaCard \/ Current.kind = "Alsa")
    BY <1>1 DEF TypeInv, Services
  <1>5. QED
    BY <1>1, <1>2, <1>3, <1>4

LEMMA EndWalkStep ==
  ASSUME TypeInv, EndWalk
  PROVE  /\ WorkerType' /\ UNCHANGED <<plugs, restarts>> /\ CountsType'
         /\ worker.pc = "walk" /\ worker'.pc = "poll"
         /\ m' \in Services /\ UNCHANGED <<m.version, m.started, m.filter>>
         /\ SysType(sys') /\ UNCHANGED <<sys.plugged, sys.configured, sys.links>>
         /\ faults' = 0 => faults = 0 /\ sys'.card = (sys.card \/ m.createAlsaCard)
  <1>1. /\ worker.threads = 1 /\ worker.pc = "walk" /\ UNCHANGED <<plugs, restarts>>
        /\ Go("poll", NoWalk) /\ m' = [m EXCEPT !.createAlsaCard = FALSE]
        /\ \/ sys' = [sys EXCEPT !.card = @ \/ m.createAlsaCard] /\ UNCHANGED faults
           \/ Fault /\ UNCHANGED sys
    BY AtType DEF EndWalk
  <1>2. WorkerType' /\ worker'.pc = "poll"
    <2>1. WalkType("poll", NoWalk)
      BY NoWalkType DEF WalkType
    <2> HIDE DEF NoWalk
    <2>2. QED
      BY <1>1, <2>1, GoType
  <1>3. m' \in Services /\ UNCHANGED <<m.version, m.started, m.filter>> /\ m.createAlsaCard \in BOOLEAN
    BY <1>1 DEF TypeInv, Services
  <1>4. CountsType' /\ (Fault => faults' # 0)
    BY <1>1, FaultType
  <1>5. CASE Fault /\ UNCHANGED sys
    BY <1>1, <1>2, <1>3, <1>4, <1>5 DEF TypeInv
  <1>6. CASE sys' = [sys EXCEPT !.card = @ \/ m.createAlsaCard] /\ UNCHANGED faults
    <2>1. /\ sys' \in Systems /\ UNCHANGED <<sys.plugged, sys.configured, sys.links, sys.partly>>
          /\ sys'.card = (sys.card \/ m.createAlsaCard)
      BY <1>3, <1>6 DEF TypeInv, SysType, Systems
    <2>2. SysType(sys')
      BY <2>1 DEF TypeInv, SysType
    <2>3. QED
      BY <1>1, <1>2, <1>3, <1>4, <1>6, <2>1, <2>2
  <1>7. QED
    BY <1>1, <1>5, <1>6

LEMMA PlugStep ==
  ASSUME TypeInv, NEW d \in Devices, Plug(d)
  PROVE  /\ UNCHANGED <<m, worker, faults, restarts>> /\ plugs' = plugs + 1 /\ CountsType'
         /\ SysType(sys') /\ sys'.plugged = sys.plugged \cup {d}
         /\ UNCHANGED <<sys.configured, sys.links, sys.card>>
  <1>1. /\ UNCHANGED <<m, worker, faults, restarts>> /\ plugs' = plugs + 1 /\ plugs < MaxPlugs
        /\ sys' = [sys EXCEPT !.plugged = @ \cup {d}]
    BY DEF Plug
  <1>2. CountsType'
    BY <1>1, MldAssumption DEF TypeInv, CountsType
  <1>3. /\ sys' \in Systems /\ sys'.plugged = sys.plugged \cup {d}
        /\ UNCHANGED <<sys.configured, sys.links, sys.partly, sys.card>>
    BY <1>1 DEF TypeInv, SysType, Systems
  <1>4. SysType(sys')
    BY <1>3 DEF TypeInv, SysType
  <1>5. QED
    BY <1>1, <1>2, <1>3, <1>4

LEMMA UnplugStep ==
  ASSUME TypeInv, NEW d \in Devices, Unplug(d)
  PROVE  /\ UNCHANGED <<m, worker, faults, restarts>> /\ plugs' = plugs + 1 /\ CountsType'
         /\ SysType(sys') /\ sys'.plugged = sys.plugged \ {d}
         /\ sys'.configured = {p \in sys.configured : p[1] # d}
         /\ sys'.links = {l \in sys.links : l.place[1] # d} /\ sys'.card = sys.card
  <1> DEFINE configured == {p \in sys.configured : p[1] # d}
             partly == {p \in sys.partly : p[1] # d}
             links == {l \in sys.links : l.place[1] # d}
  <1>1. /\ UNCHANGED <<m, worker, faults, restarts>> /\ plugs' = plugs + 1 /\ plugs < MaxPlugs
        /\ sys' = [sys EXCEPT !.plugged = @ \ {d}, !.configured = configured, !.partly = partly,
                              !.links = links]
    BY DEF Unplug
  <1>2. CountsType'
    BY <1>1, MldAssumption DEF TypeInv, CountsType
  <1>3. /\ configured \in SUBSET Places /\ partly \in SUBSET Places /\ links \in SUBSET Links
        /\ sys \in Systems
    BY DEF TypeInv, SysType, Systems
  <1>4. /\ partly \subseteq configured
        /\ \A p \in configured : p[1] \in sys.plugged \ {d}
        /\ \A l \in links : l.place[1] \in sys.plugged \ {d}
    BY DEF TypeInv, SysType
  <1> HIDE DEF configured, partly, links
  <1>5. /\ sys' \in Systems /\ sys'.plugged = sys.plugged \ {d} /\ sys'.configured = configured
        /\ sys'.partly = partly /\ sys'.links = links /\ sys'.card = sys.card
    BY <1>1, <1>3 DEF Systems
  <1>6. SysType(sys')
    BY <1>4, <1>5 DEF SysType
  <1>7. QED
    BY <1>1, <1>2, <1>5, <1>6 DEF configured, links

\* A service that is not started has no thread: Start adds the only one.
LEMMA StartStep ==
  ASSUME TypeInv, ThreadInv, NEW filter \in Filters, NEW success \in BOOLEAN,
         Start(filter, success)
  PROVE  /\ WorkerType' /\ UNCHANGED <<sys, plugs, restarts, m.version, m.createAlsaCard>>
         /\ m' \in Services /\ CountsType' /\ worker.pc = "none"
         /\ worker'.pc \in {"none", "poll"} /\ (faults' = 0 => faults = 0)
         /\ worker'.walk = Walk
  <1>1. /\ ~m.started /\ worker.threads = 0 /\ worker.pc = "none"
        /\ UNCHANGED <<sys, plugs, restarts>>
        /\ m' = [m EXCEPT !.filter = @ \/ filter, !.allowRun = TRUE, !.started = success]
    BY DEF Start, ThreadInv
  <1>2. filter \in BOOLEAN /\ m \in Services /\ worker \in Threads
    BY MldAssumption DEF TypeInv, WorkerType
  <1>3. m' \in Services /\ UNCHANGED <<m.version, m.createAlsaCard>>
    BY <1>1, <1>2 DEF Services
  <1>4. CASE success
    <2>1. worker' = [worker EXCEPT !.threads = 1, !.pc = "poll"] /\ UNCHANGED faults
      BY <1>1, <1>4 DEF Start
    <2>2. /\ worker' \in Threads /\ worker'.pc = "poll" /\ worker'.threads = 1
          /\ worker'.walk = Walk
      BY <1>2, <2>1 DEF Threads, Walk
    <2>3. WorkerType'
      BY <2>2 DEF TypeInv, WorkerType, WalkType, Walk
    <2>4. QED
      BY <1>1, <1>3, <2>1, <2>2, <2>3 DEF TypeInv, CountsType
  <1>5. CASE ~success
    <2>1. Fault /\ UNCHANGED worker
      BY <1>5 DEF Start, Fault
    <2>2. CountsType' /\ faults' # 0
      BY <1>1, <2>1, FaultType
    <2>3. QED
      BY <1>1, <1>3, <2>1, <2>2 DEF TypeInv, WorkerType, WalkType, Walk
  <1>6. QED
    BY <1>4, <1>5

LEMMA StopStep ==
  ASSUME TypeInv, Stop \/ EndStop
  PROVE  /\ UNCHANGED <<worker, sys, faults, plugs, m.version, m.filter, m.createAlsaCard>>
         /\ m' \in Services /\ CountsType' /\ restarts <= restarts'
  <1>1. UNCHANGED <<worker, sys, faults, plugs>>
    BY DEF Stop, EndStop
  <1>2. /\ m' = [m EXCEPT !.allowRun = FALSE] \/ m' = [m EXCEPT !.started = FALSE]
        /\ m \in Services
    BY DEF Stop, EndStop, TypeInv
  <1>3. m' \in Services /\ UNCHANGED <<m.version, m.filter, m.createAlsaCard>>
    BY <1>2 DEF Services
  <1>4. CountsType' /\ restarts <= restarts'
    BY MldAssumption DEF Stop, EndStop, TypeInv, CountsType
  <1>5. QED
    BY <1>1, <1>3, <1>4

LEMMA ExitStep ==
  ASSUME TypeInv, Exit
  PROVE  /\ WorkerType' /\ UNCHANGED <<sys, faults, plugs, restarts, m.version>> /\ m' \in Services
         /\ worker'.pc = "none" /\ worker'.threads = 0 /\ task'.pc = "ended" /\ task' \in Tasks
         /\ ~m'.started
  <1>1. /\ UNCHANGED <<sys, faults, plugs, restarts>> /\ task' = [task EXCEPT !.pc = "ended"]
        /\ m' = [m EXCEPT !.started = FALSE, !.allowRun = FALSE, !.createAlsaCard = FALSE]
        /\ worker' = [threads |-> 0, pc |-> "none", walk |-> NoWalk]
        /\ m \in Services /\ task \in Tasks
    BY DEF Exit, TypeInv
  <1>2. m' \in Services /\ ~m'.started /\ m'.version = m.version
    BY <1>1 DEF Services
  <1>3. task' \in Tasks /\ task'.pc = "ended"
    BY <1>1 DEF Tasks
  <1>4. WorkerType' /\ worker'.pc = "none" /\ worker'.threads = 0
    <2> HIDE DEF NoWalk
    <2>1. QED
      BY <1>1, NoWalkType DEF WorkerType, Threads, WalkType, Walk
  <1>5. QED
    BY <1>1, <1>2, <1>3, <1>4

\* The steps of the daemon alone.
TaskStep ==
  \/ \E file, drv \in BOOLEAN, given \in 0 .. 2 : ParseCommandLine(file, drv, given)
  \/ InvalidParameter \/ InitFails \/ NoDriver \/ WaitForControl
  \/ \E success \in BOOLEAN : InitializeCdevs(success)

LEMMA TaskStepType ==
  ASSUME TypeInv, TaskStep
  PROVE  /\ UNCHANGED mldVars /\ task' \in Tasks /\ task.pc # "ended" /\ task'.pc # "ended"
         /\ task'.pc \in {"parse", "init"} => task.pc \in {"parse", "init"}
  <1>1. task \in Tasks
    BY DEF TypeInv
  <1>2. ASSUME NEW file \in BOOLEAN, NEW drv \in BOOLEAN, NEW given \in 0 .. 2,
               ParseCommandLine(file, drv, given)
        PROVE  /\ UNCHANGED mldVars /\ task' \in Tasks /\ task.pc # "ended" /\ task'.pc # "ended"
               /\ task.pc \in {"parse", "init"}
    <2> DEFINE names == CASE given = 2 -> "given"
                          [] given < 2 /\ ~drv -> "default"
                          [] OTHER -> NULL
               pc == IF drv /\ ~file THEN "failed" ELSE "init"
    <2>1. names \in Names /\ pc \in {"failed", "init"}
      BY DEF Names
    <2>2. task.pc = "parse" /\ UNCHANGED mldVars
          /\ task' = [pc |-> pc, drv |-> drv, given |-> given, names |-> names]
      BY <1>2 DEF ParseCommandLine
    <2> HIDE DEF names, pc
    <2>3. QED
      BY <1>2, <2>1, <2>2 DEF Tasks
  <1>3. CASE InvalidParameter \/ InitFails
    BY <1>1, <1>3 DEF InvalidParameter, InitFails, Tasks
  <1>4. CASE NoDriver
    BY <1>1, <1>4 DEF NoDriver, Tasks
  <1>5. CASE WaitForControl
    <2>1. task' = [task EXCEPT !.pc = "config", !.names = "linked"] /\ task.pc = "wait"
          /\ UNCHANGED mldVars
      BY <1>5 DEF WaitForControl
    <2>2. QED
      BY <1>1, <2>1 DEF Tasks, Names
  <1>6. ASSUME NEW success \in BOOLEAN, InitializeCdevs(success)
        PROVE  /\ UNCHANGED mldVars /\ task' \in Tasks /\ task.pc # "ended"
               /\ task'.pc \in {"running", "failed"}
    BY <1>1, <1>6 DEF InitializeCdevs, Tasks
  <1>7. QED
    BY <1>2, <1>3, <1>4, <1>5, <1>6 DEF TaskStep

LEMMA StartDriverStep ==
  ASSUME TypeInv, NEW filter \in Filters, NEW success \in BOOLEAN, StartDriver(filter, success)
  PROVE  /\ task.pc = "init" /\ task' \in Tasks /\ task'.pc \in {"failed", "wait", "config"}
  <1> DEFINE pc == CASE ~success -> "failed" [] task.given = 0 -> "wait" [] OTHER -> "config"
  <1>1. task.pc = "init" /\ task' = [task EXCEPT !.pc = pc] /\ task \in Tasks
    BY DEF StartDriver, TypeInv
  <1>2. pc \in {"failed", "wait", "config"}
    OBVIOUS
  <1> HIDE DEF pc
  <1>3. QED
    BY <1>1, <1>2 DEF Tasks

LEMMA WorkerTypeInv ==
  ASSUME TypeInv, Worker, UNCHANGED task
  PROVE  TypeInv'
  <1> USE DEF TypeInv, CountsType
  <1>1. CASE Poll
    BY <1>1, PollStep
  <1>2. ASSUME NEW d \in Devices, OpenDevice(d) PROVE TypeInv'
    BY <1>2, OpenDeviceStep
  <1>3. CASE ReadDevice
    BY <1>3, ReadDeviceStep
  <1>4. CASE EnterDevice
    BY <1>4, EnterDeviceStep
  <1>5. ASSUME NEW c \in AllChannels, CheckDriverSettings(c) PROVE TypeInv'
    BY <1>5, CheckStep
  <1>6. CASE CloseDevice
    BY <1>6, CloseDeviceStep
  <1>7. CASE Skip
    BY <1>7, SkipStep DEF Advance
  <1>8. CASE Link
    BY <1>8, LinkStep DEF Advance
  <1>9. ASSUME NEW complete \in BOOLEAN, Configure(complete) PROVE TypeInv'
    BY <1>9, ConfigureStep
  <1>10. ASSUME NEW complete \in BOOLEAN, CreateLink(complete) PROVE TypeInv'
    BY <1>10, CreateLinkStep DEF Advance
  <1>11. CASE EndWalk
    BY <1>11, EndWalkStep
  <1>12. QED
    BY <1>1, <1>2, <1>3, <1>4, <1>5, <1>6, <1>7, <1>8, <1>9, <1>10, <1>11 DEF Worker

LEMMA SameWorkerType ==
  ASSUME TypeInv, UNCHANGED worker
  PROVE  WorkerType'
  BY DEF TypeInv, WorkerType, WalkType, Walk

\* The steps of the daemon, of the service and of the devices.
LEMMA NextCases ==
  ASSUME [Next]_vars
  PROVE  \/ TaskStep \/ UNCHANGED vars \/ Exit
         \/ \E filter \in Filters, success \in BOOLEAN :
              \/ StartDriver(filter, success)
              \/ task.pc = "running" /\ restarts > 0 /\ Start(filter, success) /\ UNCHANGED task
         \/ task.pc = "running" /\ (Stop \/ EndStop) /\ UNCHANGED task
         \/ Worker /\ UNCHANGED task
         \/ \E d \in Devices : (Plug(d) \/ Unplug(d)) /\ UNCHANGED task
  BY DEF Next, Main, Restart, TaskStep, Hotplug

LEMMA NextType == TypeInv /\ ThreadInv /\ [Next]_vars => TypeInv'
  <1> SUFFICES ASSUME TypeInv, ThreadInv, [Next]_vars PROVE TypeInv'
    OBVIOUS
  <1>1. ASSUME UNCHANGED mldVars, task' \in Tasks PROVE TypeInv'
    BY <1>1, SameWorkerType DEF mldVars, TypeInv, CountsType
  <1>2. CASE TaskStep
    BY <1>1, <1>2, TaskStepType
  <1>3. CASE UNCHANGED vars
    BY <1>1, <1>3 DEF vars, TypeInv
  <1>4. CASE Exit
    BY <1>4, ExitStep DEF TypeInv, CountsType
  <1>5. ASSUME NEW filter \in Filters, NEW success \in BOOLEAN, StartDriver(filter, success)
        PROVE  TypeInv'
    <2>1. Start(filter, success)
      BY <1>5 DEF StartDriver
    <2>2. task' \in Tasks
      BY <1>5, StartDriverStep
    <2>3. QED
      BY <2>1, <2>2, StartStep DEF TypeInv
  <1>6. ASSUME NEW filter \in Filters, NEW success \in BOOLEAN, Start(filter, success),
               UNCHANGED task
        PROVE  TypeInv'
    BY <1>6, StartStep DEF TypeInv
  <1>7. CASE (Stop \/ EndStop) /\ UNCHANGED task
    BY <1>7, StopStep, SameWorkerType DEF TypeInv
  <1>8. CASE Worker /\ UNCHANGED task
    BY <1>8, WorkerTypeInv
  <1>9. ASSUME NEW d \in Devices, Plug(d) \/ Unplug(d), UNCHANGED task PROVE TypeInv'
    BY <1>9, PlugStep, UnplugStep, SameWorkerType DEF TypeInv
  <1>10. QED
    BY <1>2, <1>3, <1>4, <1>5, <1>6, <1>7, <1>8, <1>9, NextCases

\* StoreDriverInfo, IterateDirectory and CheckDriverSettings: what the walk knows is of its kind,
\* and the folders of a device go with it.
THEOREM StartupTypeOK == Spec => []TypeOK
  <1>1. Init => IInv /\ TypeInv
    BY InitIInv, InitType
  <1>2. (IInv /\ TypeInv) /\ [Next]_vars => (IInv /\ TypeInv)'
    BY NextIInv, NextType DEF IInv
  <1>3. QED
    BY <1>1, <1>2, TypeInvIsTypeOK, PTL DEF Spec

-----------------------------------------------------------------------------
(* The links fit their device. *)

\* The buffers of Worker belong to the device, once its files were read, unless the device went
\* and came back meanwhile.
DeviceInv ==
  worker.pc \in AtDevice \ {"read"} /\ Present /\ plugs < Walk.opened + 2 =>
    Walk.intf = Interface[Walk.device] /\ Walk.descr = Walk.device

\* The drivers that are left are drivers for the channel that the walk is at.
TodoInv ==
  worker.pc \in {"write", "link"} =>
    ToSet(Walk.todo) \subseteq ToSet(DriversFor(Walk.channel)) /\ ~Filtered

\* Nothing is linked before the configurator is started, and no thread outlives the process.
TaskInv ==
  /\ task.pc \in {"parse", "init"} => ~m.started /\ worker.threads = 0 /\ sys.links = {}
  /\ task.pc = "ended" => worker.threads = 0

FitInv == DeviceInv /\ TodoInv /\ TaskInv /\ LinksFitDevice

LEMMA InitFit == Init => FitInv
  <1> SUFFICES ASSUME Init PROVE FitInv
    OBVIOUS
  <1>1. worker.pc = "none" /\ worker.threads = 0 /\ sys.links = {} /\ ~m.started /\ task.pc = "parse"
    BY DEF Init, MldInit
  <1>2. QED
    BY <1>1 DEF FitInv, DeviceInv, TodoInv, TaskInv, LinksFitDevice, AtDevice

\* No link is new, and the filter is the same, or no longer known to be.
LEMMA SameLinksFit ==
  ASSUME LinksFitDevice, sys'.links \subseteq sys.links,
         restarts' = 0 => restarts = 0 /\ m'.filter = m.filter
  PROVE  LinksFitDevice'
  BY DEF LinksFitDevice

\* The walk stays at its device.
LEMMA StayFits ==
  ASSUME DeviceInv, SameDevice, UNCHANGED <<plugs, sys.plugged>>,
         worker.pc \in AtDevice \ {"read"}
  PROVE  DeviceInv'
  BY DEF DeviceInv, SameDevice, Present, Walk

LEMMA AdvanceFits ==
  ASSUME TypeInv, TodoInv, worker.pc \in {"write", "link"}, Advance, UNCHANGED m.filter
  PROVE  TodoInv'
  <1>1. ToSet(Tail(Walk.todo)) \subseteq ToSet(Walk.todo)
    BY PlaceType, TailOfSeq
  <1>2. SameDevice /\ Walk'.channel = Walk.channel /\ Walk'.todo = Tail(Walk.todo)
    BY DEF Advance, Walk
  <1>3. QED
    BY <1>1, <1>2 DEF TodoInv, DriversFor, Filtered, SameDevice, Walk

\* The drivers for a channel are those that are meant for it, if the buffers belong to the device.
LEMMA DriversFit ==
  ASSUME Walk.intf = Interface[Walk.device], NEW c
  PROVE  /\ DriversFor(c) # <<>> => DriversFor(c) = DriversAt(<<Walk.device, c>>)
         /\ ToSet(DriversFor(c)) \subseteq ToSet(DriversAt(<<Walk.device, c>>))
  <1>1. <<Walk.device, c>>[1] = Walk.device /\ <<Walk.device, c>>[2] = c
    OBVIOUS
  <1>2. DriversAt(<<Walk.device, c>>) = HardWired(c) \o Configured(c, Phy(Walk.intf))
    BY <1>1 DEF DriversAt
  <1>3. DriversFor(c) = <<>> \/ DriversFor(c) = DriversAt(<<Walk.device, c>>)
    BY <1>2 DEF DriversFor
  <1>4. ToSet(<<>>) = {}
    BY DEF ToSet
  <1>5. QED
    BY <1>3, <1>4

LEMMA LinkMadeFits ==
  ASSUME TypeInv, DeviceInv, TodoInv, LinksFitDevice, worker.pc \in {"write", "link"}, Present,
         LinkMade, UNCHANGED <<m.filter, restarts>>
  PROVE  LinksFitDevice'
  <1>1. PICK l \in Links : /\ sys'.links = sys.links \cup {l}
                           /\ l.place = Place /\ l.driver = Current
                           /\ l.sure = (plugs < Walk.opened + 2)
    BY DEF LinkMade
  <1>2. ASSUME l.sure
        PROVE  /\ l.driver \in ToSet(DriversAt(l.place))
               /\ m.filter => l.place[1] \in Accepted
    <2>1. Walk.intf = Interface[Walk.device] /\ Walk.descr = Walk.device
      BY <1>1, <1>2 DEF DeviceInv, AtDevice
    <2>2. Current \in ToSet(Walk.todo)
      BY PlaceType, TailOfSeq DEF Current
    <2>3. Current \in ToSet(DriversAt(Place))
      BY <2>1, <2>2, DriversFit DEF TodoInv, Place
    <2>4. m.filter => Place[1] \in Accepted
      BY <2>1 DEF TodoInv, Filtered, Place
    <2>5. QED
      BY <1>1, <2>3, <2>4
  <1>3. QED
    BY <1>1, <1>2 DEF LinksFitDevice

\* While the thread works, the daemon is past its start and has not ended.
LEMMA WorkerTask ==
  ASSUME TypeInv, Worker, UNCHANGED task, TaskInv
  PROVE  TaskInv' /\ task.pc # "ended"
  <1>1. worker.threads > 0
    BY DEF Worker, Poll, OpenDevice, ReadDevice, EnterDevice, CheckDriverSettings, CloseDevice,
           Skip, Link, Configure, CreateLink, EndWalk, At
  <1>2. QED
    BY <1>1 DEF TaskInv

LEMMA WorkerFit ==
  ASSUME IInv, TypeInv, FitInv, Worker, UNCHANGED task
  PROVE  FitInv'
  <1> USE DEF FitInv
  <1>1. TaskInv'
    BY WorkerTask
  <1>2. CASE Poll
    BY <1>1, <1>2, PollStep, SameLinksFit DEF DeviceInv, TodoInv, AtDevice
  <1>3. ASSUME NEW d \in Devices, OpenDevice(d) PROVE FitInv'
    BY <1>1, <1>3, OpenDeviceStep, SameLinksFit DEF DeviceInv, TodoInv, AtDevice
  <1>4. CASE ReadDevice
    <2>1. DeviceInv'
      <3>1. /\ UNCHANGED <<sys, plugs, worker.walk.device, worker.walk.opened>>
            /\ Present => Walk'.intf = Interface[Walk.device] /\ Walk'.descr = Walk.device
        BY <1>4, ReadDeviceStep DEF Walk
      <3>2. QED
        BY <3>1 DEF DeviceInv, Walk, Present
    <2>2. QED
      BY <1>1, <1>4, <2>1, ReadDeviceStep, SameLinksFit DEF TodoInv, AtDevice
  <1>5. CASE EnterDevice
    <2>1. DeviceInv'
      BY <1>5, EnterDeviceStep, StayFits DEF AtDevice
    <2>2. QED
      BY <1>1, <1>5, <2>1, EnterDeviceStep, SameLinksFit DEF TodoInv
  <1>6. ASSUME NEW c \in AllChannels, CheckDriverSettings(c) PROVE FitInv'
    <2>1. DeviceInv'
      BY <1>6, CheckStep, StayFits DEF AtDevice
    <2>2. TodoInv'
      BY <1>6, CheckStep DEF TodoInv, DriversFor, Filtered, SameDevice, Walk
    <2>3. QED
      BY <1>1, <1>6, <2>1, <2>2, CheckStep, SameLinksFit
  <1>7. CASE CloseDevice
    BY <1>1, <1>7, CloseDeviceStep, SameLinksFit DEF DeviceInv, TodoInv, AtDevice
  <1>8. CASE Skip
    <2>1. Advance /\ UNCHANGED <<m, sys, plugs, restarts>> /\ worker.pc = "write"
      BY <1>8, SkipStep
    <2>2. DeviceInv'
      BY <2>1, StayFits DEF AtDevice, Advance
    <2>3. QED
      BY <1>1, <2>1, <2>2, AdvanceFits, SameLinksFit
  <1>9. CASE Link
    <2>1. /\ Advance /\ UNCHANGED <<m, plugs, restarts>> /\ worker.pc = "link"
          /\ UNCHANGED sys \/ (Present /\ LinkMade)
      BY <1>9, LinkStep
    <2>2. DeviceInv' /\ TodoInv'
      BY <2>1, StayFits, AdvanceFits DEF AtDevice, Advance, LinkMade
    <2>3. LinksFitDevice'
      BY <2>1, LinkMadeFits, SameLinksFit
    <2>4. QED
      BY <1>1, <2>2, <2>3
  <1>10. ASSUME NEW complete \in BOOLEAN, Configure(complete) PROVE FitInv'
    <2>1. /\ SameDevice /\ UNCHANGED <<m, plugs, restarts, sys.plugged, sys.links>>
          /\ worker.pc = "write" /\ worker'.walk.channel = Walk.channel
          /\ Advance \/ (worker'.pc = "link" /\ worker'.walk.todo = Walk.todo)
      BY <1>10, ConfigureStep
    <2>2. DeviceInv'
      BY <2>1, StayFits DEF AtDevice
    <2>3. CASE Advance
      BY <1>1, <2>1, <2>2, <2>3, AdvanceFits, SameLinksFit
    <2>4. CASE worker'.pc = "link" /\ worker'.walk.todo = Walk.todo
      <3>1. TodoInv'
        BY <2>1, <2>4 DEF TodoInv, DriversFor, Filtered, SameDevice, Walk
      <3>2. QED
        BY <1>1, <2>1, <2>2, <3>1, SameLinksFit
    <2>5. QED
      BY <2>1, <2>3, <2>4
  <1>11. ASSUME NEW complete \in BOOLEAN, CreateLink(complete) PROVE FitInv'
    <2>1. /\ Advance /\ UNCHANGED <<plugs, restarts, m.filter>> /\ worker.pc = "write"
          /\ Present /\ LinkMade
      BY <1>11, CreateLinkStep
    <2>2. DeviceInv' /\ TodoInv'
      BY <2>1, StayFits, AdvanceFits DEF AtDevice, Advance, LinkMade
    <2>3. LinksFitDevice'
      BY <2>1, LinkMadeFits
    <2>4. QED
      BY <1>1, <2>2, <2>3
  <1>12. CASE EndWalk
    BY <1>1, <1>12, EndWalkStep, SameLinksFit DEF DeviceInv, TodoInv, AtDevice
  <1>13. QED
    BY <1>2, <1>3, <1>4, <1>5, <1>6, <1>7, <1>8, <1>9, <1>10, <1>11, <1>12 DEF Worker

\* The walk stays, and so does the driver behind it.
LEMMA SameWalkFits ==
  ASSUME DeviceInv, TodoInv, UNCHANGED <<worker, sys, plugs, m.filter>>
  PROVE  DeviceInv' /\ TodoInv'
  BY DEF DeviceInv, TodoInv, Present, DriversFor, Filtered, Walk

LEMMA HotplugFit ==
  ASSUME IInv, TypeInv, FitInv, NEW d \in Devices, Plug(d) \/ Unplug(d), UNCHANGED task
  PROVE  FitInv'
  <1>1. /\ UNCHANGED <<m, worker, restarts>> /\ plugs' = plugs + 1 /\ plugs \in Nat
        /\ sys'.links \subseteq sys.links
        /\ sys'.plugged \subseteq sys.plugged \/ Plug(d)
    BY PlugStep, UnplugStep DEF TypeInv, CountsType
  <1>2. DeviceInv'
    <2> SUFFICES ASSUME worker.pc \in AtDevice \ {"read"}, Walk.device \in sys'.plugged,
                        plugs + 1 < Walk.opened + 2
                 PROVE  Walk.intf = Interface[Walk.device] /\ Walk.descr = Walk.device
      BY <1>1 DEF DeviceInv, Present, Walk
    <2>1. Walk.opened \in Nat /\ Walk.opened <= plugs /\ (Walk.opened = plugs => Present)
      BY DEF IInv, WalkInv
    <2>2. Walk.opened = plugs /\ plugs < Walk.opened + 2
      BY <1>1, <2>1
    <2>3. QED
      BY <2>1, <2>2 DEF FitInv, DeviceInv
  <1>3. TodoInv'
    BY <1>1 DEF FitInv, TodoInv, DriversFor, Filtered, Walk
  <1>4. TaskInv'
    BY <1>1 DEF FitInv, TaskInv
  <1>5. QED
    BY <1>1, <1>2, <1>3, <1>4, SameLinksFit DEF FitInv

LEMMA NextFit == IInv /\ TypeInv /\ FitInv /\ [Next]_vars => FitInv'
  <1> SUFFICES ASSUME IInv, TypeInv, FitInv, [Next]_vars PROVE FitInv'
    OBVIOUS
  <1>1. DeviceInv /\ TodoInv /\ TaskInv /\ LinksFitDevice /\ ThreadInv
    BY DEF FitInv, IInv
  <1>2. CASE TaskStep
    BY <1>1, <1>2, TaskStepType, SameWalkFits, SameLinksFit DEF mldVars, FitInv, TaskInv
  <1>3. CASE UNCHANGED vars
    BY <1>1, <1>3, SameWalkFits, SameLinksFit DEF vars, mldVars, FitInv, TaskInv
  <1>4. CASE Exit
    <2>1. /\ UNCHANGED sys /\ worker'.pc = "none" /\ worker'.threads = 0 /\ task'.pc = "ended"
          /\ restarts' = restarts /\ m' = [m EXCEPT !.started = FALSE, !.allowRun = FALSE,
                                                    !.createAlsaCard = FALSE]
      BY <1>4, ExitStep DEF Exit
    <2>2. m'.filter = m.filter
      BY <2>1 DEF TypeInv, Services
    <2>3. LinksFitDevice'
      BY <1>1, <2>1, <2>2, SameLinksFit
    <2>4. QED
      BY <2>1, <2>3 DEF FitInv, DeviceInv, TodoInv, TaskInv, AtDevice
  <1>5. ASSUME NEW filter \in Filters, NEW success \in BOOLEAN, StartDriver(filter, success)
        PROVE  FitInv'
    <2>1. Start(filter, success) /\ task.pc = "init" /\ task'.pc \in {"failed", "wait", "config"}
      BY <1>5, StartDriverStep DEF StartDriver
    <2>2. UNCHANGED sys /\ worker'.pc \in {"none", "poll"} /\ sys.links = {}
      BY <1>1, <2>1, StartStep DEF TaskInv
    <2>3. QED
      BY <2>1, <2>2 DEF FitInv, DeviceInv, TodoInv, TaskInv, LinksFitDevice, AtDevice
  <1>6. ASSUME NEW filter \in Filters, NEW success \in BOOLEAN, Start(filter, success),
               UNCHANGED task, task.pc = "running", restarts > 0
        PROVE  FitInv'
    <2>1. UNCHANGED <<sys, restarts>> /\ worker'.pc \in {"none", "poll"} /\ restarts \in Nat
      BY <1>1, <1>6, StartStep DEF TypeInv, CountsType
    <2>2. LinksFitDevice'
      BY <1>1, <1>6, <2>1, SameLinksFit
    <2>3. QED
      BY <1>6, <2>1, <2>2 DEF FitInv, DeviceInv, TodoInv, TaskInv, AtDevice
  <1>7. CASE task.pc = "running" /\ (Stop \/ EndStop) /\ UNCHANGED task
    <2>1. UNCHANGED <<worker, sys, plugs, m.filter>> /\ (restarts' = 0 => restarts = 0)
      BY <1>7, StopStep DEF TypeInv, CountsType
    <2>2. QED
      BY <1>1, <1>7, <2>1, SameWalkFits, SameLinksFit DEF FitInv, TaskInv
  <1>8. CASE Worker /\ UNCHANGED task
    BY <1>8, WorkerFit
  <1>9. ASSUME NEW d \in Devices, Plug(d) \/ Unplug(d), UNCHANGED task PROVE FitInv'
    BY <1>9, HotplugFit
  <1>10. QED
    BY <1>2, <1>3, <1>4, <1>5, <1>6, <1>7, <1>8, <1>9, NextCases

\* Worker and CheckDriverSettings: no link is made with a driver for another channel or physical
\* layer, nor for a device that the filter excludes, though the buffers say what a file said
\* a while ago.
THEOREM StartupLinksFitDevice == Spec => []LinksFitDevice
  <1>1. Init => IInv /\ TypeInv /\ FitInv
    BY InitIInv, InitType, InitFit
  <1>2. (IInv /\ TypeInv /\ FitInv) /\ [Next]_vars => (IInv /\ TypeInv /\ FitInv)'
    BY NextIInv, NextType, NextFit DEF IInv
  <1>3. FitInv => LinksFitDevice
    BY DEF FitInv
  <1>4. QED
    BY <1>1, <1>2, <1>3, PTL DEF Spec

-----------------------------------------------------------------------------
(* What is configured is linked. *)

Linked(links, place, drv) == \E l \in links : l.place = place /\ l.driver = drv
Busy(place) == worker.pc \in {"write", "link"} /\ place = Place
Undisturbed == faults = 0 /\ plugs < 2 /\ task.pc # "ended"

\* A channel that the walk has left has all of its links, and the one it is at has those of the
\* drivers that are done.
PlacesLinked ==
  \A place \in sys.configured : ~Busy(place) =>
    \A drv \in ToSet(DriversAt(place)) : drv.valid => Linked(sys.links, place, drv)
TodoLinked ==
  worker.pc \in {"write", "link"} /\ Present =>
    \A drv \in ToSet(DriversAt(Place)) :
      drv.valid => drv \in ToSet(Walk.todo) \/ Linked(sys.links, Place, drv)
LinkedInv == Undisturbed => PlacesLinked /\ TodoLinked

LEMMA InitLinked == Init => LinkedInv
  <1> SUFFICES ASSUME Init PROVE LinkedInv
    OBVIOUS
  <1>1. worker.pc = "none" /\ sys.configured = {}
    BY DEF Init, MldInit
  <1>2. QED
    BY <1>1 DEF LinkedInv, PlacesLinked, TodoLinked

\* The walk is at no channel, before and after.
LEMMA NotBusyLinked ==
  ASSUME LinkedInv, Undisturbed' => Undisturbed, UNCHANGED <<sys.configured, sys.links>>,
         worker.pc \notin {"write", "link"}, worker'.pc \notin {"write", "link"}
  PROVE  LinkedInv'
  BY DEF LinkedInv, PlacesLinked, TodoLinked, Busy, Linked

\* A driver is done: it is linked, unless its device is gone or its type is not known.
LEMMA AdvanceLinked ==
  ASSUME TypeInv, worker.pc \in {"write", "link"}, Advance, PlacesLinked, TodoLinked,
         SysType(sys'), sys'.configured \subseteq sys.configured \cup {Place},
         sys.links \subseteq sys'.links, sys'.plugged = sys.plugged,
         Present /\ Current.valid => Linked(sys'.links, Place, Current)
  PROVE  PlacesLinked' /\ TodoLinked'
  <1>1. /\ ToSet(Walk.todo) = {Current} \cup ToSet(Tail(Walk.todo))
        /\ Place[1] = Walk.device
    BY PlaceType, TailOfSeq DEF Current
  <1>2. /\ Place' = Place /\ Walk'.todo = Tail(Walk.todo) /\ Present' = Present
        /\ worker'.pc = "channels" => Tail(Walk.todo) = <<>>
        /\ worker'.pc \in {"channels", "write"}
    BY DEF Advance, SameDevice, Place, Walk, Present
  <1>3. ToSet(<<>>) = {}
    BY DEF ToSet
  <1>4. \A place, drv : Linked(sys.links, place, drv) => Linked(sys'.links, place, drv)
    BY DEF Linked
  <1>5. ASSUME Present, NEW drv \in ToSet(DriversAt(Place)), drv.valid
        PROVE  drv \in ToSet(Tail(Walk.todo)) \/ Linked(sys'.links, Place, drv)
    <2>1. CASE drv = Current
      BY <1>5, <2>1
    <2>2. CASE drv # Current
      <3>1. drv \in ToSet(Walk.todo) \/ Linked(sys.links, Place, drv)
        BY <1>5 DEF TodoLinked
      <3>2. QED
        BY <1>1, <1>4, <2>2, <3>1
    <2>3. QED
      BY <2>1, <2>2
  <1>6. TodoLinked'
    BY <1>2, <1>5 DEF TodoLinked
  <1>7. ASSUME NEW place \in sys'.configured, ~Busy(place)',
               NEW drv \in ToSet(DriversAt(place)), drv.valid
        PROVE  Linked(sys'.links, place, drv)
    <2>1. CASE place = Place
      <3>1. Present
        BY <1>1, <1>7, <2>1 DEF SysType, Present
      <3>2. worker'.pc = "channels"
        BY <1>2, <1>7, <2>1 DEF Busy
      <3>3. QED
        BY <1>2, <1>3, <1>5, <1>7, <2>1, <3>1, <3>2
    <2>2. CASE place # Place
      <3>1. place \in sys.configured /\ ~Busy(place)
        BY <1>7, <2>2 DEF Busy
      <3>2. QED
        BY <1>4, <1>7, <3>1 DEF PlacesLinked
    <2>3. QED
      BY <2>1, <2>2
  <1>8. PlacesLinked'
    BY <1>7 DEF PlacesLinked
  <1>9. QED
    BY <1>6, <1>8

\* A new link is one for the driver that the walk is at.
LEMMA MadeIsLinked ==
  ASSUME LinkMade
  PROVE  Linked(sys'.links, Place, Current) /\ sys.links \subseteq sys'.links
         /\ sys'.plugged = sys.plugged
  BY DEF LinkMade, Linked

LEMMA WorkerLinked ==
  ASSUME IInv, TypeInv, FitInv, LinkedInv, Worker, UNCHANGED task
  PROVE  LinkedInv'
  <1>1. CASE Poll
    BY <1>1, PollStep, NotBusyLinked DEF Undisturbed
  <1>2. ASSUME NEW d \in Devices, OpenDevice(d) PROVE LinkedInv'
    BY <1>2, OpenDeviceStep, NotBusyLinked DEF Undisturbed
  <1>3. CASE ReadDevice
    BY <1>3, ReadDeviceStep, NotBusyLinked DEF Undisturbed
  <1>4. CASE EnterDevice
    BY <1>4, EnterDeviceStep, NotBusyLinked DEF Undisturbed
  <1>5. ASSUME NEW c \in AllChannels, CheckDriverSettings(c) PROVE LinkedInv'
    <2>1. /\ UNCHANGED <<sys, faults, plugs>> /\ worker.pc = "channels"
          /\ worker'.pc \in {"channels", "write"} /\ SameDevice
          /\ worker'.pc = "write" =>
               /\ Walk'.channel = c /\ Walk'.todo = DriversFor(c)
               /\ DriversFor(c) # <<>> /\ Present /\ <<Walk.device, c>> \notin sys.configured
      BY <1>5, CheckStep DEF Walk
    <2>2. CASE worker'.pc = "channels"
      BY <2>1, <2>2, NotBusyLinked DEF Undisturbed
    <2>3. CASE worker'.pc = "write"
      <3> SUFFICES ASSUME Undisturbed' PROVE PlacesLinked' /\ TodoLinked'
        BY DEF LinkedInv
      <3>1. Undisturbed /\ PlacesLinked
        BY <2>1 DEF Undisturbed, LinkedInv
      <3>2. Place' = <<Walk.device, c>>
        BY <2>1, <2>3 DEF Place, SameDevice, Walk
      <3>3. PlacesLinked'
        BY <2>1, <3>1 DEF PlacesLinked, Busy
      <3>4. plugs < Walk.opened + 2
        BY <2>1, <3>1 DEF Undisturbed, IInv, WalkInv, AtDevice, TypeInv, CountsType
      <3>5. Walk.intf = Interface[Walk.device]
        BY <2>1, <2>3, <3>4 DEF FitInv, DeviceInv, AtDevice
      <3>6. DriversFor(c) = DriversAt(<<Walk.device, c>>)
        BY <2>1, <2>3, <3>5, DriversFit
      <3>7. TodoLinked'
        BY <2>1, <2>3, <3>2, <3>6 DEF TodoLinked
      <3>8. QED
        BY <3>3, <3>7
    <2>4. QED
      BY <2>1, <2>2, <2>3
  <1>6. CASE CloseDevice
    BY <1>6, CloseDeviceStep, NotBusyLinked DEF Undisturbed
  <1>7. CASE EndWalk
    BY <1>7, EndWalkStep, NotBusyLinked DEF Undisturbed
  <1>8. CASE Skip
    <2>1. /\ Advance /\ UNCHANGED <<sys, plugs>> /\ worker.pc = "write"
          /\ faults' = 0 => faults = 0 /\ ~(Present /\ Current.valid)
      BY <1>8, SkipStep
    <2>2. SysType(sys')
      BY <2>1 DEF TypeInv
    <2>3. QED
      BY <2>1, <2>2, AdvanceLinked DEF LinkedInv, Undisturbed
  <1>9. CASE Link
    <2>1. /\ Advance /\ UNCHANGED plugs /\ worker.pc = "link" /\ SysType(sys')
          /\ \/ Present /\ LinkMade /\ UNCHANGED <<faults, sys.configured>>
             \/ UNCHANGED sys /\ (faults' = 0 => faults = 0 /\ ~Present)
      BY <1>9, LinkStep
    <2>2. CASE Present /\ LinkMade /\ UNCHANGED <<faults, sys.configured>>
      BY <2>1, <2>2, MadeIsLinked, AdvanceLinked DEF LinkedInv, Undisturbed
    <2>3. CASE UNCHANGED sys /\ (faults' = 0 => faults = 0 /\ ~Present)
      BY <2>1, <2>3, AdvanceLinked DEF LinkedInv, Undisturbed
    <2>4. QED
      BY <2>1, <2>2, <2>3
  <1>10. ASSUME NEW complete \in BOOLEAN, Configure(complete) PROVE LinkedInv'
    <2>1. /\ SameDevice /\ UNCHANGED plugs /\ Walk'.channel = Walk.channel
          /\ worker.pc = "write" /\ sys'.configured = sys.configured \cup {Place}
          /\ sys'.links = sys.links /\ sys'.plugged = sys.plugged
          /\ Advance \/ (worker'.pc = "link" /\ Walk'.todo = Walk.todo)
          /\ faults' = 0 => faults = 0 /\ worker'.pc = "link"
      BY <1>10, ConfigureStep DEF Walk
    <2> SUFFICES ASSUME Undisturbed' PROVE PlacesLinked' /\ TodoLinked'
      BY DEF LinkedInv
    <2>2. PlacesLinked /\ TodoLinked /\ worker'.pc = "link"
      BY <2>1 DEF LinkedInv, Undisturbed
    <2>3. Walk'.todo = Walk.todo
      BY <2>1, <2>2 DEF Advance
    <2>4. Place' = Place /\ Present' = Present
      BY <2>1 DEF Place, Present, SameDevice, Walk
    <2>5. TodoLinked'
      BY <2>1, <2>2, <2>3, <2>4 DEF TodoLinked
    <2>6. PlacesLinked'
      BY <2>1, <2>2, <2>4 DEF PlacesLinked, Busy
    <2>7. QED
      BY <2>5, <2>6
  <1>11. ASSUME NEW complete \in BOOLEAN, CreateLink(complete) PROVE LinkedInv'
    <2>1. /\ Advance /\ UNCHANGED plugs /\ worker.pc = "write" /\ SysType(sys')
          /\ sys'.configured = sys.configured \cup {Place} /\ LinkMade
          /\ faults' = 0 => faults = 0
      BY <1>11, CreateLinkStep
    <2>2. QED
      BY <2>1, MadeIsLinked, AdvanceLinked DEF LinkedInv, Undisturbed
  <1>12. QED
    BY <1>1, <1>2, <1>3, <1>4, <1>5, <1>6, <1>7, <1>8, <1>9, <1>10, <1>11 DEF Worker

LEMMA PlugLinked ==
  ASSUME IInv, TypeInv, LinkedInv, NEW d \in Devices, Plug(d), UNCHANGED task
  PROVE  LinkedInv'
  <1>1. /\ UNCHANGED <<worker, faults, sys.configured, sys.links>> /\ plugs' = plugs + 1
        /\ plugs \in Nat /\ sys'.plugged = sys.plugged \cup {d}
    BY PlugStep DEF TypeInv, CountsType
  <1> SUFFICES ASSUME Undisturbed' PROVE PlacesLinked' /\ TodoLinked'
    BY DEF LinkedInv
  <1>2. plugs = 0 /\ PlacesLinked /\ TodoLinked
    BY <1>1 DEF LinkedInv, Undisturbed
  <1>3. worker.pc \in {"write", "link"} => Present
    BY <1>1, <1>2 DEF IInv, WalkInv, AtDevice
  <1>4. Place' = Place
    BY <1>1 DEF Place, Walk
  <1>5. PlacesLinked' /\ TodoLinked'
    BY <1>1, <1>2, <1>3, <1>4 DEF PlacesLinked, TodoLinked, Busy, Walk
  <1>6. QED
    BY <1>5

LEMMA UnplugLinked ==
  ASSUME TypeInv, LinkedInv, NEW d \in Devices, Unplug(d), UNCHANGED task
  PROVE  LinkedInv'
  <1>1. /\ UNCHANGED <<worker, faults>> /\ plugs' = plugs + 1
        /\ plugs \in Nat /\ sys'.plugged = sys.plugged \ {d}
        /\ sys'.configured = {p \in sys.configured : p[1] # d}
        /\ sys'.links = {l \in sys.links : l.place[1] # d}
    BY UnplugStep DEF TypeInv, CountsType
  <1> SUFFICES ASSUME Undisturbed' PROVE PlacesLinked' /\ TodoLinked'
    BY DEF LinkedInv
  <1>2. PlacesLinked /\ TodoLinked
    BY <1>1 DEF LinkedInv, Undisturbed
  <1>3. \A place, drv :
          Linked(sys.links, place, drv) /\ place[1] # d => Linked(sys'.links, place, drv)
    BY <1>1 DEF Linked
  <1>4. Place' = Place /\ Place[1] = Walk.device
    BY <1>1 DEF Place, Walk
  <1>5. PlacesLinked'
    BY <1>1, <1>2, <1>3, <1>4 DEF PlacesLinked, Busy
  <1>6. TodoLinked'
    BY <1>1, <1>2, <1>3, <1>4 DEF TodoLinked, Present, Walk
  <1>7. QED
    BY <1>5, <1>6

LEMMA SameMldLinked ==
  ASSUME LinkedInv, Undisturbed' => Undisturbed, UNCHANGED <<worker, sys>>
  PROVE  LinkedInv'
  BY DEF LinkedInv, PlacesLinked, TodoLinked, Busy, Place, Present, Walk

LEMMA NextLinked == IInv /\ TypeInv /\ FitInv /\ LinkedInv /\ [Next]_vars => LinkedInv'
  <1> SUFFICES ASSUME IInv, TypeInv, FitInv, LinkedInv, [Next]_vars PROVE LinkedInv'
    OBVIOUS
  <1>1. ThreadInv
    BY DEF IInv
  <1>2. CASE TaskStep
    BY <1>2, TaskStepType, SameMldLinked DEF mldVars, Undisturbed
  <1>3. CASE UNCHANGED vars
    BY <1>3, SameMldLinked DEF vars, mldVars, Undisturbed
  <1>4. CASE Exit
    BY <1>4, ExitStep DEF LinkedInv, Undisturbed
  <1>5. ASSUME NEW filter \in Filters, NEW success \in BOOLEAN, Start(filter, success),
               task.pc # "ended"
        PROVE  LinkedInv'
    BY <1>1, <1>5, StartStep, NotBusyLinked DEF Undisturbed
  <1>6. CASE (Stop \/ EndStop) /\ UNCHANGED task
    BY <1>6, StopStep, SameMldLinked DEF Undisturbed
  <1>7. CASE Worker /\ UNCHANGED task
    BY <1>7, WorkerLinked
  <1>8. ASSUME NEW d \in Devices, Plug(d) \/ Unplug(d), UNCHANGED task PROVE LinkedInv'
    BY <1>8, PlugLinked, UnplugLinked
  <1>9. ASSUME NEW filter \in Filters, NEW success \in BOOLEAN, StartDriver(filter, success)
        PROVE  LinkedInv'
    BY <1>5, <1>9 DEF StartDriver
  <1>10. QED
    BY <1>2, <1>3, <1>4, <1>5, <1>6, <1>7, <1>8, <1>9, NextCases

\* CheckDriverSettings looks at a channel once: what the walk leaves behind has the links of all
\* valid drivers, if no write failed and no device was gone for a while.
THEOREM StartupConfiguredAreLinked == Spec => []ConfiguredAreLinked
  <1>1. Init => IInv /\ TypeInv /\ FitInv /\ LinkedInv
    BY InitIInv, InitType, InitFit, InitLinked
  <1>2. (IInv /\ TypeInv /\ FitInv /\ LinkedInv) /\ [Next]_vars
          => (IInv /\ TypeInv /\ FitInv /\ LinkedInv)'
    BY NextIInv, NextType, NextFit, NextLinked DEF IInv
  <1>3. IInv /\ FitInv /\ LinkedInv => ConfiguredAreLinked
    BY DEF IInv, ThreadInv, FitInv, TaskInv, LinkedInv, Undisturbed, PlacesLinked, Busy, Linked,
           ConfiguredAreLinked, Idle
  <1>4. QED
    BY <1>1, <1>2, <1>3, PTL DEF Spec

-----------------------------------------------------------------------------
(* The card of version 2. *)

HasAlsa(links) == \E l \in links : l.driver.kind = "Alsa"

\* The flag for the card stays up until the walk that made the link has written it.
CardInv ==
  /\ worker.pc = "link" => m.version = 1
  /\ m.version = 2 /\ faults = 0 /\ task.pc # "ended" /\ HasAlsa(sys.links) =>
       sys.card \/ (m.createAlsaCard /\ worker.pc \notin {"none", "poll"})

LEMMA InitCard == Init => CardInv
  BY DEF Init, MldInit, CardInv, HasAlsa

\* The links and the card stay, and so does the flag, and the walk is not at its end.
LEMMA SameCard ==
  ASSUME CardInv, UNCHANGED <<task, m.version>>, sys'.links \subseteq sys.links, sys'.card = sys.card,
         faults' = 0 => faults = 0, m'.createAlsaCard = m.createAlsaCard,
         worker'.pc \in {"none", "poll"} => worker.pc \in {"none", "poll"},
         worker'.pc = "link" => worker.pc = "link"
  PROVE  CardInv'
  BY DEF CardInv, HasAlsa

LEMMA WorkerCard ==
  ASSUME TypeInv, CardInv, Worker, UNCHANGED task
  PROVE  CardInv'
  <1>1. CASE Poll
    BY <1>1, PollStep, SameCard
  <1>2. ASSUME NEW d \in Devices, OpenDevice(d) PROVE CardInv'
    BY <1>2, OpenDeviceStep, SameCard
  <1>3. CASE ReadDevice
    BY <1>3, ReadDeviceStep, SameCard
  <1>4. CASE EnterDevice
    BY <1>4, EnterDeviceStep, SameCard
  <1>5. ASSUME NEW c \in AllChannels, CheckDriverSettings(c) PROVE CardInv'
    BY <1>5, CheckStep, SameCard
  <1>6. CASE CloseDevice
    BY <1>6, CloseDeviceStep, SameCard
  <1>7. CASE Skip
    BY <1>7, SkipStep, SameCard DEF Advance
  <1>8. CASE Link
    <2>1. m.version = 1 /\ UNCHANGED m
      BY <1>8, LinkStep DEF CardInv
    <2>2. QED
      BY <2>1 DEF CardInv
  <1>9. ASSUME NEW complete \in BOOLEAN, Configure(complete) PROVE CardInv'
    <2>1. m.version = 1 /\ UNCHANGED m
      BY <1>9, ConfigureStep
    <2>2. QED
      BY <2>1 DEF CardInv
  <1>10. ASSUME NEW complete \in BOOLEAN, CreateLink(complete) PROVE CardInv'
    <2>1. /\ worker.pc = "write" /\ worker'.pc \in {"channels", "write"} /\ m'.version = m.version
          /\ faults' = 0 =>
               /\ faults = 0
               /\ m'.createAlsaCard = (m.createAlsaCard \/ Current.kind = "Alsa")
          /\ LinkMade
      BY <1>10, CreateLinkStep DEF Advance
    <2>2. /\ sys'.card = sys.card
          /\ HasAlsa(sys'.links) => HasAlsa(sys.links) \/ Current.kind = "Alsa"
      BY <2>1 DEF LinkMade, HasAlsa
    <2>3. QED
      BY <2>1, <2>2 DEF CardInv
  <1>11. CASE EndWalk
    <2>1. /\ worker'.pc = "poll" /\ m'.version = m.version /\ sys'.links = sys.links
          /\ faults' = 0 => faults = 0 /\ sys'.card = (sys.card \/ m.createAlsaCard)
      BY <1>11, EndWalkStep
    <2>2. QED
      BY <2>1 DEF CardInv
  <1>12. QED
    BY <1>1, <1>2, <1>3, <1>4, <1>5, <1>6, <1>7, <1>8, <1>9, <1>10, <1>11 DEF Worker

LEMMA NextCard == IInv /\ TypeInv /\ FitInv /\ CardInv /\ [Next]_vars => CardInv'
  <1> SUFFICES ASSUME IInv, TypeInv, FitInv, CardInv, [Next]_vars PROVE CardInv'
    OBVIOUS
  <1>1. ThreadInv
    BY DEF IInv
  <1>2. CASE TaskStep
    BY <1>2, TaskStepType DEF mldVars, CardInv
  <1>3. CASE UNCHANGED vars
    BY <1>3, SameCard DEF vars, mldVars
  <1>4. CASE Exit
    BY <1>4, ExitStep DEF CardInv
  <1>5. ASSUME NEW filter \in Filters, NEW success \in BOOLEAN, StartDriver(filter, success)
        PROVE  CardInv'
    <2>1. UNCHANGED <<sys, m.version>> /\ worker'.pc \in {"none", "poll"} /\ sys.links = {}
      BY <1>1, <1>5, StartStep, StartDriverStep DEF StartDriver, FitInv, TaskInv
    <2>2. QED
      BY <2>1 DEF CardInv, HasAlsa
  <1>6. ASSUME NEW filter \in Filters, NEW success \in BOOLEAN, Start(filter, success),
               UNCHANGED task
        PROVE  CardInv'
    BY <1>1, <1>6, StartStep, SameCard
  <1>7. CASE (Stop \/ EndStop) /\ UNCHANGED task
    BY <1>7, StopStep, SameCard
  <1>8. CASE Worker /\ UNCHANGED task
    BY <1>8, WorkerCard
  <1>9. ASSUME NEW d \in Devices, Plug(d), UNCHANGED task PROVE CardInv'
    BY <1>9, PlugStep, SameCard
  <1>10. ASSUME NEW d \in Devices, Unplug(d), UNCHANGED task PROVE CardInv'
    <2>1. sys'.links \subseteq sys.links
      BY <1>10, UnplugStep
    <2>2. QED
      BY <1>10, <2>1, UnplugStep, SameCard
  <1>11. QED
    BY <1>2, <1>3, <1>4, <1>5, <1>6, <1>7, <1>8, <1>9, <1>10, NextCases

\* CreateAlsaCard of version 2 is called once, at the end of the poll that made the link: if no
\* write fails, a linked sound device has its card whenever the worker sleeps.
THEOREM StartupCardIsCreated == Spec => []CardIsCreated
  <1>1. Init => IInv /\ TypeInv /\ FitInv /\ CardInv
    BY InitIInv, InitType, InitFit, InitCard
  <1>2. (IInv /\ TypeInv /\ FitInv /\ CardInv) /\ [Next]_vars
          => (IInv /\ TypeInv /\ FitInv /\ CardInv)'
    BY NextIInv, NextType, NextFit, NextCard DEF IInv
  <1>3. IInv /\ FitInv /\ CardInv => CardIsCreated
    BY DEF IInv, ThreadInv, FitInv, TaskInv, CardInv, HasAlsa, CardIsCreated, Idle
  <1>4. QED
    BY <1>1, <1>2, <1>3, PTL DEF Spec
==============================================================================
