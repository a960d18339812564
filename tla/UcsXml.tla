------------------------------- MODULE UcsXml -------------------------------
(***************************************************************************)
(* How the parser of the XML configuration (libraries/ucs-xml) builds the  *)
(* structures of the library: resource objects, the job list of each       *)
(* endpoint, routes and drivers.                                           *)
(*                                                                         *)
(* The document is made up while it is read: each action reads one         *)
(* element and chooses what it says.  doc keeps what was read, for the     *)
(* properties.  Attributes that only end up in a field of an object, and   *)
(* the data type of a connection, are left out; any element may lack a     *)
(* mandatory attribute, or the memory may be out (Fail).  Scripts are the  *)
(* subject of UcsXmlScripts.                                               *)
(***************************************************************************)
EXTENDS Naturals, Sequences, FiniteSets, SequencesExt

CONSTANTS
  Routes,          \* names of routes
  Attributes,      \* what a NetworkSocket may say, a set of Attribute
  SocketPairs,     \* the first and second socket of a connection
  NodePorts,       \* the ports that a node may declare, a set of sequences
  Links,           \* names of drivers
  DriverKinds,     \* the children a Driver may have, a set of sequences
  MaxNodes, MaxConnections, MaxNested,  \* bounds of the document
  MixedSockets     \* the sockets of one connection may differ in the attributes they have

NULL == 0          \* no object, no label, no name

IdRange == 65536       \* a RouteId has 16 bits
Invalid == 65535       \* ROUTE_INVALID_ID
AutoIdStart == 32768   \* ROUTE_AUTO_ID_START

LocalSockets == {"USBSocket", "MediaLBSocket", "StreamSocket"}
DriverTypes == {"Cdev", "V4l2", "Alsa"}

\* The ports, by the functions that create them, with attributes or as default created ones.
UsbPorts == <<"usbPort">>
MlbPorts == <<"mlbPort">>
StrmPorts == <<"strmPortA", "strmPortB">>
Ports == {"mlbPort", "usbPort", "strmPortA", "strmPortB", "rmckPort"}

\* An attribute that is not there is NULL; without a RouteId the id is Invalid.
Attribute == [route : Routes \cup {NULL}, label : Nat, fallback : Nat, id : 0 .. IdRange - 1,
              active : BOOLEAN]

ASSUME XmlAssumption ==
  /\ \A a \in Attributes : a \in Attribute /\ (a.route # NULL \/ a.label # NULL)
  /\ NodePorts \subseteq Seq(Ports)
  /\ \A names \in NodePorts : \A n \in DOMAIN names :
       /\ names[n] = "strmPortA" => n < Len(names) /\ names[n + 1] = "strmPortB"
       /\ names[n] = "strmPortB" => n > 1 /\ names[n - 1] = "strmPortA"
  /\ SocketPairs \subseteq (LocalSockets \cup {"NetworkSocket", "Splitter", "Combiner"}) \X
                           (LocalSockets \cup {"NetworkSocket", "Splitter", "Combiner"})
  /\ DriverKinds \subseteq Seq(DriverTypes)
  /\ {MaxNodes, MaxConnections, MaxNested} \subseteq Nat
  /\ MixedSockets \in BOOLEAN

VARIABLES
  pc,     \* what is read next
  priv,   \* PrivateData_t
  ucs,    \* UcsXmlVal_t
  doc     \* what was read

vars == <<pc, priv, ucs, doc>>

NoConnection ==
  [sockCnt |-> 0, isDeactivated |-> FALSE, routeId |-> 0, routeName |-> NULL, labelNormal |-> NULL,
   labelFallback |-> NULL, inSocket |-> NULL, outSocket |-> NULL, jobList |-> <<>>,
   combiner |-> NULL, splitter |-> NULL, pendingCombinerSockets |-> FALSE]

NoData ==
  [objList   |-> <<>>,                       \* the objects, each with those it points to
   pRtLst    |-> <<>>, drvInfLst |-> <<>>,
   nodeData  |-> [p \in Ports |-> NULL],
   conData   |-> NoConnection]

Init ==
  /\ pc = "node"
  /\ priv = NoData
  /\ ucs = [nodSize |-> 0, pRoutes |-> <<>>, ppDriver |-> <<>>]
  /\ doc = [sockets |-> <<>>, pair |-> <<>>, nested |-> 0, connections |-> 0, first |-> <<>>,
            links |-> <<>>, drivers |-> <<>>]

\* What the constructors of UcsXml_Private.c make; where they do not accept a data
\* type or an attribute, they fail (Fail).
Object(kind, refs) == [kind |-> kind, refs |-> refs]
GetNetworkSocket == Object("NetworkSocket", {})
GetUsbSocket(ports) == Object("USBSocket", ToSet(ports))
GetMlbSocket(ports) == Object("MediaLBSocket", ToSet(ports))
GetStrmSocket(ports, pin) == Object("StreamSocket", {ports[pin]})
GetSplitter(inSocket) == Object("Splitter", inSocket)
GetCombiner == Object("Combiner", {})

LastObject(p) == Len(p.objList)
KindOf(p, object) == p.objList[object].kind

\* UcsXml_Parse reports the error and frees everything.
Error ==
  /\ pc' = "failed"
  /\ priv' = NoData
  /\ ucs' = [nodSize |-> 0, pRoutes |-> <<>>, ppDriver |-> <<>>]
  /\ UNCHANGED doc

Fail == pc \notin {"done", "failed"} /\ Error

-----------------------------------------------------------------------------
(* Nodes, ports and connections. *)

\* A new object for port n; CreatePort for a socket that finds none.
NewPort(p, n) ==
  [p EXCEPT !.objList = Append(@, Object(n, {})), !.nodeData[n] = LastObject(p) + 1]
CreatePort(p, n) == IF p.nodeData[n] = NULL THEN NewPort(p, n) ELSE p

\* One object for each port element of a node; a second element of the same port
\* takes the place of the first.
NewPorts(p, names) ==
  LET created[n \in 0 .. Len(names)] == IF n = 0 THEN p ELSE NewPort(created[n - 1], names[n])
  IN  created[Len(names)]

ParseNode(names) ==
  /\ pc = "node"
  /\ ucs.nodSize < MaxNodes
  /\ priv' = NewPorts([priv EXCEPT !.nodeData = [n \in Ports |-> NULL]], names)
  /\ pc' = "connection"
  /\ UNCHANGED <<ucs, doc>>

FaultyParseConnection(pair) ==
  /\ pc = "connection"
  /\ doc.connections < MaxConnections
  /\ priv' = [priv EXCEPT !.conData = [NoConnection EXCEPT !.labelFallback = priv.conData.labelFallback]]
  /\ doc' = [doc EXCEPT !.pair = pair, !.connections = @ + 1, !.first = <<>>]
  /\ pc' = "socket"
  /\ UNCHANGED ucs

ParseConnection(pair) ==
  LET rmckPort == priv.nodeData["rmckPort"] IN
  /\ pc = "connection"
  /\ doc.connections < MaxConnections
  /\ priv' = [priv EXCEPT !.conData =
                [NoConnection EXCEPT !.jobList = IF rmckPort = NULL THEN <<>> ELSE <<rmckPort>>]]
  /\ doc' = [doc EXCEPT !.pair = pair, !.connections = @ + 1, !.first = <<>>]
  /\ pc' = "socket"
  /\ UNCHANGED ucs

EndNode ==
  /\ pc = "connection"
  /\ ucs' = [ucs EXCEPT !.nodSize = @ + 1]
  /\ pc' = "node"
  /\ UNCHANGED <<priv, doc>>

-----------------------------------------------------------------------------
(* Sockets. *)

FaultyAddJob(p, job) == [p EXCEPT !.conData.jobList = <<job>> \o @]
AddJob(p, job) == [p EXCEPT !.conData.jobList = Append(@, job)]

\* AddJob does nothing useful with NULL; here it stands for no call.
AddJobIf(p, condition, job) == IF condition THEN AddJob(p, job) ELSE p

SetTarget(p, isSource, object) ==
  IF isSource THEN [p EXCEPT !.conData.inSocket = object]
              ELSE [p EXCEPT !.conData.outSocket = object]

\* Case MSocket_NETWORK.  What the attributes lack keeps the value of the socket before.
NetworkSocket(p, isSource, a) ==
  LET c == p.conData
      inSplitter == c.combiner = NULL /\ c.splitter # NULL
      socket == LastObject(p) + 1
      read == [p EXCEPT !.objList = Append(@, GetNetworkSocket),
                        !.conData.labelNormal = IF a.label # NULL THEN a.label ELSE @,
                        !.conData.routeName = IF a.label # NULL THEN @ ELSE a.route,
                        !.conData.labelFallback = IF a.fallback # NULL THEN a.fallback ELSE @,
                        !.conData.isDeactivated = ~a.active,
                        !.conData.routeId = a.id]
      target == IF inSplitter THEN [read EXCEPT !.objList[c.splitter].refs = {socket}]
                              ELSE SetTarget(read, isSource, socket)
  IN  AddJobIf(AddJob(AddJobIf(target, c.combiner # NULL, c.combiner), socket),
               c.splitter # NULL, c.splitter)

\* Cases MSocket_USB, MSocket_MLB and MSocket_STRM: the ports, created if the
\* node has none, and the socket on one of them.
PortsOf(kind) ==
  CASE kind = "USBSocket" -> UsbPorts
    [] kind = "MediaLBSocket" -> MlbPorts
    [] kind = "StreamSocket" -> StrmPorts

\* pin: 1 for the pins of the first port of the node, 2 for those of the second.
GetSocket(kind, ports, pin) ==
  CASE kind = "USBSocket" -> GetUsbSocket(ports)
    [] kind = "MediaLBSocket" -> GetMlbSocket(ports)
    [] kind = "StreamSocket" -> GetStrmSocket(ports, pin)

CreatePorts(p, names) ==
  IF Len(names) = 1 THEN CreatePort(p, names[1]) ELSE CreatePort(CreatePort(p, names[1]), names[2])

LocalSocket(p, isSource, kind, pin) ==
  LET ports == CreatePorts(p, PortsOf(kind))
      ids == [i \in DOMAIN PortsOf(kind) |-> ports.nodeData[PortsOf(kind)[i]]]
      socket == LastObject(ports) + 1
      listed == [ports EXCEPT !.conData.jobList = @ \o ids,
                              !.objList = Append(@, GetSocket(kind, ids, pin))]
  IN  AddJob(SetTarget(listed, isSource, socket), socket)

\* Case MSocket_SPLITTER: the splitter takes the place of the first socket, which it points to.
SplitterOut(p) ==
  LET splitter == LastObject(p) + 1 IN
  AddJob([p EXCEPT !.objList = Append(@, GetSplitter({p.conData.inSocket})),
                   !.conData.inSocket = splitter], splitter)

\* As the first socket it is the input itself, and takes its data from a NetworkSocket.
SplitterIn(p) ==
  LET splitter == LastObject(p) + 1 IN
  [p EXCEPT !.objList = Append(@, GetSplitter({})),
            !.conData.splitter = splitter, !.conData.inSocket = splitter]

Combiner(p) ==
  LET combiner == LastObject(p) + 1 IN
  [p EXCEPT !.objList = Append(@, GetCombiner),
            !.conData.combiner = combiner, !.conData.pendingCombinerSockets = TRUE]

\* The combiner becomes the second socket, and points to the one it replaces.
CombinerPending(p) ==
  /\ p.conData.outSocket # NULL
  /\ p.conData.combiner # NULL
  /\ p.conData.pendingCombinerSockets

FaultyCombinerOut(p) ==
  [p EXCEPT !.objList[p.conData.combiner].refs = {p.conData.outSocket},
            !.conData.pendingCombinerSockets = FALSE]
CombinerOut(p) ==
  LET c == p.conData IN
  [p EXCEPT !.objList[c.combiner].refs = {c.outSocket},
            !.conData.outSocket = c.combiner, !.conData.pendingCombinerSockets = FALSE]

Complete(p) == p.conData.inSocket # NULL /\ p.conData.outSocket # NULL
NetworkIsInput(p) == KindOf(p, p.conData.inSocket) \in {"NetworkSocket", "Splitter"}
NetworkIsOutput(p) == KindOf(p, p.conData.outSocket) = "NetworkSocket"

\* The lists grow at their end; an endpoint has the array of its jobs, a nested socket
\* a copy of the list.
AddRoute(list, route) == Append(list, route)
GetJobList(p) == p.conData.jobList
DeepCopyJobList(p, q) == [p EXCEPT !.conData.jobList = q.conData.jobList]

\* The connection object, the endpoint with its job list, and its entry in the list of routes.
Connect(p) ==
  LET c == p.conData
      con == LastObject(p) + 1
      joined == AddJob([p EXCEPT !.objList = Append(@, Object("Connection", {c.inSocket, c.outSocket}))],
                       con)
      route == [isTalker |-> NetworkIsOutput(p), isActive |-> ~c.isDeactivated,
                routeId |-> c.routeId, routeName |-> c.routeName,
                labelNormal |-> IF c.routeName # NULL THEN NULL ELSE c.labelNormal,
                labelFallback |-> c.labelFallback,
                ep |-> [node |-> ucs.nodSize + 1, jobs |-> GetJobList(joined)]]
  IN  [joined EXCEPT !.pRtLst = AddRoute(@, route)]

ConnectIfComplete(p) == IF Complete(p) THEN Connect(p) ELSE p

\* The end of ParseSocket.
Finish(p) ==
  IF CombinerPending(p)
  THEN priv' = CombinerOut(p) /\ pc' = "nested" /\ UNCHANGED ucs
  ELSE /\ priv' = ConnectIfComplete(p)
       /\ pc' = "socket"
       /\ UNCHANGED ucs

Rejected(p) ==
  ~CombinerPending(p) /\ Complete(p) /\ ~NetworkIsInput(p) /\ ~NetworkIsOutput(p)

\* The next socket of the connection; nested ones are not counted.
IsSource == priv.conData.sockCnt = 0
NextSocket(kind) == pc = "socket" /\ doc.pair # <<>> /\ Head(doc.pair) = kind
Counted(p) == [p EXCEPT !.conData.sockCnt = @ + 1]
Read(sockets) == doc' = [doc EXCEPT !.pair = Tail(@), !.nested = 0, !.sockets = @ \o sockets]

\* What the document says of a network socket, and whether it sends to the network.
Said(isSource, a) == [says |-> a, isTalker |-> ~isSource, node |-> ucs.nodSize + 1]

SameAttributes(a) ==
  \/ MixedSockets
  \/ \A first \in ToSet(doc.first) :
       /\ (a.label = NULL) = (first.label = NULL)
       /\ (a.fallback = NULL) = (first.fallback = NULL)

ParseNetworkSocket(a) ==
  LET p == NetworkSocket(Counted(priv), IsSource, a) IN
  /\ NextSocket("NetworkSocket")
  /\ IF Rejected(p) THEN Error ELSE Finish(p) /\ Read(<<Said(IsSource, a)>>)

ParseLocalSocket(kind, pin) ==
  LET p == LocalSocket(Counted(priv), IsSource, kind, pin) IN
  /\ NextSocket(kind)
  /\ IF Rejected(p) THEN Error ELSE Finish(p) /\ Read(<<>>)

\* Only the first NetworkSocket of a splitter in the first place is read.
ParseSplitterIn(a) ==
  /\ NextSocket("Splitter") /\ IsSource
  /\ Finish(NetworkSocket(SplitterIn(Counted(priv)), TRUE, a))
  /\ Read(<<Said(TRUE, a)>>)

ParseSplitterOut ==
  /\ NextSocket("Splitter") /\ ~IsSource
  /\ IF priv.conData.inSocket = NULL
     THEN Error
     ELSE /\ priv' = SplitterOut(Counted(priv))
          /\ pc' = "nested"
          /\ Read(<<>>)
          /\ UNCHANGED ucs

ParseCombiner ==
  /\ NextSocket("Combiner")
  /\ IF ~IsSource THEN Error ELSE Finish(Combiner(Counted(priv))) /\ Read(<<>>)

\* A NetworkSocket of a Splitter in the second place or of a Combiner is parsed
\* with a copy of the job list.
NestedIsSource == priv.conData.combiner # NULL

ParseNestedSocket(a) ==
  LET p == ConnectIfComplete(NetworkSocket(priv, NestedIsSource, a)) IN
  /\ pc = "nested"
  /\ doc.nested < MaxNested
  /\ SameAttributes(a)
  /\ priv' = DeepCopyJobList(p, priv)
  /\ doc' = [doc EXCEPT !.nested = @ + 1, !.first = <<a>>,
                        !.sockets = Append(@, Said(NestedIsSource, a))]
  /\ UNCHANGED <<pc, ucs>>

\* A nested NetworkSocket without its first attribute is passed over without an error: the
\* result of the nested call is one of 10, 11 and 12, and is tested for being 0.
ParseInvalidNestedSocket ==
  /\ pc = "nested"
  /\ doc.nested < MaxNested
  /\ doc' = [doc EXCEPT !.nested = @ + 1]
  /\ UNCHANGED <<pc, priv, ucs>>

EndNested ==
  /\ pc = "nested" /\ doc.nested > 0
  /\ pc' = "socket"
  /\ UNCHANGED <<priv, ucs, doc>>

ParseSocket ==
  \/ \E a \in Attributes : ParseNetworkSocket(a) \/ ParseSplitterIn(a)
  \/ \E kind \in LocalSockets : \E pin \in DOMAIN PortsOf(kind) : ParseLocalSocket(kind, pin)
  \/ ParseSplitterOut
  \/ ParseCombiner
  \/ \E a \in Attributes : ParseNestedSocket(a)
  \/ ParseInvalidNestedSocket
  \/ EndNested

-----------------------------------------------------------------------------
(* Drivers, first part: the connection names one. *)

\* The direction is taken from the first socket, a splitter counting as local.
CfgDirection(p) ==
  IF KindOf(p, p.conData.inSocket) = "NetworkSocket" THEN "Rx" ELSE "Tx"

\* The local socket that gives the channel its name; the second socket has the
\* last word, and splitter and combiner stand for what they point to.
FaultyChannelOf(p, socket) == {s \in {socket} : KindOf(p, s) \in {"USBSocket", "MediaLBSocket"}}
ChannelOf(p, socket) ==
  LET used == IF KindOf(p, socket) \in {"Splitter", "Combiner"} THEN p.objList[socket].refs
                                                                 ELSE {socket}
  IN  {s \in used : KindOf(p, s) \in {"USBSocket", "MediaLBSocket"}}

AddDriverInfo(list, drvInfo) == Append(list, drvInfo)

\* The type stays at its first value, Driver_LinuxCdev, unless a Driver element says more.
StoreDriverInfo(p, link) ==
  LET out == ChannelOf(p, p.conData.outSocket) IN
  [p EXCEPT !.drvInfLst = AddDriverInfo(@,
     [linkName |-> link, nodeAddress |-> ucs.nodSize + 1, direction |-> CfgDirection(p),
      channel |-> IF out # {} THEN out ELSE ChannelOf(p, p.conData.inSocket),
      driverType |-> "Cdev"])]

\* What the document says of a connection with a driver: its node, its last
\* endpoint, and whether its input is a splitter.
Link(link) ==
  [link |-> link, node |-> ucs.nodSize + 1, endpoint |-> Len(priv.pRtLst),
   isTalker |-> doc.sockets[Len(doc.sockets)].isTalker,
   splitterIn |-> priv.conData.splitter # NULL]

EndConnection(link) ==
  /\ pc = "socket" /\ doc.pair = <<>>
  /\ IF link = NULL
     THEN pc' = "connection" /\ UNCHANGED <<priv, ucs, doc>>
     ELSE IF ~Complete(priv)
          THEN Error
          ELSE /\ priv' = StoreDriverInfo(priv, link)
               /\ pc' = "connection"
               /\ doc' = [doc EXCEPT !.links = Append(@, Link(link))]
               /\ UNCHANGED ucs

-----------------------------------------------------------------------------
(* Routes. *)

FaultyLinked(i, j) ==
  /\ priv.pRtLst[i].isTalker /\ ~priv.pRtLst[j].isTalker
  /\ priv.pRtLst[i].routeName = priv.pRtLst[j].routeName
Linked(i, j) ==
  LET source == priv.pRtLst[i]
      sink == priv.pRtLst[j]
  IN  /\ i # j
      /\ source.isTalker /\ ~sink.isTalker
      /\ source.routeName # NULL /\ source.routeName = sink.routeName

\* The order of the two loops over the list, the sources outside.
Before(x, y) == x[1] < y[1] \/ (x[1] = y[1] /\ x[2] < y[2])
Pair(linked, k) == CHOOSE x \in linked : Cardinality({y \in linked : Before(y, x)}) = k - 1

\* The routes between two endpoints: the sink's id comes first.
NamedRoutes ==
  LET list == priv.pRtLst
      linked == {x \in (DOMAIN list) \X (DOMAIN list) : Linked(x[1], x[2])}
      route(source, sink) ==
        [source |-> source, sink |-> sink, label |-> NULL,
         id |-> IF list[sink].routeId # Invalid THEN list[sink].routeId ELSE list[source].routeId,
         active |-> list[source].isActive /\ list[sink].isActive]
  IN  [k \in 1 .. Cardinality(linked) |-> route(Pair(linked, k)[1], Pair(linked, k)[2])]

\* The other end of a labelled endpoint is created (NULL here).
GetDefaultCreatedRoute(i, label) ==
  LET r == priv.pRtLst[i] IN
  [source |-> IF r.isTalker THEN i ELSE NULL, sink |-> IF r.isTalker THEN NULL ELSE i,
   label |-> label, id |-> r.routeId, active |-> r.isActive]

LabelRoutes ==
  LET list == priv.pRtLst
      created(i, label) == IF label = NULL THEN <<>> ELSE <<GetDefaultCreatedRoute(i, label)>>
  IN  FlattenSeq([i \in DOMAIN list |->
        created(i, list[i].labelNormal) \o created(i, list[i].labelFallback)])

\* A route without an id takes the next one of autoRouteId, which has 16 bits.
Numbered(routes) ==
  [k \in DOMAIN routes |->
    IF routes[k].id # Invalid THEN routes[k]
    ELSE [routes[k] EXCEPT !.id =
            (AutoIdStart + Cardinality({m \in 1 .. k - 1 : routes[m].id = Invalid})) % IdRange]]

\* The assertions of a DEBUG build.
Checked(r) ==
  LET ends == {r.source, r.sink} IN
  /\ r.id # 0
  /\ NULL \in ends => r.label # NULL
  /\ \A end \in ends \ {NULL} : priv.pRtLst[end].ep.jobs # <<>> /\ priv.pRtLst[end].ep.node # NULL

ParseRoutes ==
  /\ pc = "node" /\ ucs.nodSize > 0
  /\ ucs' = [ucs EXCEPT !.pRoutes = Numbered(NamedRoutes \o LabelRoutes)]
  /\ pc' = "drivers"
  /\ UNCHANGED <<priv, doc>>

-----------------------------------------------------------------------------
(* Drivers, second part: the Driver elements. *)

\* The entries of a link, one for each child of the Driver: the first child goes to
\* the entry that is there, the others to copies that are inserted behind it.
Expand(list, link, kinds) ==
  FlattenSeq([i \in DOMAIN list |->
    IF list[i].linkName # link \/ kinds = <<>> THEN <<list[i]>>
    ELSE [k \in DOMAIN kinds |-> [list[i] EXCEPT !.driverType = kinds[k]]]])

ParseDriver(link, kinds) ==
  /\ pc = "drivers"
  /\ link \notin {doc.drivers[i].link : i \in DOMAIN doc.drivers}
  /\ IF kinds = <<>> \/ \A i \in DOMAIN priv.drvInfLst : priv.drvInfLst[i].linkName # link
     THEN Error
     ELSE /\ priv' = [priv EXCEPT !.drvInfLst = Expand(@, link, kinds)]
          /\ doc' = [doc EXCEPT !.drivers = Append(@, [link |-> link, kinds |-> kinds])]
          /\ UNCHANGED <<pc, ucs>>

FillDriverArray ==
  /\ pc = "drivers"
  /\ ucs' = [ucs EXCEPT !.ppDriver = priv.drvInfLst]
  /\ pc' = "done"
  /\ UNCHANGED <<priv, doc>>

ParseAll ==
  \/ \E names \in NodePorts : ParseNode(names)
  \/ \E pair \in SocketPairs : ParseConnection(pair)
  \/ ParseSocket
  \/ \E link \in Links \cup {NULL} : EndConnection(link)
  \/ EndNode
  \/ ParseRoutes
  \/ \E link \in Links, kinds \in DriverKinds : ParseDriver(link, kinds)
  \/ FillDriverArray

Next == ParseAll \/ Fail

Spec == Init /\ [][Next]_vars

-----------------------------------------------------------------------------
(* Properties. *)

\* The lists and objects are of their kinds, pointers point to objects that exist.
TypeOK ==
  LET ids == 0 .. LastObject(priv)
      c == priv.conData
  IN  /\ pc \in {"node", "connection", "socket", "nested", "drivers", "done", "failed"}
      /\ \A i \in DOMAIN priv.objList : priv.objList[i].refs \subseteq ids \ {0}
      /\ \A n \in Ports : priv.nodeData[n] \in ids
      /\ {c.inSocket, c.outSocket, c.combiner, c.splitter} \cup ToSet(c.jobList) \subseteq ids
      /\ ucs.nodSize \in 0 .. MaxNodes

\* The library executes the jobs of an endpoint from the first to the last
\* (Ucs_Rm_EndPoint_t.jobs_list_ptr): in every list each object comes after all
\* objects it points to, none comes twice (the assertion in AddJob), and
\* one connection ends the list.
JobsInOrder ==
  \A r \in DOMAIN priv.pRtLst :
    LET jobs == priv.pRtLst[r].ep.jobs IN
    /\ \A i \in DOMAIN jobs :
         /\ priv.objList[jobs[i]].refs \subseteq {jobs[k] : k \in 1 .. i - 1}
         /\ priv.objList[jobs[i]].kind = "Connection" <=> i = Len(jobs)
    /\ Cardinality(ToSet(jobs)) = Len(jobs)

\* An endpoint creates nothing that it does not use: every job before the connection
\* is pointed to by a later one, apart from the ports and a clock the node declares.
JobsAreUsed ==
  \A r \in DOMAIN priv.pRtLst :
    LET jobs == priv.pRtLst[r].ep.jobs IN
    \A i \in 1 .. Len(jobs) - 1 :
      \/ priv.objList[jobs[i]].kind \in Ports
      \/ \E k \in i + 1 .. Len(jobs) : jobs[i] \in priv.objList[jobs[k]].refs

\* What the document says of its network sockets is what the endpoints got: one
\* endpoint per network socket, in order, in its node, in its direction, with
\* its own route or label, id and state.
Endpoint(s) ==
  [isTalker |-> s.isTalker, isActive |-> s.says.active, routeId |-> s.says.id,
   routeName |-> IF s.says.label # NULL THEN NULL ELSE s.says.route,
   labelNormal |-> s.says.label, labelFallback |-> s.says.fallback, node |-> s.node]

EndpointsOfDocument ==
  pc \in {"node", "drivers", "done"} =>
    /\ Len(priv.pRtLst) = Len(doc.sockets)
    /\ \A i \in DOMAIN doc.sockets :
         LET r == priv.pRtLst[i]
             e == Endpoint(doc.sockets[i])
         IN  /\ \A f \in {"isTalker", "isActive", "routeId", "routeName",
                          "labelNormal", "labelFallback"} : r[f] = e[f]
             /\ r.ep.node = e.node

\* A RouteId may be any number of 16 bits (cfg/README.md:607); the assertions of a DEBUG build
\* hold for the routes of every document.
RoutesChecked == \A k \in DOMAIN ucs.pRoutes : Checked(ucs.pRoutes[k])

\* Every sender and receiver of the same name, and no others, are joined by one
\* route, which is active if both are; every label has its route, too.  Routes that had to be
\* numbered never share a number with each other, and the assertions of a DEBUG build hold, as
\* long as there are as many numbers as routes.
RoutesOfDocument ==
  LET named == {x \in (DOMAIN doc.sockets) \X (DOMAIN doc.sockets) :
                  LET s == doc.sockets[x[1]]
                      t == doc.sockets[x[2]]
                  IN  /\ s.isTalker /\ ~t.isTalker
                      /\ s.says.label = NULL /\ t.says.label = NULL
                      /\ s.says.route = t.says.route}
      labels == {x \in (DOMAIN doc.sockets) \X {"label", "fallback"} :
                   doc.sockets[x[1]].says[x[2]] # NULL}
      says(i) == doc.sockets[i].says
      auto == {k \in DOMAIN ucs.pRoutes :
                 \A i \in DOMAIN doc.sockets : says(i).id # ucs.pRoutes[k].id}
  IN  pc \in {"drivers", "done"} =>
        /\ Len(ucs.pRoutes) = Cardinality(named) + Cardinality(labels)
        /\ \A x \in named : \E k \in DOMAIN ucs.pRoutes :
             LET r == ucs.pRoutes[k] IN
             /\ r.source = x[1] /\ r.sink = x[2]
             /\ r.active <=> says(x[1]).active /\ says(x[2]).active
             /\ says(x[2]).id # Invalid => r.id = says(x[2]).id
        /\ \A x \in labels : \E k \in DOMAIN ucs.pRoutes :
             LET r == ucs.pRoutes[k] IN
             /\ x[1] \in {r.source, r.sink} /\ NULL \in {r.source, r.sink}
             /\ r.label = says(x[1])[x[2]]
             /\ r.active <=> says(x[1]).active
        /\ Len(ucs.pRoutes) <= IdRange - AutoIdStart =>
             /\ RoutesChecked
             /\ \A k, m \in auto : ucs.pRoutes[k].id = ucs.pRoutes[m].id => k = m

\* The RouteId of cfg/README.md:607 is a handle of one route (ucsi_api.h:214): if
\* the document gives no id twice, no two routes have the same.
RouteIdsUnique ==
  LET given == {i \in DOMAIN doc.sockets : doc.sockets[i].says.id # Invalid}
      unique == \A i, j \in given : doc.sockets[i].says.id = doc.sockets[j].says.id => i = j
  IN  unique => \A k, m \in DOMAIN ucs.pRoutes : ucs.pRoutes[k].id = ucs.pRoutes[m].id => k = m

\* The types of the entries that a connection with a driver gets.
EntriesOf(l) ==
  LET named == {i \in DOMAIN doc.drivers : doc.drivers[i].link = l.link}
  IN  IF named = {} THEN <<"Cdev">> ELSE doc.drivers[CHOOSE i \in named : TRUE].kinds

\* A connection with a driver has one entry for each child of that driver, and no
\* other: with its node, the channel of the USB or MediaLB socket in its own job list, and the
\* direction seen from the device (11.3 of cfg/README.md), a splitter as input aside, which
\* StoreDriverInfo takes for a device.
DriversInArray ==
  pc = "done" =>
    LET drivers == ucs.ppDriver
        expected == FlattenSeq([i \in DOMAIN doc.links |->
                      [k \in DOMAIN EntriesOf(doc.links[i]) |->
                        [link |-> doc.links[i], kind |-> EntriesOf(doc.links[i])[k]]]])
    IN  /\ Len(drivers) = Len(expected)
        /\ \A i \in DOMAIN drivers :
             LET l == expected[i].link
                 jobs == ToSet(priv.pRtLst[l.endpoint].ep.jobs)
             IN  /\ drivers[i].linkName = l.link
                 /\ drivers[i].nodeAddress = l.node
                 /\ drivers[i].driverType = expected[i].kind
                 /\ drivers[i].channel =
                      {j \in jobs : KindOf(priv, j) \in {"USBSocket", "MediaLBSocket"}}
                 /\ l.splitterIn \/ drivers[i].direction = IF l.isTalker THEN "Tx" ELSE "Rx"
=============================================================================
