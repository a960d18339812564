-------------------------- MODULE UcsXmlInvariants --------------------------
(***************************************************************************)
(* The inductive invariants of the parser, and the relations between its   *)
(* states that the proofs of UcsXmlProofs use.  TypeInv is inductive for   *)
(* any document, JobsInv under CombinersAreLocal and DocumentInv under     *)
(* OneNetworkSocket without MixedSockets; RoutesInv, HeardInv and          *)
(* DriversInv need them.                                                   *)
(***************************************************************************)
EXTENDS UcsXml

\* A combiner joins NetworkSockets to one local socket (section 6 of cfg/README.md).
CombinersAreLocal == <<"Combiner", "NetworkSocket">> \notin SocketPairs

\* The fields of the records whose fields a step changes one by one.
DataFields == {"objList", "pRtLst", "drvInfLst", "nodeData", "conData"}
ConnectionFields ==
  {"sockCnt", "isDeactivated", "routeId", "routeName", "labelNormal", "labelFallback", "inSocket",
   "outSocket", "jobList", "combiner", "splitter", "pendingCombinerSockets"}
DocFields == {"sockets", "pair", "nested", "connections", "first", "links", "drivers"}
UcsFields == {"nodSize", "pRoutes", "ppDriver"}
HasFields(p) == DataFields \subseteq DOMAIN p /\ ConnectionFields \subseteq DOMAIN p.conData

Kinds == Ports \cup LocalSockets \cup {"NetworkSocket", "Splitter", "Combiner", "Connection"}
ObjectRecord == [kind : Kinds, refs : SUBSET Nat]

\* What is pointed to exists, and a port is an object of its own kind.
Pointers(p) ==
  LET ids == DOMAIN p.objList
      c == p.conData
  IN  /\ p.objList \in Seq(ObjectRecord)
      /\ \A i \in ids : p.objList[i].refs \subseteq ids
      /\ DOMAIN p.nodeData = Ports
      /\ \A n \in Ports : p.nodeData[n] # NULL =>
           p.nodeData[n] \in ids /\ p.objList[p.nodeData[n]] = Object(n, {})
      /\ {c.inSocket, c.outSocket, c.combiner, c.splitter} \subseteq ids \cup {NULL}
      /\ c.splitter # NULL => KindOf(p, c.splitter) = "Splitter"
      /\ c.combiner # NULL => KindOf(p, c.combiner) = "Combiner"
      /\ c.jobList \in Seq(ids)
      /\ p.pRtLst \in Seq(ToSet(p.pRtLst))

\* Jobs that can be executed in their order, of which all but those in open are used.
JobListOK(obj, jobs, open) ==
  /\ jobs \in Seq(DOMAIN obj)
  /\ \A i, j \in DOMAIN jobs : jobs[i] = jobs[j] => i = j
  /\ \A i \in DOMAIN jobs :
       /\ obj[jobs[i]].kind # "Connection"
       /\ \A x \in obj[jobs[i]].refs : \E k \in 1 .. i - 1 : jobs[k] = x
       /\ \/ obj[jobs[i]].kind \in Ports
          \/ jobs[i] \in open
          \/ \E k \in i + 1 .. Len(jobs) : jobs[i] \in obj[jobs[k]].refs

\* The same with the connection at the end.
EndpointOK(obj, jobs) ==
  /\ jobs \in Seq(DOMAIN obj)
  /\ \A i, j \in DOMAIN jobs : jobs[i] = jobs[j] => i = j
  /\ \A i \in DOMAIN jobs :
       /\ obj[jobs[i]].kind = "Connection" <=> i = Len(jobs)
       /\ \A x \in obj[jobs[i]].refs : \E k \in 1 .. i - 1 : jobs[k] = x
       /\ \/ i = Len(jobs)
          \/ obj[jobs[i]].kind \in Ports
          \/ \E k \in i + 1 .. Len(jobs) : jobs[i] \in obj[jobs[k]].refs

Endpoints(p) == \A r \in DOMAIN p.pRtLst : EndpointOK(p.objList, p.pRtLst[r].ep.jobs)

\* No endpoint has the object yet.
Unused(p, object) == \A r \in DOMAIN p.pRtLst : object \notin ToSet(p.pRtLst[r].ep.jobs)

NoPorts(p) == \A j \in ToSet(p.conData.jobList) : p.objList[j].kind \notin Ports \ {"rmckPort"}

\* The connection before its first socket.
Fresh(p) ==
  LET c == p.conData IN
  /\ c.inSocket = NULL /\ c.outSocket = NULL /\ c.combiner = NULL /\ c.splitter = NULL
  /\ JobListOK(p.objList, c.jobList, {})
  /\ NoPorts(p)

\* The first socket has been read, which is local, a network socket or a splitter.
HasInput(p) ==
  LET c == p.conData IN
  /\ c.inSocket \in ToSet(c.jobList) /\ c.outSocket = NULL /\ c.combiner = NULL
  /\ JobListOK(p.objList, c.jobList, {c.inSocket})
  /\ \/ KindOf(p, c.inSocket) \in LocalSockets /\ c.splitter = NULL
     \/ KindOf(p, c.inSocket) = "NetworkSocket" /\ c.splitter = NULL /\ NoPorts(p)
     \/ /\ KindOf(p, c.inSocket) = "Splitter" /\ c.splitter = c.inSocket /\ NoPorts(p)
        /\ Unused(p, c.splitter)

\* The first socket is a combiner, which is no job yet.
HasCombiner(p) ==
  LET c == p.conData IN
  /\ c.inSocket = NULL /\ c.outSocket = NULL /\ c.splitter = NULL
  /\ c.combiner \in DOMAIN p.objList \ ToSet(c.jobList)
  /\ KindOf(p, c.combiner) = "Combiner"
  /\ Unused(p, c.combiner) /\ c.pendingCombinerSockets
  /\ JobListOK(p.objList, c.jobList, {})
  /\ NoPorts(p)

\* The list that each NetworkSocket of a splitter copies.
InSplitter(p) ==
  LET c == p.conData IN
  /\ c.combiner = NULL /\ c.splitter = NULL
  /\ c.inSocket \in ToSet(c.jobList) /\ KindOf(p, c.inSocket) = "Splitter"
  /\ JobListOK(p.objList, c.jobList, {c.inSocket})

\* The list that each NetworkSocket of a combiner copies.
InCombiner(p) ==
  LET c == p.conData IN
  /\ c.splitter = NULL /\ c.outSocket = c.combiner
  /\ c.combiner \in DOMAIN p.objList \ ToSet(c.jobList)
  /\ KindOf(p, c.combiner) = "Combiner"
  /\ p.objList[c.combiner].refs \subseteq ToSet(c.jobList)
  /\ JobListOK(p.objList, c.jobList, p.objList[c.combiner].refs)

\* A splitter behind a splitter: nothing is ever connected.
InTwoSplitters(p) ==
  LET c == p.conData IN
  /\ c.combiner = NULL /\ c.splitter # NULL /\ c.outSocket = NULL
  /\ Unused(p, c.splitter)

\* What is left to be read of the connection, and how far it is.
ConnectionInv ==
  LET c == priv.conData IN
  /\ pc = "socket" =>
       \/ doc.pair \in SocketPairs /\ c.sockCnt = 0 /\ Fresh(priv)
       \/ \E pair \in SocketPairs :
            /\ doc.pair = <<pair[2]>> /\ c.sockCnt # 0
            /\ HasInput(priv) \/ (pair[1] = "Combiner" /\ HasCombiner(priv))
       \/ doc.pair = <<>>
  /\ pc = "nested" =>
       /\ doc.pair = <<>>
       /\ InSplitter(priv) \/ InCombiner(priv) \/ InTwoSplitters(priv)

TypeInv ==
  /\ DocFields \subseteq DOMAIN doc /\ UcsFields \subseteq DOMAIN ucs
  /\ pc \in {"node", "connection", "socket", "nested", "drivers", "done", "failed"}
  /\ ucs.nodSize \in 0 .. MaxNodes
  /\ pc \in {"connection", "socket", "nested"} => ucs.nodSize < MaxNodes
  /\ HasFields(priv) /\ Pointers(priv)

JobsInv == Endpoints(priv) /\ ConnectionInv

-----------------------------------------------------------------------------
(* The steps of a connection and their parts. *)

\* obj2 has the objects of obj but for those in S, and maybe new ones.
Kept(obj, obj2, S) ==
  /\ obj \in Seq(ObjectRecord) /\ obj2 \in Seq(ObjectRecord)
  /\ Len(obj) <= Len(obj2)
  /\ \A i \in DOMAIN obj \ S : obj2[i] = obj[i]

\* The object x points to others from now on.
WithRefs(obj, x, refs) == [obj EXCEPT ![x].refs = refs]

\* The fields of the connection that the proofs follow.
SameSockets(c, c2) ==
  /\ c2.inSocket = c.inSocket /\ c2.outSocket = c.outSocket
  /\ c2.combiner = c.combiner /\ c2.splitter = c.splitter
SameLists(p, q) ==
  q.pRtLst = p.pRtLst /\ q.nodeData = p.nodeData /\ q.drvInfLst = p.drvInfLst

NetworkSocketRead(p, isSource, q) ==
  LET c == p.conData
      new == LastObject(p) + 1
      list == Append(p.objList, GetNetworkSocket)
      inSplitter == c.combiner = NULL /\ c.splitter # NULL
      before == IF c.combiner # NULL THEN Append(c.jobList, c.combiner) ELSE c.jobList
      jobs == Append(before, new)
  IN  /\ HasFields(q) /\ SameLists(p, q)
      /\ q.objList = IF inSplitter THEN WithRefs(list, c.splitter, {new}) ELSE list
      /\ q.conData.jobList = IF c.splitter # NULL THEN Append(jobs, c.splitter) ELSE jobs
      /\ q.conData.inSocket = IF ~inSplitter /\ isSource THEN new ELSE c.inSocket
      /\ q.conData.outSocket = IF ~inSplitter /\ ~isSource THEN new ELSE c.outSocket
      /\ q.conData.combiner = c.combiner /\ q.conData.splitter = c.splitter
      /\ q.conData.sockCnt = c.sockCnt
      /\ q.conData.pendingCombinerSockets = c.pendingCombinerSockets

\* What a step on the ports leaves alone; the new objects point to nothing.
PortStep(p, q) ==
  /\ Pointers(q) /\ HasFields(q) /\ q.pRtLst = p.pRtLst /\ q.conData = p.conData
  /\ q.drvInfLst = p.drvInfLst /\ Kept(p.objList, q.objList, {})
  /\ \A x \in DOMAIN q.objList \ DOMAIN p.objList : q.objList[x].refs = {}

\* The ports a local socket uses, the new socket and the list that has them all.
PortIds(ports, kind) == [i \in DOMAIN PortsOf(kind) |-> ports.nodeData[PortsOf(kind)[i]]]

LocalSocketRead(p, ports, isSource, kind, pin, q) ==
  LET c == p.conData
      ids == PortIds(ports, kind)
      new == LastObject(ports) + 1
  IN  /\ HasFields(q) /\ SameLists(ports, q)
      /\ q.objList = Append(ports.objList, GetSocket(kind, ids, pin))
      /\ q.conData.jobList = Append(c.jobList \o ids, new)
      /\ q.conData.inSocket = IF isSource THEN new ELSE c.inSocket
      /\ q.conData.outSocket = IF isSource THEN c.outSocket ELSE new
      /\ q.conData.combiner = c.combiner /\ q.conData.splitter = c.splitter
      /\ q.conData.sockCnt = c.sockCnt
      /\ q.conData.pendingCombinerSockets = c.pendingCombinerSockets

Good(p) == HasFields(p) /\ Pointers(p)

\* The connection object at the end of the list.
Joined(p) ==
  LET c == p.conData IN
  AddJob([p EXCEPT !.objList = Append(@, Object("Connection", {c.inSocket, c.outSocket}))],
         LastObject(p) + 1)

\* The two sockets are jobs of the list and all that is not used yet.
ToBeJoined(p) ==
  LET c == p.conData IN
  /\ c.inSocket \in ToSet(c.jobList) /\ c.outSocket \in ToSet(c.jobList)
  /\ JobListOK(p.objList, c.jobList, {c.inSocket, c.outSocket})

\* What every socket does that is not nested in a splitter of the first place.
SocketStep(p, q, isSource, new) ==
  LET c == p.conData
      d == q.conData
  IN  /\ q.pRtLst = p.pRtLst /\ Kept(p.objList, q.objList, {})
      /\ new \notin DOMAIN p.objList /\ new \in DOMAIN q.objList /\ new # NULL
      /\ d.inSocket = IF isSource THEN new ELSE c.inSocket
      /\ d.outSocket = IF isSource THEN c.outSocket ELSE new
      /\ d.combiner = c.combiner /\ d.splitter = c.splitter /\ d.sockCnt = c.sockCnt
      /\ d.pendingCombinerSockets = c.pendingCombinerSockets

\* The socket is a job, and not used yet.
SocketListed(p, q, open, new) ==
  /\ JobListOK(q.objList, q.conData.jobList, open \cup {new})
  /\ ToSet(q.conData.jobList) = ToSet(p.conData.jobList) \cup {new}

\* A local socket comes behind its ports, if none of them is a job yet.
LocalSocketListed(p, q, isSource, kind, open, new) ==
  /\ SocketStep(p, q, isSource, new) /\ q.objList[new].kind = kind
  /\ JobListOK(q.objList, q.conData.jobList, open \cup {new})
  /\ ToSet(p.conData.jobList) \cup {new} \subseteq ToSet(q.conData.jobList)
  /\ \A x \in ToSet(q.conData.jobList) :
       x \in ToSet(p.conData.jobList) \cup {new} \/ q.objList[x].kind \in Ports

\* A socket of a splitter in the first place, which points to it from then on.
InSplitterRead(p, q, new) ==
  LET splitter == p.conData.splitter IN
  /\ q.pRtLst = p.pRtLst /\ SameSockets(p.conData, q.conData)
  /\ q.conData.sockCnt = p.conData.sockCnt
  /\ Kept(p.objList, q.objList, {splitter})
  /\ splitter \in DOMAIN p.objList
  /\ new \notin DOMAIN p.objList /\ new \in DOMAIN q.objList
  /\ q.objList[new] = GetNetworkSocket
  /\ q.objList[splitter].kind = "Splitter" /\ q.objList[splitter].refs = {new}
  /\ q.conData.jobList = Append(Append(p.conData.jobList, new), splitter)

\* The first socket of a connection has been read.
InputRead(p, q) ==
  /\ HasInput(q) /\ Endpoints(q) /\ q.conData.sockCnt = p.conData.sockCnt
  /\ q.conData.outSocket = NULL /\ q.conData.combiner = NULL

\* The second socket joins the connection, unless the network has no part in it.
OutputRead(q) ==
  Endpoints(q) /\ q.conData.combiner = NULL /\ (Complete(q) => ToBeJoined(q))

\* The local socket of a combiner, which points to it and takes its place.
CombinerFilled(q) ==
  CombinerPending(q) /\ \A r : r = CombinerOut(q) => InCombiner(r) /\ Endpoints(r)

\* What a nested socket leaves behind when it has been connected.
NestedRead(p, r, s) ==
  /\ Endpoints(s) /\ SameSockets(r.conData, s.conData) /\ s.conData.jobList = p.conData.jobList
  /\ Kept(p.objList, s.objList, {})

AtFirst ==
  doc.pair \in SocketPairs /\ IsSource /\ priv.conData.sockCnt = 0 /\ Fresh(priv)

AtSecond(kind) ==
  /\ doc.pair = <<kind>> /\ ~IsSource
  /\ HasInput(priv) \/ (HasCombiner(priv) /\ <<"Combiner", kind>> \in SocketPairs)

-----------------------------------------------------------------------------
(* The endpoints of the document. *)

\* "In every connection (...) there must be exactly one Network socket defined, either as input or
\* as output" (5.4 of cfg/README.md): alone, or those of a splitter or of a combiner.
OneNetworkSocket ==
  /\ CombinersAreLocal
  /\ \A pair \in SocketPairs : ~({pair[1], pair[2]} \subseteq {"NetworkSocket", "Splitter"})

SaidRecord == [says : Attributes, isTalker : BOOLEAN, node : Nat \ {0}]

\* An endpoint is what the document says, and can be executed.
AsSaid(r, s) ==
  /\ r.isTalker = s.isTalker /\ r.isActive = s.says.active /\ r.routeId = s.says.id
  /\ r.routeName = IF s.says.label # NULL THEN NULL ELSE s.says.route
  /\ r.labelNormal = s.says.label /\ r.labelFallback = s.says.fallback
  /\ r.ep.node = s.node /\ r.ep.jobs # <<>>

\* The attributes of the last NetworkSocket, as the connection keeps them.
Heard(c, a) ==
  /\ c.isDeactivated = ~a.active /\ c.routeId = a.id
  /\ c.routeName = IF a.label # NULL THEN NULL ELSE a.route
  /\ a.label # NULL => c.labelNormal = a.label
  /\ c.labelFallback = a.fallback

\* What the connection keeps of the sockets before does not show in the next one.
NothingLeft(c) == c.routeName = NULL /\ c.labelFallback = NULL
NothingShows(c, a) ==
  /\ a.label # NULL => c.routeName = NULL
  /\ a.fallback = NULL => c.labelFallback = NULL

\* The connection before its first socket, after each kind of first socket, and at nested ones.
NothingRead(p) ==
  LET c == p.conData IN
  /\ c.inSocket = NULL /\ c.outSocket = NULL /\ c.combiner = NULL /\ c.splitter = NULL
  /\ NothingLeft(c)

LocalRead(p) ==
  LET c == p.conData IN
  /\ c.inSocket # NULL /\ c.outSocket = NULL /\ c.combiner = NULL /\ c.splitter = NULL
  /\ KindOf(p, c.inSocket) \in LocalSockets
  /\ NothingLeft(c)

CombinerRead(p) ==
  LET c == p.conData IN
  /\ c.inSocket = NULL /\ c.outSocket = NULL /\ c.combiner # NULL /\ c.splitter = NULL
  /\ c.pendingCombinerSockets
  /\ NothingLeft(c)

NetworkRead(p, a) ==
  LET c == p.conData IN
  /\ c.inSocket # NULL /\ c.outSocket = NULL /\ c.combiner = NULL
  /\ KindOf(p, c.inSocket) \in {"NetworkSocket", "Splitter"}
  /\ Heard(c, a)

NestedNext(p) ==
  LET c == p.conData IN
  /\ c.splitter = NULL
  /\ \/ c.combiner = NULL /\ c.inSocket # NULL
     \/ c.combiner # NULL /\ c.outSocket = c.combiner

\* Every endpoint is what the document says of its network socket.
Same(p, sockets) ==
  /\ Len(sockets) = Len(p.pRtLst)
  /\ \A i \in DOMAIN p.pRtLst : AsSaid(p.pRtLst[i], sockets[i])

\* The last network socket has no endpoint yet.
OneMore(p, sockets, node) ==
  /\ Len(sockets) = Len(p.pRtLst) + 1
  /\ \A i \in DOMAIN p.pRtLst : AsSaid(p.pRtLst[i], sockets[i])
  /\ LET s == sockets[Len(sockets)] IN
     NetworkRead(p, s.says) /\ ~s.isTalker /\ s.node = node

DocumentInv ==
  LET c == priv.conData IN
  pc # "failed" =>
    /\ doc.sockets \in Seq(SaidRecord)
    /\ pc = "socket" =>
         \/ /\ doc.pair \in SocketPairs /\ c.sockCnt = 0 /\ doc.first = <<>>
            /\ NothingRead(priv) /\ Same(priv, doc.sockets)
         \/ /\ c.sockCnt # 0 /\ doc.first = <<>>
            /\ \E pair \in SocketPairs :
                 /\ doc.pair = <<pair[2]>>
                 /\ \/ pair[1] \in LocalSockets /\ LocalRead(priv) /\ Same(priv, doc.sockets)
                    \/ pair[1] = "Combiner" /\ CombinerRead(priv) /\ Same(priv, doc.sockets)
                    \/ /\ pair[1] \in {"NetworkSocket", "Splitter"}
                       /\ OneMore(priv, doc.sockets, ucs.nodSize + 1)
         \/ doc.pair = <<>> /\ Same(priv, doc.sockets)
    /\ pc = "nested" =>
         /\ doc.pair = <<>> /\ NestedNext(priv) /\ Same(priv, doc.sockets)
         /\ \/ doc.first = <<>> /\ NothingLeft(c)
            \/ \E a \in Attributes : doc.first = <<a>> /\ NothingShows(c, a)
    /\ pc \notin {"socket", "nested"} => Same(priv, doc.sockets)

\* The words of a connection that come from its NetworkSockets.
SameWords(c, d) ==
  /\ d.isDeactivated = c.isDeactivated /\ d.routeId = c.routeId /\ d.routeName = c.routeName
  /\ d.labelNormal = c.labelNormal /\ d.labelFallback = c.labelFallback

\* A NetworkSocket sets what its attributes say.
WordsRead(c, d, a) ==
  /\ d.isDeactivated = ~a.active /\ d.routeId = a.id
  /\ d.routeName = IF a.label # NULL THEN c.routeName ELSE a.route
  /\ d.labelNormal = IF a.label # NULL THEN a.label ELSE c.labelNormal
  /\ d.labelFallback = IF a.fallback # NULL THEN a.fallback ELSE c.labelFallback

\* What the document has said where a first and where a second socket is read.
SaidAtFirst(kind) ==
  /\ doc.pair \in SocketPairs /\ doc.pair[1] = kind /\ IsSource /\ priv.conData.sockCnt = 0
  /\ doc.first = <<>> /\ doc.sockets \in Seq(SaidRecord)
  /\ NothingRead(priv) /\ Same(priv, doc.sockets)

SaidAtSecond(kind) ==
  /\ doc.pair = <<kind>> /\ ~IsSource /\ doc.first = <<>> /\ doc.sockets \in Seq(SaidRecord)
  /\ \E pair \in SocketPairs :
       /\ pair[2] = kind /\ pair = <<pair[1], pair[2]>>
       /\ \/ pair[1] \in LocalSockets /\ LocalRead(priv) /\ Same(priv, doc.sockets)
          \/ pair[1] = "Combiner" /\ CombinerRead(priv) /\ Same(priv, doc.sockets)
          \/ /\ pair[1] \in {"NetworkSocket", "Splitter"}
             /\ OneMore(priv, doc.sockets, ucs.nodSize + 1)

-----------------------------------------------------------------------------
(* The routes of the document. *)

\* What the document says of its routes.
SaidNamed ==
  {x \in (DOMAIN doc.sockets) \X (DOMAIN doc.sockets) :
     LET s == doc.sockets[x[1]]
         t == doc.sockets[x[2]]
     IN  /\ s.isTalker /\ ~t.isTalker
         /\ s.says.label = NULL /\ t.says.label = NULL
         /\ s.says.route = t.says.route}
SaidLabels ==
  {x \in (DOMAIN doc.sockets) \X {"label", "fallback"} : doc.sockets[x[1]].says[x[2]] # NULL}
SaidOf(i) == doc.sockets[i].says

\* The list of endpoints goes with the sockets.
Agree(n) ==
  /\ n \in Nat /\ Len(priv.pRtLst) = n /\ DOMAIN priv.pRtLst = 1 .. n /\ DOMAIN doc.sockets = 1 .. n
  /\ \A i \in 1 .. n : doc.sockets[i] \in SaidRecord /\ AsSaid(priv.pRtLst[i], doc.sockets[i])

\* A route before it is numbered: its ends are endpoints, or one of them is created
\* for a label, and its number is one of the document or none.
RouteRecord ==
  [source : Nat, sink : Nat, label : Nat, id : 0 .. IdRange - 1, active : BOOLEAN]
GoodRoutes(n) ==
  {r \in RouteRecord :
     /\ {r.source, r.sink} \subseteq 0 .. n
     /\ NULL \in {r.source, r.sink} => r.label # NULL
     /\ r.id # Invalid => \E i \in 1 .. n : SaidOf(i).id = r.id}

\* Where a route has an id of its own, it is not 0 (cfg/README.md:607 allows it, the assertions of a
\* DEBUG build do not).
NoZeroIds == \A a \in Attributes : a.id # 0

RoutesInv == pc \in {"drivers", "done"} => ucs.pRoutes = Numbered(NamedRoutes \o LabelRoutes)

\* A route whose id no socket has was numbered.
AutoRoutes ==
  {k \in DOMAIN ucs.pRoutes : \A i \in DOMAIN doc.sockets : SaidOf(i).id # ucs.pRoutes[k].id}

-----------------------------------------------------------------------------
(* The drivers of the document. *)

DriverEntry ==
  [linkName : Links, nodeAddress : Nat, direction : {"Tx", "Rx"}, channel : SUBSET Nat,
   driverType : DriverTypes]

Devices == {"USBSocket", "MediaLBSocket"}
Indirect == {"Splitter", "Combiner"}
NoDevice(obj, x) == \A z \in obj[x].refs : obj[z].kind \notin Devices

\* What an object may point to: a device is behind a splitter, a combiner or a connection, and
\* there is never another device behind the next object.
Fits(obj, o) ==
  \A y \in o.refs :
    /\ obj[y].kind \in Devices \cup Indirect => o.kind \in Indirect \cup {"Connection"}
    /\ o.kind = "Combiner" => obj[y].kind \notin Indirect
    /\ o.kind = "Splitter" =>
         obj[y].kind # "Combiner" /\ (obj[y].kind = "Splitter" => NoDevice(obj, y))

Shape(obj) == \A x \in DOMAIN obj : Fits(obj, obj[x])

\* What an object stands for: it is a device, or the object behind it is one.
Reached(obj, x) ==
  LET used == IF obj[x].kind \in Indirect THEN obj[x].refs ELSE {x}
  IN  {s \in used : obj[s].kind \in Devices}

DevicesIn(obj, jobs) == {j \in ToSet(jobs) : obj[j].kind \in Devices}

\* What no step of the parser takes back, but an error.
Grown(p, q) ==
  /\ DOMAIN p.objList \subseteq DOMAIN q.objList
  /\ \A x \in DOMAIN p.objList : q.objList[x].kind = p.objList[x].kind
  /\ \A r \in DOMAIN p.pRtLst : r \in DOMAIN q.pRtLst /\ q.pRtLst[r] = p.pRtLst[r]
  /\ q.drvInfLst = p.drvInfLst
  /\ Shape(p.objList) => Shape(q.objList)

\* What the last NetworkSocket says of its direction.
LastSaid(sockets, isTalker) == sockets # <<>> /\ sockets[Len(sockets)].isTalker = isTalker

\* A splitter in the first place stands for no device, and a NetworkSocket there is the last one.
SplitterOK(p) == p.conData.splitter # NULL => NoDevice(p.objList, p.conData.splitter)
InputOK(p, sockets, pair) ==
  LET in == p.conData.inSocket IN
  in # NULL /\ KindOf(p, in) = "NetworkSocket" =>
    LastSaid(sockets, FALSE) /\ pair # <<"NetworkSocket">>

\* Of the two sockets that are joined one at most stands for a device, and the last NetworkSocket
\* sends if it is not the input.
OneDevice(p) ==
  \/ Reached(p.objList, p.conData.inSocket) = {}
  \/ Reached(p.objList, p.conData.outSocket) = {}
Direction(p, sockets) ==
  \/ KindOf(p, p.conData.inSocket) = "NetworkSocket"
  \/ p.conData.splitter # NULL
  \/ LastSaid(sockets, TRUE)
ToJoin(p, sockets) == Complete(p) => OneDevice(p) /\ Direction(p, sockets)

\* They are what the connection of the last endpoint points to.
Connected(p) ==
  LET jobs == p.pRtLst[Len(p.pRtLst)].ep.jobs IN
  /\ p.pRtLst # <<>> /\ jobs # <<>>
  /\ p.objList[jobs[Len(jobs)]].refs = {p.conData.inSocket, p.conData.outSocket}

HeardOK(p, sockets, pair) ==
  /\ SplitterOK(p) /\ InputOK(p, sockets, pair) /\ ToJoin(p, sockets)
  /\ Complete(p) => Connected(p)

\* No NetworkSocket is the input while those of a splitter are read.
NestedOK(p) ==
  LET c == p.conData IN
  c.inSocket # NULL /\ c.combiner = NULL => KindOf(p, c.inSocket) # "NetworkSocket"

HeardInv ==
  /\ Shape(priv.objList) /\ doc.sockets \in Seq(SaidRecord)
  /\ pc \in {"socket", "nested"} => HeardOK(priv, doc.sockets, doc.pair)
  /\ pc = "nested" => NestedOK(priv)

\* A socket that is not complete yet, or has just become complete.
SocketHeard(q, sockets, pair) == SplitterOK(q) /\ InputOK(q, sockets, pair) /\ ToJoin(q, sockets)

\* What a step of ParseSocket leaves behind.
HeardStep ==
  /\ Grown(priv, priv') /\ doc'.sockets \in Seq(SaidRecord)
  /\ HeardOK(priv', doc'.sockets, doc'.pair)
  /\ pc' = "nested" => NestedOK(priv')

\* The children of a driver, as far as they were read.
KindsOf(drivers, link) ==
  LET named == {i \in DOMAIN drivers : drivers[i].link = link}
  IN  IF named = {} THEN <<"Cdev">> ELSE drivers[CHOOSE i \in named : TRUE].kinds

DriverSaid == [link : Links, kinds : Seq(DriverTypes) \ {<<>>}]

\* The entries of one connection, made from the first of them, and those of each connection.
Entries(e, kinds) == [k \in DOMAIN kinds |-> [e EXCEPT !.driverType = kinds[k]]]
Shown(base, links, drivers) ==
  [i \in DOMAIN links |-> Entries(base[i], KindsOf(drivers, links[i].link))]

\* An entry is what the document says of its connection, but for its type.
SaysLink(p, e, l) ==
  LET jobs == p.pRtLst[l.endpoint].ep.jobs IN
  /\ e.linkName = l.link /\ e.nodeAddress = l.node
  /\ l.endpoint \in DOMAIN p.pRtLst
  /\ e.channel = DevicesIn(p.objList, jobs)
  /\ l.splitterIn \/ e.direction = IF l.isTalker THEN "Tx" ELSE "Rx"

DriversOK(p, links, drivers) ==
  \E base \in Seq(DriverEntry) :
    /\ Len(base) = Len(links)
    /\ \A i \in DOMAIN links : SaysLink(p, base[i], links[i])
    /\ p.drvInfLst = FlattenSeq(Shown(base, links, drivers))

DriversInv ==
  pc # "failed" =>
    /\ doc.links \in Seq(ToSet(doc.links)) /\ doc.drivers \in Seq(DriverSaid)
    /\ pc \notin {"drivers", "done"} => doc.drivers = <<>>
    /\ DriversOK(priv, doc.links, doc.drivers)
    /\ pc = "done" => ucs.ppDriver = priv.drvInfLst

\* One more connection adds its list.
MoreShown(links, base, drivers, l, e) ==
  LET links2 == Append(links, l)
      base2 == Append(base, e)
      n == Len(links) + 1
  IN  /\ Shown(base2, links2, drivers) = Append(Shown(base, links, drivers), <<e>>)
      /\ links2 \in Seq(ToSet(links2))
      /\ base2 \in Seq(DriverEntry) /\ Len(base2) = Len(links2)
      /\ DOMAIN links2 = DOMAIN links \cup {n} /\ links2[n] = l /\ base2[n] = e
      /\ \A i \in DOMAIN links : links2[i] = links[i] /\ base2[i] = base[i]

=============================================================================
