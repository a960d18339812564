------------------------------ MODULE UcsiPrint ------------------------------
(***************************************************************************)
(* The route table that the daemon prints (libraries/ucsi/ucsi_print.c).   *)
(* Callbacks of the library record the state of nodes, routes and          *)
(* resources and request a table; UCSIPrint_Service() delays it until      *)
(* nothing happened for SERVICE_TIME, until all nodes have reported or     *)
(* MAX_TIMEOUT is over.                                                    *)
(*                                                                         *)
(* The layer calls UCSIPrint_Service() in UCSI_Service() and               *)
(* UCSI_Timeout() if UCSIPrint_CB_NeedService() was called before          *)
(* (printTrigger).  Its time stamp has 16 bits, the times to come have 32  *)
(* and may be out of its reach.                                            *)
(***************************************************************************)
EXTENDS Naturals, FiniteSets, Sequences

CONSTANTS
  Nodes,          \* node addresses
  Positions,      \* positions in the network
  Routes,         \* the routes of the configuration
  Source, Sink,   \* [Routes -> Nodes]
  Resources,      \* the resource objects of their endpoints
  MaxNodes,       \* UCSI_PRINT_MAX_NODES
  MaxResources,   \* UCSI_PRINT_MAX_RESOURCES
  ServiceTime,    \* SERVICE_TIME
  MaxTimeout,     \* MAX_TIMEOUT
  MprRetries,     \* MPR_RETRIES
  RetryRange,     \* the values of waitForMprRetries, 2^8
  ClockRange      \* the values of the time stamp, 2^16

ASSUME PrintAssumption ==
  /\ IsFiniteSet(Positions)
  /\ Source \in [Routes -> Nodes]
  /\ Sink \in [Routes -> Nodes]
  /\ MaxNodes \in Nat
  /\ MaxResources \in Nat
  /\ ServiceTime \in Nat \ {0}
  /\ MaxTimeout \in Nat \ {0}
  /\ MprRetries \in Nat
  /\ RetryRange \in Nat \ {0}
  /\ ClockRange \in Nat \ {0}

NodeStates == {"NotAvailable", "Ignored", "Available"}
ObjectStates == {"Unused", "Build", "Failed"}
RouteStates == {"unknown", "active", "inactive"}
NodeEntry == [node : Nodes, pos : Positions, state : NodeStates]
Clock == 0 .. ClockRange - 1

VARIABLES
  initialized,
  networkAvailable,
  triggerService,
  nextService,        \* 0: no table to be printed
  timeOut,
  mpr,                \* the nodes of the network
  waitForMprRetries,
  nList,              \* the entries of nodes, in the order they came in
  cList,              \* the state of each route
  rList,              \* the state of each resource, "none" if it has no entry
  printTrigger,       \* of the integration layer
  clock,
  table               \* the table that was printed last

listVars == <<nList, cList, rList>>
timeVars == <<nextService, timeOut, waitForMprRetries>>
vars == <<initialized, networkAvailable, triggerService, timeVars, mpr, listVars,
          printTrigger, clock, table>>

ListsTypeOK ==
  /\ nList \in Seq(NodeEntry)
  /\ cList \in [Routes -> RouteStates]
  /\ rList \in [Resources -> ObjectStates \cup {"none"}]

Tables ==
  [routes    : [Routes -> [src : NodeStates, snk : NodeStates, active : BOOLEAN]],
   resources : [Resources -> ObjectStates],
   ignored   : SUBSET Nodes]

\* The clock and its sums with the two times stay in their ranges, the counter of
\* retries wraps, and the lists and the table hold entries of their kind.
TypeOK ==
  /\ initialized \in BOOLEAN
  /\ networkAvailable \in BOOLEAN
  /\ triggerService \in BOOLEAN
  /\ nextService \in 0 .. ClockRange + ServiceTime
  /\ timeOut \in 0 .. ClockRange + MaxTimeout
  /\ mpr \in 0 .. Cardinality(Positions)
  /\ waitForMprRetries \in 0 .. RetryRange - 1
  /\ ListsTypeOK
  /\ printTrigger \in BOOLEAN
  /\ clock \in Clock
  /\ table \in Tables

NoRoutes == [r \in Routes |-> "unknown"]
NoResources == [o \in Resources |-> "none"]

\* The state of the first entry of a node.
GetNodeState(node) ==
  IF \E i \in DOMAIN nList : nList[i].node = node
  THEN nList[CHOOSE i \in DOMAIN nList :
               /\ nList[i].node = node
               /\ \A j \in 1 .. i - 1 : nList[j].node # node].state
  ELSE "NotAvailable"

GetRouteState(r) == cList[r] = "active"

\* The mark of a resource in the row of its route: none without an entry.
ParseResources(o) == IF rList[o] = "none" THEN "Unused" ELSE rList[o]

IgnoredNodes ==
  {nList[i].node : i \in {j \in DOMAIN nList : nList[j].state = "Ignored"}}

\* What PrintTable says of the routes, their resources and the nodes that are
\* ignored.
CurrentTable ==
  [routes    |-> [r \in Routes |-> [src    |-> GetNodeState(Source[r]),
                                    snk    |-> GetNodeState(Sink[r]),
                                    active |-> GetRouteState(r)]],
   resources |-> [o \in Resources |-> ParseResources(o)],
   ignored   |-> IgnoredNodes]

GetNodeCount == Cardinality({i \in DOMAIN nList : nList[i].state # "NotAvailable"})

Init ==
  /\ initialized = FALSE
  /\ networkAvailable = FALSE
  /\ triggerService = FALSE
  /\ nextService = 0
  /\ timeOut = 0
  /\ mpr = 0
  /\ waitForMprRetries = 0
  /\ nList = <<>>
  /\ cList = NoRoutes
  /\ rList = NoResources
  /\ printTrigger = FALSE
  /\ clock \in Clock
  /\ table = CurrentTable

NeedService == printTrigger' = TRUE
RequestTrigger == triggerService' = TRUE /\ NeedService
NoRequest == UNCHANGED <<triggerService, printTrigger>>

------------------------------------------------------------------------------
\* A configuration with routes.
UCSIPrint_Init ==
  /\ initialized' = TRUE
  /\ networkAvailable' = FALSE
  /\ triggerService' = FALSE
  /\ nextService' = 0
  /\ timeOut' = 0
  /\ mpr' = 0
  /\ waitForMprRetries' = 0
  /\ nList' = <<>>
  /\ cList' = NoRoutes
  /\ rList' = NoResources
  /\ UNCHANGED <<printTrigger, clock, table>>

UCSIPrint_SetNetworkAvailable(available, maxPos) ==
  /\ initialized
  /\ networkAvailable' = available
  /\ mpr' = maxPos
  /\ waitForMprRetries' = 0
  /\ timeOut' = 0
  /\ IF available
     THEN RequestTrigger /\ UNCHANGED <<nextService, listVars>>
     ELSE /\ triggerService' = FALSE
          /\ nextService' = 0
          /\ nList' = <<>>
          /\ cList' = NoRoutes
          /\ rList' = NoResources
          /\ UNCHANGED printTrigger
  /\ UNCHANGED <<initialized, clock, table>>

\* One entry for each position, as long as there is room.
FaultySetNodeAvailable(node, pos, state) ==
  LET new == [node |-> node, pos |-> pos, state |-> state]
      old == {i \in DOMAIN nList : nList[i].pos = pos}
  IN
  /\ initialized
  /\ \/ \E i \in old : /\ nList' = [nList EXCEPT ![i] = new]
                       /\ IF nList[i].state # state THEN RequestTrigger ELSE NoRequest
     \/ /\ old = {}
        /\ IF Len(nList) < MaxNodes
           THEN nList' = Append(nList, new) /\ RequestTrigger
           ELSE UNCHANGED nList /\ NoRequest
  /\ UNCHANGED <<initialized, networkAvailable, timeVars, mpr, cList, rList, clock,
                 table>>
UCSIPrint_SetNodeAvailable(node, pos, state) ==
  LET new == [node |-> node, pos |-> pos, state |-> state]
      old == {i \in DOMAIN nList : nList[i].pos = pos}
  IN
  /\ initialized
  /\ \/ \E i \in old : /\ nList' = [nList EXCEPT ![i] = new]
                       /\ IF nList[i] # new THEN RequestTrigger ELSE NoRequest
     \/ /\ old = {}
        /\ IF Len(nList) < MaxNodes
           THEN nList' = Append(nList, new) /\ RequestTrigger
           ELSE UNCHANGED nList /\ NoRequest
  /\ UNCHANGED <<initialized, networkAvailable, timeVars, mpr, cList, rList, clock,
                 table>>

\* Requests a table in any case.
UCSIPrint_SetRouteState(r, isActive) ==
  /\ initialized
  /\ RequestTrigger
  /\ cList' = IF \/ cList[r] # "unknown"
                 \/ Cardinality({q \in Routes : cList[q] # "unknown"}) < MaxResources
              THEN [cList EXCEPT ![r] = IF isActive THEN "active" ELSE "inactive"]
              ELSE cList
  /\ UNCHANGED <<initialized, networkAvailable, timeVars, mpr, nList, rList, clock,
                 table>>

UCSIPrint_SetObjectState(o, state) ==
  /\ initialized
  /\ IF \/ rList[o] = state
        \/ /\ rList[o] = "none"
           /\ Cardinality({p \in Resources : rList[p] # "none"}) >= MaxResources
     THEN UNCHANGED rList /\ NoRequest
     ELSE rList' = [rList EXCEPT ![o] = state] /\ RequestTrigger
  /\ UNCHANGED <<initialized, networkAvailable, timeVars, mpr, nList, cList, clock,
                 table>>

\* Commands and results put the table off.
UCSIPrint_UnicensActivity ==
  /\ initialized
  /\ IF nextService # 0 THEN RequestTrigger
                        ELSE NeedService /\ UNCHANGED triggerService
  /\ UNCHANGED <<initialized, networkAvailable, timeVars, mpr, listVars, clock, table>>

------------------------------------------------------------------------------
(***************************************************************************)
(* UCSIPrint_Service(), one action for each of its outcomes                *)
(***************************************************************************)

ServiceUnchanged == UNCHANGED <<initialized, networkAvailable, mpr, listVars, clock>>

Serve == printTrigger

\* There is nothing to be printed.
ServiceIdle ==
  /\ Serve
  /\ ~networkAvailable \/ (~triggerService /\ (nextService = 0 \/ timeOut = 0))
  /\ printTrigger' = FALSE
  /\ ServiceUnchanged
  /\ UNCHANGED <<triggerService, timeVars, table>>

\* A request starts the delay anew, but not the time-out.
FaultyServiceRequest ==
  /\ Serve
  /\ networkAvailable
  /\ triggerService
  /\ triggerService' = FALSE
  /\ nextService' = clock + ServiceTime
  /\ printTrigger' = TRUE
  /\ ServiceUnchanged
  /\ UNCHANGED <<waitForMprRetries, timeOut, table>>
ServiceRequest ==
  /\ Serve
  /\ networkAvailable
  /\ triggerService
  /\ triggerService' = FALSE
  /\ nextService' = clock + ServiceTime
  /\ timeOut' = IF timeOut = 0 THEN clock + MaxTimeout ELSE timeOut
  /\ printTrigger' = TRUE
  /\ ServiceUnchanged
  /\ UNCHANGED <<waitForMprRetries, table>>

Waiting ==
  /\ Serve
  /\ networkAvailable
  /\ ~triggerService
  /\ nextService # 0
  /\ timeOut # 0

NodesMissing == mpr # GetNodeCount
NextRetry == (waitForMprRetries + 1) % RetryRange

\* The table is put off because nodes are missing.  No service is requested.
ServiceRetry ==
  /\ Waiting
  /\ clock < timeOut
  /\ clock >= nextService
  /\ NodesMissing
  /\ waitForMprRetries' = NextRetry
  /\ NextRetry <= MprRetries
  /\ nextService' = clock + ServiceTime
  /\ printTrigger' = FALSE
  /\ ServiceUnchanged
  /\ UNCHANGED <<triggerService, timeOut, table>>

ServicePrint ==
  /\ Waiting
  /\ \/ /\ clock >= timeOut
        /\ UNCHANGED waitForMprRetries
     \/ /\ clock < timeOut
        /\ clock >= nextService
        /\ IF NodesMissing
           THEN NextRetry > MprRetries /\ waitForMprRetries' = NextRetry
           ELSE UNCHANGED waitForMprRetries
  /\ nextService' = 0
  /\ timeOut' = 0
  /\ table' = CurrentTable
  /\ printTrigger' = FALSE
  /\ ServiceUnchanged
  /\ UNCHANGED triggerService

FaultyServicePoll ==
  /\ Waiting
  /\ clock < timeOut
  /\ clock < nextService
  /\ printTrigger' = FALSE
  /\ ServiceUnchanged
  /\ UNCHANGED <<triggerService, timeVars, table>>
ServicePoll ==
  /\ Waiting
  /\ clock < timeOut
  /\ clock < nextService
  /\ printTrigger' = TRUE
  /\ ServiceUnchanged
  /\ UNCHANGED <<triggerService, timeVars, table>>

\* The clock of UCSI_CB_OnGetTime goes on, and wraps.
Tick ==
  /\ clock' = (clock + 1) % ClockRange
  /\ UNCHANGED <<initialized, networkAvailable, triggerService, timeVars, mpr,
                 listVars, printTrigger, table>>

UCSIPrint_Service ==
  ServiceIdle \/ ServiceRequest \/ ServiceRetry \/ ServicePrint \/ ServicePoll

------------------------------------------------------------------------------
(***************************************************************************)
(* The callbacks of the library that report to the table (ucsi_impl.c).    *)
(* Those that only write a message leave the table alone.                  *)
(***************************************************************************)

NodeStateOf ==
  [IGNORED_UNKNOWN   |-> "Ignored",
   IGNORED_DUPLICATE |-> "Ignored",
   NOT_AVAILABLE     |-> "NotAvailable",
   AVAILABLE         |-> "Available"]

\* The other codes of the supervisor (a node is welcomed, a script has run) are
\* messages.
OnUcsSupvReport ==
  \E node \in Nodes, pos \in Positions, code \in DOMAIN NodeStateOf :
    UCSIPrint_SetNodeAvailable(node, pos, NodeStateOf[code])

ObjectStateOf ==
  [BUILT |-> "Build", DESTROYED |-> "Unused",
   ERR_BUILT |-> "Failed", ERR_DESTROYED |-> "Failed"]

OnUnicensDebugXrmResources ==
  \E o \in Resources, infos \in DOMAIN ObjectStateOf :
    UCSIPrint_SetObjectState(o, ObjectStateOf[infos])

\* An ATD update or error of a route is no change of it.
OnUnicensRoutingResult ==
  \E r \in Routes, infos \in {"BUILT", "DESTROYED"} :
    UCSIPrint_SetRouteState(r, infos = "BUILT")

OnUnicensNetworkStatus ==
  \E available \in BOOLEAN, maxPos \in 0 .. Cardinality(Positions) :
    UCSIPrint_SetNetworkAvailable(available, maxPos)

OnLldCtrlStop == UCSIPrint_SetNetworkAvailable(FALSE, 0)

\* EnqueueCommand, OnCommandExecuted and the traces of an error.
Activity == UCSIPrint_UnicensActivity

Report ==
  \/ UCSIPrint_Init
  \/ OnUnicensNetworkStatus \/ OnLldCtrlStop
  \/ OnUcsSupvReport \/ OnUnicensRoutingResult \/ OnUnicensDebugXrmResources
  \/ Activity

Next == Report \/ UCSIPrint_Service \/ Tick

Spec == Init /\ [][Next]_vars

------------------------------------------------------------------------------
(***************************************************************************)
(* Properties                                                              *)
(***************************************************************************)

\* A table will be printed.
Pending == triggerService \/ nextService # 0

\* UCSIPrint_Service gives up if one of its two times is not set: that never
\* happens to a table that was requested.
TimesAgree == ~triggerService => (nextService = 0 <=> timeOut = 0)

\* Whenever the table that was printed last is out of date, another one is
\* pending.
ChangeIsPending == networkAvailable => table = CurrentTable \/ Pending

\* UCSIPrint_CB_NeedService is called for each table that becomes pending, and
\* a service that leaves it pending calls it again, unless the table is put off
\* because nodes are missing: line 141 returns without that call, and something
\* else has to make it.
PendingIsServiced ==
  [][/\ networkAvailable /\ Pending => printTrigger
     /\ networkAvailable' /\ Pending'
     => printTrigger' \/ NodesMissing]_vars
=============================================================================
