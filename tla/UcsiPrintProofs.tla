--------------------------- MODULE UcsiPrintProofs ---------------------------
(***************************************************************************)
(* Proofs about the requests of the route table, for any network, any      *)
(* lists and any times: a change is never forgotten, a request is never    *)
(* given up half-way, and its service is called for.                       *)
(***************************************************************************)
EXTENDS UcsiPrint, TLAPS

TimesTypeOK ==
  /\ nextService \in Nat
  /\ timeOut \in Nat
  /\ clock \in Nat

\* An entry of the list for each position.
ListTypeOK == nList \in Seq(NodeEntry)

\* Next keeps the three parts together: an entry that is
\* replaced by an equal one leaves the list as it is, and a time that was set is not 0 because
\* the clock is a number and the delays are positive.
IInv == ListTypeOK /\ TimesTypeOK /\ TimesAgree /\ ChangeIsPending

LEMMA InitIInv == Init => IInv
  BY PrintAssumption DEF Init, IInv, ListTypeOK, TimesTypeOK, TimesAgree, ChangeIsPending, Clock

\* The table depends on the lists only.
LEMMA TableOfLists == UNCHANGED listVars => CurrentTable' = CurrentTable
  BY DEF listVars, CurrentTable, GetNodeState, GetRouteState, ParseResources, IgnoredNodes

LEMMA ReportIInv == ASSUME IInv, Report PROVE IInv'
  <1> USE DEF IInv, ListTypeOK, TimesTypeOK, TimesAgree, ChangeIsPending, Pending, RequestTrigger,
              NeedService, NoRequest, timeVars
  <1>1. CASE UCSIPrint_Init
    BY <1>1 DEF UCSIPrint_Init
  <1>2. ASSUME NEW available \in BOOLEAN, NEW maxPos,
               UCSIPrint_SetNetworkAvailable(available, maxPos)
        PROVE  IInv'
    <2>1. CASE available = TRUE
      BY <1>2, <2>1 DEF UCSIPrint_SetNetworkAvailable, listVars
    <2>2. CASE available = FALSE
      <3>1. nList' \in Seq(NodeEntry)
        BY <1>2, <2>2 DEF UCSIPrint_SetNetworkAvailable
      <3>2. /\ networkAvailable' = FALSE
            /\ triggerService' = FALSE
            /\ nextService' = 0
            /\ timeOut' = 0
            /\ clock' = clock
        BY <1>2, <2>2 DEF UCSIPrint_SetNetworkAvailable
      <3>3. QED
        BY <3>1, <3>2
    <2>3. QED
      BY <2>1, <2>2
  <1>3. ASSUME NEW node \in Nodes, NEW pos \in Positions, NEW state \in NodeStates,
               UCSIPrint_SetNodeAvailable(node, pos, state)
        PROVE  IInv'
    <2> DEFINE new == [node |-> node, pos |-> pos, state |-> state]
               old == {i \in DOMAIN nList : nList[i].pos = pos}
    <2>1. nList' \in Seq(NodeEntry)
      <3>1. new \in NodeEntry
        BY DEF NodeEntry
      <3>2. ASSUME NEW i \in old PROVE [nList EXCEPT ![i] = new] \in Seq(NodeEntry)
        BY <3>1
      <3>3. Append(nList, new) \in Seq(NodeEntry)
        BY <3>1
      <3> QED
        BY <1>3, <3>2, <3>3 DEF UCSIPrint_SetNodeAvailable
    <2>2. RequestTrigger \/ (NoRequest /\ UNCHANGED listVars)
      <3>1. ASSUME NEW i \in old, nList' = [nList EXCEPT ![i] = new], nList[i] = new
            PROVE  nList' = nList
        BY <3>1
      <3>2. QED
        BY <1>3, <3>1 DEF UCSIPrint_SetNodeAvailable, listVars
    <2>3. CASE RequestTrigger
      BY <1>3, <2>1, <2>3 DEF UCSIPrint_SetNodeAvailable
    <2>4. CASE NoRequest /\ UNCHANGED listVars
      BY <1>3, <2>1, <2>4, TableOfLists DEF UCSIPrint_SetNodeAvailable
    <2>5. QED
      BY <2>2, <2>3, <2>4
  <1>4. ASSUME NEW r \in Routes, NEW isActive, UCSIPrint_SetRouteState(r, isActive)
        PROVE  IInv'
    BY <1>4 DEF UCSIPrint_SetRouteState
  <1>5. ASSUME NEW o \in Resources, NEW state, UCSIPrint_SetObjectState(o, state)
        PROVE  IInv'
    BY <1>5, TableOfLists DEF UCSIPrint_SetObjectState, listVars
  <1>6. CASE UCSIPrint_UnicensActivity
    BY <1>6, TableOfLists DEF UCSIPrint_UnicensActivity, listVars
  <1>7. CASE OnUcsSupvReport
    BY <1>3, <1>7 DEF OnUcsSupvReport, NodeStateOf, NodeStates
  <1>8. CASE OnUnicensRoutingResult
    BY <1>4, <1>8 DEF OnUnicensRoutingResult
  <1>9. CASE OnUnicensDebugXrmResources
    BY <1>5, <1>9 DEF OnUnicensDebugXrmResources
  <1>10. CASE OnUnicensNetworkStatus \/ OnLldCtrlStop
    BY <1>2, <1>10 DEF OnUnicensNetworkStatus, OnLldCtrlStop
  <1>11. QED
    BY <1>1, <1>6, <1>7, <1>8, <1>9, <1>10 DEF Report, Activity

LEMMA ServiceIInv == ASSUME IInv, UCSIPrint_Service PROVE IInv'
  <1> USE DEF IInv, ListTypeOK, TimesTypeOK, TimesAgree, ChangeIsPending, Pending,
              ServiceUnchanged, listVars, timeVars
  <1>1. CurrentTable' = CurrentTable
    BY TableOfLists DEF UCSIPrint_Service, ServiceIdle, ServiceRequest, ServiceRetry,
       ServicePrint, ServicePoll
  <1>2. CASE ServiceIdle
    BY <1>1, <1>2 DEF ServiceIdle
  <1>3. CASE ServiceRequest
    BY <1>1, <1>3, PrintAssumption DEF ServiceRequest
  <1>4. CASE ServiceRetry
    BY <1>1, <1>4, PrintAssumption DEF ServiceRetry, Waiting
  <1>5. CASE ServicePrint
    BY <1>1, <1>5 DEF ServicePrint, Waiting
  <1>6. CASE ServicePoll
    BY <1>1, <1>6 DEF ServicePoll
  <1>7. QED
    BY <1>2, <1>3, <1>4, <1>5, <1>6 DEF UCSIPrint_Service

LEMMA NextIInv == IInv /\ [Next]_vars => IInv'
  <1> SUFFICES ASSUME IInv, [Next]_vars PROVE IInv'
    OBVIOUS
  <1> USE DEF IInv, ListTypeOK, TimesTypeOK, TimesAgree, ChangeIsPending, Pending,
              listVars, timeVars
  <1>1. CASE Tick
    BY <1>1, TableOfLists, PrintAssumption DEF Tick
  <1>2. CASE UNCHANGED vars
    BY <1>2, TableOfLists DEF vars
  <1>3. QED
    BY <1>1, <1>2, ReportIInv, ServiceIInv DEF Next

LEMMA IInvAlways == Spec => []IInv
  BY InitIInv, NextIInv, PTL DEF Spec

\* UCSIPrint_Service never finds one of its two times without the other.
THEOREM PrintTimesAgree == Spec => []TimesAgree
  BY IInvAlways, PTL DEF IInv

\* A change of what the table shows is never forgotten: it was printed, or a
\* table is pending.
THEOREM PrintChangeIsPending == Spec => []ChangeIsPending
  BY IInvAlways, PTL DEF IInv

\* The service of a pending table is called for unless nodes are missing.
THEOREM PrintPendingIsServiced == Spec => PendingIsServiced
  <1> DEFINE Kept == /\ networkAvailable /\ Pending => printTrigger
                     /\ networkAvailable' /\ Pending'
                     => printTrigger' \/ NodesMissing
  <1>1. IInv /\ [Next]_vars => [Kept]_vars
    <2> SUFFICES ASSUME IInv, Next PROVE Kept
      OBVIOUS
    <2> USE DEF IInv, TimesAgree, Pending, RequestTrigger, NeedService, NoRequest, timeVars
    <2>1. CASE Report
      BY <2>1 DEF Report, UCSIPrint_Init, UCSIPrint_SetNetworkAvailable,
         UCSIPrint_SetNodeAvailable, UCSIPrint_SetRouteState, UCSIPrint_SetObjectState,
         UCSIPrint_UnicensActivity, OnUcsSupvReport, OnUnicensRoutingResult,
         OnUnicensDebugXrmResources, OnUnicensNetworkStatus, OnLldCtrlStop, Activity
    <2>2. CASE UCSIPrint_Service
      BY <2>2 DEF UCSIPrint_Service, ServiceIdle, ServiceRequest, ServiceRetry,
         ServicePrint, ServicePoll, Waiting, ServiceUnchanged, NodesMissing
    <2>3. CASE Tick
      BY <2>3 DEF Tick
    <2>4. QED
      BY <2>1, <2>2, <2>3 DEF Next
  <1>2. QED
    BY <1>1, IInvAlways, PTL DEF Spec, PendingIsServiced
=============================================================================
