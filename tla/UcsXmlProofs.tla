---------------------------- MODULE UcsXmlProofs ----------------------------
(***************************************************************************)
(* Proofs about the parser, for any document: what is pointed to exists,   *)
(* the list of every endpoint can be executed from its first to its last   *)
(* job, the endpoints are what the document says of its sockets, the       *)
(* routes are those between them, and the drivers are those it names.      *)
(***************************************************************************)
EXTENDS UcsXmlInvariants, FiniteSetTheorems, SequenceTheorems, WellFoundedInduction, TLAPS

-----------------------------------------------------------------------------
(* Job lists and objects. *)

LEMMA LastOfAppend ==
  ASSUME NEW S, NEW s \in Seq(S), NEW x \in S
  PROVE  /\ Append(s, x) \in Seq(S) /\ Len(Append(s, x)) = Len(s) + 1
         /\ Append(s, x)[Len(s) + 1] = x
         /\ \A i \in 1 .. Len(s) : Append(s, x)[i] = s[i]
         /\ DOMAIN Append(s, x) = 1 .. Len(s) + 1 /\ DOMAIN s = 1 .. Len(s) /\ Len(s) \in Nat
  OBVIOUS

LEMMA SetOfAppend ==
  ASSUME NEW S, NEW s \in Seq(S), NEW x \in S
  PROVE  ToSet(Append(s, x)) = ToSet(s) \cup {x}
  <1>1. ASSUME NEW y \in ToSet(Append(s, x)) PROVE y \in ToSet(s) \cup {x}
    BY LastOfAppend DEF ToSet
  <1>2. ASSUME NEW y \in ToSet(s) \cup {x} PROVE y \in ToSet(Append(s, x))
    <2>1. CASE y \in ToSet(s)
      BY <2>1, LastOfAppend DEF ToSet
    <2>2. CASE y = x
      BY <2>2, LastOfAppend DEF ToSet
    <2>3. QED
      BY <1>2, <2>1, <2>2
  <1>3. QED
    BY <1>1, <1>2

LEMMA KeptDomain ==
  ASSUME NEW obj, NEW obj2, NEW S, Kept(obj, obj2, S)
  PROVE  DOMAIN obj \subseteq DOMAIN obj2
  BY DEF Kept

LEMMA JobListKept ==
  ASSUME NEW obj, NEW obj2, NEW S, NEW jobs, NEW open, Kept(obj, obj2, S),
         JobListOK(obj, jobs, open), ToSet(jobs) \cap S = {}
  PROVE  JobListOK(obj2, jobs, open)
  <1>1. jobs \in Seq(DOMAIN obj2)
    BY DEF Kept, JobListOK
  <1>2. \A i \in DOMAIN jobs : obj2[jobs[i]] = obj[jobs[i]]
    BY DEF Kept, JobListOK, ToSet
  <1>3. \A i \in DOMAIN jobs : i + 1 .. Len(jobs) \subseteq DOMAIN jobs
    BY DEF JobListOK
  <1>4. QED
    BY <1>1, <1>2, <1>3 DEF JobListOK

LEMMA EndpointKept ==
  ASSUME NEW obj, NEW obj2, NEW S, NEW jobs, Kept(obj, obj2, S),
         EndpointOK(obj, jobs), ToSet(jobs) \cap S = {}
  PROVE  EndpointOK(obj2, jobs)
  <1>1. jobs \in Seq(DOMAIN obj2)
    BY DEF Kept, EndpointOK
  <1>2. \A i \in DOMAIN jobs : obj2[jobs[i]] = obj[jobs[i]]
    BY DEF Kept, EndpointOK, ToSet
  <1>3. \A i \in DOMAIN jobs : i + 1 .. Len(jobs) \subseteq DOMAIN jobs
    BY DEF EndpointOK
  <1>4. QED
    BY <1>1, <1>2, <1>3 DEF EndpointOK

\* A job is added after those it points to, which are then used.
LEMMA JobAdded ==
  ASSUME NEW obj, NEW jobs, NEW open, NEW open2, JobListOK(obj, jobs, open),
         NEW x \in DOMAIN obj, x \notin ToSet(jobs), obj[x].kind # "Connection",
         obj[x].refs \subseteq ToSet(jobs), open \subseteq open2 \cup obj[x].refs,
         x \in open2 \/ obj[x].kind \in Ports
  PROVE  JobListOK(obj, Append(jobs, x), open2)
  <1> DEFINE more == Append(jobs, x)
  <1>1. /\ more \in Seq(DOMAIN obj) /\ Len(more) = Len(jobs) + 1 /\ more[Len(jobs) + 1] = x
        /\ \A i \in 1 .. Len(jobs) : more[i] = jobs[i]
        /\ DOMAIN more = 1 .. Len(jobs) + 1 /\ DOMAIN jobs = 1 .. Len(jobs) /\ Len(jobs) \in Nat
    BY LastOfAppend DEF JobListOK
  <1> HIDE DEF more
  <1>2. \A i, j \in DOMAIN more : more[i] = more[j] => i = j
    <2>1. SUFFICES ASSUME NEW i \in DOMAIN more, NEW j \in DOMAIN more, more[i] = more[j]
                   PROVE  i = j
      OBVIOUS
    <2>2. \A k \in 1 .. Len(jobs) : jobs[k] # x
      BY <1>1 DEF ToSet
    <2>3. QED
      BY <1>1, <2>1, <2>2 DEF JobListOK
  <1>3. ASSUME NEW i \in DOMAIN more
        PROVE  /\ obj[more[i]].kind # "Connection"
               /\ \A y \in obj[more[i]].refs : \E k \in 1 .. i - 1 : more[k] = y
               /\ \/ obj[more[i]].kind \in Ports
                  \/ more[i] \in open2
                  \/ \E k \in i + 1 .. Len(more) : more[i] \in obj[more[k]].refs
    <2>1. CASE i = Len(jobs) + 1
      BY <1>1, <2>1 DEF ToSet
    <2>2. CASE i \in 1 .. Len(jobs)
      <3>1. more[i] = jobs[i] /\ obj[more[i]].kind # "Connection"
        BY <1>1, <2>2 DEF JobListOK
      <3>2. \A y \in obj[more[i]].refs : \E k \in 1 .. i - 1 : more[k] = y
        BY <1>1, <2>2 DEF JobListOK
      <3>3. CASE jobs[i] \in obj[x].refs
        BY <1>1, <2>2, <3>1, <3>2, <3>3
      <3>4. CASE \E k \in i + 1 .. Len(jobs) : jobs[i] \in obj[jobs[k]].refs
        <4>1. PICK k \in i + 1 .. Len(jobs) : jobs[i] \in obj[jobs[k]].refs
          BY <3>4
        <4>2. k \in i + 1 .. Len(more) /\ more[k] = jobs[k]
          BY <1>1, <2>2
        <4>3. QED
          BY <3>1, <3>2, <4>1, <4>2
      <3>5. QED
        BY <1>1, <2>2, <3>1, <3>2, <3>3, <3>4 DEF JobListOK
    <2>3. QED
      BY <1>1, <2>1, <2>2
  <1>4. QED
    BY <1>1, <1>2, <1>3 DEF JobListOK, more

\* The connection comes last and uses what is still open.
LEMMA ConnectionAdded ==
  ASSUME NEW obj, NEW jobs, NEW open, JobListOK(obj, jobs, open),
         NEW x \in DOMAIN obj, x \notin ToSet(jobs), obj[x].kind = "Connection",
         obj[x].refs \subseteq ToSet(jobs), open \subseteq obj[x].refs
  PROVE  EndpointOK(obj, Append(jobs, x))
  <1> DEFINE more == Append(jobs, x)
  <1>1. /\ more \in Seq(DOMAIN obj) /\ Len(more) = Len(jobs) + 1 /\ more[Len(jobs) + 1] = x
        /\ \A i \in 1 .. Len(jobs) : more[i] = jobs[i]
        /\ DOMAIN more = 1 .. Len(jobs) + 1 /\ DOMAIN jobs = 1 .. Len(jobs) /\ Len(jobs) \in Nat
    BY LastOfAppend DEF JobListOK
  <1> HIDE DEF more
  <1>2. \A i, j \in DOMAIN more : more[i] = more[j] => i = j
    <2>1. SUFFICES ASSUME NEW i \in DOMAIN more, NEW j \in DOMAIN more, more[i] = more[j]
                   PROVE  i = j
      OBVIOUS
    <2>2. \A k \in 1 .. Len(jobs) : jobs[k] # x
      BY <1>1 DEF ToSet
    <2>3. QED
      BY <1>1, <2>1, <2>2 DEF JobListOK
  <1>3. ASSUME NEW i \in DOMAIN more
        PROVE  /\ obj[more[i]].kind = "Connection" <=> i = Len(more)
               /\ \A y \in obj[more[i]].refs : \E k \in 1 .. i - 1 : more[k] = y
               /\ \/ i = Len(more)
                  \/ obj[more[i]].kind \in Ports
                  \/ \E k \in i + 1 .. Len(more) : more[i] \in obj[more[k]].refs
    <2>1. CASE i = Len(jobs) + 1
      BY <1>1, <2>1 DEF ToSet
    <2>2. CASE i \in 1 .. Len(jobs)
      <3>1. more[i] = jobs[i] /\ obj[more[i]].kind # "Connection" /\ i # Len(more)
        BY <1>1, <2>2 DEF JobListOK
      <3>2. \A y \in obj[more[i]].refs : \E k \in 1 .. i - 1 : more[k] = y
        BY <1>1, <2>2 DEF JobListOK
      <3>3. CASE jobs[i] \in obj[x].refs
        BY <1>1, <2>2, <3>1, <3>2, <3>3
      <3>4. CASE \E k \in i + 1 .. Len(jobs) : jobs[i] \in obj[jobs[k]].refs
        <4>1. PICK k \in i + 1 .. Len(jobs) : jobs[i] \in obj[jobs[k]].refs
          BY <3>4
        <4>2. k \in i + 1 .. Len(more) /\ more[k] = jobs[k]
          BY <1>1, <2>2
        <4>3. QED
          BY <3>1, <3>2, <4>1, <4>2
      <3>5. QED
        BY <1>1, <2>2, <3>1, <3>2, <3>3, <3>4 DEF JobListOK
    <2>3. QED
      BY <1>1, <2>1, <2>2
  <1>4. QED
    BY <1>1, <1>2, <1>3 DEF EndpointOK, more

-----------------------------------------------------------------------------
(* What the operators of ParseSocket change. *)

LEMMA KindFacts ==
  /\ \A kind \in Kinds, refs \in SUBSET Nat :
       /\ Object(kind, refs) \in ObjectRecord
       /\ Object(kind, refs).kind = kind /\ Object(kind, refs).refs = refs
  /\ Ports \cup LocalSockets \cup {"NetworkSocket", "Splitter", "Combiner", "Connection"} = Kinds
  BY DEF Kinds, Object, ObjectRecord

\* A new object at the end of the list.
LEMMA ObjectAdded ==
  ASSUME NEW obj \in Seq(ObjectRecord), NEW o \in ObjectRecord
  PROVE  /\ Kept(obj, Append(obj, o), {})
         /\ Append(obj, o) \in Seq(ObjectRecord)
         /\ DOMAIN Append(obj, o) = DOMAIN obj \cup {Len(obj) + 1}
         /\ Len(obj) + 1 \in Nat /\ Len(obj) + 1 \notin DOMAIN obj /\ Len(obj) + 1 # NULL
         /\ Append(obj, o)[Len(obj) + 1] = o
         /\ \A i \in DOMAIN obj : Append(obj, o)[i] = obj[i]
         /\ DOMAIN obj \subseteq Nat /\ NULL \notin DOMAIN obj
  BY LastOfAppend DEF Kept, NULL

Changed(obj, x, refs, list) ==
  /\ list \in Seq(ObjectRecord) /\ Kept(obj, list, {x})
  /\ DOMAIN list = DOMAIN obj /\ Len(list) = Len(obj)
  /\ list[x].kind = obj[x].kind /\ list[x].refs = refs
  /\ \A i \in DOMAIN obj \ {x} : list[i] = obj[i]

LEMMA RefsChanged ==
  ASSUME NEW obj, NEW x, NEW refs, obj \in Seq(ObjectRecord), x \in DOMAIN obj, refs \subseteq Nat
  PROVE  Changed(obj, x, refs, WithRefs(obj, x, refs))
  <1>1. obj[x] \in ObjectRecord
    OBVIOUS
  <1>2. ASSUME NEW o, o = [obj[x] EXCEPT !.refs = refs]
        PROVE  o \in ObjectRecord /\ o.kind = obj[x].kind /\ o.refs = refs
    BY <1>1, <1>2 DEF ObjectRecord
  <1> DEFINE o == [obj[x] EXCEPT !.refs = refs]
             list == WithRefs(obj, x, refs)
  <1>3. o \in ObjectRecord /\ o.kind = obj[x].kind /\ o.refs = refs
    BY <1>2
  <1>4. list = [obj EXCEPT ![x] = o]
    BY DEF WithRefs
  <1> HIDE DEF o, list
  <1>5. /\ list \in Seq(ObjectRecord) /\ DOMAIN list = DOMAIN obj /\ Len(list) = Len(obj)
        /\ list[x] = o /\ \A i \in DOMAIN obj \ {x} : list[i] = obj[i]
        /\ Kept(obj, list, {x})
    BY <1>3, <1>4 DEF Kept
  <1>6. QED
    BY <1>3, <1>5 DEF Changed, list

LEMMA JobAppended ==
  ASSUME NEW p, HasFields(p), NEW x, NEW q, q = AddJob(p, x)
  PROVE  /\ HasFields(q) /\ SameLists(p, q) /\ q.objList = p.objList
         /\ SameSockets(p.conData, q.conData)
         /\ q.conData.jobList = Append(p.conData.jobList, x)
         /\ q.conData.sockCnt = p.conData.sockCnt
         /\ q.conData.pendingCombinerSockets = p.conData.pendingCombinerSockets
  BY DEF AddJob, HasFields, DataFields, ConnectionFields, SameLists, SameSockets

LEMMA JobAppendedIf ==
  ASSUME NEW p, HasFields(p), NEW x, NEW q, q = AddJobIf(p, x # NULL, x)
  PROVE  /\ HasFields(q) /\ SameLists(p, q) /\ q.objList = p.objList
         /\ SameSockets(p.conData, q.conData)
         /\ q.conData.jobList = IF x # NULL THEN Append(p.conData.jobList, x) ELSE p.conData.jobList
         /\ q.conData.sockCnt = p.conData.sockCnt
         /\ q.conData.pendingCombinerSockets = p.conData.pendingCombinerSockets
  <1>1. CASE x # NULL
    <2>1. q = AddJob(p, x)
      BY <1>1 DEF AddJobIf
    <2>2. QED
      BY <1>1, <2>1, JobAppended
  <1>2. CASE x = NULL
    BY <1>2 DEF AddJobIf, SameLists, SameSockets
  <1>3. QED
    BY <1>1, <1>2

LEMMA TargetSet ==
  ASSUME NEW p, HasFields(p), NEW isSource \in BOOLEAN, NEW x, NEW q, q = SetTarget(p, isSource, x)
  PROVE  /\ HasFields(q) /\ SameLists(p, q) /\ q.objList = p.objList
         /\ q.conData.jobList = p.conData.jobList
         /\ q.conData.inSocket = IF isSource THEN x ELSE p.conData.inSocket
         /\ q.conData.outSocket = IF isSource THEN p.conData.outSocket ELSE x
         /\ q.conData.combiner = p.conData.combiner /\ q.conData.splitter = p.conData.splitter
         /\ q.conData.sockCnt = p.conData.sockCnt
         /\ q.conData.pendingCombinerSockets = p.conData.pendingCombinerSockets
  BY DEF SetTarget, HasFields, DataFields, ConnectionFields, SameLists

LEMMA NetworkSocketFields ==
  ASSUME NEW p, HasFields(p), NEW isSource \in BOOLEAN, NEW a, NEW q, q = NetworkSocket(p, isSource, a)
  PROVE  NetworkSocketRead(p, isSource, q)
  <1> DEFINE c == p.conData
             new == LastObject(p) + 1
             list == Append(p.objList, GetNetworkSocket)
             inSplitter == c.combiner = NULL /\ c.splitter # NULL
             before == IF c.combiner # NULL THEN Append(c.jobList, c.combiner) ELSE c.jobList
             jobs == Append(before, new)
             read == [p EXCEPT !.objList = Append(@, GetNetworkSocket),
                        !.conData.labelNormal = IF a.label # NULL THEN a.label ELSE @,
                        !.conData.routeName = IF a.label # NULL THEN @ ELSE a.route,
                        !.conData.labelFallback = IF a.fallback # NULL THEN a.fallback ELSE @,
                        !.conData.isDeactivated = ~a.active,
                        !.conData.routeId = a.id]
             target == IF inSplitter THEN [read EXCEPT !.objList[c.splitter].refs = {new}]
                                     ELSE SetTarget(read, isSource, new)
             t1 == AddJobIf(target, c.combiner # NULL, c.combiner)
             t2 == AddJob(t1, new)
             t3 == AddJobIf(t2, c.splitter # NULL, c.splitter)
  <1>1. q = t3
    BY DEF NetworkSocket
  <1>2. /\ HasFields(read) /\ SameLists(p, read) /\ read.objList = list
        /\ SameSockets(c, read.conData) /\ read.conData.jobList = c.jobList
        /\ read.conData.sockCnt = c.sockCnt
        /\ read.conData.pendingCombinerSockets = c.pendingCombinerSockets
    BY DEF HasFields, DataFields, ConnectionFields, SameLists, SameSockets
  <1> HIDE DEF read
  <1>3. /\ HasFields(target) /\ SameLists(p, target) /\ target.conData.jobList = c.jobList
        /\ target.objList = IF inSplitter THEN [list EXCEPT ![c.splitter].refs = {new}] ELSE list
        /\ target.conData.inSocket = IF ~inSplitter /\ isSource THEN new ELSE c.inSocket
        /\ target.conData.outSocket = IF ~inSplitter /\ ~isSource THEN new ELSE c.outSocket
        /\ target.conData.combiner = c.combiner /\ target.conData.splitter = c.splitter
        /\ target.conData.sockCnt = c.sockCnt
        /\ target.conData.pendingCombinerSockets = c.pendingCombinerSockets
    <2>1. CASE inSplitter
      <3>1. ASSUME NEW t, t = [read EXCEPT !.objList[c.splitter].refs = {new}]
            PROVE  /\ HasFields(t) /\ SameLists(read, t) /\ t.conData = read.conData
                   /\ t.objList = [read.objList EXCEPT ![c.splitter].refs = {new}]
        BY <1>2, <3>1 DEF HasFields, DataFields, SameLists
      <3>2. target = [read EXCEPT !.objList[c.splitter].refs = {new}]
        BY <2>1
      <3> HIDE DEF target
      <3>3. QED
        BY <1>2, <2>1, <3>1, <3>2 DEF SameLists, SameSockets
    <2>2. CASE ~inSplitter
      <3>1. target = SetTarget(read, isSource, new)
        BY <2>2
      <3> HIDE DEF target, inSplitter, new, list
      <3>2. QED
        BY <1>2, <2>2, <3>1, TargetSet DEF SameLists, SameSockets
    <2>3. QED
      BY <2>1, <2>2
  <1> HIDE DEF target
  <1>4. /\ HasFields(t1) /\ SameLists(target, t1) /\ t1.objList = target.objList
        /\ SameSockets(target.conData, t1.conData) /\ t1.conData.jobList = before
        /\ t1.conData.sockCnt = c.sockCnt
        /\ t1.conData.pendingCombinerSockets = c.pendingCombinerSockets
    <2>1. t1 = AddJobIf(target, c.combiner # NULL, c.combiner)
      OBVIOUS
    <2>2. before = IF c.combiner # NULL THEN Append(target.conData.jobList, c.combiner)
                                        ELSE target.conData.jobList
      BY <1>3
    <2>3. HasFields(target) /\ target.conData.sockCnt = c.sockCnt
          /\ target.conData.pendingCombinerSockets = c.pendingCombinerSockets
      BY <1>3
    <2> HIDE DEF t1, before, c
    <2>4. /\ HasFields(t1) /\ SameLists(target, t1) /\ t1.objList = target.objList
          /\ SameSockets(target.conData, t1.conData)
          /\ t1.conData.jobList = IF c.combiner # NULL THEN Append(target.conData.jobList, c.combiner)
                                                      ELSE target.conData.jobList
          /\ t1.conData.sockCnt = target.conData.sockCnt
          /\ t1.conData.pendingCombinerSockets = target.conData.pendingCombinerSockets
      BY <2>1, <2>3, JobAppendedIf
    <2>5. QED
      BY <2>2, <2>3, <2>4
  <1>5. /\ HasFields(t2) /\ SameLists(target, t2) /\ t2.objList = target.objList
        /\ SameSockets(target.conData, t2.conData) /\ t2.conData.jobList = jobs
        /\ t2.conData.sockCnt = c.sockCnt
        /\ t2.conData.pendingCombinerSockets = c.pendingCombinerSockets
    <2>1. t2 = AddJob(t1, new) /\ jobs = Append(before, new)
      OBVIOUS
    <2> HIDE DEF t1, t2, before, jobs, new
    <2>2. QED
      BY <1>4, <2>1, JobAppended DEF SameLists, SameSockets
  <1>6. /\ HasFields(t3) /\ SameLists(target, t3) /\ t3.objList = target.objList
        /\ SameSockets(target.conData, t3.conData)
        /\ t3.conData.jobList = IF c.splitter # NULL THEN Append(jobs, c.splitter) ELSE jobs
        /\ t3.conData.sockCnt = c.sockCnt
        /\ t3.conData.pendingCombinerSockets = c.pendingCombinerSockets
    <2>1. t3 = AddJobIf(t2, c.splitter # NULL, c.splitter)
      OBVIOUS
    <2> HIDE DEF t2, t3, jobs, c
    <2>2. QED
      BY <1>5, <2>1, JobAppendedIf DEF SameLists, SameSockets
  <1> HIDE DEF t3
  <1>7. SameLists(p, t3)
    BY <1>3, <1>6 DEF SameLists
  <1>8. QED
    BY <1>1, <1>3, <1>6, <1>7 DEF SameSockets, NetworkSocketRead, WithRefs

LEMMA PortCreated ==
  ASSUME NEW p, HasFields(p), NEW n, NEW q, q = NewPort(p, n)
  PROVE  /\ HasFields(q) /\ q.pRtLst = p.pRtLst /\ q.conData = p.conData
         /\ q.drvInfLst = p.drvInfLst /\ q.objList = Append(p.objList, Object(n, {}))
         /\ q.nodeData = [p.nodeData EXCEPT ![n] = LastObject(p) + 1]
  BY DEF NewPort, HasFields, DataFields

LEMMA SplitterOutFields ==
  ASSUME NEW p, HasFields(p), NEW q, q = SplitterOut(p)
  PROVE  LET c == p.conData
             new == LastObject(p) + 1
         IN  /\ HasFields(q) /\ SameLists(p, q)
             /\ q.objList = Append(p.objList, GetSplitter({c.inSocket}))
             /\ q.conData.jobList = Append(c.jobList, new)
             /\ q.conData.inSocket = new /\ q.conData.outSocket = c.outSocket
             /\ q.conData.combiner = c.combiner /\ q.conData.splitter = c.splitter
             /\ q.conData.sockCnt = c.sockCnt
             /\ q.conData.pendingCombinerSockets = c.pendingCombinerSockets
  <1> DEFINE new == LastObject(p) + 1
  <1>1. ASSUME NEW t, t = [p EXCEPT !.objList = Append(@, GetSplitter({p.conData.inSocket})),
                                    !.conData.inSocket = new]
        PROVE  /\ HasFields(t) /\ SameLists(p, t)
               /\ t.objList = Append(p.objList, GetSplitter({p.conData.inSocket}))
               /\ t.conData.jobList = p.conData.jobList
               /\ t.conData.inSocket = new /\ t.conData.outSocket = p.conData.outSocket
               /\ t.conData.combiner = p.conData.combiner
               /\ t.conData.splitter = p.conData.splitter
               /\ t.conData.sockCnt = p.conData.sockCnt
               /\ t.conData.pendingCombinerSockets = p.conData.pendingCombinerSockets
    BY <1>1 DEF HasFields, DataFields, ConnectionFields, SameLists
  <1> DEFINE t == [p EXCEPT !.objList = Append(@, GetSplitter({p.conData.inSocket})),
                            !.conData.inSocket = new]
  <1>2. q = AddJob(t, new)
    BY DEF SplitterOut
  <1>3. HasFields(t)
    BY <1>1
  <1> HIDE DEF t, new
  <1>4. /\ HasFields(q) /\ SameLists(t, q) /\ q.objList = t.objList
        /\ SameSockets(t.conData, q.conData) /\ q.conData.jobList = Append(t.conData.jobList, new)
        /\ q.conData.sockCnt = t.conData.sockCnt
        /\ q.conData.pendingCombinerSockets = t.conData.pendingCombinerSockets
    BY <1>2, <1>3, JobAppended
  <1>5. QED
    BY <1>1, <1>4 DEF t, new, SameLists, SameSockets

LEMMA SplitterInFields ==
  ASSUME NEW p, HasFields(p), NEW q, q = SplitterIn(p)
  PROVE  LET c == p.conData
             new == LastObject(p) + 1
         IN  /\ HasFields(q) /\ SameLists(p, q)
             /\ q.objList = Append(p.objList, GetSplitter({}))
             /\ q.conData.jobList = c.jobList
             /\ q.conData.inSocket = new /\ q.conData.outSocket = c.outSocket
             /\ q.conData.combiner = c.combiner /\ q.conData.splitter = new
             /\ q.conData.sockCnt = c.sockCnt
             /\ q.conData.pendingCombinerSockets = c.pendingCombinerSockets
  BY DEF SplitterIn, HasFields, DataFields, ConnectionFields, SameLists

LEMMA CombinerFields ==
  ASSUME NEW p, HasFields(p), NEW q, q = Combiner(p)
  PROVE  LET c == p.conData
             new == LastObject(p) + 1
         IN  /\ HasFields(q) /\ SameLists(p, q)
             /\ q.objList = Append(p.objList, GetCombiner)
             /\ q.conData.jobList = c.jobList
             /\ q.conData.inSocket = c.inSocket /\ q.conData.outSocket = c.outSocket
             /\ q.conData.combiner = new /\ q.conData.splitter = c.splitter
             /\ q.conData.sockCnt = c.sockCnt /\ q.conData.pendingCombinerSockets
  BY DEF Combiner, HasFields, DataFields, ConnectionFields, SameLists

LEMMA CombinerOutFields ==
  ASSUME NEW p, HasFields(p), NEW q, q = CombinerOut(p)
  PROVE  LET c == p.conData IN
         /\ HasFields(q) /\ SameLists(p, q)
         /\ q.objList = WithRefs(p.objList, c.combiner, {c.outSocket})
         /\ q.conData.jobList = c.jobList
         /\ q.conData.inSocket = c.inSocket /\ q.conData.outSocket = c.combiner
         /\ q.conData.combiner = c.combiner /\ q.conData.splitter = c.splitter
         /\ q.conData.sockCnt = c.sockCnt
  BY DEF CombinerOut, WithRefs, HasFields, DataFields, ConnectionFields, SameLists

LEMMA CountedFields ==
  ASSUME NEW p, HasFields(p), NEW q, q = Counted(p)
  PROVE  /\ HasFields(q) /\ SameLists(p, q) /\ q.objList = p.objList
         /\ SameSockets(p.conData, q.conData) /\ q.conData.jobList = p.conData.jobList
         /\ q.conData.sockCnt = p.conData.sockCnt + 1
         /\ q.conData.pendingCombinerSockets = p.conData.pendingCombinerSockets
  BY DEF Counted, HasFields, DataFields, ConnectionFields, SameLists, SameSockets

-----------------------------------------------------------------------------
(* What is pointed to exists after each of them. *)

Closed(obj) == obj \in Seq(ObjectRecord) /\ \A i \in DOMAIN obj : obj[i].refs \subseteq DOMAIN obj

\* In a step of the parser no object of a port changes, and no object its kind.
LEMMA PointersKept ==
  ASSUME NEW p, NEW q, Pointers(p), NEW S, Kept(p.objList, q.objList, S), SameLists(p, q),
         \A x \in S : x \in DOMAIN p.objList => p.objList[x].kind \notin Ports,
         Closed(q.objList),
         {q.conData.inSocket, q.conData.outSocket, q.conData.combiner, q.conData.splitter}
           \subseteq DOMAIN q.objList \cup {NULL},
         q.conData.splitter # NULL => KindOf(q, q.conData.splitter) = "Splitter",
         q.conData.combiner # NULL => KindOf(q, q.conData.combiner) = "Combiner",
         q.conData.jobList \in Seq(DOMAIN q.objList)
  PROVE  Pointers(q)
  <1>1. \A n \in Ports : q.nodeData[n] # NULL =>
          q.nodeData[n] \in DOMAIN q.objList /\ q.objList[q.nodeData[n]] = Object(n, {})
    <2>1. SUFFICES ASSUME NEW n \in Ports, q.nodeData[n] # NULL
                   PROVE  /\ q.nodeData[n] \in DOMAIN q.objList
                          /\ q.objList[q.nodeData[n]] = Object(n, {})
      OBVIOUS
    <2> DEFINE x == p.nodeData[n]
    <2>2. q.nodeData[n] = x /\ x \in DOMAIN p.objList /\ p.objList[x] = Object(n, {})
      BY <2>1 DEF SameLists, Pointers
    <2>3. p.objList[x].kind \in Ports
      BY <2>2 DEF Object
    <2> HIDE DEF x
    <2>4. x \in DOMAIN q.objList /\ q.objList[x] = p.objList[x]
      BY <2>2, <2>3 DEF Kept
    <2>5. QED
      BY <2>2, <2>4
  <1>2. DOMAIN q.nodeData = Ports /\ q.pRtLst \in Seq(ToSet(q.pRtLst))
    BY DEF Pointers, SameLists
  <1>3. QED
    BY <1>1, <1>2 DEF Pointers, Closed

LEMMA ClosedAdded ==
  ASSUME NEW obj, Closed(obj), NEW o \in ObjectRecord, o.refs \subseteq DOMAIN obj
  PROVE  Closed(Append(obj, o))
  BY ObjectAdded DEF Closed

LEMMA ClosedChanged ==
  ASSUME NEW obj, NEW x, NEW refs, Closed(obj), x \in DOMAIN obj, refs \subseteq DOMAIN obj
  PROVE  Closed(WithRefs(obj, x, refs))
  <1> DEFINE list == WithRefs(obj, x, refs)
  <1>1. obj \in Seq(ObjectRecord) /\ refs \subseteq Nat
    BY DEF Closed
  <1>2. /\ list \in Seq(ObjectRecord) /\ DOMAIN list = DOMAIN obj /\ list[x].refs = refs
        /\ \A i \in DOMAIN obj \ {x} : list[i] = obj[i]
    <2>1. Changed(obj, x, refs, list)
      BY <1>1, RefsChanged
    <2> HIDE DEF list
    <2>2. QED
      BY <2>1 DEF Changed
  <1> HIDE DEF list
  <1>3. Closed(list)
    BY <1>2 DEF Closed
  <1>4. QED
    BY <1>3 DEF list

LEMMA KeptOnce ==
  ASSUME NEW obj1, NEW obj2, NEW obj3, NEW S, NEW T, Kept(obj1, obj2, S), Kept(obj2, obj3, T)
  PROVE  Kept(obj1, obj3, S \cup T)
  BY DEF Kept

\* The job list of a connection grows by new jobs.
LEMMA SeqGrows ==
  ASSUME NEW S, NEW T, NEW s \in Seq(S), S \subseteq T
  PROVE  s \in Seq(T)
  OBVIOUS

\* The sockets of a connection are objects.
LEMMA SocketsOf ==
  ASSUME NEW p, Pointers(p)
  PROVE  /\ p.objList \in Seq(ObjectRecord) /\ Closed(p.objList)
         /\ {p.conData.inSocket, p.conData.outSocket, p.conData.combiner, p.conData.splitter}
              \subseteq DOMAIN p.objList \cup {NULL}
         /\ p.conData.jobList \in Seq(DOMAIN p.objList)
         /\ p.conData.splitter # NULL => KindOf(p, p.conData.splitter) = "Splitter"
         /\ p.conData.combiner # NULL => KindOf(p, p.conData.combiner) = "Combiner"
  BY DEF Pointers, Closed

LEMMA NetworkSocketPointers ==
  ASSUME NEW p, HasFields(p), Pointers(p), NEW isSource \in BOOLEAN, NEW a,
         NEW q, q = NetworkSocket(p, isSource, a)
  PROVE  /\ Pointers(q)
         /\ Kept(p.objList, q.objList,
                 IF p.conData.combiner = NULL /\ p.conData.splitter # NULL
                 THEN {p.conData.splitter} ELSE {})
         /\ DOMAIN q.objList = DOMAIN p.objList \cup {LastObject(p) + 1}
         /\ q.objList[LastObject(p) + 1] = GetNetworkSocket
  <1> DEFINE c == p.conData
             new == LastObject(p) + 1
             list == Append(p.objList, GetNetworkSocket)
             inSplitter == c.combiner = NULL /\ c.splitter # NULL
             before == IF c.combiner # NULL THEN Append(c.jobList, c.combiner) ELSE c.jobList
             jobs == Append(before, new)
  <1>1. /\ HasFields(q) /\ SameLists(p, q)
        /\ q.objList = IF inSplitter THEN WithRefs(list, c.splitter, {new}) ELSE list
        /\ q.conData.jobList = IF c.splitter # NULL THEN Append(jobs, c.splitter) ELSE jobs
        /\ q.conData.inSocket = IF ~inSplitter /\ isSource THEN new ELSE c.inSocket
        /\ q.conData.outSocket = IF ~inSplitter /\ ~isSource THEN new ELSE c.outSocket
        /\ q.conData.combiner = c.combiner /\ q.conData.splitter = c.splitter
    <2>1. NetworkSocketRead(p, isSource, q)
      BY NetworkSocketFields
    <2>2. QED
      BY <2>1 DEF NetworkSocketRead
  <1>2. /\ p.objList \in Seq(ObjectRecord) /\ Closed(p.objList)
        /\ {c.inSocket, c.outSocket, c.combiner, c.splitter} \subseteq DOMAIN p.objList \cup {NULL}
        /\ c.jobList \in Seq(DOMAIN p.objList)
        /\ c.splitter # NULL => p.objList[c.splitter].kind = "Splitter"
        /\ c.combiner # NULL => p.objList[c.combiner].kind = "Combiner"
    BY SocketsOf DEF KindOf
  <1>3. GetNetworkSocket \in ObjectRecord /\ GetNetworkSocket.refs = {}
    BY KindFacts DEF GetNetworkSocket
  <1>4. /\ Kept(p.objList, list, {}) /\ list \in Seq(ObjectRecord) /\ Closed(list)
        /\ DOMAIN list = DOMAIN p.objList \cup {new} /\ new \in Nat /\ new \notin DOMAIN p.objList
        /\ new # NULL /\ NULL \notin DOMAIN p.objList
        /\ list[new] = GetNetworkSocket /\ \A i \in DOMAIN p.objList : list[i] = p.objList[i]
    BY <1>2, <1>3, ObjectAdded, ClosedAdded DEF LastObject
  <1> HIDE DEF list, new
  <1>5. /\ q.objList \in Seq(ObjectRecord) /\ Closed(q.objList) /\ DOMAIN q.objList = DOMAIN list
        /\ q.objList[new] = GetNetworkSocket
        /\ Kept(p.objList, q.objList, IF inSplitter THEN {c.splitter} ELSE {})
        /\ \A i \in DOMAIN p.objList : q.objList[i].kind = p.objList[i].kind
    <2>1. CASE inSplitter
      <3>1. c.splitter \in DOMAIN p.objList
        BY <1>2, <2>1
      <3>2. c.splitter \in DOMAIN list /\ {new} \subseteq DOMAIN list /\ {new} \subseteq Nat
            /\ c.splitter # new
        BY <1>4, <3>1
      <3> DEFINE changed == WithRefs(list, c.splitter, {new})
      <3>3. /\ changed \in Seq(ObjectRecord) /\ DOMAIN changed = DOMAIN list
            /\ Kept(list, changed, {c.splitter})
            /\ changed[c.splitter].kind = list[c.splitter].kind
            /\ \A i \in DOMAIN list \ {c.splitter} : changed[i] = list[i]
        <4>1. Changed(list, c.splitter, {new}, changed)
          BY <1>4, <3>2, RefsChanged
        <4> HIDE DEF changed
        <4>2. QED
          BY <4>1 DEF Changed
      <3>4. Closed(changed)
        BY <1>4, <3>2, ClosedChanged
      <3>5. q.objList = changed
        BY <1>1, <2>1
      <3> HIDE DEF changed
      <3>6. Kept(p.objList, changed, {} \cup {c.splitter})
        BY <1>4, <3>3, KeptOnce
      <3>7. {} \cup {c.splitter} = IF inSplitter THEN {c.splitter} ELSE {}
        BY <2>1
      <3>8. QED
        BY <1>4, <3>2, <3>3, <3>4, <3>5, <3>6, <3>7
    <2>2. CASE ~inSplitter
      BY <1>1, <1>4, <2>2
    <2>3. QED
      BY <2>1, <2>2
  <1>6. q.conData.jobList \in Seq(DOMAIN q.objList)
    <2>1. c.jobList \in Seq(DOMAIN list)
      BY <1>2, <1>4
    <2>2. before \in Seq(DOMAIN list)
      BY <1>2, <1>4, <2>1, LastOfAppend
    <2> HIDE DEF before
    <2>3. jobs \in Seq(DOMAIN list)
      BY <1>4, <2>2, LastOfAppend
    <2> HIDE DEF jobs
    <2>4. c.splitter # NULL => c.splitter \in DOMAIN list
      BY <1>2, <1>4
    <2>5. CASE c.splitter # NULL
      <3>1. Append(jobs, c.splitter) \in Seq(DOMAIN list)
        BY <2>3, <2>4, <2>5, LastOfAppend
      <3>2. QED
        BY <1>1, <1>5, <2>5, <3>1 DEF jobs, before
    <2>6. CASE c.splitter = NULL
      BY <1>1, <1>5, <2>3, <2>6 DEF jobs, before
    <2>7. QED
      BY <2>5, <2>6
  <1>7. {q.conData.inSocket, q.conData.outSocket, q.conData.combiner, q.conData.splitter}
          \subseteq DOMAIN q.objList \cup {NULL}
    <2> DEFINE ids == DOMAIN q.objList \cup {NULL}
    <2>1. new \in ids /\ {c.inSocket, c.outSocket, c.combiner, c.splitter} \subseteq ids
      BY <1>2, <1>4, <1>5
    <2> HIDE DEF ids, inSplitter
    <2>2. q.conData.inSocket \in {new, c.inSocket} /\ q.conData.outSocket \in {new, c.outSocket}
      BY <1>1
    <2>3. QED
      BY <1>1, <2>1, <2>2 DEF ids
  <1>8. /\ q.conData.splitter # NULL => KindOf(q, q.conData.splitter) = "Splitter"
        /\ q.conData.combiner # NULL => KindOf(q, q.conData.combiner) = "Combiner"
    BY <1>1, <1>2, <1>5 DEF KindOf
  <1>9. \A x \in (IF inSplitter THEN {c.splitter} ELSE {}) :
          x \in DOMAIN p.objList => p.objList[x].kind \notin Ports
    BY <1>2 DEF Ports
  <1> DEFINE S == IF inSplitter THEN {c.splitter} ELSE {}
  <1>10. Pointers(q)
    <2>1. Kept(p.objList, q.objList, S)
          /\ \A x \in S : x \in DOMAIN p.objList => p.objList[x].kind \notin Ports
      BY <1>5, <1>9
    <2> HIDE DEF S
    <2>2. QED
      BY <1>1, <1>5, <1>6, <1>7, <1>8, <2>1, PointersKept
  <1>11. QED
    BY <1>4, <1>5, <1>10 DEF new

\* A new object that points to old ones, and maybe is a socket of the connection.
LEMMA ObjectPointers ==
  ASSUME NEW p, NEW q, NEW o \in ObjectRecord, Pointers(p), SameLists(p, q),
         o.refs \subseteq DOMAIN p.objList, q.objList = Append(p.objList, o),
         {q.conData.inSocket, q.conData.outSocket}
           \subseteq DOMAIN p.objList \cup {NULL, LastObject(p) + 1},
         q.conData.splitter = p.conData.splitter
           \/ (q.conData.splitter = LastObject(p) + 1 /\ o.kind = "Splitter"),
         q.conData.combiner = p.conData.combiner
           \/ (q.conData.combiner = LastObject(p) + 1 /\ o.kind = "Combiner"),
         q.conData.jobList \in Seq(DOMAIN p.objList \cup {LastObject(p) + 1})
  PROVE  Pointers(q)
  <1> DEFINE new == LastObject(p) + 1
             ids == DOMAIN p.objList
  <1>1. /\ p.objList \in Seq(ObjectRecord) /\ Closed(p.objList)
        /\ {p.conData.combiner, p.conData.splitter} \subseteq ids \cup {NULL}
        /\ p.conData.splitter # NULL => p.objList[p.conData.splitter].kind = "Splitter"
        /\ p.conData.combiner # NULL => p.objList[p.conData.combiner].kind = "Combiner"
    BY SocketsOf DEF KindOf
  <1>2. /\ Kept(p.objList, q.objList, {}) /\ Closed(q.objList)
        /\ DOMAIN q.objList = ids \cup {new} /\ new # NULL
        /\ q.objList[new] = o /\ \A i \in ids : q.objList[i] = p.objList[i]
    BY <1>1, ObjectAdded, ClosedAdded DEF LastObject
  <1> HIDE DEF new
  <1>3. {q.conData.inSocket, q.conData.outSocket, q.conData.combiner, q.conData.splitter}
          \subseteq DOMAIN q.objList \cup {NULL}
    BY <1>1, <1>2 DEF new
  <1>4. /\ q.conData.splitter # NULL => KindOf(q, q.conData.splitter) = "Splitter"
        /\ q.conData.combiner # NULL => KindOf(q, q.conData.combiner) = "Combiner"
    BY <1>1, <1>2 DEF KindOf, new
  <1>5. q.conData.jobList \in Seq(DOMAIN q.objList)
    BY <1>2 DEF new
  <1> DEFINE S == {}
  <1>6. Kept(p.objList, q.objList, S)
        /\ \A x \in S : x \in DOMAIN p.objList => p.objList[x].kind \notin Ports
    BY <1>2
  <1> HIDE DEF S
  <1>7. QED
    BY <1>2, <1>3, <1>4, <1>5, <1>6, PointersKept

LEMMA PortPointers ==
  ASSUME NEW p, NEW n \in Ports, HasFields(p), Pointers(p), NEW q, q = NewPort(p, n)
  PROVE  /\ Pointers(q) /\ HasFields(q) /\ q.pRtLst = p.pRtLst /\ q.conData = p.conData
         /\ q.drvInfLst = p.drvInfLst /\ Kept(p.objList, q.objList, {})
         /\ \A x \in DOMAIN q.objList \ DOMAIN p.objList : q.objList[x].refs = {}
         /\ \A m \in Ports \ {n} : q.nodeData[m] = p.nodeData[m]
         /\ q.nodeData[n] = LastObject(p) + 1 /\ q.nodeData[n] \in DOMAIN q.objList
         /\ q.objList[q.nodeData[n]] = Object(n, {})
  <1> DEFINE new == LastObject(p) + 1
             ids == DOMAIN p.objList
             o == Object(n, {})
  <1>1. /\ HasFields(q) /\ q.pRtLst = p.pRtLst /\ q.conData = p.conData
        /\ q.drvInfLst = p.drvInfLst /\ q.objList = Append(p.objList, o)
        /\ q.nodeData = [p.nodeData EXCEPT ![n] = new]
    BY PortCreated
  <1>2. /\ o \in ObjectRecord /\ o.refs = {}
    BY KindFacts DEF Kinds
  <1> HIDE DEF o
  <1>3. /\ p.objList \in Seq(ObjectRecord) /\ Closed(p.objList)
        /\ {p.conData.inSocket, p.conData.outSocket, p.conData.combiner, p.conData.splitter}
             \subseteq ids \cup {NULL}
        /\ p.conData.splitter # NULL => p.objList[p.conData.splitter].kind = "Splitter"
        /\ p.conData.combiner # NULL => p.objList[p.conData.combiner].kind = "Combiner"
        /\ p.conData.jobList \in Seq(ids)
    BY SocketsOf DEF KindOf
  <1>4. /\ Kept(p.objList, q.objList, {}) /\ Closed(q.objList)
        /\ DOMAIN q.objList = ids \cup {new} /\ new # NULL /\ NULL \notin ids
        /\ q.objList[new] = o /\ \A i \in ids : q.objList[i] = p.objList[i]
    BY <1>1, <1>2, <1>3, ObjectAdded, ClosedAdded DEF LastObject
  <1> HIDE DEF new
  <1>5. /\ DOMAIN p.nodeData = Ports
        /\ \A m \in Ports : p.nodeData[m] # NULL =>
             p.nodeData[m] \in ids /\ p.objList[p.nodeData[m]] = Object(m, {})
        /\ p.pRtLst \in Seq(ToSet(p.pRtLst))
    BY DEF Pointers
  <1>6. /\ DOMAIN q.nodeData = Ports /\ q.nodeData[n] = new
        /\ \A m \in Ports \ {n} : q.nodeData[m] = p.nodeData[m]
    BY <1>1, <1>5
  <1>7. \A m \in Ports : q.nodeData[m] # NULL =>
          q.nodeData[m] \in DOMAIN q.objList /\ q.objList[q.nodeData[m]] = Object(m, {})
    BY <1>4, <1>5, <1>6 DEF o
  <1>8. /\ q.conData.splitter # NULL => KindOf(q, q.conData.splitter) = "Splitter"
        /\ q.conData.combiner # NULL => KindOf(q, q.conData.combiner) = "Combiner"
    BY <1>1, <1>3, <1>4 DEF KindOf
  <1>9. q.conData.jobList \in Seq(DOMAIN q.objList)
    BY <1>1, <1>3, <1>4
  <1>10. {q.conData.inSocket, q.conData.outSocket, q.conData.combiner, q.conData.splitter}
           \subseteq DOMAIN q.objList \cup {NULL}
    BY <1>1, <1>3, <1>4
  <1>11. Pointers(q)
    BY <1>1, <1>4, <1>5, <1>6, <1>7, <1>8, <1>9, <1>10 DEF Pointers, Closed
  <1>12. \A x \in DOMAIN q.objList \ ids : q.objList[x].refs = {}
    BY <1>2, <1>4
  <1>13. QED
    BY <1>1, <1>4, <1>6, <1>11, <1>12 DEF new, o

LEMMA KeptSelf ==
  ASSUME NEW obj, obj \in Seq(ObjectRecord)
  PROVE  Kept(obj, obj, {})
  BY DEF Kept

LEMMA CreatePortStep ==
  ASSUME NEW p, NEW n \in Ports, HasFields(p), Pointers(p), NEW q, q = CreatePort(p, n)
  PROVE  /\ PortStep(p, q) /\ q.nodeData[n] # NULL
         /\ \A m \in Ports : p.nodeData[m] # NULL => q.nodeData[m] = p.nodeData[m]
  <1>1. CASE p.nodeData[n] = NULL
    <2>1. q = NewPort(p, n)
      BY <1>1 DEF CreatePort
    <2>2. LastObject(p) + 1 # NULL
      BY SocketsOf, ObjectAdded DEF LastObject, NULL
    <2>3. QED
      BY <1>1, <2>1, <2>2, PortPointers DEF PortStep
  <1>2. CASE p.nodeData[n] # NULL
    BY <1>2, KeptSelf, SocketsOf DEF CreatePort, PortStep
  <1>3. QED
    BY <1>1, <1>2

LEMMA PortStepTwice ==
  ASSUME NEW p, NEW q, NEW r, PortStep(p, q), PortStep(q, r)
  PROVE  PortStep(p, r)
  <1>1. Kept(p.objList, r.objList, {} \cup {})
    BY KeptOnce DEF PortStep
  <1>2. /\ Kept(p.objList, q.objList, {}) /\ Kept(q.objList, r.objList, {})
        /\ \A x \in DOMAIN q.objList \ DOMAIN p.objList : q.objList[x].refs = {}
        /\ \A x \in DOMAIN r.objList \ DOMAIN q.objList : r.objList[x].refs = {}
    BY DEF PortStep
  <1>3. \A x \in DOMAIN r.objList \ DOMAIN p.objList : r.objList[x].refs = {}
    BY <1>2 DEF Kept
  <1>4. QED
    BY <1>1, <1>3 DEF PortStep

\* The ports of a socket, which are there afterwards.
LEMMA PortNames ==
  ASSUME NEW kind \in LocalSockets
  PROVE  /\ DOMAIN PortsOf(kind) = 1 .. Len(PortsOf(kind)) /\ Len(PortsOf(kind)) \in {1, 2}
         /\ \A i \in DOMAIN PortsOf(kind) : PortsOf(kind)[i] \in Ports \ {"rmckPort"}
         /\ \A i, j \in DOMAIN PortsOf(kind) : PortsOf(kind)[i] = PortsOf(kind)[j] => i = j
         /\ PortsOf(kind) \in Seq(Ports)
  <1>1. CASE kind = "USBSocket"
    <2>1. PortsOf(kind) = <<"usbPort">>
      BY <1>1 DEF PortsOf, UsbPorts
    <2>2. QED
      BY <2>1 DEF Ports
  <1>2. CASE kind = "MediaLBSocket"
    <2>1. PortsOf(kind) = <<"mlbPort">>
      BY <1>2 DEF PortsOf, MlbPorts
    <2>2. QED
      BY <2>1 DEF Ports
  <1>3. CASE kind = "StreamSocket"
    <2>1. PortsOf(kind) = <<"strmPortA", "strmPortB">>
      BY <1>3 DEF PortsOf, StrmPorts
    <2>2. QED
      BY <2>1 DEF Ports
  <1>4. QED
    BY <1>1, <1>2, <1>3 DEF LocalSockets

LEMMA CreatePortsStep ==
  ASSUME NEW p, NEW kind \in LocalSockets, HasFields(p), Pointers(p),
         NEW q, q = CreatePorts(p, PortsOf(kind))
  PROVE  /\ PortStep(p, q)
         /\ \A i \in DOMAIN PortsOf(kind) : q.nodeData[PortsOf(kind)[i]] # NULL
  <1> DEFINE names == PortsOf(kind)
  <1>1. /\ DOMAIN names = 1 .. Len(names) /\ Len(names) \in {1, 2}
        /\ \A i \in DOMAIN names : names[i] \in Ports
    BY PortNames
  <1> HIDE DEF names
  <1>2. CASE Len(names) = 1
    <2>1. q = CreatePort(p, names[1]) /\ names[1] \in Ports /\ DOMAIN names = {1}
      BY <1>1, <1>2 DEF CreatePorts, names
    <2>2. PortStep(p, q) /\ q.nodeData[names[1]] # NULL
      BY <2>1, CreatePortStep
    <2>3. QED
      BY <2>1, <2>2 DEF names
  <1>3. CASE Len(names) = 2
    <2> DEFINE r == CreatePort(p, names[1])
    <2>1. q = CreatePort(r, names[2]) /\ names[1] \in Ports /\ names[2] \in Ports
          /\ DOMAIN names = {1, 2}
      BY <1>1, <1>3 DEF CreatePorts, names
    <2> HIDE DEF r
    <2>2. PortStep(p, r) /\ r.nodeData[names[1]] # NULL
      BY <2>1, CreatePortStep DEF r
    <2>3. HasFields(r) /\ Pointers(r)
      BY <2>2 DEF PortStep
    <2>4. /\ PortStep(r, q) /\ q.nodeData[names[2]] # NULL
          /\ \A m \in Ports : r.nodeData[m] # NULL => q.nodeData[m] = r.nodeData[m]
      BY <2>1, <2>3, CreatePortStep
    <2>5. q.nodeData[names[1]] # NULL
      BY <2>1, <2>2, <2>4
    <2>6. QED
      BY <2>1, <2>2, <2>4, <2>5, PortStepTwice DEF names
  <1>4. QED
    BY <1>1, <1>2, <1>3

LEMMA LocalSocketFields ==
  ASSUME NEW p, NEW isSource \in BOOLEAN, NEW kind, NEW pin,
         NEW ports, ports = CreatePorts(p, PortsOf(kind)), HasFields(ports), ports.conData = p.conData,
         NEW q, q = LocalSocket(p, isSource, kind, pin)
  PROVE  LocalSocketRead(p, ports, isSource, kind, pin, q)
  <1> DEFINE ids == PortIds(ports, kind)
             new == LastObject(ports) + 1
             listed == [ports EXCEPT !.conData.jobList = @ \o ids,
                                     !.objList = Append(@, GetSocket(kind, ids, pin))]
             target == SetTarget(listed, isSource, new)
  <1>1. q = AddJob(target, new)
    BY DEF LocalSocket, PortIds
  <1>2. ASSUME NEW t, t = listed
        PROVE  /\ HasFields(t) /\ SameLists(ports, t) /\ SameSockets(p.conData, t.conData)
               /\ t.objList = Append(ports.objList, GetSocket(kind, ids, pin))
               /\ t.conData.jobList = p.conData.jobList \o ids
               /\ t.conData.sockCnt = p.conData.sockCnt
               /\ t.conData.pendingCombinerSockets = p.conData.pendingCombinerSockets
    <2> HIDE DEF ids
    <2>1. QED
      BY <1>2 DEF HasFields, DataFields, ConnectionFields, SameLists, SameSockets
  <1>3. HasFields(listed)
    BY <1>2
  <1> HIDE DEF listed
  <1>4. /\ HasFields(target) /\ SameLists(listed, target) /\ target.objList = listed.objList
        /\ target.conData.jobList = listed.conData.jobList
        /\ target.conData.inSocket = IF isSource THEN new ELSE listed.conData.inSocket
        /\ target.conData.outSocket = IF isSource THEN listed.conData.outSocket ELSE new
        /\ target.conData.combiner = listed.conData.combiner
        /\ target.conData.splitter = listed.conData.splitter
        /\ target.conData.sockCnt = listed.conData.sockCnt
        /\ target.conData.pendingCombinerSockets = listed.conData.pendingCombinerSockets
    <2>1. target = SetTarget(listed, isSource, new)
      OBVIOUS
    <2> HIDE DEF target, new
    <2>2. QED
      BY <1>3, <2>1, TargetSet
  <1> HIDE DEF target
  <1>5. /\ HasFields(q) /\ SameLists(target, q) /\ q.objList = target.objList
        /\ SameSockets(target.conData, q.conData)
        /\ q.conData.jobList = Append(target.conData.jobList, new)
        /\ q.conData.sockCnt = target.conData.sockCnt
        /\ q.conData.pendingCombinerSockets = target.conData.pendingCombinerSockets
    <2> HIDE DEF new
    <2>1. QED
      BY <1>1, <1>4, JobAppended
  <1>6. /\ HasFields(listed) /\ SameLists(ports, listed) /\ SameSockets(p.conData, listed.conData)
        /\ listed.objList = Append(ports.objList, GetSocket(kind, ids, pin))
        /\ listed.conData.jobList = p.conData.jobList \o ids
        /\ listed.conData.sockCnt = p.conData.sockCnt
        /\ listed.conData.pendingCombinerSockets = p.conData.pendingCombinerSockets
    BY <1>2
  <1> HIDE DEF ids, new
  <1>7. QED
    BY <1>4, <1>5, <1>6 DEF LocalSocketRead, SameLists, SameSockets, ids, new

\* A local socket points to ports of its node.
LEMMA SocketOnPorts ==
  ASSUME NEW p, NEW kind \in LocalSockets, NEW pin \in DOMAIN PortsOf(kind), Pointers(p),
         \A i \in DOMAIN PortsOf(kind) : p.nodeData[PortsOf(kind)[i]] # NULL
  PROVE  LET ids == PortIds(p, kind)
             socket == GetSocket(kind, ids, pin)
         IN  /\ ids \in Seq(DOMAIN p.objList) /\ DOMAIN ids = DOMAIN PortsOf(kind)
             /\ \A i \in DOMAIN ids : p.objList[ids[i]] = Object(PortsOf(kind)[i], {})
             /\ \A i, j \in DOMAIN ids : ids[i] = ids[j] => i = j
             /\ socket \in ObjectRecord /\ socket.kind = kind /\ socket.refs \subseteq ToSet(ids)
  <1> DEFINE ids == PortIds(p, kind)
             names == PortsOf(kind)
             socket == GetSocket(kind, ids, pin)
  <1>1. /\ DOMAIN names = 1 .. Len(names) /\ Len(names) \in {1, 2}
        /\ \A i \in DOMAIN names : names[i] \in Ports
        /\ \A i, j \in DOMAIN names : names[i] = names[j] => i = j
    BY PortNames
  <1>2. DOMAIN ids = DOMAIN names /\ \A i \in DOMAIN names : ids[i] = p.nodeData[names[i]]
    BY DEF PortIds
  <1>3. \A i \in DOMAIN names : ids[i] \in DOMAIN p.objList /\ p.objList[ids[i]] = Object(names[i], {})
    BY <1>1, <1>2 DEF Pointers
  <1>4. ids \in Seq(DOMAIN p.objList)
    <2>1. Len(names) \in Nat /\ ids = [i \in 1 .. Len(names) |-> ids[i]]
          /\ \A i \in 1 .. Len(names) : ids[i] \in DOMAIN p.objList
      BY <1>1, <1>2, <1>3 DEF PortIds
    <2> HIDE DEF ids, names
    <2>2. QED
      BY <2>1
  <1> HIDE DEF ids
  <1>5. \A i, j \in DOMAIN ids : ids[i] = ids[j] => i = j
    <2>1. SUFFICES ASSUME NEW i \in DOMAIN names, NEW j \in DOMAIN names, ids[i] = ids[j]
                   PROVE  i = j
      BY <1>2
    <2>2. Object(names[i], {}) = Object(names[j], {})
      BY <1>3, <2>1
    <2>3. names[i] = names[j]
      BY <2>2 DEF Object
    <2>4. QED
      BY <1>1, <2>3
  <1>6. ToSet(ids) \subseteq Nat /\ ids[pin] \in ToSet(ids)
    BY <1>2, <1>3, SocketsOf DEF ToSet
  <1>7. \E refs \in SUBSET ToSet(ids) : socket = Object(kind, refs)
    <2>1. CASE kind = "USBSocket"
      BY <2>1 DEF GetSocket, GetUsbSocket
    <2>2. CASE kind = "MediaLBSocket"
      BY <2>2 DEF GetSocket, GetMlbSocket
    <2>3. CASE kind = "StreamSocket"
      BY <1>6, <2>3 DEF GetSocket, GetStrmSocket
    <2>4. QED
      BY <2>1, <2>2, <2>3 DEF LocalSockets
  <1>8. socket \in ObjectRecord /\ socket.kind = kind /\ socket.refs \subseteq ToSet(ids)
    <2>1. PICK refs \in SUBSET ToSet(ids) : socket = Object(kind, refs)
      BY <1>7
    <2>2. kind \in Kinds /\ refs \in SUBSET Nat
      BY <1>6 DEF Kinds
    <2> HIDE DEF socket
    <2>3. QED
      BY <2>1, <2>2, KindFacts
  <1>9. QED
    BY <1>2, <1>3, <1>4, <1>5, <1>8 DEF ids, names

\* Only the connection changes, and not its sockets.
LEMMA ConnectionPointers ==
  ASSUME NEW p, NEW q, Pointers(p), SameLists(p, q), q.objList = p.objList,
         {q.conData.inSocket, q.conData.outSocket} \subseteq DOMAIN p.objList \cup {NULL},
         q.conData.splitter \in {p.conData.splitter, NULL},
         q.conData.combiner \in {p.conData.combiner, NULL},
         q.conData.jobList \in Seq(DOMAIN p.objList)
  PROVE  Pointers(q)
  BY DEF Pointers, SameLists, KindOf

LEMMA CountedPointers ==
  ASSUME NEW p, Good(p)
  PROVE  Good(Counted(p))
  <1> DEFINE q == Counted(p)
  <1>1. /\ HasFields(q) /\ SameLists(p, q) /\ q.objList = p.objList
        /\ SameSockets(p.conData, q.conData) /\ q.conData.jobList = p.conData.jobList
    BY CountedFields DEF Good
  <1> HIDE DEF q
  <1>2. Pointers(p)
    BY DEF Good
  <1>3. Pointers(q)
    BY <1>1, <1>2, SocketsOf, ConnectionPointers DEF SameSockets
  <1>4. QED
    BY <1>1, <1>3 DEF Good, q

LEMMA LocalSocketPointers ==
  ASSUME NEW p, Good(p), NEW isSource \in BOOLEAN, NEW kind \in LocalSockets,
         NEW pin \in DOMAIN PortsOf(kind), NEW q, q = LocalSocket(p, isSource, kind, pin)
  PROVE  Good(q)
  <1> DEFINE c == p.conData
             ports == CreatePorts(p, PortsOf(kind))
             ids == PortIds(ports, kind)
             socket == GetSocket(kind, ids, pin)
             new == LastObject(ports) + 1
  <1>1. PortStep(p, ports) /\ \A i \in DOMAIN PortsOf(kind) : ports.nodeData[PortsOf(kind)[i]] # NULL
    BY CreatePortsStep DEF Good
  <1> HIDE DEF socket
  <1>2. LocalSocketRead(p, ports, isSource, kind, pin, q)
    BY <1>1, LocalSocketFields DEF PortStep
  <1> HIDE DEF ports
  <1>3. /\ Pointers(ports) /\ HasFields(ports) /\ ports.conData = c
        /\ Kept(p.objList, ports.objList, {})
    BY <1>1 DEF PortStep
  <1>4. /\ ids \in Seq(DOMAIN ports.objList)
        /\ socket \in ObjectRecord /\ socket.kind = kind /\ socket.refs \subseteq ToSet(ids)
    BY <1>1, <1>3, SocketOnPorts DEF socket
  <1>5. /\ HasFields(q) /\ SameLists(ports, q) /\ q.objList = Append(ports.objList, socket)
        /\ q.conData.jobList = Append(c.jobList \o ids, new)
        /\ q.conData.inSocket \in {new, c.inSocket} /\ q.conData.outSocket \in {new, c.outSocket}
        /\ q.conData.combiner = c.combiner /\ q.conData.splitter = c.splitter
    BY <1>2 DEF LocalSocketRead, socket
  <1> HIDE DEF ids
  <1>6. ToSet(ids) \subseteq DOMAIN ports.objList
    BY <1>4 DEF ToSet
  <1>7. c.jobList \in Seq(DOMAIN ports.objList)
        /\ {c.inSocket, c.outSocket} \subseteq DOMAIN ports.objList \cup {NULL}
    BY <1>3, SocketsOf
  <1>8. q.conData.jobList \in Seq(DOMAIN ports.objList \cup {new})
    <2> DEFINE T == DOMAIN ports.objList \cup {new}
    <2>1. c.jobList \in Seq(T) /\ ids \in Seq(T) /\ new \in T
      BY <1>4, <1>7
    <2> HIDE DEF T, c, new
    <2>2. c.jobList \o ids \in Seq(T)
      BY <2>1
    <2>3. QED
      BY <1>5, <2>1, <2>2, LastOfAppend DEF T
  <1>9. Pointers(q)
    BY <1>3, <1>4, <1>5, <1>6, <1>7, <1>8, ObjectPointers
  <1>10. QED
    BY <1>5, <1>9 DEF Good

LEMMA SplitterOutPointers ==
  ASSUME NEW p, Good(p), p.conData.inSocket # NULL, NEW q, q = SplitterOut(p)
  PROVE  Good(q)
  <1> DEFINE c == p.conData
             new == LastObject(p) + 1
             o == GetSplitter({c.inSocket})
  <1>1. /\ HasFields(q) /\ SameLists(p, q) /\ q.objList = Append(p.objList, o)
        /\ q.conData.jobList = Append(c.jobList, new)
        /\ q.conData.inSocket = new /\ q.conData.outSocket = c.outSocket
        /\ q.conData.combiner = c.combiner /\ q.conData.splitter = c.splitter
    BY SplitterOutFields DEF Good
  <1>2. Pointers(p) /\ c.inSocket \in DOMAIN p.objList /\ c.outSocket \in DOMAIN p.objList \cup {NULL}
        /\ c.jobList \in Seq(DOMAIN p.objList)
    BY SocketsOf DEF Good
  <1>3. o \in ObjectRecord /\ o.refs = {c.inSocket}
    <2>1. {c.inSocket} \in SUBSET Nat
      BY <1>2, SocketsOf
    <2>2. QED
      BY <2>1, KindFacts DEF Kinds, GetSplitter
  <1>4. q.conData.jobList \in Seq(DOMAIN p.objList \cup {new})
    <2> DEFINE T == DOMAIN p.objList \cup {new}
    <2>1. c.jobList \in Seq(T) /\ new \in T
      BY <1>2
    <2> HIDE DEF T, c, new
    <2>2. QED
      BY <1>1, <2>1, LastOfAppend DEF T
  <1> HIDE DEF o
  <1>5. {q.conData.inSocket, q.conData.outSocket} \subseteq DOMAIN p.objList \cup {NULL, new}
    BY <1>1, <1>2
  <1>6. o.refs \subseteq DOMAIN p.objList
    BY <1>2, <1>3
  <1>7. Pointers(p) /\ SameLists(p, q) /\ q.objList = Append(p.objList, o)
        /\ q.conData.splitter = p.conData.splitter /\ q.conData.combiner = p.conData.combiner
    BY <1>1, <1>2
  <1> HIDE DEF c, new
  <1>8. Pointers(q)
    BY <1>3, <1>4, <1>5, <1>6, <1>7, ObjectPointers DEF new
  <1>9. QED
    BY <1>1, <1>8 DEF Good

LEMMA SplitterInPointers ==
  ASSUME NEW p, Good(p), NEW q, q = SplitterIn(p)
  PROVE  Good(q)
  <1> DEFINE c == p.conData
             new == LastObject(p) + 1
             o == GetSplitter({})
  <1>1. /\ HasFields(q) /\ SameLists(p, q) /\ q.objList = Append(p.objList, o)
        /\ q.conData.jobList = c.jobList
        /\ q.conData.inSocket = new /\ q.conData.outSocket = c.outSocket
        /\ q.conData.combiner = c.combiner /\ q.conData.splitter = new
    BY SplitterInFields DEF Good
  <1>2. Pointers(p) /\ c.outSocket \in DOMAIN p.objList \cup {NULL}
        /\ c.jobList \in Seq(DOMAIN p.objList \cup {new})
    BY SocketsOf DEF Good
  <1>3. o \in ObjectRecord /\ o.refs = {} /\ o.kind = "Splitter"
    BY KindFacts DEF Kinds, GetSplitter
  <1> HIDE DEF o
  <1>4. Pointers(q)
    BY <1>1, <1>2, <1>3, ObjectPointers
  <1>5. QED
    BY <1>1, <1>4 DEF Good

LEMMA CombinerPointers ==
  ASSUME NEW p, Good(p), NEW q, q = Combiner(p)
  PROVE  Good(q)
  <1> DEFINE c == p.conData
             new == LastObject(p) + 1
             o == GetCombiner
  <1>1. /\ HasFields(q) /\ SameLists(p, q) /\ q.objList = Append(p.objList, o)
        /\ q.conData.jobList = c.jobList
        /\ q.conData.inSocket = c.inSocket /\ q.conData.outSocket = c.outSocket
        /\ q.conData.combiner = new /\ q.conData.splitter = c.splitter
    BY CombinerFields DEF Good
  <1>2. Pointers(p) /\ {c.inSocket, c.outSocket} \subseteq DOMAIN p.objList \cup {NULL}
        /\ c.jobList \in Seq(DOMAIN p.objList \cup {new})
    BY SocketsOf DEF Good
  <1>3. o \in ObjectRecord /\ o.refs = {} /\ o.kind = "Combiner"
    BY KindFacts DEF Kinds, GetCombiner
  <1> HIDE DEF o
  <1>4. Pointers(q)
    BY <1>1, <1>2, <1>3, ObjectPointers
  <1>5. QED
    BY <1>1, <1>4 DEF Good

LEMMA CombinerOutPointers ==
  ASSUME NEW p, Good(p), CombinerPending(p), NEW q, q = CombinerOut(p)
  PROVE  Good(q)
  <1> DEFINE c == p.conData
             list == WithRefs(p.objList, c.combiner, {c.outSocket})
  <1>1. /\ HasFields(q) /\ SameLists(p, q) /\ q.objList = list
        /\ q.conData.jobList = c.jobList
        /\ q.conData.inSocket = c.inSocket /\ q.conData.outSocket = c.combiner
        /\ q.conData.combiner = c.combiner /\ q.conData.splitter = c.splitter
    BY CombinerOutFields DEF Good
  <1>2. /\ Pointers(p) /\ Closed(p.objList) /\ p.objList \in Seq(ObjectRecord)
        /\ {c.combiner, c.outSocket} \subseteq DOMAIN p.objList
        /\ {c.inSocket, c.splitter} \subseteq DOMAIN p.objList \cup {NULL}
        /\ c.jobList \in Seq(DOMAIN p.objList)
        /\ c.splitter # NULL => p.objList[c.splitter].kind = "Splitter"
        /\ p.objList[c.combiner].kind = "Combiner"
    BY SocketsOf DEF Good, CombinerPending, KindOf
  <1>3. Closed(list)
    BY <1>2, ClosedChanged
  <1>4. Changed(p.objList, c.combiner, {c.outSocket}, list)
    BY <1>2, RefsChanged
  <1> HIDE DEF list
  <1>5. /\ Kept(p.objList, q.objList, {c.combiner}) /\ DOMAIN q.objList = DOMAIN p.objList
        /\ \A i \in DOMAIN p.objList : q.objList[i].kind = p.objList[i].kind
    BY <1>1, <1>4 DEF Changed
  <1>6. /\ q.conData.splitter # NULL => KindOf(q, q.conData.splitter) = "Splitter"
        /\ q.conData.combiner # NULL => KindOf(q, q.conData.combiner) = "Combiner"
    BY <1>1, <1>2, <1>5 DEF KindOf
  <1>7. {q.conData.inSocket, q.conData.outSocket, q.conData.combiner, q.conData.splitter}
          \subseteq DOMAIN q.objList \cup {NULL}
    BY <1>1, <1>2, <1>5
  <1> DEFINE S == {c.combiner}
  <1>8. \A x \in S : x \in DOMAIN p.objList => p.objList[x].kind \notin Ports
    BY <1>2 DEF Ports
  <1>9. Kept(p.objList, q.objList, S)
    BY <1>5
  <1>10. Closed(q.objList) /\ q.conData.jobList \in Seq(DOMAIN q.objList)
    BY <1>1, <1>2, <1>3, <1>5
  <1> HIDE DEF S, c
  <1>11. Pointers(q)
    BY <1>1, <1>2, <1>6, <1>7, <1>8, <1>9, <1>10, PointersKept
  <1>12. QED
    BY <1>1, <1>11 DEF Good

LEMMA JoinedFields ==
  ASSUME NEW p, HasFields(p), NEW q, q = Joined(p)
  PROVE  LET c == p.conData IN
         /\ HasFields(q) /\ SameLists(p, q)
         /\ q.objList = Append(p.objList, Object("Connection", {c.inSocket, c.outSocket}))
         /\ SameSockets(c, q.conData) /\ q.conData.jobList = Append(c.jobList, LastObject(p) + 1)
         /\ q.conData.sockCnt = c.sockCnt
         /\ q.conData.pendingCombinerSockets = c.pendingCombinerSockets
  <1> DEFINE o == Object("Connection", {p.conData.inSocket, p.conData.outSocket})
             t == [p EXCEPT !.objList = Append(@, o)]
             new == LastObject(p) + 1
  <1>1. q = AddJob(t, new)
    BY DEF Joined
  <1>2. ASSUME NEW u, u = t
        PROVE  /\ HasFields(u) /\ SameLists(p, u) /\ u.objList = Append(p.objList, o)
               /\ u.conData = p.conData
    <2> HIDE DEF o
    <2>1. QED
      BY <1>2 DEF HasFields, DataFields, SameLists
  <1>3. /\ HasFields(t) /\ SameLists(p, t) /\ t.objList = Append(p.objList, o)
        /\ t.conData = p.conData
    BY <1>2
  <1> HIDE DEF t, new, o
  <1>4. /\ HasFields(q) /\ SameLists(t, q) /\ q.objList = t.objList
        /\ SameSockets(t.conData, q.conData) /\ q.conData.jobList = Append(t.conData.jobList, new)
        /\ q.conData.sockCnt = t.conData.sockCnt
        /\ q.conData.pendingCombinerSockets = t.conData.pendingCombinerSockets
    BY <1>1, <1>3, JobAppended
  <1>5. QED
    BY <1>3, <1>4 DEF SameLists, new, o

LEMMA JoinedPointers ==
  ASSUME NEW p, Good(p), Complete(p), NEW q, q = Joined(p)
  PROVE  Good(q)
  <1> DEFINE c == p.conData
             new == LastObject(p) + 1
             o == Object("Connection", {c.inSocket, c.outSocket})
  <1>1. /\ HasFields(q) /\ SameLists(p, q) /\ q.objList = Append(p.objList, o)
        /\ SameSockets(c, q.conData) /\ q.conData.jobList = Append(c.jobList, new)
    BY JoinedFields DEF Good
  <1>2. Pointers(p) /\ {c.inSocket, c.outSocket} \subseteq DOMAIN p.objList
        /\ c.jobList \in Seq(DOMAIN p.objList)
    BY SocketsOf DEF Good, Complete
  <1>3. o \in ObjectRecord /\ o.refs = {c.inSocket, c.outSocket}
    <2>1. {c.inSocket, c.outSocket} \in SUBSET Nat
      BY <1>2, SocketsOf
    <2>2. QED
      BY <2>1, KindFacts DEF Kinds
  <1>4. q.conData.jobList \in Seq(DOMAIN p.objList \cup {new})
    <2> DEFINE T == DOMAIN p.objList \cup {new}
    <2>1. c.jobList \in Seq(T) /\ new \in T
      BY <1>2
    <2> HIDE DEF T, c, new
    <2>2. QED
      BY <1>1, <2>1, LastOfAppend DEF T
  <1> HIDE DEF o
  <1>5. {q.conData.inSocket, q.conData.outSocket} \subseteq DOMAIN p.objList \cup {NULL, new}
    BY <1>1, <1>2 DEF SameSockets
  <1>6. o.refs \subseteq DOMAIN p.objList
    BY <1>2, <1>3
  <1>7. Pointers(p) /\ SameLists(p, q) /\ q.objList = Append(p.objList, o)
        /\ q.conData.splitter = p.conData.splitter /\ q.conData.combiner = p.conData.combiner
    BY <1>1, <1>2 DEF SameSockets
  <1> HIDE DEF c, new
  <1>8. Pointers(q)
    BY <1>3, <1>4, <1>5, <1>6, <1>7, ObjectPointers DEF new
  <1>9. QED
    BY <1>1, <1>8 DEF Good

LEMMA ConnectFields ==
  ASSUME NEW p, Good(p), Complete(p), NEW q, q = Connect(p), NEW joined, joined = Joined(p)
  PROVE  /\ HasFields(q) /\ q.nodeData = joined.nodeData /\ q.objList = joined.objList
         /\ q.conData = joined.conData /\ q.drvInfLst = p.drvInfLst
         /\ \E route : /\ route.ep.jobs = joined.conData.jobList
                       /\ route.isTalker = NetworkIsOutput(p)
                       /\ q.pRtLst = Append(p.pRtLst, route)
  <1>1. \E route : /\ route.ep.jobs = joined.conData.jobList /\ route.isTalker = NetworkIsOutput(p)
                   /\ q = [joined EXCEPT !.pRtLst = Append(@, route)]
    <2> DEFINE c == p.conData
               route == [isTalker |-> NetworkIsOutput(p), isActive |-> ~c.isDeactivated,
                         routeId |-> c.routeId, routeName |-> c.routeName,
                         labelNormal |-> IF c.routeName # NULL THEN NULL ELSE c.labelNormal,
                         labelFallback |-> c.labelFallback,
                         ep |-> [node |-> ucs.nodSize + 1, jobs |-> GetJobList(joined)]]
    <2>1. q = [joined EXCEPT !.pRtLst = Append(@, route)]
      BY DEF Connect, Joined, AddRoute
    <2>2. route.ep.jobs = joined.conData.jobList /\ route.isTalker = NetworkIsOutput(p)
      BY DEF GetJobList
    <2> HIDE DEF route
    <2>3. QED
      BY <2>1, <2>2
  <1>2. HasFields(joined) /\ SameLists(p, joined)
    BY JoinedFields DEF Good
  <1>3. PICK route : /\ route.ep.jobs = joined.conData.jobList /\ route.isTalker = NetworkIsOutput(p)
                     /\ q = [joined EXCEPT !.pRtLst = Append(@, route)]
    BY <1>1
  <1>4. /\ HasFields(q) /\ q.nodeData = joined.nodeData /\ q.objList = joined.objList
        /\ q.conData = joined.conData /\ q.pRtLst = Append(joined.pRtLst, route)
        /\ q.drvInfLst = joined.drvInfLst
    BY <1>2, <1>3 DEF HasFields, DataFields
  <1>5. QED
    BY <1>2, <1>3, <1>4 DEF SameLists

LEMMA ConnectPointers ==
  ASSUME NEW p, Good(p), Complete(p), NEW q, q = Connect(p)
  PROVE  Good(q)
  <1> DEFINE joined == Joined(p)
  <1>1. Good(joined)
    BY JoinedPointers
  <1>2. SameLists(p, joined)
    BY JoinedFields DEF Good
  <1> HIDE DEF joined
  <1>3. /\ HasFields(q) /\ q.nodeData = joined.nodeData /\ q.objList = joined.objList
        /\ q.conData = joined.conData
    BY ConnectFields DEF joined
  <1>4. PICK route : route.ep.jobs = joined.conData.jobList /\ q.pRtLst = Append(p.pRtLst, route)
    <2>1. \E route : route.ep.jobs = joined.conData.jobList /\ q.pRtLst = Append(p.pRtLst, route)
      BY ConnectFields DEF joined
    <2>2. QED
      BY <2>1
  <1>5. q.pRtLst \in Seq(ToSet(q.pRtLst))
    <2> DEFINE T == ToSet(p.pRtLst) \cup {route}
               s == p.pRtLst
    <2>1. s \in Seq(ToSet(s))
      BY DEF Good, Pointers
    <2>2. s \in Seq(T) /\ route \in T
      BY <2>1
    <2> HIDE DEF T, s
    <2>3. Append(s, route) \in Seq(T) /\ ToSet(Append(s, route)) = ToSet(s) \cup {route}
      BY <2>2, LastOfAppend, SetOfAppend
    <2>4. QED
      BY <1>4, <2>3 DEF s, T
  <1>6. Pointers(q)
    BY <1>1, <1>3, <1>5 DEF Good, Pointers, KindOf
  <1>7. QED
    BY <1>3, <1>6 DEF Good

LEMMA ConnectIfCompletePointers ==
  ASSUME NEW p, Good(p)
  PROVE  Good(ConnectIfComplete(p))
  BY ConnectPointers DEF ConnectIfComplete

LEMMA NetworkSocketGood ==
  ASSUME NEW p, Good(p), NEW isSource \in BOOLEAN, NEW a
  PROVE  Good(NetworkSocket(p, isSource, a))
  <1> DEFINE q == NetworkSocket(p, isSource, a)
  <1>1. HasFields(q)
    BY NetworkSocketFields DEF Good, NetworkSocketRead
  <1>2. Pointers(q)
    BY NetworkSocketPointers DEF Good
  <1>3. QED
    BY <1>1, <1>2 DEF Good

-----------------------------------------------------------------------------
(* The ports of a node, for any number of port elements. *)

LEMMA MinimumOfNats ==
  ASSUME NEW T, T \subseteq Nat, T # {}
  PROVE  \E x \in T : \A y \in T : x <= y
  <1> DEFINE R == OpToRel(<, Nat)
  <1>1. IsWellFoundedOn(R, Nat)
    BY NatLessThanWellFounded
  <1>2. PICK x \in T : \A y \in T : <<y, x>> \notin R
    <2> HIDE DEF R
    <2> QED
      BY <1>1, WFMin
  <1>3. ASSUME NEW y \in T PROVE x <= y
    <2>1. ~ (y < x)
      BY <1>2 DEF OpToRel
    <2>2. QED
      BY <2>1
  <1>4. QED
    BY <1>3

\* The first n elements.
Created(f, p, names, n) ==
  [i \in 0 .. n |-> IF i = 0 THEN p ELSE NewPort(f[i - 1], names[i])]

LEMMA CreatedExists ==
  ASSUME NEW p, NEW names, NEW n \in Nat
  PROVE  \E f : f = Created(f, p, names, n)
  <1> DEFINE Runs(k) == \E f : f = Created(f, p, names, k)
             T == {k \in Nat : ~Runs(k)}
  <1>1. SUFFICES ASSUME T # {} PROVE FALSE
    OBVIOUS
  <1>2. PICK x \in T : \A y \in T : x <= y
    <2>1. T \subseteq Nat
      OBVIOUS
    <2> HIDE DEF T
    <2>2. QED
      BY <1>1, <2>1, MinimumOfNats
  <1>3. x # 0
    <2>1. [i \in 0 .. 0 |-> p] = Created([i \in 0 .. 0 |-> p], p, names, 0)
      BY DEF Created
    <2>2. Runs(0)
      BY <2>1
    <2>3. QED
      BY <2>2
  <1>4. PICK f : f = Created(f, p, names, x - 1)
    <2>1. x - 1 \in Nat /\ ~(x <= x - 1)
      BY <1>3
    <2>2. Runs(x - 1)
      BY <1>2, <2>1
    <2>3. QED
      BY <2>2
  <1> DEFINE last == NewPort(f[x - 1], names[x])
             g == [i \in 0 .. x |-> IF i = x THEN last ELSE f[i]]
  <1>5. g = Created(g, p, names, x)
    <2>1. x \in Nat /\ x - 1 \in 0 .. x /\ x - 1 # x
      BY <1>3
    <2>2. g[x - 1] = f[x - 1]
      BY <2>1
    <2>3. \A i \in 0 .. x : i # 0 /\ i # x => i \in 0 .. x - 1 /\ i - 1 \in 0 .. x /\ i - 1 # x
      BY <2>1
    <2>4. f = [i \in 0 .. x - 1 |-> IF i = 0 THEN p ELSE NewPort(f[i - 1], names[i])]
      BY <1>4 DEF Created
    <2> DEFINE h == Created(g, p, names, x)
    <2>5. ASSUME NEW i \in 0 .. x PROVE g[i] = h[i]
      <3>1. h[i] = IF i = 0 THEN p ELSE NewPort(g[i - 1], names[i])
        BY DEF Created
      <3>2. CASE i = x
        BY <1>3, <2>2, <3>1, <3>2
      <3>3. CASE i = 0
        <4>1. 0 \in 0 .. x - 1 /\ 0 # x
          BY <1>3
        <4>2. f[0] = p
          BY <2>4, <4>1
        <4>3. QED
          BY <3>1, <3>3, <4>1, <4>2
      <3>4. CASE i # 0 /\ i # x
        <4>1. i \in 0 .. x - 1 /\ g[i] = f[i] /\ g[i - 1] = f[i - 1]
          BY <2>3, <3>4
        <4>2. f[i] = NewPort(f[i - 1], names[i])
          BY <2>4, <3>4, <4>1
        <4>3. QED
          BY <3>1, <3>4, <4>1, <4>2
      <3>5. QED
        BY <3>2, <3>3, <3>4
    <2>6. g = [i \in 0 .. x |-> g[i]] /\ h = [i \in 0 .. x |-> h[i]]
      BY DEF Created
    <2> HIDE DEF g, h
    <2>7. g = h
      BY <2>5, <2>6
    <2>8. QED
      BY <2>7 DEF h
  <1>6. Runs(x)
    <2> HIDE DEF g
    <2>1. QED
      BY <1>5
  <1>7. QED
    BY <1>6

\* However many ports a node has, the old objects and the connection stay as they are.
LEMMA NewPortsStep ==
  ASSUME NEW p, NEW names \in Seq(Ports), HasFields(p), Pointers(p), NEW q, q = NewPorts(p, names)
  PROVE  PortStep(p, q)
  <1> DEFINE n == Len(names)
             f == CHOOSE g : g = Created(g, p, names, n)
  <1>1. n \in Nat /\ DOMAIN names = 1 .. n /\ \A i \in 1 .. n : names[i] \in Ports
    OBVIOUS
  <1>2. q = f[n]
    BY DEF NewPorts, Created
  <1>3. f = Created(f, p, names, n)
    <2> HIDE DEF n
    <2>1. QED
      BY <1>1, CreatedExists
  <1> HIDE DEF f, n
  <1> DEFINE T == {k \in 0 .. n : ~PortStep(p, f[k])}
  <1>4. T = {}
    <2> SUFFICES ASSUME T # {} PROVE FALSE
      OBVIOUS
    <2>1. PICK x \in T : \A y \in T : x <= y
      <3>1. T \subseteq Nat
        BY <1>1
      <3> HIDE DEF T
      <3>2. QED
        BY <3>1, MinimumOfNats
    <2>2. x \in 0 .. n /\ ~PortStep(p, f[x])
      OBVIOUS
    <2>3. f[x] = IF x = 0 THEN p ELSE NewPort(f[x - 1], names[x])
      <3>1. Created(f, p, names, n)[x] = IF x = 0 THEN p ELSE NewPort(f[x - 1], names[x])
        BY <2>2 DEF Created
      <3>2. QED
        BY <1>3, <3>1, Zenon
    <2>4. x # 0
      <3>1. PortStep(p, p)
        BY KeptSelf, SocketsOf DEF PortStep
      <3>2. QED
        BY <2>2, <2>3, <3>1
    <2>5. PortStep(p, f[x - 1])
      <3>1. x - 1 \in 0 .. n /\ ~(x <= x - 1)
        BY <1>1, <2>2, <2>4
      <3>2. QED
        BY <2>1, <3>1
    <2>6. names[x] \in Ports
      BY <1>1, <2>2, <2>4
    <2> DEFINE r == f[x - 1]
    <2>7. f[x] = NewPort(r, names[x]) /\ HasFields(r) /\ Pointers(r)
      BY <2>3, <2>4, <2>5 DEF PortStep
    <2>8. PortStep(p, r)
      BY <2>5
    <2> HIDE DEF r
    <2>9. PortStep(r, f[x])
      BY <2>6, <2>7, PortPointers DEF PortStep
    <2>10. QED
      BY <2>2, <2>8, <2>9, PortStepTwice
  <1>5. QED
    BY <1>1, <1>2, <1>4

-----------------------------------------------------------------------------
(* What is pointed to exists in every state. *)

LEMMA NoDataGood == Good(NoData) /\ NoData.pRtLst = <<>> /\ NoData.objList = <<>>
  <1>1. HasFields(NoData)
    BY DEF HasFields, NoData, NoConnection, DataFields, ConnectionFields
  <1>2. /\ NoData.objList = <<>> /\ NoData.pRtLst = <<>>
        /\ NoData.nodeData = [n \in Ports |-> NULL]
        /\ NoData.conData.inSocket = NULL /\ NoData.conData.outSocket = NULL
        /\ NoData.conData.combiner = NULL /\ NoData.conData.splitter = NULL
        /\ NoData.conData.jobList = <<>>
    BY DEF NoData, NoConnection
  <1>3. Pointers(NoData)
    BY <1>2 DEF Pointers
  <1>4. QED
    BY <1>1, <1>2, <1>3 DEF Good

\* A node or a connection starts.
ClearedNode == [priv EXCEPT !.nodeData = [n \in Ports |-> NULL]]

LEMMA ClearedNodeGood ==
  ASSUME Good(priv)
  PROVE  /\ Good(ClearedNode) /\ ClearedNode.pRtLst = priv.pRtLst
         /\ ClearedNode.objList = priv.objList /\ ClearedNode.drvInfLst = priv.drvInfLst
  <1> DEFINE q == ClearedNode
  <1>1. /\ HasFields(q) /\ q.pRtLst = priv.pRtLst /\ q.objList = priv.objList
        /\ q.drvInfLst = priv.drvInfLst
        /\ q.conData = priv.conData /\ q.nodeData = [n \in Ports |-> NULL]
    BY DEF ClearedNode, Good, HasFields, DataFields
  <1> HIDE DEF q
  <1>2. Pointers(q)
    BY <1>1 DEF Good, Pointers, KindOf
  <1>3. QED
    BY <1>1, <1>2 DEF Good, q

ClearedConnection ==
  [priv EXCEPT !.conData = [NoConnection EXCEPT !.jobList =
     IF priv.nodeData["rmckPort"] = NULL THEN <<>> ELSE <<priv.nodeData["rmckPort"]>>]]

LEMMA ClearedConnectionFields ==
  ASSUME Good(priv), NEW q, q = ClearedConnection
  PROVE  LET rmckPort == priv.nodeData["rmckPort"]
             c == q.conData
         IN  /\ HasFields(q) /\ SameLists(priv, q) /\ q.objList = priv.objList
             /\ c.inSocket = NULL /\ c.outSocket = NULL /\ c.combiner = NULL /\ c.splitter = NULL
             /\ c.sockCnt = 0
             /\ c.jobList = IF rmckPort = NULL THEN <<>> ELSE <<rmckPort>>
  BY DEF ClearedConnection, Good, HasFields, DataFields, ConnectionFields, NoConnection, SameLists

LEMMA ClearedConnectionGood ==
  ASSUME Good(priv), NEW q, q = ClearedConnection
  PROVE  Good(q)
  <1> DEFINE rmckPort == priv.nodeData["rmckPort"]
             c == q.conData
  <1>1. /\ HasFields(q) /\ SameLists(priv, q) /\ q.objList = priv.objList
        /\ c.inSocket = NULL /\ c.outSocket = NULL /\ c.combiner = NULL /\ c.splitter = NULL
        /\ c.jobList = IF rmckPort = NULL THEN <<>> ELSE <<rmckPort>>
    BY ClearedConnectionFields
  <1>2. "rmckPort" \in Ports
    BY DEF Ports
  <1>3. rmckPort # NULL => rmckPort \in DOMAIN priv.objList
    BY <1>2 DEF Good, Pointers
  <1>4. c.jobList \in Seq(DOMAIN priv.objList)
    <2> DEFINE S == DOMAIN priv.objList
    <2>1. rmckPort # NULL => rmckPort \in S
      BY <1>3
    <2> HIDE DEF S, rmckPort
    <2>2. <<>> \in Seq(S) /\ (rmckPort # NULL => <<rmckPort>> \in Seq(S))
      BY <2>1
    <2>3. QED
      BY <1>1, <2>2 DEF S
  <1>5. Pointers(q)
    BY <1>1, <1>4, ConnectionPointers DEF Good
  <1>6. QED
    BY <1>1, <1>5 DEF Good

\* The drivers are a list of their own.
LEMMA DriversGood ==
  ASSUME Good(priv), NEW drivers, NEW q, q = [priv EXCEPT !.drvInfLst = drivers]
  PROVE  /\ Good(q) /\ q.objList = priv.objList /\ q.pRtLst = priv.pRtLst
         /\ q.conData = priv.conData /\ q.drvInfLst = drivers
  <1>1. /\ HasFields(q) /\ q.pRtLst = priv.pRtLst /\ q.nodeData = priv.nodeData
        /\ q.objList = priv.objList /\ q.conData = priv.conData /\ q.drvInfLst = drivers
    BY DEF Good, HasFields, DataFields
  <1>2. Pointers(q)
    BY <1>1 DEF Good, Pointers, KindOf
  <1>3. QED
    BY <1>1, <1>2 DEF Good

\* A nested socket leaves the job list as it was.
LEMMA CopiedFields ==
  ASSUME NEW p, HasFields(p), NEW p0, NEW q, q = DeepCopyJobList(p, p0)
  PROVE  /\ HasFields(q) /\ SameLists(p, q) /\ q.objList = p.objList
         /\ SameSockets(p.conData, q.conData) /\ q.conData.jobList = p0.conData.jobList
         /\ q.conData.sockCnt = p.conData.sockCnt
         /\ q.conData.pendingCombinerSockets = p.conData.pendingCombinerSockets
  BY DEF DeepCopyJobList, HasFields, DataFields, ConnectionFields, SameLists, SameSockets

LEMMA CopiedGood ==
  ASSUME NEW p, Good(p), NEW p0, Good(p0), DOMAIN p0.objList \subseteq DOMAIN p.objList,
         NEW q, q = DeepCopyJobList(p, p0)
  PROVE  Good(q)
  <1>1. /\ HasFields(q) /\ SameLists(p, q) /\ q.objList = p.objList
        /\ SameSockets(p.conData, q.conData) /\ q.conData.jobList = p0.conData.jobList
    BY CopiedFields DEF Good
  <1>2. Pointers(p) /\ p0.conData.jobList \in Seq(DOMAIN p.objList)
    BY SocketsOf DEF Good
  <1>3. Pointers(q)
    BY <1>1, <1>2, SocketsOf, ConnectionPointers DEF SameSockets
  <1>4. QED
    BY <1>1, <1>3 DEF Good

\* A nested socket adds objects and takes none away.
LEMMA NestedGrows ==
  ASSUME NEW p, Good(p), NEW isSource \in BOOLEAN, NEW a,
         NEW q, q = ConnectIfComplete(NetworkSocket(p, isSource, a))
  PROVE  Good(q) /\ DOMAIN p.objList \subseteq DOMAIN q.objList
  <1> DEFINE r == NetworkSocket(p, isSource, a)
  <1>1. Good(r)
    BY NetworkSocketGood
  <1>2. DOMAIN r.objList = DOMAIN p.objList \cup {LastObject(p) + 1}
    BY NetworkSocketPointers DEF Good
  <1> HIDE DEF r
  <1>3. q = IF Complete(r) THEN Connect(r) ELSE r
    BY DEF ConnectIfComplete, r
  <1>4. CASE Complete(r)
    <2> DEFINE joined == Joined(r)
    <2>1. q.objList = joined.objList
      BY <1>1, <1>3, <1>4, ConnectFields
    <2>2. joined.objList =
            Append(r.objList, Object("Connection", {r.conData.inSocket, r.conData.outSocket}))
          /\ Good(joined)
      BY <1>1, <1>4, JoinedFields, JoinedPointers DEF Good
    <2>3. r.objList \in Seq(ObjectRecord) /\ joined.objList \in Seq(ObjectRecord)
      BY <1>1, <2>2, SocketsOf DEF Good
    <2> HIDE DEF joined
    <2>4. DOMAIN r.objList \subseteq DOMAIN joined.objList
      BY <2>2, <2>3
    <2>5. Good(q)
      BY <1>1, <1>3, <1>4, ConnectPointers
    <2>6. QED
      BY <1>2, <2>1, <2>4, <2>5
  <1>5. CASE ~Complete(r)
    BY <1>1, <1>2, <1>3, <1>5
  <1>6. QED
    BY <1>4, <1>5

LEMMA InitTypeInv == Init => TypeInv
  <1>1. ASSUME Init PROVE TypeInv
    <2>1. priv = NoData /\ pc = "node" /\ ucs.nodSize = 0 /\ 0 \in 0 .. MaxNodes
          /\ DocFields \subseteq DOMAIN doc /\ UcsFields \subseteq DOMAIN ucs
      BY <1>1, XmlAssumption DEF Init, DocFields, UcsFields
    <2>2. QED
      BY <2>1, NoDataGood DEF TypeInv, Good
  <1>2. QED
    BY <1>1

\* Error gives everything back, the end of a socket adds a connection or waits for more.
LEMMA ErrorGood == Error => Good(priv')
  BY NoDataGood DEF Error

LEMMA FinishGood ==
  ASSUME NEW p, Good(p), Finish(p)
  PROVE  Good(priv')
  BY CombinerOutPointers, ConnectIfCompletePointers DEF Finish

LEMMA SocketGood ==
  ASSUME Good(priv), ParseSocket
  PROVE  Good(priv')
  <1> DEFINE counted == Counted(priv)
  <1>1. Good(counted) /\ IsSource \in BOOLEAN /\ NestedIsSource \in BOOLEAN
    BY CountedPointers DEF IsSource, NestedIsSource
  <1>2. ASSUME NEW a \in Attributes, ParseNetworkSocket(a) PROVE Good(priv')
    <2> DEFINE p == NetworkSocket(counted, IsSource, a)
    <2>1. Good(p)
      BY <1>1, NetworkSocketGood
    <2>2. Error \/ Finish(p)
      BY <1>2 DEF ParseNetworkSocket
    <2> HIDE DEF p
    <2>3. QED
      BY <2>1, <2>2, ErrorGood, FinishGood
  <1>3. ASSUME NEW a \in Attributes, ParseSplitterIn(a) PROVE Good(priv')
    <2> DEFINE r == SplitterIn(counted)
               p == NetworkSocket(r, TRUE, a)
    <2>1. Good(r)
      BY <1>1, SplitterInPointers
    <2>2. Finish(p)
      BY <1>3 DEF ParseSplitterIn
    <2> HIDE DEF r
    <2>3. Good(p)
      BY <2>1, NetworkSocketGood
    <2> HIDE DEF p
    <2>4. QED
      BY <2>2, <2>3, FinishGood
  <1>4. ASSUME NEW kind \in LocalSockets, NEW pin \in DOMAIN PortsOf(kind),
               ParseLocalSocket(kind, pin)
        PROVE  Good(priv')
    <2> DEFINE p == LocalSocket(counted, IsSource, kind, pin)
    <2>1. Good(p)
      BY <1>1, LocalSocketPointers
    <2>2. Error \/ Finish(p)
      BY <1>4 DEF ParseLocalSocket
    <2> HIDE DEF p
    <2>3. QED
      BY <2>1, <2>2, ErrorGood, FinishGood
  <1>5. CASE ParseSplitterOut
    <2>1. Error \/ (priv.conData.inSocket # NULL /\ priv' = SplitterOut(counted))
      BY <1>5 DEF ParseSplitterOut
    <2>2. counted.conData.inSocket = priv.conData.inSocket
      BY CountedFields DEF Good, SameSockets
    <2> HIDE DEF counted
    <2>3. QED
      BY <1>1, <2>1, <2>2, ErrorGood, SplitterOutPointers
  <1>6. CASE ParseCombiner
    <2> DEFINE p == Combiner(counted)
    <2>1. Good(p)
      BY <1>1, CombinerPointers
    <2>2. Error \/ Finish(p)
      BY <1>6 DEF ParseCombiner
    <2> HIDE DEF p
    <2>3. QED
      BY <2>1, <2>2, ErrorGood, FinishGood
  <1>7. ASSUME NEW a \in Attributes, ParseNestedSocket(a) PROVE Good(priv')
    <2> DEFINE p == ConnectIfComplete(NetworkSocket(priv, NestedIsSource, a))
    <2>1. Good(p) /\ DOMAIN priv.objList \subseteq DOMAIN p.objList
      BY <1>1, NestedGrows
    <2>2. priv' = DeepCopyJobList(p, priv)
      BY <1>7 DEF ParseNestedSocket
    <2> HIDE DEF p
    <2>3. QED
      BY <2>1, <2>2, CopiedGood
  <1>8. CASE ParseInvalidNestedSocket \/ EndNested
    BY <1>8 DEF ParseInvalidNestedSocket, EndNested
  <1>9. QED
    BY <1>2, <1>3, <1>4, <1>5, <1>6, <1>7, <1>8 DEF ParseSocket

LEMMA NextGood ==
  ASSUME Good(priv), [Next]_vars
  PROVE  Good(priv')
  <1>1. ASSUME NEW names \in NodePorts, ParseNode(names) PROVE Good(priv')
    <2> DEFINE p == ClearedNode
    <2>1. Good(p) /\ priv' = NewPorts(p, names) /\ names \in Seq(Ports)
      BY <1>1, ClearedNodeGood, XmlAssumption DEF ParseNode, ClearedNode
    <2> HIDE DEF p
    <2>2. PortStep(p, priv')
      BY <2>1, NewPortsStep DEF Good
    <2>3. QED
      BY <2>2 DEF PortStep, Good
  <1>2. ASSUME NEW pair \in SocketPairs, ParseConnection(pair) PROVE Good(priv')
    <2>1. priv' = ClearedConnection
      BY <1>2 DEF ParseConnection, ClearedConnection
    <2>2. QED
      BY <2>1, ClearedConnectionGood
  <1>3. ASSUME NEW link \in Links \cup {NULL}, EndConnection(link) PROVE Good(priv')
    <2>1. UNCHANGED priv \/ Error \/ priv' = StoreDriverInfo(priv, link)
      BY <1>3 DEF EndConnection
    <2>2. priv' = StoreDriverInfo(priv, link) => Good(priv')
      BY DriversGood DEF StoreDriverInfo
    <2>3. QED
      BY <2>1, <2>2, ErrorGood
  <1>4. ASSUME NEW link \in Links, NEW kinds \in DriverKinds, ParseDriver(link, kinds)
        PROVE  Good(priv')
    <2>1. Error \/ priv' = [priv EXCEPT !.drvInfLst = Expand(@, link, kinds)]
      BY <1>4 DEF ParseDriver
    <2>2. QED
      BY <2>1, DriversGood, ErrorGood
  <1>5. CASE EndNode \/ ParseRoutes \/ FillDriverArray \/ UNCHANGED vars
    BY <1>5 DEF EndNode, ParseRoutes, FillDriverArray, vars
  <1>6. CASE Fail
    BY <1>6, ErrorGood DEF Fail
  <1>7. QED
    BY <1>1, <1>2, <1>3, <1>4, <1>5, <1>6, SocketGood DEF Next, ParseAll

LEMMA NextRecords ==
  ASSUME TypeInv, [Next]_vars
  PROVE  /\ DocFields \subseteq DOMAIN doc' /\ UcsFields \subseteq DOMAIN ucs'
         /\ pc' \in {"node", "connection", "socket", "nested", "drivers", "done", "failed"}
         /\ ucs'.nodSize \in 0 .. MaxNodes
         /\ pc' \in {"connection", "socket", "nested"} => ucs'.nodSize < MaxNodes
  <1> DEFINE Docs == DocFields \subseteq DOMAIN doc'
             Ucs == /\ UcsFields \subseteq DOMAIN ucs' /\ ucs'.nodSize \in 0 .. MaxNodes
                    /\ pc' \in {"connection", "socket", "nested"} => ucs'.nodSize < MaxNodes
             Pcs == pc' \in {"node", "connection", "socket", "nested", "drivers", "done", "failed"}
  <1>1. /\ MaxNodes \in Nat /\ DocFields \subseteq DOMAIN doc /\ UcsFields \subseteq DOMAIN ucs
        /\ ucs.nodSize \in 0 .. MaxNodes
        /\ pc \in {"connection", "socket", "nested"} => ucs.nodSize < MaxNodes
    BY XmlAssumption DEF TypeInv
  <1>2. Error => Docs /\ Ucs /\ Pcs
    BY <1>1 DEF Error, UcsFields
  <1>3. ASSUME NEW p, Finish(p) PROVE UNCHANGED ucs /\ Pcs
    BY <1>3 DEF Finish
  <1>4. ASSUME NEW sockets, Read(sockets) PROVE Docs
    BY <1>1, <1>4 DEF Read, DocFields
  <1>5. ParseSocket => Docs /\ Ucs /\ Pcs
    <2>1. ASSUME NEW a \in Attributes, ParseNetworkSocket(a) PROVE Docs /\ Ucs /\ Pcs
      BY <1>1, <1>2, <1>3, <1>4, <2>1 DEF ParseNetworkSocket, NextSocket
    <2>2. ASSUME NEW a \in Attributes, ParseSplitterIn(a) PROVE Docs /\ Ucs /\ Pcs
      BY <1>1, <1>3, <1>4, <2>2 DEF ParseSplitterIn, NextSocket
    <2>3. ASSUME NEW kind \in LocalSockets, NEW pin \in DOMAIN PortsOf(kind),
                 ParseLocalSocket(kind, pin)
          PROVE  Docs /\ Ucs /\ Pcs
      BY <1>1, <1>2, <1>3, <1>4, <2>3 DEF ParseLocalSocket, NextSocket
    <2>4. ParseSplitterOut => Docs /\ Ucs /\ Pcs
      BY <1>1, <1>2, <1>4 DEF ParseSplitterOut, NextSocket
    <2>5. ParseCombiner => Docs /\ Ucs /\ Pcs
      BY <1>1, <1>2, <1>3, <1>4 DEF ParseCombiner, NextSocket
    <2>6. ASSUME NEW a \in Attributes, ParseNestedSocket(a) PROVE Docs /\ Ucs /\ Pcs
      BY <1>1, <2>6 DEF ParseNestedSocket, DocFields, TypeInv
    <2>7. ParseInvalidNestedSocket \/ EndNested => Docs /\ Ucs /\ Pcs
      BY <1>1 DEF ParseInvalidNestedSocket, EndNested, DocFields, TypeInv
    <2>8. QED
      BY <2>1, <2>2, <2>3, <2>4, <2>5, <2>6, <2>7 DEF ParseSocket
  <1>6. ASSUME NEW names \in NodePorts, ParseNode(names) PROVE Docs /\ Ucs /\ Pcs
    BY <1>1, <1>6 DEF ParseNode
  <1>7. ASSUME NEW pair \in SocketPairs, ParseConnection(pair) PROVE Docs /\ Ucs /\ Pcs
    BY <1>1, <1>7 DEF ParseConnection, DocFields
  <1>8. ASSUME NEW link \in Links \cup {NULL}, EndConnection(link) PROVE Docs /\ Ucs /\ Pcs
    <2>1. \/ /\ UNCHANGED ucs /\ pc = "socket" /\ pc' = "connection"
             /\ UNCHANGED doc \/ doc' = [doc EXCEPT !.links = Append(@, Link(link))]
          \/ Error
      BY <1>8 DEF EndConnection
    <2>2. QED
      BY <1>1, <1>2, <2>1 DEF DocFields
  <1>9. ASSUME NEW link \in Links, NEW kinds \in DriverKinds, ParseDriver(link, kinds)
        PROVE  Docs /\ Ucs /\ Pcs
    <2>1. \/ /\ UNCHANGED <<pc, ucs>>
             /\ doc' = [doc EXCEPT !.drivers = Append(@, [link |-> link, kinds |-> kinds])]
          \/ Error
      BY <1>9 DEF ParseDriver
    <2>2. QED
      BY <1>1, <1>2, <2>1 DEF DocFields, TypeInv
  <1>10. EndNode => Docs /\ Ucs /\ Pcs
    <2>1. ASSUME EndNode PROVE ucs'.nodSize = ucs.nodSize + 1 /\ UcsFields \subseteq DOMAIN ucs'
      BY <1>1, <2>1 DEF EndNode, UcsFields
    <2>2. QED
      BY <1>1, <2>1 DEF EndNode
  <1>11. ParseRoutes \/ FillDriverArray => Docs /\ Ucs /\ Pcs
    BY <1>1 DEF ParseRoutes, FillDriverArray, UcsFields
  <1>12. Fail => Docs /\ Ucs /\ Pcs
    BY <1>2 DEF Fail
  <1>13. UNCHANGED vars => Docs /\ Ucs /\ Pcs
    BY <1>1 DEF vars, TypeInv
  <1>14. QED
    BY <1>5, <1>6, <1>7, <1>8, <1>9, <1>10, <1>11, <1>12, <1>13 DEF Next, ParseAll

LEMMA NextTypeInv == TypeInv /\ [Next]_vars => TypeInv'
  <1>1. SUFFICES ASSUME TypeInv, [Next]_vars PROVE TypeInv'
    OBVIOUS
  <1>2. Good(priv)
    BY <1>1 DEF TypeInv, Good
  <1>3. Good(priv)'
    BY <1>1, <1>2, NextGood
  <1>4. QED
    BY <1>1, <1>3, NextRecords DEF TypeInv, Good

LEMMA TypeInvIsTypeOK == TypeInv => TypeOK
  <1>1. SUFFICES ASSUME TypeInv PROVE TypeOK
    OBVIOUS
  <1> DEFINE ids == 0 .. LastObject(priv)
             c == priv.conData
  <1>2. DOMAIN priv.objList = 1 .. LastObject(priv) /\ LastObject(priv) \in Nat
    BY <1>1 DEF TypeInv, Pointers, LastObject
  <1>3. \A i \in DOMAIN priv.objList : priv.objList[i].refs \subseteq ids \ {0}
    BY <1>1, <1>2 DEF TypeInv, Pointers
  <1>4. \A n \in Ports : priv.nodeData[n] \in ids
    BY <1>1, <1>2 DEF TypeInv, Pointers, NULL
  <1>5. {c.inSocket, c.outSocket, c.combiner, c.splitter} \subseteq ids
    BY <1>1, <1>2 DEF TypeInv, Pointers, NULL
  <1>6. ToSet(c.jobList) \subseteq ids
    <2>1. c.jobList \in Seq(DOMAIN priv.objList)
      BY <1>1 DEF TypeInv, Pointers
    <2>2. ToSet(c.jobList) \subseteq DOMAIN priv.objList
      BY <2>1 DEF ToSet
    <2>3. QED
      BY <1>2, <2>2
  <1>7. QED
    BY <1>1, <1>3, <1>4, <1>5, <1>6 DEF TypeInv, TypeOK

\* ParseSocket and the constructors of UcsXml_Private.c: for any document, whatever the
\* objects, the node, the connection and its job list point to has been created.
THEOREM XmlTypeOK == Spec => []TypeOK
  <1>1. QED
    BY InitTypeInv, NextTypeInv, TypeInvIsTypeOK, PTL DEF Spec

-----------------------------------------------------------------------------
(* The endpoints while objects are added and a splitter or a combiner is filled. *)

LEMMA EndpointsKept ==
  ASSUME NEW p, NEW q, NEW S, Endpoints(p), q.pRtLst = p.pRtLst, Kept(p.objList, q.objList, S),
         \A x \in S : Unused(p, x)
  PROVE  Endpoints(q) /\ \A x : Unused(p, x) => Unused(q, x)
  <1>1. ASSUME NEW r \in DOMAIN p.pRtLst PROVE EndpointOK(q.objList, p.pRtLst[r].ep.jobs)
    <2>1. EndpointOK(p.objList, p.pRtLst[r].ep.jobs)
      BY DEF Endpoints
    <2>2. ToSet(p.pRtLst[r].ep.jobs) \cap S = {}
      BY DEF Unused
    <2>3. QED
      BY <2>1, <2>2, EndpointKept
  <1>2. QED
    BY <1>1 DEF Endpoints, Unused

LEMMA EndpointsGrow ==
  ASSUME NEW p, NEW q, Endpoints(p), q.pRtLst = p.pRtLst, Kept(p.objList, q.objList, {})
  PROVE  Endpoints(q) /\ \A x : Unused(p, x) => Unused(q, x)
  <1> DEFINE S == {}
  <1>1. Kept(p.objList, q.objList, S) /\ \A x \in S : Unused(p, x)
    OBVIOUS
  <1> HIDE DEF S
  <1>2. QED
    BY <1>1, EndpointsKept

\* An object that does not exist yet has no user.
LEMMA NewIsUnused ==
  ASSUME NEW p, Endpoints(p), NEW x, x \notin DOMAIN p.objList
  PROVE  Unused(p, x)
  <1>1. SUFFICES ASSUME NEW r \in DOMAIN p.pRtLst, x \in ToSet(p.pRtLst[r].ep.jobs) PROVE FALSE
    BY DEF Unused
  <1>2. p.pRtLst[r].ep.jobs \in Seq(DOMAIN p.objList)
    BY DEF Endpoints, EndpointOK
  <1>3. QED
    BY <1>1, <1>2 DEF ToSet

LEMMA JoinedEndpoints ==
  ASSUME NEW p, Good(p), Complete(p), Endpoints(p), ToBeJoined(p), NEW q, q = Connect(p)
  PROVE  Endpoints(q)
  <1> DEFINE joined == Joined(p)
             c == p.conData
             new == LastObject(p) + 1
             o == Object("Connection", {c.inSocket, c.outSocket})
             list == Append(p.objList, o)
  <1>1. /\ joined.objList = list /\ joined.conData.jobList = Append(c.jobList, new)
    BY JoinedFields DEF Good
  <1> HIDE DEF joined
  <1>2. q.objList = list
    BY <1>1, ConnectFields DEF joined
  <1>3. PICK route : route.ep.jobs = Append(c.jobList, new) /\ q.pRtLst = Append(p.pRtLst, route)
    <2>1. \E route : route.ep.jobs = joined.conData.jobList /\ q.pRtLst = Append(p.pRtLst, route)
      BY ConnectFields DEF joined
    <2>2. QED
      BY <1>1, <2>1
  <1>4. /\ p.objList \in Seq(ObjectRecord) /\ {c.inSocket, c.outSocket} \subseteq DOMAIN p.objList
        /\ c.jobList \in Seq(DOMAIN p.objList) /\ p.pRtLst \in Seq(ToSet(p.pRtLst))
    BY SocketsOf DEF Good, Complete, Pointers
  <1>5. o \in ObjectRecord /\ o.kind = "Connection" /\ o.refs = {c.inSocket, c.outSocket}
    <2>1. {c.inSocket, c.outSocket} \in SUBSET Nat
      BY <1>4
    <2>2. QED
      BY <2>1, KindFacts DEF Kinds
  <1> HIDE DEF o
  <1>6. /\ Kept(p.objList, list, {}) /\ new \in DOMAIN list /\ new \notin DOMAIN p.objList
        /\ list[new] = o
    BY <1>4, <1>5, ObjectAdded DEF LastObject
  <1> HIDE DEF list, new
  <1>7. EndpointOK(list, Append(c.jobList, new))
    <2> DEFINE open == {c.inSocket, c.outSocket}
    <2>1. JobListOK(p.objList, c.jobList, open) /\ open \subseteq ToSet(c.jobList)
      BY DEF ToBeJoined
    <2>2. new \notin ToSet(c.jobList)
      BY <1>4, <1>6 DEF ToSet
    <2>3. list[new].kind = "Connection" /\ list[new].refs = open
      BY <1>5, <1>6
    <2> HIDE DEF open
    <2>4. JobListOK(list, c.jobList, open)
      BY <1>6, <2>1, JobListKept
    <2>5. QED
      BY <1>6, <2>1, <2>2, <2>3, <2>4, ConnectionAdded
  <1>8. ASSUME NEW r \in DOMAIN p.pRtLst PROVE EndpointOK(list, p.pRtLst[r].ep.jobs)
    <2>1. EndpointOK(p.objList, p.pRtLst[r].ep.jobs)
      BY DEF Endpoints
    <2>2. QED
      BY <1>6, <2>1, EndpointKept
  <1>9. DOMAIN q.pRtLst = 1 .. Len(p.pRtLst) + 1 /\ DOMAIN p.pRtLst = 1 .. Len(p.pRtLst)
        /\ Len(p.pRtLst) \in Nat /\ q.pRtLst[Len(p.pRtLst) + 1] = route
        /\ \A r \in 1 .. Len(p.pRtLst) : q.pRtLst[r] = p.pRtLst[r]
    <2> DEFINE T == ToSet(p.pRtLst) \cup {route}
               s == p.pRtLst
    <2>1. s \in Seq(T) /\ route \in T
      BY <1>4
    <2> HIDE DEF T, s
    <2>2. /\ Append(s, route)[Len(s) + 1] = route
          /\ \A i \in 1 .. Len(s) : Append(s, route)[i] = s[i]
          /\ DOMAIN Append(s, route) = 1 .. Len(s) + 1 /\ DOMAIN s = 1 .. Len(s) /\ Len(s) \in Nat
      BY <2>1, LastOfAppend
    <2>3. QED
      BY <1>3, <2>2 DEF s
  <1>10. ASSUME NEW r \in DOMAIN q.pRtLst PROVE EndpointOK(q.objList, q.pRtLst[r].ep.jobs)
    <2>1. CASE r = Len(p.pRtLst) + 1
      BY <1>2, <1>3, <1>7, <1>9, <2>1
    <2>2. CASE r \in DOMAIN p.pRtLst
      BY <1>2, <1>8, <1>9, <2>2
    <2>3. QED
      BY <1>9, <2>1, <2>2
  <1>11. QED
    BY <1>10 DEF Endpoints

LEMMA ConnectKeeps ==
  ASSUME NEW p, Good(p), Complete(p), NEW q, q = Connect(p)
  PROVE  /\ SameSockets(p.conData, q.conData) /\ q.conData.sockCnt = p.conData.sockCnt
         /\ Kept(p.objList, q.objList, {})
  <1> DEFINE joined == Joined(p)
             o == Object("Connection", {p.conData.inSocket, p.conData.outSocket})
  <1>1. /\ joined.objList = Append(p.objList, o) /\ SameSockets(p.conData, joined.conData)
        /\ joined.conData.sockCnt = p.conData.sockCnt
    BY JoinedFields DEF Good
  <1> HIDE DEF joined
  <1>2. q.objList = joined.objList /\ q.conData = joined.conData
    BY ConnectFields DEF joined
  <1>3. p.objList \in Seq(ObjectRecord) /\ o \in ObjectRecord
    <2>1. {p.conData.inSocket, p.conData.outSocket} \in SUBSET Nat
      BY SocketsOf, ObjectAdded DEF Good, Complete
    <2>2. QED
      BY <2>1, KindFacts, SocketsOf DEF Kinds, Good
  <1> HIDE DEF o
  <1>4. QED
    BY <1>1, <1>2, <1>3, ObjectAdded

\* One or two jobs, one after the other.
LEMMA OneAppended ==
  ASSUME NEW S, NEW jobs \in Seq(S), NEW ids \in Seq(S), Len(ids) = 1
  PROVE  jobs \o ids = Append(jobs, ids[1])
  <1> DEFINE both == jobs \o ids
             one == Append(jobs, ids[1])
             n == Len(jobs)
  <1>1. ids[1] \in S
    BY ElementOfSeq
  <1>2. /\ both \in Seq(S) /\ Len(both) = n + 1 /\ n \in Nat
        /\ \A i \in 1 .. n + 1 : both[i] = IF i <= n THEN jobs[i] ELSE ids[i - n]
    <2> DEFINE m == Len(ids)
    <2>1. both \in Seq(S) /\ Len(both) = n + m
      BY ConcatProperties
    <2>2. \A i \in 1 .. n + m : both[i] = IF i <= n THEN jobs[i] ELSE ids[i - n]
      BY ConcatProperties, Zenon
    <2>3. n \in Nat /\ m = 1
      OBVIOUS
    <2> HIDE DEF both, n, m
    <2>4. QED
      BY <2>1, <2>2, <2>3
  <1>3. /\ one \in Seq(S) /\ Len(one) = n + 1 /\ one[n + 1] = ids[1]
        /\ \A i \in 1 .. n : one[i] = jobs[i]
    BY <1>1, LastOfAppend
  <1> HIDE DEF both, one, n
  <1>4. \A i \in 1 .. n + 1 : i <= n \/ (i = n + 1 /\ i - n = 1)
    BY <1>2
  <1>5. \A i \in 1 .. n + 1 : both[i] = one[i]
    BY <1>2, <1>3, <1>4
  <1>6. both = one
    BY <1>2, <1>3, <1>5, SeqEqual
  <1>7. QED
    BY <1>6 DEF both, one

LEMMA TwoAppended ==
  ASSUME NEW S, NEW jobs \in Seq(S), NEW ids \in Seq(S), Len(ids) = 2
  PROVE  jobs \o ids = Append(Append(jobs, ids[1]), ids[2])
  <1> DEFINE both == jobs \o ids
             one == Append(jobs, ids[1])
             two == Append(one, ids[2])
             n == Len(jobs)
  <1>1. ids[1] \in S /\ ids[2] \in S
    BY ElementOfSeq
  <1>2. /\ both \in Seq(S) /\ Len(both) = n + 2 /\ n \in Nat
        /\ \A i \in 1 .. n + 2 : both[i] = IF i <= n THEN jobs[i] ELSE ids[i - n]
    <2> DEFINE m == Len(ids)
    <2>1. both \in Seq(S) /\ Len(both) = n + m
      BY ConcatProperties
    <2>2. \A i \in 1 .. n + m : both[i] = IF i <= n THEN jobs[i] ELSE ids[i - n]
      BY ConcatProperties, Zenon
    <2>3. n \in Nat /\ m = 2
      OBVIOUS
    <2> HIDE DEF both, n, m
    <2>4. QED
      BY <2>1, <2>2, <2>3
  <1>3. /\ one \in Seq(S) /\ Len(one) = n + 1 /\ one[n + 1] = ids[1]
        /\ \A i \in 1 .. n : one[i] = jobs[i]
    BY <1>1, LastOfAppend
  <1> HIDE DEF both, one, n
  <1>4. /\ two \in Seq(S) /\ Len(two) = n + 2 /\ two[n + 2] = ids[2]
        /\ \A i \in 1 .. n + 1 : two[i] = one[i]
    <2>1. /\ two \in Seq(S) /\ Len(two) = Len(one) + 1 /\ two[Len(one) + 1] = ids[2]
          /\ \A i \in 1 .. Len(one) : two[i] = one[i]
      BY <1>1, <1>3, LastOfAppend
    <2>2. Len(one) + 1 = n + 2
      BY <1>2, <1>3
    <2> HIDE DEF two
    <2>3. QED
      BY <1>3, <2>1, <2>2
  <1> HIDE DEF two
  <1>5. \A i \in 1 .. n + 2 : i \in 1 .. n \/ (i = n + 1 /\ i - n = 1) \/ (i = n + 2 /\ i - n = 2)
    BY <1>2
  <1>6. ~ (n + 1 <= n) /\ ~ (n + 2 <= n) /\ n + 1 \in 1 .. n + 2 /\ n + 1 \in 1 .. n + 1
        /\ \A i \in 1 .. n : i <= n /\ i \in 1 .. n + 1
    BY <1>2
  <1>7. \A i \in 1 .. n + 2 : both[i] = two[i]
    BY <1>2, <1>3, <1>4, <1>5, <1>6
  <1>8. both = two
    BY <1>2, <1>4, <1>7, SeqEqual
  <1>9. QED
    BY <1>8 DEF both, two, one

\* The ports of a local socket come to a list that has none, and the socket behind them.
PortsToAdd(obj, jobs, ids) ==
  /\ ids \in Seq(DOMAIN obj) /\ Len(ids) \in {1, 2}
  /\ \A i, j \in DOMAIN ids : ids[i] = ids[j] => i = j
  /\ \A i \in DOMAIN ids : /\ ids[i] \notin ToSet(jobs)
                           /\ obj[ids[i]].kind \in Ports /\ obj[ids[i]].refs = {}

LEMMA LocalJobs ==
  ASSUME NEW obj, NEW jobs, NEW open, NEW ids, JobListOK(obj, jobs, open), PortsToAdd(obj, jobs, ids)
  PROVE  JobListOK(obj, jobs \o ids, open) /\ ToSet(jobs \o ids) = ToSet(jobs) \cup ToSet(ids)
  <1>0. /\ ids \in Seq(DOMAIN obj) /\ Len(ids) \in {1, 2}
        /\ \A i, j \in DOMAIN ids : ids[i] = ids[j] => i = j
        /\ \A i \in DOMAIN ids : /\ ids[i] \notin ToSet(jobs)
                                 /\ obj[ids[i]].kind \in Ports /\ obj[ids[i]].refs = {}
    BY DEF PortsToAdd
  <1>1. jobs \in Seq(DOMAIN obj)
    BY DEF JobListOK
  <1>2. \A i \in DOMAIN ids : ids[i] \in DOMAIN obj /\ obj[ids[i]].kind # "Connection"
    BY <1>0 DEF Ports
  <1> DEFINE one == Append(jobs, ids[1])
  <1>3. /\ JobListOK(obj, one, open) /\ ToSet(one) = ToSet(jobs) \cup {ids[1]}
        /\ one \in Seq(DOMAIN obj)
    <2>1. 1 \in DOMAIN ids
      BY <1>0
    <2>2. /\ ids[1] \in DOMAIN obj /\ ids[1] \notin ToSet(jobs) /\ obj[ids[1]].kind # "Connection"
          /\ obj[ids[1]].refs = {} /\ obj[ids[1]].kind \in Ports
      BY <1>0, <1>2, <2>1
    <2>3. JobListOK(obj, one, open)
      BY <2>2, JobAdded
    <2>4. ToSet(one) = ToSet(jobs) \cup {ids[1]}
      BY <1>1, <2>2, SetOfAppend
    <2>5. one \in Seq(DOMAIN obj)
      BY <2>3 DEF JobListOK
    <2>6. QED
      BY <2>3, <2>4, <2>5
  <1>4. CASE Len(ids) = 1
    <2>1. jobs \o ids = one
      BY <1>0, <1>1, <1>4, OneAppended
    <2>2. ToSet(ids) = {ids[1]}
      BY <1>0, <1>4 DEF ToSet
    <2>3. QED
      BY <1>0, <1>3, <2>1, <2>2
  <1>5. CASE Len(ids) = 2
    <2>1. jobs \o ids = Append(one, ids[2])
      BY <1>0, <1>1, <1>5, TwoAppended
    <2>2. 1 \in DOMAIN ids /\ 2 \in DOMAIN ids /\ ToSet(ids) = {ids[1], ids[2]}
      BY <1>0, <1>5 DEF ToSet
    <2> HIDE DEF one
    <2>3. /\ ids[2] \in DOMAIN obj /\ ids[2] \notin ToSet(one) /\ obj[ids[2]].kind # "Connection"
          /\ obj[ids[2]].refs = {} /\ obj[ids[2]].kind \in Ports
      BY <1>0, <1>2, <1>3, <2>2
    <2>4. JobListOK(obj, Append(one, ids[2]), open)
      BY <1>3, <2>3, JobAdded
    <2>5. ToSet(Append(one, ids[2])) = ToSet(one) \cup {ids[2]}
      BY <1>3, <2>3, SetOfAppend
    <2>6. QED
      BY <1>3, <2>1, <2>2, <2>4, <2>5
  <1>6. QED
    BY <1>0, <1>4, <1>5

-----------------------------------------------------------------------------
(* The job list after each socket. *)

LEMMA NetworkSocketStep ==
  ASSUME NEW p, Good(p), p.conData.splitter = NULL, NEW isSource \in BOOLEAN, NEW a,
         NEW q, q = NetworkSocket(p, isSource, a), NEW new, new = LastObject(p) + 1
  PROVE  /\ SocketStep(p, q, isSource, new) /\ q.objList[new] = GetNetworkSocket
         /\ q.conData.jobList =
              Append(IF p.conData.combiner # NULL THEN Append(p.conData.jobList, p.conData.combiner)
                                                  ELSE p.conData.jobList, new)
  <1> DEFINE c == p.conData
             list == Append(p.objList, GetNetworkSocket)
             before == IF c.combiner # NULL THEN Append(c.jobList, c.combiner) ELSE c.jobList
  <1>1. NetworkSocketRead(p, isSource, q)
    BY NetworkSocketFields DEF Good
  <1>2. /\ SameLists(p, q) /\ q.objList = list /\ q.conData.jobList = Append(before, new)
        /\ q.conData.inSocket = IF isSource THEN new ELSE c.inSocket
        /\ q.conData.outSocket = IF isSource THEN c.outSocket ELSE new
        /\ q.conData.combiner = c.combiner /\ q.conData.splitter = c.splitter
        /\ q.conData.sockCnt = c.sockCnt
        /\ q.conData.pendingCombinerSockets = c.pendingCombinerSockets
    BY <1>1 DEF NetworkSocketRead
  <1>3. p.objList \in Seq(ObjectRecord) /\ GetNetworkSocket \in ObjectRecord
    BY SocketsOf, KindFacts DEF GetNetworkSocket, Good, Kinds
  <1>4. /\ Kept(p.objList, list, {}) /\ new \in DOMAIN list /\ new \notin DOMAIN p.objList
        /\ new # NULL /\ list[new] = GetNetworkSocket
    BY <1>3, ObjectAdded DEF LastObject
  <1> HIDE DEF list, before
  <1>5. SocketStep(p, q, isSource, new)
    BY <1>2, <1>4 DEF SocketStep, SameLists
  <1>6. QED
    BY <1>2, <1>4, <1>5 DEF before

LEMMA NetworkKind ==
  /\ GetNetworkSocket.kind = "NetworkSocket" /\ GetNetworkSocket.refs = {}
  /\ GetNetworkSocket.kind \notin Ports \cup {"Connection"}
  BY DEF GetNetworkSocket, Object, Ports

LEMMA NetworkJobs ==
  ASSUME NEW p, Good(p), p.conData.splitter = NULL, p.conData.combiner = NULL,
         NEW open, JobListOK(p.objList, p.conData.jobList, open),
         NEW isSource \in BOOLEAN, NEW a, NEW q, q = NetworkSocket(p, isSource, a),
         NEW new, new = LastObject(p) + 1
  PROVE  SocketListed(p, q, open, new)
  <1> DEFINE jobs == p.conData.jobList
  <1>1. SocketStep(p, q, isSource, new) /\ q.objList[new] = GetNetworkSocket
    BY NetworkSocketStep
  <1>2. q.conData.jobList = Append(jobs, new)
    BY NetworkSocketStep
  <1>3. Kept(p.objList, q.objList, {}) /\ new \notin DOMAIN p.objList /\ new \in DOMAIN q.objList
    BY <1>1 DEF SocketStep
  <1>4. jobs \in Seq(DOMAIN p.objList)
    BY DEF JobListOK
  <1>5. new \notin ToSet(jobs)
    BY <1>3, <1>4 DEF ToSet
  <1> HIDE DEF jobs
  <1>6. JobListOK(q.objList, jobs, open)
    BY <1>3, JobListKept DEF jobs
  <1> DEFINE open2 == open \cup {new}
  <1>7. /\ q.objList[new].kind # "Connection" /\ q.objList[new].refs = {}
        /\ new \in open2 /\ open \subseteq open2
    BY <1>1, NetworkKind
  <1> HIDE DEF open2
  <1>8. JobListOK(q.objList, Append(jobs, new), open2)
    BY <1>3, <1>5, <1>6, <1>7, JobAdded
  <1>9. ToSet(Append(jobs, new)) = ToSet(jobs) \cup {new}
    <2>1. jobs \in Seq(DOMAIN q.objList)
      BY <1>6 DEF JobListOK
    <2>2. QED
      BY <1>3, <2>1, SetOfAppend
  <1>10. QED
    BY <1>2, <1>8, <1>9 DEF jobs, open2, SocketListed

\* In a combiner, which becomes a job before the socket.
LEMMA CombinerJobs ==
  ASSUME NEW p, Good(p), InCombiner(p), NEW isSource \in BOOLEAN, NEW a,
         NEW q, q = NetworkSocket(p, isSource, a), NEW new, new = LastObject(p) + 1
  PROVE  LET combiner == p.conData.combiner IN
         /\ JobListOK(q.objList, q.conData.jobList, {combiner, new})
         /\ {combiner, new} \subseteq ToSet(q.conData.jobList)
  <1> DEFINE jobs == p.conData.jobList
             combiner == p.conData.combiner
             before == Append(jobs, combiner)
             refs == p.objList[combiner].refs
  <1>1. /\ p.conData.splitter = NULL /\ combiner \in DOMAIN p.objList /\ combiner \notin ToSet(jobs)
        /\ p.objList[combiner].kind = "Combiner" /\ refs \subseteq ToSet(jobs)
        /\ JobListOK(p.objList, jobs, refs)
    BY DEF InCombiner, KindOf
  <1>2. combiner # NULL
    BY <1>1, SocketsOf, ObjectAdded DEF Good, NULL
  <1>3. /\ SocketStep(p, q, isSource, new) /\ q.objList[new] = GetNetworkSocket
    BY <1>1, NetworkSocketStep
  <1>4. q.conData.jobList = Append(before, new)
    BY <1>1, <1>2, NetworkSocketStep
  <1>5. /\ Kept(p.objList, q.objList, {}) /\ new \notin DOMAIN p.objList /\ new \in DOMAIN q.objList
        /\ combiner \in DOMAIN q.objList /\ q.objList[combiner] = p.objList[combiner]
    BY <1>1, <1>3 DEF SocketStep, Kept
  <1>6. jobs \in Seq(DOMAIN p.objList)
    BY <1>1 DEF JobListOK
  <1>7. new \notin ToSet(jobs) /\ new # combiner
    BY <1>1, <1>5, <1>6 DEF ToSet
  <1> HIDE DEF jobs, combiner, before
  <1>8. JobListOK(q.objList, jobs, refs) /\ jobs \in Seq(DOMAIN q.objList)
    <2> HIDE DEF refs
    <2>1. JobListOK(q.objList, jobs, refs)
      BY <1>1, <1>5, JobListKept
    <2>2. QED
      BY <2>1 DEF JobListOK
  <1>9. q.objList[combiner].refs = refs /\ q.objList[combiner].kind # "Connection"
    BY <1>1, <1>5
  <1> HIDE DEF refs
  <1>10. JobListOK(q.objList, before, {combiner}) /\ ToSet(before) = ToSet(jobs) \cup {combiner}
         /\ before \in Seq(DOMAIN q.objList)
    <2> DEFINE open == {combiner}
    <2>1. combiner \in open /\ refs \subseteq open \cup refs
      OBVIOUS
    <2> HIDE DEF open
    <2>2. JobListOK(q.objList, Append(jobs, combiner), open)
      BY <1>1, <1>5, <1>8, <1>9, <2>1, JobAdded
    <2>3. ToSet(Append(jobs, combiner)) = ToSet(jobs) \cup {combiner}
      BY <1>5, <1>8, SetOfAppend
    <2>4. QED
      BY <2>2, <2>3 DEF open, before, JobListOK
  <1>11. JobListOK(q.objList, Append(before, new), {combiner, new})
    <2> DEFINE open == {combiner}
               open2 == {combiner, new}
    <2>1. new \in open2 /\ open \subseteq open2 /\ JobListOK(q.objList, before, open)
      BY <1>10
    <2>2. /\ q.objList[new].kind # "Connection" /\ q.objList[new].refs = {}
          /\ new \notin ToSet(before)
      BY <1>3, <1>7, <1>10, NetworkKind
    <2> HIDE DEF open, open2
    <2>3. JobListOK(q.objList, Append(before, new), open2)
      BY <1>5, <2>1, <2>2, JobAdded
    <2>4. QED
      BY <2>3 DEF open2
  <1>12. ToSet(Append(before, new)) = ToSet(before) \cup {new}
    BY <1>5, <1>10, SetOfAppend
  <1>13. QED
    BY <1>4, <1>10, <1>11, <1>12 DEF combiner

LEMMA LocalSocketJobs ==
  ASSUME NEW p, Good(p), NoPorts(p), NEW open, JobListOK(p.objList, p.conData.jobList, open),
         NEW isSource \in BOOLEAN, NEW kind \in LocalSockets, NEW pin \in DOMAIN PortsOf(kind),
         NEW q, q = LocalSocket(p, isSource, kind, pin)
  PROVE  \E new : LocalSocketListed(p, q, isSource, kind, open, new)
  <1> DEFINE c == p.conData
             jobs == c.jobList
             ports == CreatePorts(p, PortsOf(kind))
             ids == PortIds(ports, kind)
             socket == GetSocket(kind, ids, pin)
             new == LastObject(ports) + 1
  <1>1. PortStep(p, ports) /\ \A i \in DOMAIN PortsOf(kind) : ports.nodeData[PortsOf(kind)[i]] # NULL
    BY CreatePortsStep DEF Good
  <1> HIDE DEF socket
  <1>2. LocalSocketRead(p, ports, isSource, kind, pin, q)
    BY <1>1, LocalSocketFields DEF PortStep
  <1> HIDE DEF ports
  <1>3. /\ Pointers(ports) /\ ports.conData = c /\ Kept(p.objList, ports.objList, {})
        /\ ports.pRtLst = p.pRtLst /\ ports.objList \in Seq(ObjectRecord)
    BY <1>1, SocketsOf DEF PortStep
  <1>4. /\ ids \in Seq(DOMAIN ports.objList) /\ DOMAIN ids = DOMAIN PortsOf(kind)
        /\ \A i \in DOMAIN ids : ports.objList[ids[i]] = Object(PortsOf(kind)[i], {})
        /\ \A i, j \in DOMAIN ids : ids[i] = ids[j] => i = j
        /\ socket \in ObjectRecord /\ socket.kind = kind /\ socket.refs \subseteq ToSet(ids)
    BY <1>1, <1>3, SocketOnPorts DEF socket
  <1>5. Len(ids) \in {1, 2} /\ \A i \in DOMAIN ids : PortsOf(kind)[i] \in Ports \ {"rmckPort"}
    <2>1. DOMAIN ids = 1 .. Len(ids) /\ Len(ids) \in Nat
      BY <1>4
    <2>2. DOMAIN ids = 1 .. Len(PortsOf(kind)) /\ Len(PortsOf(kind)) \in {1, 2}
      BY <1>4, PortNames
    <2> HIDE DEF ids
    <2>3. Len(ids) = Len(PortsOf(kind))
      BY <2>1, <2>2
    <2>4. QED
      BY <1>4, <2>2, <2>3, PortNames
  <1> DEFINE both == jobs \o ids
  <1>6. /\ q.pRtLst = ports.pRtLst /\ q.objList = Append(ports.objList, socket)
        /\ q.conData.jobList = Append(both, new)
        /\ q.conData.inSocket = IF isSource THEN new ELSE c.inSocket
        /\ q.conData.outSocket = IF isSource THEN c.outSocket ELSE new
        /\ q.conData.combiner = c.combiner /\ q.conData.splitter = c.splitter
        /\ q.conData.sockCnt = c.sockCnt
        /\ q.conData.pendingCombinerSockets = c.pendingCombinerSockets
    BY <1>2 DEF LocalSocketRead, socket, SameLists
  <1> HIDE DEF ids
  <1>7. /\ Kept(ports.objList, q.objList, {}) /\ new \in DOMAIN q.objList
        /\ new \notin DOMAIN ports.objList /\ new # NULL /\ q.objList[new] = socket
    BY <1>3, <1>4, <1>6, ObjectAdded DEF LastObject
  <1>8. new \notin DOMAIN p.objList /\ Kept(p.objList, q.objList, {})
    <2>1. Kept(p.objList, q.objList, {} \cup {})
      BY <1>3, <1>7, KeptOnce
    <2>2. QED
      BY <1>3, <1>7, <2>1 DEF Kept
  <1> HIDE DEF new
  <1>9. SocketStep(p, q, isSource, new) /\ q.objList[new].kind = kind
    BY <1>3, <1>4, <1>6, <1>7, <1>8 DEF SocketStep
  <1>10. JobListOK(ports.objList, jobs, open)
    BY <1>3, JobListKept
  <1>11. ASSUME NEW i \in DOMAIN ids
         PROVE  /\ ids[i] \in DOMAIN ports.objList /\ ids[i] \notin ToSet(jobs)
                /\ ports.objList[ids[i]].kind \in Ports \ {"rmckPort"}
                /\ ports.objList[ids[i]].refs = {}
    <2>1. ports.objList[ids[i]].kind \in Ports \ {"rmckPort"} /\ ports.objList[ids[i]].refs = {}
      <3> DEFINE n == PortsOf(kind)[i]
      <3>1. ports.objList[ids[i]] = Object(n, {}) /\ n \in Ports \ {"rmckPort"}
        BY <1>4, <1>5
      <3>2. Object(n, {}).kind = n /\ Object(n, {}).refs = {}
        BY DEF Object
      <3> HIDE DEF n
      <3>3. QED
        BY <3>1, <3>2
    <2>2. ids[i] \in DOMAIN ports.objList
      BY <1>4
    <2>3. ASSUME ids[i] \in ToSet(jobs) PROVE FALSE
      <3>1. p.objList[ids[i]].kind \notin Ports \ {"rmckPort"}
        BY <2>3 DEF NoPorts
      <3>2. ids[i] \in DOMAIN p.objList
        BY <2>3 DEF JobListOK, ToSet
      <3>3. ports.objList[ids[i]] = p.objList[ids[i]]
        BY <1>3, <3>2 DEF Kept
      <3>4. QED
        BY <2>1, <3>1, <3>3
    <2>4. QED
      BY <2>1, <2>2, <2>3
  <1> HIDE DEF jobs
  <1>12. JobListOK(ports.objList, both, open) /\ ToSet(both) = ToSet(jobs) \cup ToSet(ids)
    <2>1. PortsToAdd(ports.objList, jobs, ids)
      BY <1>4, <1>5, <1>11 DEF PortsToAdd
    <2>2. QED
      BY <1>10, <2>1, LocalJobs
  <1> HIDE DEF both
  <1>13. both \in Seq(DOMAIN ports.objList)
    BY <1>12 DEF JobListOK
  <1>14. new \notin ToSet(both)
    BY <1>7, <1>13 DEF ToSet
  <1>15. JobListOK(q.objList, both, open) /\ both \in Seq(DOMAIN q.objList)
    <2>1. JobListOK(q.objList, both, open)
      BY <1>7, <1>12, JobListKept
    <2>2. QED
      BY <2>1 DEF JobListOK
  <1>16. JobListOK(q.objList, Append(both, new), open \cup {new})
    <2> DEFINE open2 == open \cup {new}
    <2>1. new \in open2 /\ open \subseteq open2
      OBVIOUS
    <2> HIDE DEF open2
    <2>2. q.objList[new].kind # "Connection" /\ q.objList[new].refs \subseteq ToSet(both)
      BY <1>4, <1>7, <1>12 DEF LocalSockets
    <2>3. JobListOK(q.objList, Append(both, new), open2)
      BY <1>7, <1>14, <1>15, <2>1, <2>2, JobAdded
    <2>4. QED
      BY <2>3 DEF open2
  <1>17. ToSet(Append(both, new)) = ToSet(both) \cup {new}
    BY <1>7, <1>15, SetOfAppend
  <1>18. \A x \in ToSet(ids) : q.objList[x].kind \in Ports
    <2>1. ASSUME NEW i \in DOMAIN ids PROVE q.objList[ids[i]].kind \in Ports
      BY <1>7, <1>11 DEF Kept
    <2>2. QED
      BY <2>1 DEF ToSet
  <1>19. QED
    <2>1. LocalSocketListed(p, q, isSource, kind, open, new)
      BY <1>6, <1>9, <1>12, <1>16, <1>17, <1>18 DEF jobs, LocalSocketListed
    <2>2. QED
      BY <2>1

LEMMA InSplitterStep ==
  ASSUME NEW p, Good(p), p.conData.combiner = NULL, p.conData.splitter # NULL,
         NEW isSource \in BOOLEAN, NEW a, NEW q, q = NetworkSocket(p, isSource, a),
         NEW new, new = LastObject(p) + 1
  PROVE  InSplitterRead(p, q, new)
  <1> DEFINE c == p.conData
             splitter == c.splitter
             list == Append(p.objList, GetNetworkSocket)
             jobs == Append(c.jobList, new)
  <1>1. NetworkSocketRead(p, isSource, q)
    BY NetworkSocketFields DEF Good
  <1>2. /\ SameLists(p, q) /\ q.objList = WithRefs(list, splitter, {new})
        /\ q.conData.jobList = Append(jobs, splitter)
        /\ q.conData.inSocket = c.inSocket /\ q.conData.outSocket = c.outSocket
        /\ q.conData.combiner = c.combiner /\ q.conData.splitter = c.splitter
        /\ q.conData.sockCnt = c.sockCnt
    BY <1>1 DEF NetworkSocketRead
  <1>3. /\ p.objList \in Seq(ObjectRecord) /\ GetNetworkSocket \in ObjectRecord
        /\ splitter \in DOMAIN p.objList /\ p.objList[splitter].kind = "Splitter"
    BY SocketsOf, KindFacts DEF GetNetworkSocket, Good, Kinds, KindOf
  <1>4. /\ list \in Seq(ObjectRecord) /\ new \in DOMAIN list /\ new \notin DOMAIN p.objList
        /\ new \in Nat /\ splitter \in DOMAIN list /\ splitter # new
        /\ Kept(p.objList, list, {})
        /\ list[new] = GetNetworkSocket /\ list[splitter] = p.objList[splitter]
    BY <1>3, ObjectAdded DEF LastObject
  <1> HIDE DEF list, jobs, splitter
  <1>5. Changed(list, splitter, {new}, q.objList)
    <2>1. {new} \subseteq Nat
      BY <1>4
    <2>2. QED
      BY <1>2, <1>4, <2>1, RefsChanged
  <1>6. /\ Kept(list, q.objList, {splitter}) /\ DOMAIN q.objList = DOMAIN list
        /\ q.objList[splitter].kind = list[splitter].kind /\ q.objList[splitter].refs = {new}
        /\ q.objList[new] = GetNetworkSocket
    BY <1>4, <1>5 DEF Changed
  <1>7. Kept(p.objList, q.objList, {splitter})
    <2>1. Kept(p.objList, q.objList, {} \cup {splitter})
      BY <1>4, <1>6, KeptOnce
    <2>2. {} \cup {splitter} = {splitter}
      OBVIOUS
    <2>3. QED
      BY <2>1, <2>2
  <1>8. QED
    BY <1>2, <1>3, <1>4, <1>6, <1>7 DEF splitter, jobs, SameLists, SameSockets, InSplitterRead

\* Then the endpoints do not change, as none has the splitter.
LEMMA InSplitterEndpoints ==
  ASSUME NEW p, Good(p), p.conData.combiner = NULL, p.conData.splitter # NULL,
         Endpoints(p), Unused(p, p.conData.splitter),
         NEW isSource \in BOOLEAN, NEW a, NEW q, q = NetworkSocket(p, isSource, a)
  PROVE  Endpoints(q) /\ Unused(q, q.conData.splitter)
  <1> DEFINE S == {p.conData.splitter}
  <1>1. /\ q.pRtLst = p.pRtLst /\ Kept(p.objList, q.objList, S)
        /\ q.conData.splitter = p.conData.splitter
    BY InSplitterStep DEF InSplitterRead, SameSockets
  <1>2. \A x \in S : Unused(p, x)
    OBVIOUS
  <1> HIDE DEF S
  <1>3. QED
    BY <1>1, <1>2, EndpointsKept

LEMMA SplitterInJobs ==
  ASSUME NEW p, Good(p), Fresh(p), Endpoints(p), NEW isSource \in BOOLEAN, NEW a,
         NEW q, q = NetworkSocket(SplitterIn(p), isSource, a)
  PROVE  InputRead(p, q)
  <1> DEFINE r == SplitterIn(p)
             s == LastObject(p) + 1
             new == LastObject(r) + 1
             jobs == p.conData.jobList
             o == GetSplitter({})
  <1>1. /\ HasFields(r) /\ SameLists(p, r) /\ r.objList = Append(p.objList, o)
        /\ r.conData.jobList = jobs /\ r.conData.inSocket = s /\ r.conData.splitter = s
        /\ r.conData.outSocket = p.conData.outSocket /\ r.conData.combiner = p.conData.combiner
        /\ r.conData.sockCnt = p.conData.sockCnt
    BY SplitterInFields DEF Good
  <1>2. Good(r)
    BY SplitterInPointers
  <1>3. o \in ObjectRecord /\ p.objList \in Seq(ObjectRecord)
    BY KindFacts, SocketsOf DEF Kinds, GetSplitter, Good
  <1> HIDE DEF o
  <1>4. Kept(p.objList, r.objList, {}) /\ s \notin DOMAIN p.objList /\ s # NULL
    BY <1>1, <1>3, ObjectAdded DEF LastObject
  <1>5. /\ r.conData.combiner = NULL /\ r.conData.splitter # NULL /\ r.conData.outSocket = NULL
        /\ JobListOK(p.objList, jobs, {}) /\ NoPorts(p)
    BY <1>1, <1>4 DEF Fresh
  <1> HIDE DEF r, s
  <1>6. /\ q.pRtLst = r.pRtLst /\ SameSockets(r.conData, q.conData)
        /\ q.conData.sockCnt = r.conData.sockCnt
        /\ Kept(r.objList, q.objList, {s}) /\ s \in DOMAIN r.objList
        /\ new \notin DOMAIN r.objList /\ new \in DOMAIN q.objList
        /\ q.objList[new] = GetNetworkSocket
        /\ q.objList[s].kind = "Splitter" /\ q.objList[s].refs = {new}
        /\ q.conData.jobList = Append(Append(jobs, new), s)
    <2>1. q = NetworkSocket(r, isSource, a)
      BY DEF r
    <2>2. InSplitterRead(r, q, new)
      BY <1>2, <1>5, <2>1, InSplitterStep
    <2> HIDE DEF new, jobs
    <2>3. QED
      BY <1>1, <2>2 DEF InSplitterRead
  <1> HIDE DEF new
  <1>7. Kept(p.objList, q.objList, {s}) /\ s \in DOMAIN q.objList /\ new \notin DOMAIN p.objList
        /\ s # new
    <2>1. Kept(p.objList, q.objList, {} \cup {s})
      BY <1>4, <1>6, KeptOnce
    <2>2. {} \cup {s} = {s}
      OBVIOUS
    <2>3. DOMAIN p.objList \subseteq DOMAIN r.objList /\ DOMAIN r.objList \subseteq DOMAIN q.objList
      BY <1>4, <1>6, KeptDomain
    <2>4. s \in DOMAIN q.objList /\ new \notin DOMAIN p.objList /\ s # new
      BY <1>6, <2>3
    <2>5. QED
      BY <2>1, <2>2, <2>4
  <1>8. Endpoints(q) /\ Unused(q, s)
    <2> DEFINE S == {s}
    <2>1. Unused(p, s)
      BY <1>4, NewIsUnused
    <2>2. q.pRtLst = p.pRtLst /\ (\A x \in S : Unused(p, x)) /\ Kept(p.objList, q.objList, S)
      BY <1>1, <1>6, <1>7, <2>1 DEF SameLists
    <2> HIDE DEF S
    <2>3. QED
      BY <2>1, <2>2, EndpointsKept
  <1> HIDE DEF jobs
  <1>9. s \notin ToSet(jobs) /\ new \notin ToSet(jobs) /\ jobs \in Seq(DOMAIN p.objList)
    BY <1>4, <1>5, <1>7 DEF JobListOK, ToSet
  <1> DEFINE one == Append(jobs, new)
  <1>10. JobListOK(q.objList, jobs, {}) /\ jobs \in Seq(DOMAIN q.objList)
    <2> DEFINE open == {}
               S == {s}
    <2>1. ToSet(jobs) \cap S = {} /\ JobListOK(p.objList, jobs, open) /\ Kept(p.objList, q.objList, S)
      BY <1>5, <1>7, <1>9
    <2> HIDE DEF open, S
    <2>2. JobListOK(q.objList, jobs, open)
      BY <2>1, JobListKept
    <2>3. QED
      BY <2>2 DEF open, JobListOK
  <1>11. JobListOK(q.objList, one, {new}) /\ ToSet(one) = ToSet(jobs) \cup {new}
         /\ one \in Seq(DOMAIN q.objList)
    <2> DEFINE open == {}
               open2 == {new}
    <2>1. new \in open2 /\ open \subseteq open2 /\ JobListOK(q.objList, jobs, open)
      BY <1>10
    <2>2. q.objList[new].kind # "Connection" /\ q.objList[new].refs = {}
      BY <1>6, NetworkKind
    <2> HIDE DEF open, open2
    <2>3. JobListOK(q.objList, Append(jobs, new), open2)
      BY <1>6, <1>9, <2>1, <2>2, JobAdded
    <2>4. ToSet(Append(jobs, new)) = ToSet(jobs) \cup {new}
      <3>1. new \in DOMAIN q.objList /\ jobs \in Seq(DOMAIN q.objList)
        BY <1>6, <1>10
      <3>2. QED
        BY <3>1, SetOfAppend
    <2>5. QED
      BY <2>3, <2>4 DEF open2, JobListOK
  <1> HIDE DEF one
  <1>12. JobListOK(q.objList, Append(one, s), {s}) /\ ToSet(Append(one, s)) = ToSet(one) \cup {s}
    <2> DEFINE open == {new}
               open2 == {s}
    <2>1. s \in open2 /\ open \subseteq q.objList[s].refs /\ JobListOK(q.objList, one, open)
          /\ q.objList[s].refs \subseteq ToSet(one)
      BY <1>6, <1>11
    <2>2. q.objList[s].kind # "Connection" /\ s \notin ToSet(one)
      BY <1>6, <1>7, <1>9, <1>11
    <2> HIDE DEF open, open2
    <2>3. JobListOK(q.objList, Append(one, s), open2)
      BY <1>7, <2>1, <2>2, JobAdded
    <2>4. ToSet(Append(one, s)) = ToSet(one) \cup {s}
      <3>1. s \in DOMAIN q.objList /\ one \in Seq(DOMAIN q.objList)
        BY <1>7, <1>11
      <3>2. QED
        BY <3>1, SetOfAppend
    <2>5. QED
      BY <2>3, <2>4 DEF open2
  <1>13. ASSUME NEW x \in ToSet(q.conData.jobList)
         PROVE  q.objList[x].kind \notin Ports \ {"rmckPort"}
    <2>1. CASE x \in ToSet(jobs)
      <3>1. x \in DOMAIN p.objList /\ p.objList[x].kind \notin Ports \ {"rmckPort"}
        BY <1>5, <1>9, <2>1 DEF ToSet, NoPorts, jobs
      <3>2. q.objList[x] = p.objList[x]
        BY <1>7, <1>9, <2>1, <3>1 DEF Kept
      <3>3. QED
        BY <3>1, <3>2
    <2>2. CASE x \in {new, s}
      BY <1>6, <2>2, NetworkKind DEF Ports
    <2>3. QED
      BY <1>6, <1>11, <1>12, <1>13, <2>1, <2>2 DEF one
  <1>14. q.conData.jobList = Append(one, s) /\ q.conData.inSocket = s /\ q.conData.splitter = s
         /\ q.conData.outSocket = NULL /\ q.conData.combiner = NULL
    BY <1>1, <1>5, <1>6 DEF one, SameSockets
  <1>15. KindOf(q, s) = "Splitter" /\ NoPorts(q)
    BY <1>6, <1>13 DEF KindOf, NoPorts
  <1>16. HasInput(q)
    BY <1>8, <1>12, <1>14, <1>15 DEF HasInput
  <1>17. QED
    BY <1>1, <1>6, <1>8, <1>14, <1>16 DEF InputRead

LEMMA JobIsObject ==
  ASSUME NEW p, Good(p), NEW open, JobListOK(p.objList, p.conData.jobList, open),
         NEW x \in ToSet(p.conData.jobList)
  PROVE  x \in DOMAIN p.objList /\ x # NULL
  <1>1. x \in DOMAIN p.objList
    BY DEF JobListOK, ToSet
  <1>2. p.objList \in Seq(ObjectRecord)
    BY SocketsOf DEF Good
  <1>3. QED
    BY <1>1, <1>2 DEF NULL

\* The first socket is a network socket or a local one.
LEMMA FirstNetwork ==
  ASSUME NEW p, Good(p), Fresh(p), Endpoints(p), NEW isSource \in BOOLEAN, NEW a,
         NEW q, q = NetworkSocket(p, isSource, a)
  PROVE  isSource => InputRead(p, q)
  <1> DEFINE new == LastObject(p) + 1
             open == {}
  <1>1. /\ p.conData.splitter = NULL /\ p.conData.combiner = NULL /\ p.conData.outSocket = NULL
        /\ JobListOK(p.objList, p.conData.jobList, open) /\ NoPorts(p)
    BY DEF Fresh
  <1> HIDE DEF open
  <1>2. SocketStep(p, q, isSource, new) /\ q.objList[new] = GetNetworkSocket
    BY <1>1, NetworkSocketStep
  <1>3. /\ JobListOK(q.objList, q.conData.jobList, open \cup {new})
        /\ ToSet(q.conData.jobList) = ToSet(p.conData.jobList) \cup {new}
    <2>1. SocketListed(p, q, open, new)
      BY <1>1, NetworkJobs
    <2>2. QED
      BY <2>1 DEF SocketListed
  <1> SUFFICES ASSUME isSource PROVE InputRead(p, q)
    OBVIOUS
  <1> HIDE DEF new
  <1>4. /\ q.pRtLst = p.pRtLst /\ Kept(p.objList, q.objList, {})
        /\ q.conData.inSocket = new /\ q.conData.outSocket = NULL
        /\ q.conData.combiner = NULL /\ q.conData.splitter = NULL
        /\ q.conData.sockCnt = p.conData.sockCnt
    BY <1>1, <1>2 DEF SocketStep
  <1>5. Endpoints(q)
    BY <1>4, EndpointsGrow
  <1>6. ASSUME NEW x \in ToSet(q.conData.jobList)
        PROVE  q.objList[x].kind \notin Ports \ {"rmckPort"}
    <2>1. CASE x \in ToSet(p.conData.jobList)
      <3>1. p.objList[x].kind \notin Ports \ {"rmckPort"}
        BY <1>1, <2>1 DEF NoPorts
      <3>2. q.objList[x] = p.objList[x]
        BY <1>1, <1>4, <2>1, JobIsObject DEF Kept
      <3>3. QED
        BY <3>1, <3>2
    <2>2. CASE x = new
      BY <1>2, <2>2, NetworkKind
    <2>3. QED
      BY <1>3, <1>6, <2>1, <2>2
  <1>7. JobListOK(q.objList, q.conData.jobList, {new})
    <2>1. open \cup {new} = {new}
      BY DEF open
    <2>2. QED
      BY <1>3, <2>1
  <1>8. KindOf(q, new) = "NetworkSocket" /\ NoPorts(q)
    BY <1>2, <1>6, NetworkKind DEF KindOf, NoPorts
  <1>9. new \in ToSet(q.conData.jobList)
    BY <1>3
  <1>10. HasInput(q)
    BY <1>4, <1>7, <1>8, <1>9 DEF HasInput
  <1>11. QED
    BY <1>4, <1>5, <1>10 DEF InputRead

LEMMA FirstLocal ==
  ASSUME NEW p, Good(p), Fresh(p), Endpoints(p), NEW isSource \in BOOLEAN,
         NEW kind \in LocalSockets, NEW pin \in DOMAIN PortsOf(kind),
         NEW q, q = LocalSocket(p, isSource, kind, pin)
  PROVE  isSource => InputRead(p, q)
  <1> DEFINE open == {}
  <1>1. /\ p.conData.splitter = NULL /\ p.conData.combiner = NULL /\ p.conData.outSocket = NULL
        /\ JobListOK(p.objList, p.conData.jobList, open) /\ NoPorts(p)
    BY DEF Fresh
  <1> HIDE DEF open
  <1>2. PICK new : LocalSocketListed(p, q, isSource, kind, open, new)
    BY <1>1, LocalSocketJobs
  <1> SUFFICES ASSUME isSource PROVE InputRead(p, q)
    OBVIOUS
  <1>3. /\ q.pRtLst = p.pRtLst /\ Kept(p.objList, q.objList, {})
        /\ q.conData.inSocket = new /\ q.conData.outSocket = NULL
        /\ q.conData.combiner = NULL /\ q.conData.splitter = NULL
        /\ q.conData.sockCnt = p.conData.sockCnt
    BY <1>1, <1>2 DEF LocalSocketListed, SocketStep
  <1>4. Endpoints(q)
    BY <1>3, EndpointsGrow
  <1>5. JobListOK(q.objList, q.conData.jobList, {new})
    <2>1. open \cup {new} = {new}
      BY DEF open
    <2>2. QED
      BY <1>2, <2>1 DEF LocalSocketListed
  <1>6. KindOf(q, new) \in LocalSockets /\ new \in ToSet(q.conData.jobList)
    BY <1>2 DEF LocalSocketListed, KindOf
  <1>7. HasInput(q)
    BY <1>3, <1>5, <1>6 DEF HasInput
  <1>8. QED
    BY <1>3, <1>4, <1>7 DEF InputRead

\* A combiner in the first place.
LEMMA FirstCombiner ==
  ASSUME NEW p, Good(p), Fresh(p), Endpoints(p), NEW q, q = Combiner(p)
  PROVE  /\ HasCombiner(q) /\ Endpoints(q) /\ q.conData.sockCnt = p.conData.sockCnt
         /\ q.conData.outSocket = NULL
  <1> DEFINE new == LastObject(p) + 1
             jobs == p.conData.jobList
             open == {}
             o == GetCombiner
  <1>1. /\ SameLists(p, q) /\ q.objList = Append(p.objList, o) /\ q.conData.jobList = jobs
        /\ q.conData.inSocket = p.conData.inSocket /\ q.conData.outSocket = p.conData.outSocket
        /\ q.conData.combiner = new /\ q.conData.splitter = p.conData.splitter
        /\ q.conData.sockCnt = p.conData.sockCnt /\ q.conData.pendingCombinerSockets
    BY CombinerFields DEF Good
  <1>2. /\ p.conData.splitter = NULL /\ p.conData.inSocket = NULL /\ p.conData.outSocket = NULL
        /\ JobListOK(p.objList, jobs, open) /\ NoPorts(p)
    BY DEF Fresh
  <1>3. o \in ObjectRecord /\ o.kind = "Combiner" /\ p.objList \in Seq(ObjectRecord)
    BY KindFacts, SocketsOf DEF Kinds, GetCombiner, Good
  <1> HIDE DEF o
  <1>4. /\ Kept(p.objList, q.objList, {}) /\ new \notin DOMAIN p.objList
        /\ new \in DOMAIN q.objList /\ q.objList[new] = o
    BY <1>1, <1>3, ObjectAdded DEF LastObject
  <1> HIDE DEF new, open
  <1>5. Endpoints(q) /\ Unused(q, new)
    <2>1. Unused(p, new)
      BY <1>4, NewIsUnused
    <2>2. q.pRtLst = p.pRtLst
      BY <1>1 DEF SameLists
    <2>3. Endpoints(q) /\ \A x : Unused(p, x) => Unused(q, x)
      BY <1>4, <2>2, EndpointsGrow
    <2>4. QED
      BY <2>1, <2>3
  <1>6. JobListOK(q.objList, jobs, open)
    BY <1>2, <1>4, JobListKept
  <1>7. new \notin ToSet(jobs) /\ \A x \in ToSet(jobs) : q.objList[x] = p.objList[x]
    BY <1>2, <1>4 DEF JobListOK, ToSet, Kept
  <1>8. NoPorts(q)
    BY <1>1, <1>2, <1>7 DEF NoPorts
  <1>9. KindOf(q, new) = "Combiner"
    BY <1>3, <1>4 DEF KindOf
  <1>10. HasCombiner(q)
    BY <1>1, <1>2, <1>4, <1>5, <1>6, <1>7, <1>8, <1>9 DEF HasCombiner, open
  <1>11. QED
    BY <1>1, <1>2, <1>5, <1>10

LEMMA SecondNetwork ==
  ASSUME NEW p, Good(p), HasInput(p), Endpoints(p), NEW isSource \in BOOLEAN, NEW a,
         NEW q, q = NetworkSocket(p, isSource, a)
  PROVE  ~isSource => OutputRead(q)
  <1> DEFINE c == p.conData
             new == LastObject(p) + 1
             open == {c.inSocket}
  <1>1. /\ c.inSocket \in ToSet(c.jobList) /\ c.outSocket = NULL /\ c.combiner = NULL
        /\ JobListOK(p.objList, c.jobList, open)
        /\ c.splitter # NULL => Unused(p, c.splitter)
    BY DEF HasInput
  <1>2. CASE c.splitter = NULL
    <2>1. SocketStep(p, q, isSource, new)
      BY <1>1, <1>2, NetworkSocketStep
    <2> HIDE DEF open
    <2>2. /\ JobListOK(q.objList, q.conData.jobList, open \cup {new})
          /\ ToSet(q.conData.jobList) = ToSet(c.jobList) \cup {new}
      <3>1. SocketListed(p, q, open, new)
        BY <1>1, <1>2, NetworkJobs
      <3>2. QED
        BY <3>1 DEF SocketListed
    <2> SUFFICES ASSUME ~isSource PROVE OutputRead(q)
      OBVIOUS
    <2> HIDE DEF new
    <2>3. /\ q.pRtLst = p.pRtLst /\ Kept(p.objList, q.objList, {})
          /\ q.conData.inSocket = c.inSocket /\ q.conData.outSocket = new
          /\ q.conData.combiner = NULL
      BY <1>1, <2>1 DEF SocketStep
    <2>4. Endpoints(q)
      BY <2>3, EndpointsGrow
    <2>5. JobListOK(q.objList, q.conData.jobList, {c.inSocket, new})
      <3>1. open \cup {new} = {c.inSocket, new}
        BY DEF open
      <3>2. QED
        BY <2>2, <3>1
    <2>6. ToBeJoined(q)
      BY <1>1, <2>2, <2>3, <2>5 DEF ToBeJoined
    <2>7. QED
      BY <2>3, <2>4, <2>6 DEF OutputRead
  <1>3. CASE c.splitter # NULL
    <2>1. Endpoints(q)
      BY <1>1, <1>3, InSplitterEndpoints
    <2>2. InSplitterRead(p, q, new)
      BY <1>1, <1>3, InSplitterStep
    <2>3. q.conData.outSocket = NULL /\ q.conData.combiner = NULL
      BY <1>1, <2>2 DEF InSplitterRead, SameSockets
    <2>4. QED
      BY <2>1, <2>3 DEF Complete, OutputRead
  <1>4. QED
    BY <1>2, <1>3

LEMMA SecondLocal ==
  ASSUME NEW p, Good(p), HasInput(p), Endpoints(p), NEW isSource \in BOOLEAN,
         NEW kind \in LocalSockets, NEW pin \in DOMAIN PortsOf(kind),
         NEW q, q = LocalSocket(p, isSource, kind, pin)
  PROVE  ~isSource => Rejected(q) \/ OutputRead(q)
  <1> DEFINE c == p.conData
             open == {c.inSocket}
  <1>1. /\ c.inSocket \in ToSet(c.jobList) /\ c.outSocket = NULL /\ c.combiner = NULL
        /\ JobListOK(p.objList, c.jobList, open)
        /\ KindOf(p, c.inSocket) \in LocalSockets \/ NoPorts(p)
    BY DEF HasInput
  <1>2. c.inSocket \in DOMAIN p.objList /\ c.inSocket # NULL
    BY <1>1, JobIsObject
  <1> HIDE DEF open
  <1>3. ASSUME KindOf(p, c.inSocket) \in LocalSockets PROVE ~isSource => Rejected(q)
    <2> DEFINE ports == CreatePorts(p, PortsOf(kind))
               ids == PortIds(ports, kind)
               socket == GetSocket(kind, ids, pin)
               new == LastObject(ports) + 1
    <2>1. PortStep(p, ports) /\ \A i \in DOMAIN PortsOf(kind) : ports.nodeData[PortsOf(kind)[i]] # NULL
      BY CreatePortsStep DEF Good
    <2> HIDE DEF socket
    <2>2. LocalSocketRead(p, ports, isSource, kind, pin, q)
      BY <2>1, LocalSocketFields DEF PortStep
    <2> HIDE DEF ports
    <2>3. Pointers(ports) /\ Kept(p.objList, ports.objList, {}) /\ ports.objList \in Seq(ObjectRecord)
      BY <2>1, SocketsOf DEF PortStep
    <2>4. socket \in ObjectRecord /\ socket.kind = kind
      BY <2>1, <2>3, SocketOnPorts DEF socket
    <2>5. /\ q.objList = Append(ports.objList, socket)
          /\ q.conData.inSocket = IF isSource THEN new ELSE c.inSocket
          /\ q.conData.outSocket = IF isSource THEN c.outSocket ELSE new
          /\ q.conData.combiner = NULL
      BY <1>1, <2>2 DEF LocalSocketRead, socket
    <2> SUFFICES ASSUME ~isSource PROVE Rejected(q)
      OBVIOUS
    <2>6. /\ Kept(ports.objList, q.objList, {}) /\ new # NULL /\ q.objList[new] = socket
      BY <2>3, <2>4, <2>5, ObjectAdded DEF LastObject
    <2> HIDE DEF new
    <2>7. q.objList[c.inSocket] = p.objList[c.inSocket]
      BY <1>2, <2>3, <2>6 DEF Kept
    <2>8. KindOf(q, q.conData.inSocket) \in LocalSockets /\ KindOf(q, q.conData.outSocket) = kind
      BY <1>3, <2>4, <2>5, <2>6, <2>7 DEF KindOf
    <2>9. Complete(q) /\ ~CombinerPending(q) /\ ~NetworkIsInput(q) /\ ~NetworkIsOutput(q)
      BY <1>2, <2>5, <2>6, <2>8
         DEF Complete, CombinerPending, NetworkIsInput, NetworkIsOutput, LocalSockets
    <2>10. QED
      BY <2>9 DEF Rejected
  <1>4. CASE NoPorts(p)
    <2>1. PICK new : LocalSocketListed(p, q, isSource, kind, open, new)
      BY <1>1, <1>4, LocalSocketJobs
    <2> SUFFICES ASSUME ~isSource PROVE OutputRead(q)
      OBVIOUS
    <2>2. /\ q.pRtLst = p.pRtLst /\ Kept(p.objList, q.objList, {})
          /\ q.conData.inSocket = c.inSocket /\ q.conData.outSocket = new
          /\ q.conData.combiner = NULL
      BY <1>1, <2>1 DEF LocalSocketListed, SocketStep
    <2>3. Endpoints(q)
      BY <2>2, EndpointsGrow
    <2>4. JobListOK(q.objList, q.conData.jobList, {c.inSocket, new})
      <3>1. open \cup {new} = {c.inSocket, new}
        BY DEF open
      <3>2. QED
        BY <2>1, <3>1 DEF LocalSocketListed
    <2>5. ToBeJoined(q)
      BY <1>1, <2>1, <2>2, <2>4 DEF ToBeJoined, LocalSocketListed
    <2>6. QED
      BY <2>2, <2>3, <2>5 DEF OutputRead
  <1>5. QED
    BY <1>1, <1>3, <1>4

\* A splitter in the second place: the first socket is a job that it uses.
LEMMA SecondSplitter ==
  ASSUME NEW p, Good(p), HasInput(p), Endpoints(p), NEW q, q = SplitterOut(p)
  PROVE  Endpoints(q) /\ (InSplitter(q) \/ InTwoSplitters(q))
  <1> DEFINE c == p.conData
             jobs == c.jobList
             new == LastObject(p) + 1
             o == GetSplitter({c.inSocket})
             open == {c.inSocket}
             open2 == {new}
  <1>1. /\ c.inSocket \in ToSet(jobs) /\ c.outSocket = NULL /\ c.combiner = NULL
        /\ JobListOK(p.objList, jobs, open)
        /\ c.splitter # NULL => Unused(p, c.splitter)
    BY DEF HasInput
  <1>2. /\ SameLists(p, q) /\ q.objList = Append(p.objList, o)
        /\ q.conData.jobList = Append(jobs, new)
        /\ q.conData.inSocket = new /\ q.conData.outSocket = c.outSocket
        /\ q.conData.combiner = c.combiner /\ q.conData.splitter = c.splitter
    BY SplitterOutFields DEF Good
  <1>3. o \in ObjectRecord /\ o.kind = "Splitter" /\ o.refs = open /\ p.objList \in Seq(ObjectRecord)
    <2>1. c.inSocket \in DOMAIN p.objList /\ p.objList \in Seq(ObjectRecord)
      BY <1>1, JobIsObject, SocketsOf DEF Good
    <2>2. {c.inSocket} \in SUBSET Nat
      BY <2>1
    <2>3. QED
      BY <2>1, <2>2, KindFacts DEF Kinds, GetSplitter
  <1> HIDE DEF o
  <1>4. /\ Kept(p.objList, q.objList, {}) /\ new \notin DOMAIN p.objList
        /\ new \in DOMAIN q.objList /\ q.objList[new] = o
    BY <1>2, <1>3, ObjectAdded DEF LastObject
  <1>5. new \in open2 /\ open \subseteq open2 \cup o.refs /\ open \subseteq ToSet(jobs)
    BY <1>1, <1>3
  <1> HIDE DEF new, open, open2
  <1>6. Endpoints(q) /\ \A x : Unused(p, x) => Unused(q, x)
    <2>1. q.pRtLst = p.pRtLst
      BY <1>2 DEF SameLists
    <2>2. QED
      BY <1>4, <2>1, EndpointsGrow
  <1>7. CASE c.splitter = NULL
    <2>1. jobs \in Seq(DOMAIN p.objList)
      BY <1>1 DEF JobListOK
    <2>2. new \notin ToSet(jobs)
      BY <1>4, <2>1 DEF ToSet
    <2> HIDE DEF jobs
    <2>3. JobListOK(q.objList, jobs, open)
      BY <1>1, <1>4, JobListKept
    <2>4. /\ q.objList[new].kind # "Connection" /\ q.objList[new].refs \subseteq ToSet(jobs)
          /\ open \subseteq open2 \cup q.objList[new].refs
      BY <1>3, <1>4, <1>5
    <2>5. JobListOK(q.objList, Append(jobs, new), open2)
      BY <1>4, <1>5, <2>2, <2>3, <2>4, JobAdded
    <2>6. ToSet(Append(jobs, new)) = ToSet(jobs) \cup {new}
      <3>1. jobs \in Seq(DOMAIN q.objList)
        BY <2>3 DEF JobListOK
      <3>2. QED
        BY <1>4, <3>1, SetOfAppend
    <2>7. KindOf(q, new) = "Splitter"
      BY <1>3, <1>4 DEF KindOf
    <2>8. InSplitter(q)
      BY <1>1, <1>2, <1>7, <2>5, <2>6, <2>7 DEF InSplitter, open2
    <2>9. QED
      BY <1>6, <2>8
  <1>8. CASE c.splitter # NULL
    <2>1. InTwoSplitters(q)
      BY <1>1, <1>2, <1>6, <1>8 DEF InTwoSplitters
    <2>2. QED
      BY <1>6, <2>1
  <1>9. QED
    BY <1>7, <1>8

LEMMA SecondOfCombiner ==
  ASSUME NEW p, Good(p), HasCombiner(p), Endpoints(p), NEW isSource \in BOOLEAN,
         NEW kind \in LocalSockets, NEW pin \in DOMAIN PortsOf(kind),
         NEW q, q = LocalSocket(p, isSource, kind, pin)
  PROVE  ~isSource => CombinerFilled(q)
  <1> DEFINE c == p.conData
             combiner == c.combiner
             open == {}
  <1>1. /\ c.splitter = NULL /\ c.outSocket = NULL /\ combiner \in DOMAIN p.objList \ ToSet(c.jobList)
        /\ p.objList[combiner].kind = "Combiner" /\ Unused(p, combiner)
        /\ c.pendingCombinerSockets /\ JobListOK(p.objList, c.jobList, open) /\ NoPorts(p)
    BY DEF HasCombiner, KindOf
  <1> HIDE DEF open
  <1>2. PICK new : LocalSocketListed(p, q, isSource, kind, open, new)
    BY <1>1, LocalSocketJobs
  <1>3. Good(q)
    BY LocalSocketPointers
  <1> SUFFICES ASSUME ~isSource PROVE CombinerFilled(q)
    OBVIOUS
  <1>4. /\ q.pRtLst = p.pRtLst /\ Kept(p.objList, q.objList, {}) /\ new # NULL
        /\ q.conData.outSocket = new /\ q.conData.combiner = combiner
        /\ q.conData.splitter = NULL /\ q.conData.pendingCombinerSockets
        /\ new \in DOMAIN q.objList
    BY <1>1, <1>2 DEF LocalSocketListed, SocketStep
  <1>5. combiner \in DOMAIN q.objList /\ q.objList[combiner] = p.objList[combiner]
        /\ combiner # NULL /\ new \in Nat /\ q.objList \in Seq(ObjectRecord)
    <2>1. p.objList \in Seq(ObjectRecord) /\ q.objList \in Seq(ObjectRecord)
      BY <1>4 DEF Kept
    <2>2. QED
      BY <1>1, <1>4, <2>1 DEF Kept, NULL
  <1>6. CombinerPending(q)
    BY <1>4, <1>5 DEF CombinerPending
  <1>7. Endpoints(q) /\ Unused(q, combiner)
    BY <1>1, <1>4, EndpointsGrow
  <1>8. new \in ToSet(q.conData.jobList) /\ combiner \notin ToSet(q.conData.jobList)
    <2>1. "Combiner" \notin Ports \cup {kind}
      BY DEF Ports, LocalSockets
    <2>2. QED
      BY <1>1, <1>2, <1>5, <2>1 DEF LocalSocketListed
  <1>9. JobListOK(q.objList, q.conData.jobList, {new})
    <2>1. open \cup {new} = {new}
      BY DEF open
    <2>2. QED
      BY <1>2, <2>1 DEF LocalSocketListed
  <1> HIDE DEF combiner
  <1>10. ASSUME NEW r, r = CombinerOut(q) PROVE InCombiner(r) /\ Endpoints(r)
    <2> DEFINE jobs == q.conData.jobList
               S == {combiner}
               open2 == {new}
    <2>1. /\ SameLists(q, r) /\ r.objList = WithRefs(q.objList, combiner, {new})
          /\ r.conData.jobList = jobs /\ r.conData.outSocket = combiner
          /\ r.conData.combiner = combiner /\ r.conData.splitter = NULL
      BY <1>3, <1>4, <1>10, CombinerOutFields DEF Good
    <2>2. Changed(q.objList, combiner, {new}, r.objList)
      <3>1. {new} \subseteq Nat
        BY <1>5
      <3>2. QED
        BY <1>5, <2>1, <3>1, RefsChanged
    <2>3. /\ Kept(q.objList, r.objList, S) /\ combiner \in DOMAIN r.objList
          /\ r.objList[combiner].kind = "Combiner" /\ r.objList[combiner].refs = open2
      BY <1>1, <1>5, <2>2 DEF Changed, combiner
    <2>4. (\A x \in S : Unused(q, x)) /\ r.pRtLst = q.pRtLst /\ ToSet(jobs) \cap S = {}
          /\ JobListOK(q.objList, jobs, open2) /\ open2 \subseteq ToSet(jobs)
      BY <1>7, <1>8, <1>9, <2>1 DEF SameLists
    <2> HIDE DEF S, open2
    <2>5. Endpoints(r)
      BY <1>7, <2>3, <2>4, EndpointsKept
    <2>6. JobListOK(r.objList, jobs, open2)
      BY <2>3, <2>4, JobListKept
    <2>7. InCombiner(r)
      BY <1>8, <2>1, <2>3, <2>4, <2>6 DEF InCombiner, KindOf
    <2>8. QED
      BY <2>5, <2>7
  <1>11. QED
    BY <1>6, <1>10 DEF CombinerFilled

LEMMA NestedConnected ==
  ASSUME NEW p, NEW r, Good(r), Endpoints(r), Kept(p.objList, r.objList, {}), ToBeJoined(r),
         Complete(r), NEW q, q = ConnectIfComplete(r), NEW s, s = DeepCopyJobList(q, p)
  PROVE  NestedRead(p, r, s)
  <1>1. q = Connect(r)
    BY DEF ConnectIfComplete
  <1>2. Good(q)
    BY ConnectIfCompletePointers
  <1>3. Endpoints(q) /\ SameSockets(r.conData, q.conData) /\ Kept(r.objList, q.objList, {})
    BY <1>1, JoinedEndpoints, ConnectKeeps
  <1>4. /\ SameLists(q, s) /\ s.objList = q.objList /\ SameSockets(q.conData, s.conData)
        /\ s.conData.jobList = p.conData.jobList
    BY <1>2, CopiedFields DEF Good
  <1>5. Kept(p.objList, s.objList, {})
    BY <1>3, <1>4 DEF Kept
  <1>6. Endpoints(s)
    BY <1>3, <1>4 DEF Endpoints, SameLists
  <1>7. QED
    BY <1>3, <1>4, <1>5, <1>6 DEF NestedRead, SameSockets

\* A NetworkSocket of a splitter in the second place, connected to it.
LEMMA NestedInSplitter ==
  ASSUME NEW p, Good(p), InSplitter(p), Endpoints(p), NEW isSource \in BOOLEAN, NEW a,
         NEW q, q = ConnectIfComplete(NetworkSocket(p, isSource, a)),
         NEW s, s = DeepCopyJobList(q, p)
  PROVE  ~isSource => InSplitter(s) /\ Endpoints(s)
  <1> DEFINE c == p.conData
             jobs == c.jobList
             new == LastObject(p) + 1
             open == {c.inSocket}
             r == NetworkSocket(p, isSource, a)
  <1>1. /\ c.combiner = NULL /\ c.splitter = NULL
        /\ c.inSocket \in ToSet(jobs) /\ p.objList[c.inSocket].kind = "Splitter"
        /\ JobListOK(p.objList, jobs, open)
    BY DEF InSplitter, KindOf
  <1>2. c.inSocket \in DOMAIN p.objList /\ c.inSocket # NULL
    BY <1>1, JobIsObject
  <1> HIDE DEF open
  <1>3. SocketStep(p, r, isSource, new)
    BY <1>1, NetworkSocketStep
  <1>4. SocketListed(p, r, open, new)
    BY <1>1, NetworkJobs
  <1>5. Good(r)
    BY NetworkSocketGood
  <1>6. q = ConnectIfComplete(r)
    OBVIOUS
  <1> SUFFICES ASSUME ~isSource PROVE InSplitter(s) /\ Endpoints(s)
    OBVIOUS
  <1> HIDE DEF r, new
  <1>7. /\ r.pRtLst = p.pRtLst /\ Kept(p.objList, r.objList, {}) /\ new # NULL
        /\ r.conData.inSocket = c.inSocket /\ r.conData.outSocket = new
        /\ r.conData.combiner = NULL /\ r.conData.splitter = NULL
    BY <1>1, <1>3 DEF SocketStep
  <1>8. Endpoints(r)
    BY <1>7, EndpointsGrow
  <1>9. ToBeJoined(r) /\ Complete(r)
    <2>1. open \cup {new} = {c.inSocket, new}
      BY DEF open
    <2>2. /\ JobListOK(r.objList, r.conData.jobList, {c.inSocket, new})
          /\ ToSet(r.conData.jobList) = ToSet(jobs) \cup {new}
      BY <1>4, <2>1 DEF SocketListed
    <2>3. QED
      BY <1>1, <1>2, <1>7, <2>2 DEF ToBeJoined, Complete
  <1>10. NestedRead(p, r, s)
    BY <1>5, <1>6, <1>7, <1>8, <1>9, NestedConnected
  <1>11. /\ Endpoints(s) /\ SameSockets(r.conData, s.conData) /\ s.conData.jobList = jobs
         /\ Kept(p.objList, s.objList, {})
    BY <1>10 DEF NestedRead
  <1> HIDE DEF jobs
  <1>12. JobListOK(s.objList, jobs, open)
    BY <1>1, <1>11, JobListKept
  <1>13. KindOf(s, c.inSocket) = "Splitter"
    BY <1>1, <1>2, <1>11 DEF KindOf, Kept
  <1>14. InSplitter(s)
    BY <1>1, <1>7, <1>11, <1>12, <1>13 DEF InSplitter, SameSockets, open
  <1>15. QED
    BY <1>11, <1>14

\* A combiner is found as it was left.
LEMMA CombinerKept ==
  ASSUME NEW p, InCombiner(p), NEW s, Kept(p.objList, s.objList, {}),
         s.conData.jobList = p.conData.jobList, s.conData.splitter = NULL,
         s.conData.combiner = p.conData.combiner, s.conData.outSocket = p.conData.combiner
  PROVE  InCombiner(s)
  <1> DEFINE jobs == p.conData.jobList
             combiner == p.conData.combiner
             refs == p.objList[combiner].refs
  <1>1. /\ combiner \in DOMAIN p.objList \ ToSet(jobs)
        /\ p.objList[combiner].kind = "Combiner" /\ refs \subseteq ToSet(jobs)
        /\ JobListOK(p.objList, jobs, refs)
    BY DEF InCombiner, KindOf
  <1>2. combiner \in DOMAIN s.objList /\ s.objList[combiner] = p.objList[combiner]
    BY <1>1 DEF Kept
  <1>3. JobListOK(s.objList, jobs, refs)
    <2> HIDE DEF jobs, refs, combiner
    <2>1. QED
      BY <1>1, JobListKept
  <1>4. QED
    BY <1>1, <1>2, <1>3 DEF InCombiner, KindOf

\* A NetworkSocket of a combiner, which becomes a job of this endpoint.
LEMMA NestedInCombiner ==
  ASSUME NEW p, Good(p), InCombiner(p), Endpoints(p), NEW isSource \in BOOLEAN, NEW a,
         NEW q, q = ConnectIfComplete(NetworkSocket(p, isSource, a)),
         NEW s, s = DeepCopyJobList(q, p)
  PROVE  isSource => InCombiner(s) /\ Endpoints(s)
  <1> DEFINE c == p.conData
             jobs == c.jobList
             combiner == c.combiner
             new == LastObject(p) + 1
             refs == p.objList[combiner].refs
             r == NetworkSocket(p, isSource, a)
  <1>1. /\ c.splitter = NULL /\ c.outSocket = combiner
        /\ combiner \in DOMAIN p.objList \ ToSet(jobs)
        /\ p.objList[combiner].kind = "Combiner" /\ refs \subseteq ToSet(jobs)
        /\ JobListOK(p.objList, jobs, refs)
    BY DEF InCombiner, KindOf
  <1>2. combiner # NULL
    BY <1>1, SocketsOf, ObjectAdded DEF Good, NULL
  <1>3. SocketStep(p, r, isSource, new)
    BY <1>1, NetworkSocketStep
  <1>4. /\ JobListOK(r.objList, r.conData.jobList, {combiner, new})
        /\ {combiner, new} \subseteq ToSet(r.conData.jobList)
    BY CombinerJobs
  <1>5. Good(r)
    BY NetworkSocketGood
  <1>6. q = ConnectIfComplete(r)
    OBVIOUS
  <1> SUFFICES ASSUME isSource PROVE InCombiner(s) /\ Endpoints(s)
    OBVIOUS
  <1> HIDE DEF r, new, refs
  <1>7. /\ r.pRtLst = p.pRtLst /\ Kept(p.objList, r.objList, {}) /\ new # NULL
        /\ r.conData.inSocket = new /\ r.conData.outSocket = combiner
        /\ r.conData.combiner = combiner /\ r.conData.splitter = NULL
    BY <1>1, <1>3 DEF SocketStep
  <1> HIDE DEF combiner
  <1>8. Endpoints(r)
    BY <1>7, EndpointsGrow
  <1>9. ToBeJoined(r) /\ Complete(r)
    <2>1. {combiner, new} = {new, combiner}
      OBVIOUS
    <2>2. QED
      BY <1>2, <1>4, <1>7, <2>1 DEF ToBeJoined, Complete
  <1>10. NestedRead(p, r, s)
    BY <1>5, <1>6, <1>7, <1>8, <1>9, NestedConnected
  <1>11. /\ Endpoints(s) /\ SameSockets(r.conData, s.conData) /\ s.conData.jobList = jobs
         /\ Kept(p.objList, s.objList, {})
    BY <1>10 DEF NestedRead
  <1> HIDE DEF jobs
  <1>12. InCombiner(s)
    BY <1>7, <1>11, CombinerKept DEF SameSockets, combiner, jobs
  <1>13. QED
    BY <1>11, <1>12

\* A NetworkSocket of a splitter behind a splitter, which is never connected.
LEMMA NestedInTwoSplitters ==
  ASSUME NEW p, Good(p), InTwoSplitters(p), Endpoints(p), NEW isSource \in BOOLEAN, NEW a,
         NEW q, q = ConnectIfComplete(NetworkSocket(p, isSource, a)),
         NEW s, s = DeepCopyJobList(q, p)
  PROVE  InTwoSplitters(s) /\ Endpoints(s)
  <1> DEFINE c == p.conData
             new == LastObject(p) + 1
             r == NetworkSocket(p, isSource, a)
  <1>1. c.combiner = NULL /\ c.splitter # NULL /\ c.outSocket = NULL /\ Unused(p, c.splitter)
    BY DEF InTwoSplitters
  <1>2. InSplitterRead(p, r, new)
    BY <1>1, InSplitterStep
  <1>3. Endpoints(r) /\ Unused(r, r.conData.splitter)
    BY <1>1, InSplitterEndpoints
  <1>4. Good(r)
    BY NetworkSocketGood
  <1>5. q = IF Complete(r) THEN Connect(r) ELSE r
    BY DEF ConnectIfComplete
  <1> HIDE DEF r, new
  <1>6. SameSockets(c, r.conData)
    BY <1>2 DEF InSplitterRead
  <1>7. q = r
    BY <1>1, <1>5, <1>6 DEF Complete, SameSockets
  <1>8. SameLists(q, s) /\ s.objList = q.objList /\ SameSockets(q.conData, s.conData)
    BY <1>4, <1>7, CopiedFields DEF Good
  <1>9. Endpoints(s)
    BY <1>3, <1>7, <1>8 DEF Endpoints, SameLists
  <1>10. InTwoSplitters(s)
    BY <1>1, <1>3, <1>6, <1>7, <1>8 DEF InTwoSplitters, Unused, SameLists, SameSockets
  <1>11. QED
    BY <1>9, <1>10

-----------------------------------------------------------------------------
(* The job lists in every step. *)

LEMMA CountedKeeps ==
  ASSUME NEW p, HasFields(p), NEW q, q = Counted(p)
  PROVE  /\ Fresh(p) => Fresh(q)
         /\ HasInput(p) => HasInput(q)
         /\ HasCombiner(p) => HasCombiner(q)
         /\ Endpoints(p) => Endpoints(q)
  <1>1. /\ q.pRtLst = p.pRtLst /\ q.objList = p.objList /\ q.conData.jobList = p.conData.jobList
        /\ q.conData.inSocket = p.conData.inSocket /\ q.conData.outSocket = p.conData.outSocket
        /\ q.conData.combiner = p.conData.combiner /\ q.conData.splitter = p.conData.splitter
        /\ q.conData.pendingCombinerSockets = p.conData.pendingCombinerSockets
    BY CountedFields DEF SameLists, SameSockets
  <1>2. NoPorts(p) => NoPorts(q)
    BY <1>1 DEF NoPorts
  <1>3. \A x : Unused(p, x) => Unused(q, x)
    BY <1>1 DEF Unused
  <1>4. Fresh(p) => Fresh(q)
    BY <1>1, <1>2 DEF Fresh
  <1>5. HasInput(p) => HasInput(q)
    BY <1>1, <1>2, <1>3 DEF HasInput, KindOf
  <1>6. HasCombiner(p) => HasCombiner(q)
    BY <1>1, <1>2, <1>3 DEF HasCombiner, KindOf
  <1>7. Endpoints(p) => Endpoints(q)
    BY <1>1 DEF Endpoints
  <1>8. QED
    BY <1>4, <1>5, <1>6, <1>7

\* The end of a socket: after the first one nothing is connected yet.
LEMMA FinishFirst ==
  ASSUME NEW p, p.conData.outSocket = NULL, Finish(p)
  PROVE  priv' = p /\ pc' = "socket"
  BY DEF Finish, CombinerPending, ConnectIfComplete, Complete

LEMMA FinishSecond ==
  ASSUME NEW p, Good(p), OutputRead(p), Finish(p)
  PROVE  Endpoints(priv') /\ pc' = "socket"
  <1>1. /\ Endpoints(p) /\ p.conData.combiner = NULL /\ (Complete(p) => ToBeJoined(p))
    BY DEF OutputRead
  <1>2. priv' = ConnectIfComplete(p) /\ pc' = "socket"
    BY <1>1 DEF Finish, CombinerPending
  <1>3. CASE Complete(p)
    <2>1. priv' = Connect(p)
      BY <1>2, <1>3 DEF ConnectIfComplete
    <2>2. Endpoints(Connect(p))
      BY <1>1, <1>3, JoinedEndpoints
    <2>3. QED
      BY <1>2, <2>1, <2>2
  <1>4. CASE ~Complete(p)
    BY <1>1, <1>2, <1>4 DEF ConnectIfComplete
  <1>5. QED
    BY <1>3, <1>4

LEMMA FinishCombiner ==
  ASSUME NEW p, CombinerFilled(p), Finish(p)
  PROVE  InCombiner(priv') /\ Endpoints(priv') /\ pc' = "nested"
  BY DEF CombinerFilled, Finish

\* What is left to be read of a pair of sockets.
LEMMA PairFacts ==
  ASSUME NEW pair \in SocketPairs
  PROVE  /\ pair = <<pair[1], pair[2]>> /\ pair # <<>>
         /\ Head(pair) = pair[1] /\ Tail(pair) = <<pair[2]>>
  <1>1. PICK x, y : pair = <<x, y>>
    BY XmlAssumption
  <1>2. QED
    BY <1>1

LEMMA SocketCases ==
  ASSUME JobsInv, NEW kind, NextSocket(kind)
  PROVE  (AtFirst /\ doc.pair[1] = kind) \/ AtSecond(kind)
  <1>1. pc = "socket" /\ doc.pair # <<>> /\ Head(doc.pair) = kind
    BY DEF NextSocket
  <1>2. CASE doc.pair \in SocketPairs /\ priv.conData.sockCnt = 0 /\ Fresh(priv)
    BY <1>1, <1>2, PairFacts DEF AtFirst, IsSource
  <1>3. ASSUME NEW pair \in SocketPairs, doc.pair = <<pair[2]>>, priv.conData.sockCnt # 0,
               HasInput(priv) \/ (pair[1] = "Combiner" /\ HasCombiner(priv))
        PROVE  AtSecond(kind)
    <2>1. pair[2] = kind
      BY <1>1, <1>3
    <2>2. pair = <<pair[1], kind>>
      BY <2>1, PairFacts
    <2>3. QED
      BY <1>3, <2>1, <2>2 DEF AtSecond, IsSource
  <1>4. QED
    BY <1>1, <1>2, <1>3 DEF JobsInv, ConnectionInv

\* What holds after the first and after the second socket.
LEMMA FirstRead ==
  ASSUME TypeInv, AtFirst, NEW sockets, Read(sockets), pc' = "socket",
         priv'.conData.sockCnt = priv.conData.sockCnt + 1, Endpoints(priv'),
         HasInput(priv') \/ (doc.pair[1] = "Combiner" /\ HasCombiner(priv'))
  PROVE  JobsInv'
  <1>1. doc.pair \in SocketPairs /\ priv'.conData.sockCnt # 0
    BY DEF AtFirst
  <1>2. doc'.pair = Tail(doc.pair)
    BY DEF Read, TypeInv, DocFields
  <1>3. doc'.pair = <<doc.pair[2]>>
    BY <1>1, <1>2, PairFacts
  <1>4. ConnectionInv'
    BY <1>1, <1>3 DEF ConnectionInv
  <1>5. QED
    BY <1>4 DEF JobsInv

LEMMA SecondRead ==
  ASSUME TypeInv, NEW kind, AtSecond(kind), NEW sockets, Read(sockets), Endpoints(priv'),
         \/ pc' = "socket"
         \/ pc' = "nested" /\ (InSplitter(priv') \/ InCombiner(priv') \/ InTwoSplitters(priv'))
  PROVE  JobsInv'
  <1>1. doc'.pair = Tail(doc.pair) /\ doc.pair = <<kind>>
    BY DEF Read, TypeInv, DocFields, AtSecond
  <1>2. doc'.pair = <<>>
    BY <1>1
  <1>3. ConnectionInv'
    BY <1>2 DEF ConnectionInv
  <1>4. QED
    BY <1>3 DEF JobsInv

LEMMA ErrorJobs == Error => JobsInv'
  <1>1. SUFFICES ASSUME Error PROVE JobsInv'
    OBVIOUS
  <1>2. priv' = NoData /\ pc' = "failed"
    BY <1>1 DEF Error
  <1>3. Endpoints(priv')
    BY <1>2, NoDataGood DEF Endpoints
  <1>4. ConnectionInv'
    BY <1>2 DEF ConnectionInv
  <1>5. QED
    BY <1>3, <1>4 DEF JobsInv

\* The sockets, one action after the other.
LEMMA CountedSocket ==
  ASSUME TypeInv, JobsInv, NEW p, p = Counted(priv)
  PROVE  /\ Good(priv) /\ Good(p) /\ Endpoints(p) /\ IsSource \in BOOLEAN
         /\ p.conData.sockCnt = priv.conData.sockCnt + 1
         /\ p.conData.inSocket = priv.conData.inSocket
         /\ Fresh(priv) => Fresh(p)
         /\ HasInput(priv) => HasInput(p)
         /\ HasCombiner(priv) => HasCombiner(p)
  <1>1. Good(priv) /\ Endpoints(priv)
    BY DEF TypeInv, Good, JobsInv
  <1>2. Good(p)
    BY <1>1, CountedPointers
  <1>3. p.conData.sockCnt = priv.conData.sockCnt + 1
        /\ p.conData.inSocket = priv.conData.inSocket
    BY <1>1, CountedFields DEF Good, SameSockets
  <1>4. /\ Fresh(priv) => Fresh(p)
        /\ HasInput(priv) => HasInput(p)
        /\ HasCombiner(priv) => HasCombiner(p)
        /\ Endpoints(priv) => Endpoints(p)
    BY <1>1, CountedKeeps DEF Good
  <1>5. QED
    BY <1>1, <1>2, <1>3, <1>4 DEF IsSource

LEMMA ParseNetworkSocketJobs ==
  ASSUME CombinersAreLocal, TypeInv, JobsInv, NEW a \in Attributes, ParseNetworkSocket(a)
  PROVE  JobsInv'
  <1> DEFINE p == Counted(priv)
             q == NetworkSocket(p, IsSource, a)
  <1>1. /\ Good(p) /\ Endpoints(p) /\ IsSource \in BOOLEAN
        /\ p.conData.sockCnt = priv.conData.sockCnt + 1
        /\ Fresh(priv) => Fresh(p)
        /\ HasInput(priv) => HasInput(p)
    BY CountedSocket
  <1>2. NextSocket("NetworkSocket")
    BY DEF ParseNetworkSocket
  <1>3. Error \/ (Finish(q) /\ \E sockets : Read(sockets))
    BY DEF ParseNetworkSocket
  <1> HIDE DEF p
  <1>4. Fresh(p) => (IsSource => InputRead(p, q))
    BY <1>1, FirstNetwork
  <1>5. HasInput(p) => (~IsSource => OutputRead(q))
    BY <1>1, SecondNetwork
  <1>6. Good(q)
    BY <1>1, NetworkSocketGood
  <1> HIDE DEF q
  <1>7. ASSUME AtFirst, Finish(q), NEW sockets, Read(sockets) PROVE JobsInv'
    <2>1. InputRead(p, q)
      BY <1>1, <1>4, <1>7 DEF AtFirst
    <2>2. /\ HasInput(q) /\ Endpoints(q) /\ q.conData.sockCnt = p.conData.sockCnt
          /\ q.conData.outSocket = NULL
      BY <2>1 DEF InputRead
    <2>3. priv' = q /\ pc' = "socket"
      BY <1>7, <2>2, FinishFirst
    <2>4. QED
      BY <1>1, <1>7, <2>2, <2>3, FirstRead
  <1>8. ASSUME AtSecond("NetworkSocket"), Finish(q), NEW sockets, Read(sockets) PROVE JobsInv'
    <2>1. HasInput(priv) /\ ~IsSource
      BY <1>8 DEF AtSecond, CombinersAreLocal
    <2>2. OutputRead(q)
      BY <1>1, <1>5, <2>1
    <2>3. Endpoints(priv') /\ pc' = "socket"
      BY <1>6, <1>8, <2>2, FinishSecond
    <2>4. QED
      BY <1>8, <2>3, SecondRead
  <1>9. QED
    BY <1>2, <1>3, <1>7, <1>8, ErrorJobs, SocketCases

LEMMA ParseLocalSocketJobs ==
  ASSUME TypeInv, JobsInv, NEW kind \in LocalSockets, NEW pin \in DOMAIN PortsOf(kind),
         ParseLocalSocket(kind, pin)
  PROVE  JobsInv'
  <1> DEFINE p == Counted(priv)
             q == LocalSocket(p, IsSource, kind, pin)
  <1>1. /\ Good(p) /\ Endpoints(p) /\ IsSource \in BOOLEAN
        /\ p.conData.sockCnt = priv.conData.sockCnt + 1
        /\ Fresh(priv) => Fresh(p)
        /\ HasInput(priv) => HasInput(p)
        /\ HasCombiner(priv) => HasCombiner(p)
    BY CountedSocket
  <1>2. NextSocket(kind)
    BY DEF ParseLocalSocket
  <1>3. Error \/ (~Rejected(q) /\ Finish(q) /\ \E sockets : Read(sockets))
    BY DEF ParseLocalSocket
  <1> HIDE DEF p
  <1>4. Fresh(p) => (IsSource => InputRead(p, q))
    BY <1>1, FirstLocal
  <1>5. HasInput(p) => (~IsSource => Rejected(q) \/ OutputRead(q))
    BY <1>1, SecondLocal
  <1>6. HasCombiner(p) => (~IsSource => CombinerFilled(q))
    BY <1>1, SecondOfCombiner
  <1>7. Good(q)
    BY <1>1, LocalSocketPointers
  <1> HIDE DEF q
  <1>8. ASSUME AtFirst, Finish(q), NEW sockets, Read(sockets) PROVE JobsInv'
    <2>1. InputRead(p, q)
      BY <1>1, <1>4, <1>8 DEF AtFirst
    <2>2. /\ HasInput(q) /\ Endpoints(q) /\ q.conData.sockCnt = p.conData.sockCnt
          /\ q.conData.outSocket = NULL
      BY <2>1 DEF InputRead
    <2>3. priv' = q /\ pc' = "socket"
      BY <1>8, <2>2, FinishFirst
    <2>4. QED
      BY <1>1, <1>8, <2>2, <2>3, FirstRead
  <1>9. ASSUME AtSecond(kind), ~Rejected(q), Finish(q), NEW sockets, Read(sockets) PROVE JobsInv'
    <2>1. ~IsSource /\ (HasInput(p) \/ HasCombiner(p))
      BY <1>1, <1>9 DEF AtSecond
    <2>2. CASE HasInput(p)
      <3>1. OutputRead(q)
        BY <1>5, <1>9, <2>1, <2>2
      <3>2. Endpoints(priv') /\ pc' = "socket"
        BY <1>7, <1>9, <3>1, FinishSecond
      <3>3. QED
        BY <1>9, <3>2, SecondRead
    <2>3. CASE HasCombiner(p)
      <3>1. CombinerFilled(q)
        BY <1>6, <2>1, <2>3
      <3>2. InCombiner(priv') /\ Endpoints(priv') /\ pc' = "nested"
        BY <1>9, <3>1, FinishCombiner
      <3>3. QED
        BY <1>9, <3>2, SecondRead
    <2>4. QED
      BY <2>1, <2>2, <2>3
  <1>10. QED
    BY <1>2, <1>3, <1>8, <1>9, ErrorJobs, SocketCases

LEMMA ParseSplitterInJobs ==
  ASSUME TypeInv, JobsInv, NEW a \in Attributes, ParseSplitterIn(a)
  PROVE  JobsInv'
  <1> DEFINE p == Counted(priv)
             r == SplitterIn(p)
             yes == TRUE
             q == NetworkSocket(r, yes, a)
  <1>1. /\ Good(p) /\ Endpoints(p) /\ p.conData.sockCnt = priv.conData.sockCnt + 1
        /\ Fresh(priv) => Fresh(p)
    BY CountedSocket
  <1>2. NextSocket("Splitter") /\ IsSource
    BY DEF ParseSplitterIn
  <1>3. Finish(q) /\ \E sockets : Read(sockets)
    BY DEF ParseSplitterIn
  <1>4. AtFirst
    <2>1. ~AtSecond("Splitter")
      BY <1>2 DEF AtSecond
    <2>2. QED
      BY <1>2, <2>1, SocketCases
  <1>5. Fresh(p) /\ yes \in BOOLEAN
    BY <1>1, <1>4 DEF AtFirst
  <1> HIDE DEF p, yes
  <1>6. InputRead(p, q)
    BY <1>1, <1>5, SplitterInJobs
  <1> HIDE DEF q
  <1>7. /\ HasInput(q) /\ Endpoints(q) /\ q.conData.sockCnt = p.conData.sockCnt
        /\ q.conData.outSocket = NULL
    BY <1>6 DEF InputRead
  <1>8. priv' = q /\ pc' = "socket"
    BY <1>3, <1>7, FinishFirst
  <1>9. QED
    BY <1>1, <1>3, <1>4, <1>7, <1>8, FirstRead

LEMMA ParseSplitterOutJobs ==
  ASSUME TypeInv, JobsInv, ParseSplitterOut
  PROVE  JobsInv'
  <1> DEFINE p == Counted(priv)
             q == SplitterOut(p)
  <1>1. /\ Good(p) /\ Endpoints(p) /\ (HasInput(priv) => HasInput(p))
    BY CountedSocket
  <1>2. NextSocket("Splitter") /\ ~IsSource
    BY DEF ParseSplitterOut
  <1>3. \/ Error
        \/ /\ priv.conData.inSocket # NULL /\ priv' = q /\ pc' = "nested"
           /\ \E sockets : Read(sockets)
    BY DEF ParseSplitterOut
  <1>4. AtSecond("Splitter")
    BY <1>2, SocketCases DEF AtFirst
  <1> HIDE DEF p, q
  <1>5. ASSUME priv.conData.inSocket # NULL, priv' = q, pc' = "nested", NEW sockets, Read(sockets)
        PROVE  JobsInv'
    <2>1. HasInput(p)
      BY <1>1, <1>4, <1>5 DEF AtSecond, HasCombiner
    <2>2. Endpoints(q) /\ (InSplitter(q) \/ InTwoSplitters(q))
      BY <1>1, <2>1, SecondSplitter DEF q
    <2>3. QED
      BY <1>4, <1>5, <2>2, SecondRead
  <1>6. QED
    BY <1>3, <1>5, ErrorJobs

LEMMA ParseCombinerJobs ==
  ASSUME TypeInv, JobsInv, ParseCombiner
  PROVE  JobsInv'
  <1> DEFINE p == Counted(priv)
             q == Combiner(p)
  <1>1. /\ Good(p) /\ Endpoints(p) /\ p.conData.sockCnt = priv.conData.sockCnt + 1
        /\ Fresh(priv) => Fresh(p)
    BY CountedSocket
  <1>2. NextSocket("Combiner")
    BY DEF ParseCombiner
  <1>3. Error \/ (IsSource /\ Finish(q) /\ \E sockets : Read(sockets))
    BY DEF ParseCombiner
  <1> HIDE DEF p, q
  <1>4. ASSUME IsSource, Finish(q), NEW sockets, Read(sockets) PROVE JobsInv'
    <2>1. AtFirst /\ doc.pair[1] = "Combiner"
      BY <1>2, <1>4, SocketCases DEF AtSecond
    <2>2. Fresh(p)
      BY <1>1, <2>1 DEF AtFirst
    <2>3. /\ HasCombiner(q) /\ Endpoints(q) /\ q.conData.sockCnt = p.conData.sockCnt
          /\ q.conData.outSocket = NULL
      BY <1>1, <2>2, FirstCombiner DEF q
    <2>4. priv' = q /\ pc' = "socket"
      BY <1>4, <2>3, FinishFirst
    <2>5. QED
      BY <1>1, <1>4, <2>1, <2>3, <2>4, FirstRead
  <1>5. QED
    BY <1>3, <1>4, ErrorJobs

LEMMA ParseNestedSocketJobs ==
  ASSUME TypeInv, JobsInv, NEW a \in Attributes, ParseNestedSocket(a)
  PROVE  JobsInv'
  <1> DEFINE q == ConnectIfComplete(NetworkSocket(priv, NestedIsSource, a))
             nested == InSplitter(priv') \/ InCombiner(priv') \/ InTwoSplitters(priv')
  <1>1. Good(priv) /\ Endpoints(priv) /\ NestedIsSource \in BOOLEAN
    BY DEF TypeInv, Good, JobsInv, NestedIsSource
  <1>2. /\ pc = "nested" /\ pc' = "nested" /\ priv' = DeepCopyJobList(q, priv)
        /\ doc'.pair = doc.pair
    BY DEF ParseNestedSocket, TypeInv, DocFields
  <1>3. doc.pair = <<>> /\ (InSplitter(priv) \/ InCombiner(priv) \/ InTwoSplitters(priv))
    BY <1>2 DEF JobsInv, ConnectionInv
  <1>4. InSplitter(priv) => (~NestedIsSource => InSplitter(priv') /\ Endpoints(priv'))
    BY <1>1, <1>2, NestedInSplitter
  <1>5. InCombiner(priv) => (NestedIsSource => InCombiner(priv') /\ Endpoints(priv'))
    BY <1>1, <1>2, NestedInCombiner
  <1>6. InTwoSplitters(priv) => InTwoSplitters(priv') /\ Endpoints(priv')
    BY <1>1, <1>2, NestedInTwoSplitters
  <1>7. InSplitter(priv) => ~NestedIsSource
    BY DEF InSplitter, NestedIsSource
  <1>8. InCombiner(priv) => NestedIsSource
    <2>1. priv.objList \in Seq(ObjectRecord)
      BY <1>1, SocketsOf DEF Good
    <2>2. QED
      BY <2>1 DEF InCombiner, NestedIsSource, NULL
  <1> HIDE DEF q
  <1>9. Endpoints(priv') /\ nested
    BY <1>3, <1>4, <1>5, <1>6, <1>7, <1>8
  <1>10. ConnectionInv'
    BY <1>2, <1>3, <1>9 DEF ConnectionInv
  <1>11. QED
    BY <1>9, <1>10 DEF JobsInv

LEMMA EndNestedJobs ==
  ASSUME TypeInv, JobsInv, ParseInvalidNestedSocket \/ EndNested
  PROVE  JobsInv'
  <1>1. priv' = priv /\ doc'.pair = doc.pair /\ pc = "nested" /\ pc' \in {"nested", "socket"}
    BY DEF ParseInvalidNestedSocket, EndNested, TypeInv, DocFields
  <1>2. Endpoints(priv') /\ ConnectionInv'
    BY <1>1 DEF JobsInv, ConnectionInv
  <1>3. QED
    BY <1>2 DEF JobsInv

LEMMA ParseSocketJobs ==
  ASSUME CombinersAreLocal, TypeInv, JobsInv, ParseSocket
  PROVE  JobsInv'
  BY ParseNetworkSocketJobs, ParseLocalSocketJobs, ParseSplitterInJobs, ParseSplitterOutJobs,
     ParseCombinerJobs, ParseNestedSocketJobs, EndNestedJobs DEF ParseSocket

\* A connection starts with the clock that the node declares, if any.
LEMMA ParseConnectionJobs ==
  ASSUME TypeInv, JobsInv, NEW pair \in SocketPairs, ParseConnection(pair)
  PROVE  JobsInv'
  <1> DEFINE q == ClearedConnection
             rmckPort == priv.nodeData["rmckPort"]
             c == q.conData
             open == {}
  <1>1. Good(priv) /\ Endpoints(priv)
    BY DEF TypeInv, Good, JobsInv
  <1>2. priv' = q /\ pc' = "socket" /\ doc'.pair = pair
    BY DEF ParseConnection, ClearedConnection, TypeInv, DocFields
  <1>3. /\ q.pRtLst = priv.pRtLst /\ q.objList = priv.objList
        /\ c.inSocket = NULL /\ c.outSocket = NULL /\ c.combiner = NULL /\ c.splitter = NULL
        /\ c.sockCnt = 0
        /\ c.jobList = IF rmckPort = NULL THEN <<>> ELSE <<rmckPort>>
    BY <1>1, ClearedConnectionFields DEF SameLists
  <1>4. rmckPort # NULL =>
          /\ rmckPort \in DOMAIN priv.objList
          /\ priv.objList[rmckPort].kind = "rmckPort" /\ priv.objList[rmckPort].refs = {}
    BY <1>1 DEF Good, Pointers, Ports, Object
  <1> HIDE DEF q, rmckPort
  <1>5. Endpoints(q)
    BY <1>1, <1>3 DEF Endpoints
  <1>6. JobListOK(q.objList, c.jobList, open) /\ NoPorts(q)
    <2>1. CASE rmckPort = NULL
      <3>1. c.jobList = <<>>
        BY <1>3, <2>1
      <3>2. QED
        BY <3>1 DEF JobListOK, NoPorts, ToSet
    <2>2. CASE rmckPort # NULL
      <3>1. /\ c.jobList = <<rmckPort>> /\ q.objList[rmckPort].kind = "rmckPort"
            /\ q.objList[rmckPort].refs = {} /\ rmckPort \in DOMAIN q.objList
        BY <1>3, <1>4, <2>2
      <3>2. \A S, x, s : x \in S /\ s = <<x>> => s \in Seq(S) /\ DOMAIN s = {1} /\ s[1] = x
        OBVIOUS
      <3>3. c.jobList \in Seq(DOMAIN q.objList) /\ DOMAIN c.jobList = {1} /\ c.jobList[1] = rmckPort
        BY <3>1, <3>2
      <3>4. QED
        BY <3>1, <3>3 DEF JobListOK, NoPorts, ToSet, Ports
    <2>3. QED
      BY <2>1, <2>2
  <1>7. Fresh(q)
    BY <1>3, <1>6 DEF Fresh, open
  <1>8. ConnectionInv'
    BY <1>2, <1>3, <1>7 DEF ConnectionInv
  <1>9. QED
    BY <1>2, <1>5, <1>8 DEF JobsInv

\* The other elements leave the endpoints alone.
LEMMA OtherJobs ==
  ASSUME JobsInv, NEW p, p.pRtLst = priv.pRtLst, Kept(priv.objList, p.objList, {}), priv' = p,
         pc' \notin {"socket", "nested"}
  PROVE  JobsInv'
  <1>1. Endpoints(priv')
    BY EndpointsGrow DEF JobsInv
  <1>2. ConnectionInv'
    BY DEF ConnectionInv
  <1>3. QED
    BY <1>1, <1>2 DEF JobsInv

LEMMA InitJobsInv == Init => JobsInv
  BY NoDataGood DEF Init, JobsInv, Endpoints, ConnectionInv

LEMMA NextJobsInv ==
  ASSUME CombinersAreLocal, TypeInv, JobsInv, [Next]_vars
  PROVE  JobsInv'
  <1>1. Good(priv) /\ priv.objList \in Seq(ObjectRecord)
    BY SocketsOf DEF TypeInv, Good
  <1>2. Kept(priv.objList, priv.objList, {})
    BY <1>1, KeptSelf
  <1>3. ASSUME NEW names \in NodePorts, ParseNode(names) PROVE JobsInv'
    <2> DEFINE p == ClearedNode
    <2>1. /\ Good(p) /\ p.pRtLst = priv.pRtLst /\ p.objList = priv.objList
          /\ priv' = NewPorts(p, names) /\ names \in Seq(Ports) /\ pc' = "connection"
      BY <1>1, <1>3, ClearedNodeGood, XmlAssumption DEF ParseNode, ClearedNode
    <2> HIDE DEF p
    <2>2. PortStep(p, priv')
      BY <2>1, NewPortsStep DEF Good
    <2>3. priv'.pRtLst = priv.pRtLst /\ Kept(priv.objList, priv'.objList, {})
      BY <2>1, <2>2 DEF PortStep
    <2>4. QED
      BY <2>1, <2>3, OtherJobs
  <1>4. ASSUME NEW link \in Links \cup {NULL}, EndConnection(link) PROVE JobsInv'
    <2>1. \/ Error
          \/ (priv' = priv \/ priv' = StoreDriverInfo(priv, link)) /\ pc' = "connection"
      BY <1>4 DEF EndConnection
    <2>2. /\ StoreDriverInfo(priv, link).objList = priv.objList
          /\ StoreDriverInfo(priv, link).pRtLst = priv.pRtLst
      BY <1>1, DriversGood DEF StoreDriverInfo
    <2>3. QED
      BY <1>2, <2>1, <2>2, OtherJobs, ErrorJobs
  <1>5. ASSUME NEW link \in Links, NEW kinds \in DriverKinds, ParseDriver(link, kinds)
        PROVE  JobsInv'
    <2>1. \/ Error
          \/ priv' = [priv EXCEPT !.drvInfLst = Expand(@, link, kinds)] /\ pc' = "drivers"
      BY <1>5 DEF ParseDriver
    <2>2. CASE priv' = [priv EXCEPT !.drvInfLst = Expand(@, link, kinds)] /\ pc' = "drivers"
      <3>1. priv'.objList = priv.objList /\ priv'.pRtLst = priv.pRtLst
        BY <1>1, <2>2, DriversGood
      <3>2. QED
        BY <1>2, <2>2, <3>1, OtherJobs
    <2>3. QED
      BY <2>1, <2>2, ErrorJobs
  <1>6. CASE EndNode \/ ParseRoutes \/ FillDriverArray
    <2>1. priv' = priv /\ pc' \notin {"socket", "nested"}
      BY <1>6 DEF EndNode, ParseRoutes, FillDriverArray
    <2>2. QED
      BY <1>2, <2>1, OtherJobs
  <1>7. CASE Fail
    BY <1>7, ErrorJobs DEF Fail
  <1>8. CASE UNCHANGED vars
    BY <1>8 DEF vars, JobsInv, ConnectionInv
  <1>9. QED
    BY <1>3, <1>4, <1>5, <1>6, <1>7, <1>8, ParseSocketJobs, ParseConnectionJobs DEF Next, ParseAll

-----------------------------------------------------------------------------
(* The properties. *)

\* Distinct jobs are as many as the list is long.
LEMMA DistinctJobs ==
  ASSUME NEW S, NEW jobs \in Seq(S), \A i, j \in DOMAIN jobs : jobs[i] = jobs[j] => i = j
  PROVE  Cardinality(ToSet(jobs)) = Len(jobs)
  <1> DEFINE n == Len(jobs)
  <1>1. n \in Nat /\ DOMAIN jobs = 1 .. n
    OBVIOUS
  <1>2. jobs \in Bijection(1 .. n, ToSet(jobs))
    <2>1. jobs \in [1 .. n -> ToSet(jobs)]
      BY <1>1 DEF ToSet
    <2>2. jobs \in Injection(1 .. n, ToSet(jobs))
      BY <1>1, <2>1 DEF Injection, IsInjective
    <2>3. jobs \in Surjection(1 .. n, ToSet(jobs))
      BY <1>1, <2>1 DEF Surjection, ToSet
    <2>4. QED
      BY <2>2, <2>3 DEF Bijection
  <1>3. ExistsBijection(1 .. n, ToSet(jobs))
    BY <1>2 DEF ExistsBijection
  <1> HIDE DEF n
  <1>4. Cardinality(ToSet(jobs)) = n
    BY <1>1, <1>3, FS_CountingElements
  <1>5. QED
    BY <1>4 DEF n

LEMMA JobsInvIsInOrder == JobsInv => JobsInOrder
  <1>1. SUFFICES ASSUME JobsInv, NEW r \in DOMAIN priv.pRtLst
                 PROVE  LET jobs == priv.pRtLst[r].ep.jobs IN
                        /\ \A i \in DOMAIN jobs :
                             /\ priv.objList[jobs[i]].refs \subseteq {jobs[k] : k \in 1 .. i - 1}
                             /\ priv.objList[jobs[i]].kind = "Connection" <=> i = Len(jobs)
                        /\ Cardinality(ToSet(jobs)) = Len(jobs)
    BY DEF JobsInOrder
  <1> DEFINE jobs == priv.pRtLst[r].ep.jobs
             obj == priv.objList
  <1>2. EndpointOK(obj, jobs)
    BY <1>1 DEF JobsInv, Endpoints
  <1> HIDE DEF jobs, obj
  <1>3. Cardinality(ToSet(jobs)) = Len(jobs)
    BY <1>2, DistinctJobs DEF EndpointOK
  <1>4. \A i \in DOMAIN jobs :
          /\ obj[jobs[i]].refs \subseteq {jobs[k] : k \in 1 .. i - 1}
          /\ obj[jobs[i]].kind = "Connection" <=> i = Len(jobs)
    BY <1>2 DEF EndpointOK
  <1>5. QED
    BY <1>3, <1>4 DEF jobs, obj

LEMMA JobsInvIsUsed == JobsInv => JobsAreUsed
  <1>1. SUFFICES ASSUME JobsInv, NEW r \in DOMAIN priv.pRtLst
                 PROVE  LET jobs == priv.pRtLst[r].ep.jobs IN
                        \A i \in 1 .. Len(jobs) - 1 :
                          \/ priv.objList[jobs[i]].kind \in Ports
                          \/ \E k \in i + 1 .. Len(jobs) : jobs[i] \in priv.objList[jobs[k]].refs
    BY DEF JobsAreUsed
  <1> DEFINE jobs == priv.pRtLst[r].ep.jobs
             obj == priv.objList
  <1>2. EndpointOK(obj, jobs)
    BY <1>1 DEF JobsInv, Endpoints
  <1> HIDE DEF jobs, obj
  <1>3. \A i \in 1 .. Len(jobs) - 1 : i \in DOMAIN jobs /\ i # Len(jobs)
    BY <1>2 DEF EndpointOK
  <1>4. \A i \in 1 .. Len(jobs) - 1 :
          \/ obj[jobs[i]].kind \in Ports
          \/ \E k \in i + 1 .. Len(jobs) : jobs[i] \in obj[jobs[k]].refs
    BY <1>2, <1>3 DEF EndpointOK
  <1>5. QED
    BY <1>4 DEF jobs, obj

\* ParseSocket, AddJob and the connection in UcsXml.c: if a combiner joins NetworkSockets to a
\* local socket, the jobs of every endpoint can be executed from the first to the last, whatever
\* the document and however long it is: each finds what it points to, none comes twice.
THEOREM XmlJobsInOrder ==
  ASSUME CombinersAreLocal
  PROVE  Spec => []JobsInOrder
  <1>1. Init => TypeInv /\ JobsInv
    BY InitTypeInv, InitJobsInv
  <1>2. TypeInv /\ JobsInv /\ [Next]_vars => (TypeInv /\ JobsInv)'
    BY NextTypeInv, NextJobsInv
  <1>3. TypeInv /\ JobsInv => JobsInOrder
    BY JobsInvIsInOrder
  <1>4. QED
    BY <1>1, <1>2, <1>3, PTL DEF Spec

\* The same for what an endpoint creates: every job but a port or a clock is used by a later one.
THEOREM XmlJobsAreUsed ==
  ASSUME CombinersAreLocal
  PROVE  Spec => []JobsAreUsed
  <1>1. Init => TypeInv /\ JobsInv
    BY InitTypeInv, InitJobsInv
  <1>2. TypeInv /\ JobsInv /\ [Next]_vars => (TypeInv /\ JobsInv)'
    BY NextTypeInv, NextJobsInv
  <1>3. TypeInv /\ JobsInv => JobsAreUsed
    BY JobsInvIsUsed
  <1>4. QED
    BY <1>1, <1>2, <1>3, PTL DEF Spec

-----------------------------------------------------------------------------
(* What the document says of its network sockets, and what the endpoints got. *)

\* No other socket changes them.
LEMMA WordsKept ==
  ASSUME NEW p, HasFields(p), NEW x
  PROVE  /\ SameWords(p.conData, AddJob(p, x).conData)
         /\ SameWords(p.conData, Counted(p).conData)
         /\ SameWords(p.conData, Combiner(p).conData)
         /\ SameWords(p.conData, CombinerOut(p).conData)
         /\ SameWords(p.conData, SplitterIn(p).conData)
         /\ SameWords(p.conData, DeepCopyJobList(p, x).conData)
  <1>1. SameWords(p.conData, AddJob(p, x).conData)
    BY DEF AddJob, HasFields, DataFields, ConnectionFields, SameWords
  <1>2. SameWords(p.conData, Counted(p).conData)
    BY DEF Counted, HasFields, DataFields, ConnectionFields, SameWords
  <1>3. SameWords(p.conData, Combiner(p).conData)
    BY DEF Combiner, HasFields, DataFields, ConnectionFields, SameWords
  <1>4. SameWords(p.conData, CombinerOut(p).conData)
    BY DEF CombinerOut, HasFields, DataFields, ConnectionFields, SameWords
  <1>5. SameWords(p.conData, SplitterIn(p).conData)
    BY DEF SplitterIn, HasFields, DataFields, ConnectionFields, SameWords
  <1>6. SameWords(p.conData, DeepCopyJobList(p, x).conData)
    BY DEF DeepCopyJobList, HasFields, DataFields, ConnectionFields, SameWords
  <1>7. QED
    BY <1>1, <1>2, <1>3, <1>4, <1>5, <1>6

LEMMA WordsOfJobs ==
  ASSUME NEW p, HasFields(p), NEW x, NEW q, q = AddJobIf(p, x # NULL, x)
  PROVE  SameWords(p.conData, q.conData)
  <1>1. CASE x # NULL
    BY <1>1, WordsKept DEF AddJobIf
  <1>2. CASE x = NULL
    BY <1>2 DEF AddJobIf, SameWords
  <1>3. QED
    BY <1>1, <1>2

LEMMA WordsOfTarget ==
  ASSUME NEW p, HasFields(p), NEW isSource \in BOOLEAN, NEW x, NEW q, q = SetTarget(p, isSource, x)
  PROVE  SameWords(p.conData, q.conData)
  BY DEF SetTarget, HasFields, DataFields, ConnectionFields, SameWords

LEMMA WordsOfSplitter ==
  ASSUME NEW p, HasFields(p), NEW q, q = SplitterOut(p)
  PROVE  SameWords(p.conData, q.conData)
  <1> DEFINE new == LastObject(p) + 1
             o == GetSplitter({p.conData.inSocket})
             t == [p EXCEPT !.objList = Append(@, o), !.conData.inSocket = new]
  <1>1. q = AddJob(t, new)
    BY DEF SplitterOut
  <1>2. ASSUME NEW u, u = t PROVE HasFields(u) /\ SameWords(p.conData, u.conData)
    <2> HIDE DEF o, new
    <2>1. QED
      BY <1>2 DEF HasFields, DataFields, ConnectionFields, SameWords
  <1>3. HasFields(t) /\ SameWords(p.conData, t.conData)
    BY <1>2
  <1> HIDE DEF t, new
  <1>4. SameWords(t.conData, q.conData)
    BY <1>1, <1>3, WordsKept
  <1>5. QED
    BY <1>3, <1>4 DEF SameWords

LEMMA WordsOfLocalSocket ==
  ASSUME NEW p, Good(p), NEW isSource \in BOOLEAN, NEW kind \in LocalSockets, NEW pin,
         NEW q, q = LocalSocket(p, isSource, kind, pin)
  PROVE  SameWords(p.conData, q.conData)
  <1> DEFINE ports == CreatePorts(p, PortsOf(kind))
             ids == PortIds(ports, kind)
             new == LastObject(ports) + 1
             socket == GetSocket(kind, ids, pin)
             listed == [ports EXCEPT !.conData.jobList = @ \o ids,
                                     !.objList = Append(@, socket)]
             target == SetTarget(listed, isSource, new)
  <1>1. q = AddJob(target, new)
    BY DEF LocalSocket, PortIds
  <1>2. HasFields(ports) /\ ports.conData = p.conData
    BY CreatePortsStep DEF PortStep, Good
  <1> HIDE DEF ports
  <1>3. ASSUME NEW t, t = listed
        PROVE  HasFields(t) /\ SameWords(p.conData, t.conData)
    <2> HIDE DEF ids, socket
    <2>1. QED
      BY <1>2, <1>3 DEF HasFields, DataFields, ConnectionFields, SameWords
  <1>4. HasFields(listed) /\ SameWords(p.conData, listed.conData)
    BY <1>3
  <1> HIDE DEF listed, new
  <1>5. HasFields(target) /\ SameWords(listed.conData, target.conData)
    BY <1>4, TargetSet, WordsOfTarget
  <1> HIDE DEF target
  <1>6. SameWords(target.conData, q.conData)
    BY <1>1, <1>5, WordsKept
  <1>7. QED
    BY <1>4, <1>5, <1>6 DEF SameWords

LEMMA WordsOfNetworkSocket ==
  ASSUME NEW p, HasFields(p), NEW isSource \in BOOLEAN, NEW a, NEW q, q = NetworkSocket(p, isSource, a)
  PROVE  WordsRead(p.conData, q.conData, a)
  <1> DEFINE c == p.conData
             new == LastObject(p) + 1
             inSplitter == c.combiner = NULL /\ c.splitter # NULL
             read == [p EXCEPT !.objList = Append(@, GetNetworkSocket),
                        !.conData.labelNormal = IF a.label # NULL THEN a.label ELSE @,
                        !.conData.routeName = IF a.label # NULL THEN @ ELSE a.route,
                        !.conData.labelFallback = IF a.fallback # NULL THEN a.fallback ELSE @,
                        !.conData.isDeactivated = ~a.active,
                        !.conData.routeId = a.id]
             target == IF inSplitter THEN [read EXCEPT !.objList[c.splitter].refs = {new}]
                                     ELSE SetTarget(read, isSource, new)
             t1 == AddJobIf(target, c.combiner # NULL, c.combiner)
             t2 == AddJob(t1, new)
             t3 == AddJobIf(t2, c.splitter # NULL, c.splitter)
  <1>1. q = t3
    BY DEF NetworkSocket
  <1>2. HasFields(read) /\ WordsRead(c, read.conData, a)
    BY DEF HasFields, DataFields, ConnectionFields, WordsRead
  <1> HIDE DEF read
  <1>3. HasFields(target) /\ SameWords(read.conData, target.conData)
    <2>1. CASE inSplitter
      <3>1. ASSUME NEW t, t = [read EXCEPT !.objList[c.splitter].refs = {new}]
            PROVE  HasFields(t) /\ t.conData = read.conData
        BY <1>2, <3>1 DEF HasFields, DataFields
      <3>2. target = [read EXCEPT !.objList[c.splitter].refs = {new}]
        BY <2>1
      <3> HIDE DEF target
      <3>3. QED
        BY <3>1, <3>2 DEF SameWords
    <2>2. CASE ~inSplitter
      <3>1. target = SetTarget(read, isSource, new)
        BY <2>2
      <3> HIDE DEF target, inSplitter, new
      <3>2. QED
        BY <1>2, <3>1, TargetSet, WordsOfTarget
    <2>3. QED
      BY <2>1, <2>2
  <1> HIDE DEF target, c, new
  <1>4. HasFields(t1) /\ SameWords(target.conData, t1.conData)
    BY <1>3, JobAppendedIf, WordsOfJobs
  <1> HIDE DEF t1
  <1>5. HasFields(t2) /\ SameWords(t1.conData, t2.conData)
    BY <1>4, JobAppended, WordsKept
  <1> HIDE DEF t2
  <1>6. SameWords(t2.conData, t3.conData)
    BY <1>5, WordsOfJobs
  <1> HIDE DEF t3
  <1>7. SameWords(read.conData, q.conData)
    BY <1>1, <1>3, <1>4, <1>5, <1>6 DEF SameWords
  <1>8. QED
    BY <1>2, <1>7 DEF WordsRead, SameWords, c

\* The next socket shows only what it says itself.
LEMMA HeardSocket ==
  ASSUME NEW a \in Attributes, NEW c, NEW d, NothingShows(c, a), WordsRead(c, d, a)
  PROVE  Heard(d, a)
  BY DEF NothingShows, WordsRead, Heard

LEMMA NothingLeftShows ==
  ASSUME NEW c, NothingLeft(c), NEW a
  PROVE  NothingShows(c, a)
  BY DEF NothingLeft, NothingShows

LEMMA SaidFields ==
  ASSUME TypeInv, NEW isSource \in BOOLEAN, NEW a \in Attributes, NEW s, s = Said(isSource, a)
  PROVE  /\ s \in SaidRecord /\ s.says = a /\ s.isTalker = ~isSource
         /\ s.node = ucs.nodSize + 1
  <1>1. ucs.nodSize + 1 \in Nat \ {0}
    BY XmlAssumption DEF TypeInv
  <1> DEFINE node == ucs.nodSize + 1
  <1>2. s = [says |-> a, isTalker |-> ~isSource, node |-> node] /\ node \in Nat \ {0}
    BY <1>1 DEF Said
  <1> HIDE DEF node
  <1>3. QED
    BY <1>2 DEF SaidRecord, node

LEMMA OneSaid ==
  ASSUME NEW sockets \in Seq(SaidRecord), NEW s \in SaidRecord, NEW all, all = sockets \o <<s>>
  PROVE  /\ all \in Seq(SaidRecord) /\ Len(all) = Len(sockets) + 1 /\ all[Len(all)] = s
         /\ \A i \in 1 .. Len(sockets) : all[i] = sockets[i]
  <1> DEFINE S == SaidRecord
  <1> HIDE DEF S
  <1>1. sockets \in Seq(S) /\ s \in S
    BY DEF S
  <1>2. /\ all \in Seq(S) /\ Len(all) = Len(sockets) + 1 /\ all[Len(all)] = s
        /\ \A i \in 1 .. Len(sockets) : all[i] = sockets[i]
    BY <1>1
  <1>3. QED
    BY <1>2 DEF S

\* A connection adds an endpoint that is what its network socket says.
LEMMA ConnectRoute ==
  ASSUME NEW p, Good(p), Complete(p), NEW q, q = Connect(p),
         NEW s \in SaidRecord, Heard(p.conData, s.says), s.says \in Attributes,
         s.isTalker <=> NetworkIsOutput(p), s.node = ucs.nodSize + 1
  PROVE  \E route : AsSaid(route, s) /\ q.pRtLst = Append(p.pRtLst, route)
  <1> DEFINE c == p.conData
             a == s.says
             joined == Joined(p)
             route == [isTalker |-> NetworkIsOutput(p), isActive |-> ~c.isDeactivated,
                       routeId |-> c.routeId, routeName |-> c.routeName,
                       labelNormal |-> IF c.routeName # NULL THEN NULL ELSE c.labelNormal,
                       labelFallback |-> c.labelFallback,
                       ep |-> [node |-> ucs.nodSize + 1, jobs |-> GetJobList(joined)]]
  <1>1. q = [joined EXCEPT !.pRtLst = Append(@, route)]
    BY DEF Connect, Joined, AddRoute
  <1>2. HasFields(joined) /\ SameLists(p, joined)
    BY JoinedFields DEF Good
  <1> DEFINE jobs == joined.conData.jobList
  <1>3. jobs # <<>>
    <2> DEFINE new == LastObject(p) + 1
               T == DOMAIN p.objList \cup {new}
    <2>1. c.jobList \in Seq(T) /\ new \in T
      BY SocketsOf DEF Good
    <2>2. jobs = Append(c.jobList, new)
      BY JoinedFields DEF Good
    <2> HIDE DEF T, new, c, jobs
    <2>3. QED
      BY <2>1, <2>2
  <1>4. route.ep.jobs = jobs
    BY DEF GetJobList
  <1>5. /\ route.routeId = c.routeId /\ route.routeName = c.routeName
        /\ route.labelNormal = IF c.routeName # NULL THEN NULL ELSE c.labelNormal
        /\ route.labelFallback = c.labelFallback /\ route.ep.node = ucs.nodSize + 1
        /\ route.isTalker = NetworkIsOutput(p) /\ route.isActive = ~c.isDeactivated
    OBVIOUS
  <1> HIDE DEF route, joined
  <1>6. q.pRtLst = Append(p.pRtLst, route)
    BY <1>1, <1>2 DEF HasFields, DataFields, SameLists
  <1>7. /\ a.label = NULL => a.route # NULL
        /\ a.active \in BOOLEAN /\ s.isTalker \in BOOLEAN
    BY XmlAssumption DEF Attribute, SaidRecord
  <1>8. route.isTalker = s.isTalker
    BY <1>5, <1>7 DEF NetworkIsOutput
  <1>9. route.isActive = a.active
    BY <1>5, <1>7 DEF Heard
  <1>10. /\ route.routeId = a.id /\ route.routeName = IF a.label # NULL THEN NULL ELSE a.route
        /\ route.labelNormal = a.label /\ route.labelFallback = a.fallback
    BY <1>5, <1>7 DEF Heard
  <1>11. AsSaid(route, s)
    BY <1>3, <1>4, <1>5, <1>8, <1>9, <1>10 DEF AsSaid
  <1>12. QED
    BY <1>6, <1>11

LEMMA SameGrows ==
  ASSUME NEW p, Good(p), NEW q, NEW route, q.pRtLst = Append(p.pRtLst, route),
         NEW sockets, Len(sockets) = Len(p.pRtLst) + 1,
         \A i \in DOMAIN p.pRtLst : AsSaid(p.pRtLst[i], sockets[i]),
         AsSaid(route, sockets[Len(sockets)])
  PROVE  Same(q, sockets)
  <1> DEFINE list == p.pRtLst
             S == ToSet(list)
             n == Len(list)
  <1>1. list \in Seq(S)
    BY DEF Good, Pointers
  <1> HIDE DEF S
  <1>2. n \in Nat /\ DOMAIN list = 1 .. n
    BY <1>1
  <1>3. /\ Len(Append(list, route)) = n + 1 /\ DOMAIN Append(list, route) = 1 .. n + 1
        /\ Append(list, route)[n + 1] = route
        /\ \A i \in 1 .. n : Append(list, route)[i] = list[i]
    <2> DEFINE T == S \cup {route}
    <2>1. list \in Seq(T) /\ route \in T
      BY <1>1
    <2> HIDE DEF T, list
    <2>2. QED
      BY <2>1 DEF n
  <1> HIDE DEF list, n
  <1>4. \A i \in 1 .. n + 1 : i \in 1 .. n \/ i = n + 1
    BY <1>2
  <1>5. \A i \in DOMAIN q.pRtLst : AsSaid(q.pRtLst[i], sockets[i])
    BY <1>2, <1>3, <1>4 DEF list, n
  <1>6. Len(sockets) = Len(q.pRtLst)
    BY <1>3 DEF list, n
  <1>7. QED
    BY <1>5, <1>6 DEF Same

\* The first socket.
LEMMA FirstNetworkSays ==
  ASSUME NEW p, Good(p), NothingRead(p), NEW isSource \in BOOLEAN, NEW a \in Attributes,
         NEW q, q = NetworkSocket(p, isSource, a)
  PROVE  /\ q.pRtLst = p.pRtLst /\ q.conData.sockCnt = p.conData.sockCnt
         /\ isSource => NetworkRead(q, a)
  <1> DEFINE c == p.conData
             d == q.conData
             new == LastObject(p) + 1
  <1>1. c.inSocket = NULL /\ c.outSocket = NULL /\ c.combiner = NULL /\ c.splitter = NULL
        /\ NothingLeft(c)
    BY DEF NothingRead
  <1>2. SocketStep(p, q, isSource, new) /\ q.objList[new] = GetNetworkSocket
    BY <1>1, NetworkSocketStep
  <1>3. Heard(d, a)
    <2>1. WordsRead(c, d, a)
      BY WordsOfNetworkSocket DEF Good
    <2>2. QED
      BY <1>1, <2>1, NothingLeftShows, HeardSocket
  <1> HIDE DEF new
  <1>4. /\ new # NULL /\ q.pRtLst = p.pRtLst /\ d.sockCnt = c.sockCnt
        /\ d.inSocket = IF isSource THEN new ELSE NULL
        /\ d.outSocket = IF isSource THEN NULL ELSE new
        /\ d.combiner = NULL
    BY <1>1, <1>2 DEF SocketStep
  <1>5. KindOf(q, new) = "NetworkSocket"
    BY <1>2, NetworkKind DEF KindOf
  <1>6. QED
    BY <1>3, <1>4, <1>5 DEF NetworkRead

\* The new socket is of its kind.
LEMMA LocalSocketKind ==
  ASSUME NEW p, Good(p), NEW isSource \in BOOLEAN, NEW kind \in LocalSockets,
         NEW pin \in DOMAIN PortsOf(kind), NEW q, q = LocalSocket(p, isSource, kind, pin)
  PROVE  \E new :
           /\ SocketStep(p, q, isSource, new) /\ KindOf(q, new) = kind
  <1> DEFINE c == p.conData
             ports == CreatePorts(p, PortsOf(kind))
             ids == PortIds(ports, kind)
             socket == GetSocket(kind, ids, pin)
             new == LastObject(ports) + 1
             list == Append(ports.objList, socket)
  <1>1. PortStep(p, ports) /\ \A i \in DOMAIN PortsOf(kind) : ports.nodeData[PortsOf(kind)[i]] # NULL
    BY CreatePortsStep DEF Good
  <1> HIDE DEF socket
  <1>2. LocalSocketRead(p, ports, isSource, kind, pin, q)
    BY <1>1, LocalSocketFields DEF PortStep
  <1> HIDE DEF ports
  <1>3. /\ Pointers(ports) /\ ports.pRtLst = p.pRtLst /\ Kept(p.objList, ports.objList, {})
    BY <1>1 DEF PortStep
  <1>4. socket \in ObjectRecord /\ socket.kind = kind
    BY <1>1, <1>3, SocketOnPorts DEF socket
  <1>5. /\ q.pRtLst = ports.pRtLst /\ q.objList = list
        /\ q.conData.inSocket = IF isSource THEN new ELSE c.inSocket
        /\ q.conData.outSocket = IF isSource THEN c.outSocket ELSE new
        /\ q.conData.combiner = c.combiner /\ q.conData.splitter = c.splitter
        /\ q.conData.sockCnt = c.sockCnt
        /\ q.conData.pendingCombinerSockets = c.pendingCombinerSockets
    BY <1>2 DEF LocalSocketRead, SameLists, socket
  <1>6. ports.objList \in Seq(ObjectRecord)
    BY <1>3, SocketsOf
  <1>7. /\ Kept(ports.objList, list, {}) /\ new \in DOMAIN list /\ new \notin DOMAIN ports.objList
        /\ new # NULL /\ list[new] = socket
    BY <1>4, <1>6, ObjectAdded DEF LastObject
  <1> HIDE DEF list, new, c
  <1>8. Kept(p.objList, list, {}) /\ new \notin DOMAIN p.objList
    BY <1>3, <1>7 DEF Kept
  <1>9. SocketStep(p, q, isSource, new)
    BY <1>3, <1>5, <1>7, <1>8 DEF SocketStep, c
  <1>10. KindOf(q, new) = kind
    BY <1>4, <1>5, <1>7 DEF KindOf
  <1>11. QED
    BY <1>9, <1>10

LEMMA FirstLocalSays ==
  ASSUME NEW p, Good(p), NothingRead(p), NEW isSource \in BOOLEAN, NEW kind \in LocalSockets,
         NEW pin \in DOMAIN PortsOf(kind), NEW q, q = LocalSocket(p, isSource, kind, pin)
  PROVE  /\ q.pRtLst = p.pRtLst /\ q.conData.sockCnt = p.conData.sockCnt
         /\ isSource => LocalRead(q)
  <1>1. PICK new : SocketStep(p, q, isSource, new) /\ KindOf(q, new) = kind
    BY LocalSocketKind
  <1>2. SameWords(p.conData, q.conData)
    BY WordsOfLocalSocket
  <1>3. NothingLeft(q.conData)
    BY <1>2 DEF NothingRead, NothingLeft, SameWords
  <1>4. QED
    BY <1>1, <1>3 DEF SocketStep, NothingRead, LocalRead

LEMMA FirstSplitterSays ==
  ASSUME NEW p, Good(p), NothingRead(p), NEW isSource \in BOOLEAN, NEW a \in Attributes,
         NEW q, q = NetworkSocket(SplitterIn(p), isSource, a)
  PROVE  /\ q.pRtLst = p.pRtLst /\ q.conData.sockCnt = p.conData.sockCnt
         /\ NetworkRead(q, a)
  <1> DEFINE c == p.conData
             r == SplitterIn(p)
             d == q.conData
             new == LastObject(p) + 1
  <1>1. c.inSocket = NULL /\ c.outSocket = NULL /\ c.combiner = NULL /\ c.splitter = NULL
        /\ NothingLeft(c)
    BY DEF NothingRead
  <1>2. /\ HasFields(r) /\ SameLists(p, r) /\ r.conData.sockCnt = c.sockCnt
        /\ r.conData.inSocket = new /\ r.conData.outSocket = NULL
        /\ r.conData.combiner = NULL /\ r.conData.splitter = new
    BY <1>1, SplitterInFields DEF Good
  <1>3. Good(r) /\ SameWords(c, r.conData)
    BY SplitterInPointers, WordsKept DEF Good
  <1>4. new # NULL
    BY SocketsOf, ObjectAdded DEF Good, LastObject, NULL
  <1> HIDE DEF r, new
  <1>5. Good(q) /\ NetworkSocketRead(r, isSource, q)
    BY <1>3, NetworkSocketGood, NetworkSocketFields DEF r, Good
  <1>6. /\ SameLists(r, q) /\ d.inSocket = new /\ d.outSocket = NULL /\ d.combiner = NULL
        /\ d.splitter = new /\ d.sockCnt = r.conData.sockCnt
    BY <1>2, <1>4, <1>5 DEF NetworkSocketRead
  <1>7. KindOf(q, new) = "Splitter"
    BY <1>4, <1>5, <1>6, SocketsOf DEF Good
  <1>8. Heard(d, a)
    <2>1. WordsRead(r.conData, d, a)
      BY <1>2, WordsOfNetworkSocket DEF r
    <2>2. NothingLeft(r.conData)
      BY <1>1, <1>3 DEF NothingLeft, SameWords
    <2>3. QED
      BY <2>1, <2>2, NothingLeftShows, HeardSocket
  <1>9. NetworkRead(q, a)
    BY <1>4, <1>6, <1>7, <1>8 DEF NetworkRead
  <1>10. QED
    BY <1>2, <1>6, <1>9 DEF SameLists

LEMMA FirstCombinerSays ==
  ASSUME NEW p, Good(p), NothingRead(p), NEW q, q = Combiner(p)
  PROVE  /\ q.pRtLst = p.pRtLst /\ q.conData.sockCnt = p.conData.sockCnt
         /\ CombinerRead(q)
  <1>0. LastObject(p) + 1 # NULL
    BY SocketsOf, ObjectAdded DEF Good, LastObject, NULL
  <1>1. SameWords(p.conData, q.conData)
    BY WordsKept DEF Good
  <1>2. NothingLeft(q.conData)
    BY <1>1 DEF NothingRead, NothingLeft, SameWords
  <1> DEFINE new == LastObject(p) + 1
             c == p.conData
             d == q.conData
  <1>3. /\ SameLists(p, q) /\ d.inSocket = c.inSocket /\ d.outSocket = c.outSocket
        /\ d.combiner = new /\ d.splitter = c.splitter
        /\ d.sockCnt = c.sockCnt /\ d.pendingCombinerSockets
    BY CombinerFields DEF Good
  <1>4. new # NULL
    BY <1>0
  <1> HIDE DEF new
  <1>5. CombinerRead(q)
    BY <1>2, <1>3, <1>4 DEF NothingRead, CombinerRead
  <1>6. QED
    BY <1>3, <1>5 DEF SameLists

\* The second socket.
LEMMA SecondNetworkSays ==
  ASSUME TypeInv, NEW p, Good(p), LocalRead(p), NEW isSource \in BOOLEAN, NEW a \in Attributes,
         NEW q, q = NetworkSocket(p, isSource, a), NEW s, s = Said(isSource, a)
  PROVE  ~isSource =>
           /\ Complete(q) /\ ~CombinerPending(q) /\ q.pRtLst = p.pRtLst
           /\ \E route : AsSaid(route, s) /\ Connect(q).pRtLst = Append(p.pRtLst, route)
  <1> DEFINE c == p.conData
             d == q.conData
             new == LastObject(p) + 1
  <1>1. c.inSocket # NULL /\ c.outSocket = NULL /\ c.combiner = NULL /\ c.splitter = NULL
        /\ NothingLeft(c)
    BY DEF LocalRead
  <1>2. SocketStep(p, q, isSource, new) /\ q.objList[new] = GetNetworkSocket
    BY <1>1, NetworkSocketStep
  <1>3. Heard(d, a)
    <2>1. WordsRead(c, d, a)
      BY WordsOfNetworkSocket DEF Good
    <2>2. QED
      BY <1>1, <2>1, NothingLeftShows, HeardSocket
  <1>4. Good(q)
    BY NetworkSocketGood
  <1>5. s \in SaidRecord /\ s.says = a /\ s.isTalker = ~isSource /\ s.node = ucs.nodSize + 1
    BY SaidFields
  <1> HIDE DEF new
  <1>6. /\ new # NULL /\ q.pRtLst = p.pRtLst
        /\ ~isSource => d.inSocket = c.inSocket /\ d.outSocket = new
        /\ d.combiner = NULL
    BY <1>1, <1>2 DEF SocketStep
  <1>7. KindOf(q, new) = "NetworkSocket"
    BY <1>2, NetworkKind DEF KindOf
  <1>8. SUFFICES ASSUME ~isSource
                 PROVE  /\ Complete(q) /\ ~CombinerPending(q) /\ q.pRtLst = p.pRtLst
                        /\ \E route : AsSaid(route, s) /\ Connect(q).pRtLst = Append(p.pRtLst, route)
    OBVIOUS
  <1>9. Complete(q) /\ ~CombinerPending(q) /\ NetworkIsOutput(q)
    BY <1>1, <1>6, <1>7, <1>8 DEF Complete, CombinerPending, NetworkIsOutput
  <1>10. s.isTalker <=> NetworkIsOutput(q)
    BY <1>5, <1>8, <1>9
  <1> HIDE DEF c, d
  <1>11. \E route : AsSaid(route, s) /\ Connect(q).pRtLst = Append(q.pRtLst, route)
    BY <1>3, <1>4, <1>5, <1>9, <1>10, ConnectRoute DEF d
  <1>12. QED
    BY <1>6, <1>9, <1>11

\* The endpoint of the first socket, a network socket.
LEMMA SecondLocalSays ==
  ASSUME TypeInv, NEW p, Good(p), NEW s \in SaidRecord, s.says \in Attributes, NetworkRead(p, s.says),
         ~s.isTalker, s.node = ucs.nodSize + 1,
         NEW isSource \in BOOLEAN, NEW kind \in LocalSockets,
         NEW pin \in DOMAIN PortsOf(kind), NEW q, q = LocalSocket(p, isSource, kind, pin)
  PROVE  ~isSource =>
           /\ Complete(q) /\ ~CombinerPending(q) /\ q.pRtLst = p.pRtLst
           /\ \E route : AsSaid(route, s) /\ Connect(q).pRtLst = Append(p.pRtLst, route)
  <1> DEFINE c == p.conData
             d == q.conData
  <1>1. PICK new : SocketStep(p, q, isSource, new) /\ KindOf(q, new) = kind
    BY LocalSocketKind
  <1>2. SameWords(c, d) /\ Good(q)
    BY WordsOfLocalSocket, LocalSocketPointers
  <1>3. c.inSocket # NULL /\ c.outSocket = NULL /\ c.combiner = NULL /\ Heard(c, s.says)
    BY DEF NetworkRead
  <1>4. Heard(d, s.says)
    BY <1>2, <1>3 DEF Heard, SameWords
  <1>5. /\ new # NULL /\ q.pRtLst = p.pRtLst /\ d.combiner = NULL
        /\ ~isSource => d.inSocket = c.inSocket /\ d.outSocket = new
    BY <1>1, <1>3 DEF SocketStep
  <1>6. SUFFICES ASSUME ~isSource
                 PROVE  /\ Complete(q) /\ ~CombinerPending(q) /\ q.pRtLst = p.pRtLst
                        /\ \E route : AsSaid(route, s) /\ Connect(q).pRtLst = Append(p.pRtLst, route)
    OBVIOUS
  <1>7. Complete(q) /\ ~CombinerPending(q) /\ ~NetworkIsOutput(q)
    BY <1>1, <1>3, <1>5, <1>6 DEF Complete, CombinerPending, NetworkIsOutput, LocalSockets
  <1> HIDE DEF c, d
  <1>8. \E route : AsSaid(route, s) /\ Connect(q).pRtLst = Append(q.pRtLst, route)
    BY <1>2, <1>4, <1>7, ConnectRoute DEF d
  <1>9. QED
    BY <1>5, <1>7, <1>8

\* Two local sockets are refused.
LEMMA TwoLocals ==
  ASSUME NEW p, Good(p), LocalRead(p), NEW isSource \in BOOLEAN, NEW kind \in LocalSockets,
         NEW pin \in DOMAIN PortsOf(kind), NEW q, q = LocalSocket(p, isSource, kind, pin)
  PROVE  ~isSource => Rejected(q)
  <1> DEFINE c == p.conData
             d == q.conData
  <1>1. PICK new : SocketStep(p, q, isSource, new) /\ KindOf(q, new) = kind
    BY LocalSocketKind
  <1>2. /\ new # NULL /\ d.combiner = NULL /\ c.inSocket # NULL
        /\ ~isSource => d.inSocket = c.inSocket /\ d.outSocket = new
    BY <1>1 DEF SocketStep, LocalRead
  <1>3. KindOf(p, c.inSocket) \in LocalSockets /\ c.inSocket \in DOMAIN p.objList
    BY <1>2, SocketsOf DEF LocalRead, Good
  <1>4. KindOf(q, c.inSocket) \in LocalSockets
    BY <1>1, <1>3 DEF SocketStep, Kept, KindOf
  <1>5. ~isSource => /\ Complete(q) /\ ~CombinerPending(q) /\ ~NetworkIsInput(q)
                     /\ ~NetworkIsOutput(q)
    BY <1>1, <1>2, <1>4 DEF Complete, CombinerPending, NetworkIsInput, NetworkIsOutput, LocalSockets
  <1>6. QED
    BY <1>5 DEF Rejected

LEMMA CombinerSays ==
  ASSUME NEW p, Good(p), CombinerRead(p), NEW isSource \in BOOLEAN, NEW kind \in LocalSockets,
         NEW pin \in DOMAIN PortsOf(kind), NEW q, q = LocalSocket(p, isSource, kind, pin),
         NEW r, r = CombinerOut(q)
  PROVE  ~isSource =>
           CombinerPending(q) /\ r.pRtLst = p.pRtLst /\ NestedNext(r) /\ NothingLeft(r.conData)
  <1> DEFINE c == p.conData
             d == q.conData
             e == r.conData
  <1>1. PICK new : SocketStep(p, q, isSource, new) /\ KindOf(q, new) = kind
    BY LocalSocketKind
  <1>2. SameWords(c, d) /\ Good(q)
    BY WordsOfLocalSocket, LocalSocketPointers
  <1>3. /\ new # NULL /\ q.pRtLst = p.pRtLst
        /\ d.combiner = c.combiner /\ c.combiner # NULL /\ d.splitter = NULL
        /\ d.pendingCombinerSockets
        /\ ~isSource => d.outSocket = new
    BY <1>1 DEF SocketStep, CombinerRead
  <1>4. /\ SameLists(q, r) /\ e.outSocket = d.combiner /\ e.combiner = d.combiner
        /\ e.splitter = d.splitter
    BY <1>2, CombinerOutFields DEF Good
  <1>5. SameWords(d, e)
    BY <1>2, WordsKept DEF Good
  <1>6. NothingLeft(e)
    BY <1>2, <1>5 DEF NothingLeft, SameWords, CombinerRead
  <1>7. NestedNext(r)
    BY <1>3, <1>4 DEF NestedNext
  <1>8. ~isSource => CombinerPending(q)
    BY <1>3 DEF CombinerPending
  <1>9. QED
    BY <1>3, <1>4, <1>6, <1>7, <1>8 DEF SameLists

LEMMA SplitterSays ==
  ASSUME NEW p, Good(p), LocalRead(p), NEW q, q = SplitterOut(p)
  PROVE  q.pRtLst = p.pRtLst /\ NestedNext(q) /\ NothingLeft(q.conData)
  <1> DEFINE c == p.conData
             d == q.conData
             new == LastObject(p) + 1
  <1>1. new # NULL
    BY SocketsOf, ObjectAdded DEF Good, LastObject, NULL
  <1>2. SameWords(c, d)
    BY WordsOfSplitter DEF Good
  <1>3. /\ SameLists(p, q) /\ d.inSocket = new /\ d.combiner = c.combiner
        /\ d.splitter = c.splitter
    BY SplitterOutFields DEF Good
  <1> HIDE DEF new
  <1>4. NestedNext(q) /\ NothingLeft(d)
    BY <1>1, <1>2, <1>3 DEF NestedNext, NothingLeft, SameWords, LocalRead
  <1>5. QED
    BY <1>3, <1>4 DEF SameLists

\* A NetworkSocket of a splitter or of a combiner.
LEMMA NestedSays ==
  ASSUME TypeInv, NEW p, Good(p), NestedNext(p), NEW a \in Attributes, NothingShows(p.conData, a),
         NEW isSource \in BOOLEAN, isSource <=> p.conData.combiner # NULL,
         NEW q, q = NetworkSocket(p, isSource, a), NEW s, s = Said(isSource, a),
         NEW r, r = DeepCopyJobList(ConnectIfComplete(q), p)
  PROVE  /\ \E route : AsSaid(route, s) /\ r.pRtLst = Append(p.pRtLst, route)
         /\ NestedNext(r) /\ Heard(r.conData, a)
  <1> DEFINE c == p.conData
             d == q.conData
             e == r.conData
             new == LastObject(p) + 1
             con == Connect(q)
             joined == Joined(q)
  <1>1. c.splitter = NULL
    BY DEF NestedNext
  <1>2. SocketStep(p, q, isSource, new) /\ q.objList[new] = GetNetworkSocket
    BY <1>1, NetworkSocketStep
  <1>3. Good(q) /\ Heard(d, a)
    <2>1. WordsRead(c, d, a)
      BY WordsOfNetworkSocket DEF Good
    <2>2. QED
      BY <2>1, HeardSocket, NetworkSocketGood
  <1>4. s \in SaidRecord /\ s.says = a /\ s.isTalker = ~isSource /\ s.node = ucs.nodSize + 1
    BY SaidFields
  <1> HIDE DEF new
  <1>5. /\ new # NULL /\ q.pRtLst = p.pRtLst
        /\ d.inSocket = IF isSource THEN new ELSE c.inSocket
        /\ d.outSocket = IF isSource THEN c.outSocket ELSE new
        /\ d.combiner = c.combiner /\ d.splitter = NULL
    BY <1>1, <1>2 DEF SocketStep
  <1>6. KindOf(q, new) = "NetworkSocket"
    BY <1>2, NetworkKind DEF KindOf
  <1>7. /\ Complete(q) /\ NestedNext(q)
        /\ isSource => ~NetworkIsOutput(q)
        /\ ~isSource => NetworkIsOutput(q)
    <2>1. CASE isSource
      <3>1. d.inSocket = new /\ d.outSocket = c.combiner /\ c.combiner # NULL
        BY <1>5, <2>1 DEF NestedNext
      <3>2. KindOf(q, d.combiner) = "Combiner"
        BY <1>3, <1>5, <3>1, SocketsOf DEF Good
      <3>3. QED
        BY <1>5, <2>1, <3>1, <3>2 DEF Complete, NetworkIsOutput, NestedNext
    <2>2. CASE ~isSource
      <3>1. d.inSocket = c.inSocket /\ d.outSocket = new /\ c.combiner = NULL /\ c.inSocket # NULL
        BY <1>5, <2>2 DEF NestedNext
      <3>2. QED
        BY <1>5, <1>6, <2>2, <3>1 DEF Complete, NetworkIsOutput, NestedNext
    <2>3. QED
      BY <2>1, <2>2
  <1>8. s.isTalker <=> NetworkIsOutput(q)
    BY <1>4, <1>7
  <1>9. \E route : AsSaid(route, s) /\ con.pRtLst = Append(q.pRtLst, route)
    <2> HIDE DEF con, d
    <2>1. QED
      BY <1>3, <1>4, <1>7, <1>8, ConnectRoute DEF con, d
  <1>10. HasFields(con) /\ con.conData = joined.conData
    BY <1>3, <1>7, ConnectFields
  <1>11. SameSockets(d, joined.conData) /\ SameWords(d, joined.conData)
    <2> DEFINE o == Object("Connection", {d.inSocket, d.outSocket})
               t == [q EXCEPT !.objList = Append(@, o)]
               x == LastObject(q) + 1
    <2>1. SameSockets(d, joined.conData)
      BY <1>3, JoinedFields DEF Good
    <2>2. joined = AddJob(t, x)
      BY DEF Joined
    <2>3. ASSUME NEW u, u = t PROVE HasFields(u) /\ u.conData = d
      <3> HIDE DEF o
      <3>1. QED
        BY <1>3, <2>3 DEF Good, HasFields, DataFields
    <2>4. HasFields(t) /\ t.conData = d
      BY <2>3
    <2> HIDE DEF t, x, joined
    <2>5. SameWords(t.conData, joined.conData)
      BY <2>2, <2>4, WordsKept
    <2>6. QED
      BY <2>1, <2>4, <2>5
  <1>12. r = DeepCopyJobList(con, p)
    BY <1>7 DEF ConnectIfComplete
  <1> HIDE DEF con, joined
  <1>13. SameLists(con, r) /\ SameSockets(con.conData, e) /\ SameWords(con.conData, e)
    BY <1>10, <1>12, CopiedFields, WordsKept
  <1>14. NestedNext(r)
    BY <1>7, <1>10, <1>11, <1>13 DEF NestedNext, SameSockets
  <1>15. Heard(e, a)
    BY <1>3, <1>10, <1>11, <1>13 DEF Heard, SameWords
  <1>16. QED
    BY <1>5, <1>9, <1>13, <1>14, <1>15 DEF SameLists

-----------------------------------------------------------------------------
(* The actions. *)

LEMMA CountedSays ==
  ASSUME TypeInv, NEW p, p = Counted(priv)
  PROVE  /\ Good(p) /\ p.pRtLst = priv.pRtLst /\ p.conData.sockCnt = priv.conData.sockCnt + 1
         /\ p.conData.inSocket = priv.conData.inSocket /\ IsSource \in BOOLEAN
         /\ NothingRead(priv) => NothingRead(p)
         /\ LocalRead(priv) => LocalRead(p)
         /\ CombinerRead(priv) => CombinerRead(p)
         /\ \A a : NetworkRead(priv, a) => NetworkRead(p, a)
  <1> DEFINE c == priv.conData
             d == p.conData
  <1>1. Good(priv) /\ Good(p)
    BY CountedPointers DEF TypeInv, Good
  <1>2. /\ SameLists(priv, p) /\ p.objList = priv.objList /\ SameSockets(c, d)
        /\ d.sockCnt = c.sockCnt + 1 /\ d.pendingCombinerSockets = c.pendingCombinerSockets
    BY <1>1, CountedFields DEF Good
  <1>3. SameWords(c, d)
    BY <1>1, WordsKept DEF Good
  <1> HIDE DEF c, d
  <1>4. NothingLeft(c) => NothingLeft(d)
    BY <1>3 DEF NothingLeft, SameWords
  <1>5. \A a : Heard(c, a) => Heard(d, a)
    BY <1>3 DEF Heard, SameWords
  <1>6. /\ NothingRead(priv) => NothingRead(p)
        /\ LocalRead(priv) => LocalRead(p)
        /\ CombinerRead(priv) => CombinerRead(p)
    BY <1>2, <1>4 DEF NothingRead, LocalRead, CombinerRead, SameSockets, KindOf, c, d
  <1>7. \A a : NetworkRead(priv, a) => NetworkRead(p, a)
    BY <1>2, <1>5 DEF NetworkRead, SameSockets, KindOf, c, d
  <1>8. QED
    BY <1>1, <1>2, <1>6, <1>7 DEF SameLists, SameSockets, IsSource, c, d

LEMMA SaidCases ==
  ASSUME DocumentInv, NEW kind, NextSocket(kind)
  PROVE  SaidAtFirst(kind) \/ SaidAtSecond(kind)
  <1>1. pc = "socket" /\ doc.pair # <<>> /\ Head(doc.pair) = kind
    BY DEF NextSocket
  <1>2. doc.sockets \in Seq(SaidRecord)
    BY <1>1 DEF DocumentInv
  <1>3. CASE /\ doc.pair \in SocketPairs /\ priv.conData.sockCnt = 0 /\ doc.first = <<>>
             /\ NothingRead(priv) /\ Same(priv, doc.sockets)
    BY <1>1, <1>2, <1>3, PairFacts DEF SaidAtFirst, IsSource
  <1>4. ASSUME NEW pair \in SocketPairs, doc.pair = <<pair[2]>>, priv.conData.sockCnt # 0,
               doc.first = <<>>,
               \/ pair[1] \in LocalSockets /\ LocalRead(priv) /\ Same(priv, doc.sockets)
               \/ pair[1] = "Combiner" /\ CombinerRead(priv) /\ Same(priv, doc.sockets)
               \/ /\ pair[1] \in {"NetworkSocket", "Splitter"}
                  /\ OneMore(priv, doc.sockets, ucs.nodSize + 1)
        PROVE  SaidAtSecond(kind)
    <2>1. pair[2] = kind /\ pair = <<pair[1], pair[2]>>
      BY <1>1, <1>4, PairFacts
    <2>2. QED
      BY <1>2, <1>4, <2>1 DEF SaidAtSecond, IsSource
  <1>5. QED
    BY <1>1, <1>3, <1>4 DEF DocumentInv

LEMMA ReadSays ==
  ASSUME TypeInv, NEW sockets, Read(sockets)
  PROVE  /\ doc'.pair = Tail(doc.pair) /\ doc'.sockets = doc.sockets \o sockets
         /\ doc'.first = doc.first
  BY DEF Read, TypeInv, DocFields

LEMMA NothingSaid ==
  ASSUME NEW s \in Seq(SaidRecord)
  PROVE  s \o <<>> = s
  <1> DEFINE S == SaidRecord
  <1>1. s \in Seq(S)
    OBVIOUS
  <1> HIDE DEF S
  <1>2. QED
    BY <1>1

LEMMA ErrorDocument == Error => DocumentInv'
  BY DEF Error, DocumentInv

LEMMA FirstSaid ==
  ASSUME TypeInv, NEW kind, SaidAtFirst(kind), NEW sockets, Read(sockets), pc' = "socket",
         priv'.conData.sockCnt = priv.conData.sockCnt + 1, doc'.sockets \in Seq(SaidRecord),
         \/ kind \in LocalSockets /\ LocalRead(priv') /\ Same(priv', doc'.sockets)
         \/ kind = "Combiner" /\ CombinerRead(priv') /\ Same(priv', doc'.sockets)
         \/ /\ kind \in {"NetworkSocket", "Splitter"}
            /\ OneMore(priv', doc'.sockets, ucs'.nodSize + 1)
  PROVE  DocumentInv'
  <1>1. doc.pair \in SocketPairs /\ doc.pair[1] = kind /\ priv'.conData.sockCnt # 0
    BY DEF SaidAtFirst
  <1>2. doc'.pair = <<doc.pair[2]>> /\ doc'.first = <<>>
    BY <1>1, ReadSays, PairFacts DEF SaidAtFirst
  <1>3. QED
    BY <1>1, <1>2 DEF DocumentInv

LEMMA SecondSaid ==
  ASSUME TypeInv, NEW kind, SaidAtSecond(kind), NEW sockets, Read(sockets),
         doc'.sockets \in Seq(SaidRecord), Same(priv', doc'.sockets),
         \/ pc' = "socket"
         \/ pc' = "nested" /\ NestedNext(priv') /\ NothingLeft(priv'.conData)
  PROVE  DocumentInv'
  <1>1. doc'.pair = <<>> /\ doc'.first = <<>>
    BY ReadSays DEF SaidAtSecond
  <1>2. QED
    BY <1>1 DEF DocumentInv

\* The lists of a connection that is complete, and of one that is not.
LEMMA SameKept ==
  ASSUME NEW p, NEW q, q.pRtLst = p.pRtLst, NEW sockets, Same(p, sockets)
  PROVE  Same(q, sockets)
  BY DEF Same

LEMMA SameAppended ==
  ASSUME NEW p, Good(p), NEW q, NEW sockets \in Seq(SaidRecord), Same(p, sockets),
         NEW s \in SaidRecord, NEW route, AsSaid(route, s), q.pRtLst = Append(p.pRtLst, route)
  PROVE  Same(q, sockets \o <<s>>) /\ sockets \o <<s>> \in Seq(SaidRecord)
  <1> DEFINE all == sockets \o <<s>>
  <1>1. /\ all \in Seq(SaidRecord) /\ Len(all) = Len(sockets) + 1 /\ all[Len(all)] = s
        /\ \A i \in 1 .. Len(sockets) : all[i] = sockets[i]
    BY OneSaid
  <1> HIDE DEF all
  <1>2. DOMAIN p.pRtLst = 1 .. Len(p.pRtLst) /\ Len(p.pRtLst) = Len(sockets)
    <2> DEFINE S == ToSet(p.pRtLst)
    <2>1. p.pRtLst \in Seq(S)
      BY DEF Good, Pointers
    <2> HIDE DEF S
    <2>2. QED
      BY <2>1 DEF Same
  <1>3. \A i \in DOMAIN p.pRtLst : AsSaid(p.pRtLst[i], all[i])
    BY <1>1, <1>2 DEF Same
  <1>4. Same(q, all)
    BY <1>1, <1>2, <1>3, SameGrows
  <1>5. QED
    BY <1>1, <1>4 DEF all

LEMMA OneMoreSaid ==
  ASSUME NEW p, Good(p), NEW q, NEW sockets \in Seq(SaidRecord), Same(p, sockets),
         NEW s \in SaidRecord, q.pRtLst = p.pRtLst, NetworkRead(q, s.says), ~s.isTalker
  PROVE  OneMore(q, sockets \o <<s>>, s.node) /\ sockets \o <<s>> \in Seq(SaidRecord)
  <1> DEFINE all == sockets \o <<s>>
  <1>1. /\ all \in Seq(SaidRecord) /\ Len(all) = Len(sockets) + 1 /\ all[Len(all)] = s
        /\ \A i \in 1 .. Len(sockets) : all[i] = sockets[i]
    BY OneSaid
  <1> HIDE DEF all
  <1>2. DOMAIN p.pRtLst = 1 .. Len(p.pRtLst) /\ Len(p.pRtLst) = Len(sockets)
    <2> DEFINE S == ToSet(p.pRtLst)
    <2>1. p.pRtLst \in Seq(S)
      BY DEF Good, Pointers
    <2> HIDE DEF S
    <2>2. QED
      BY <2>1 DEF Same
  <1>3. \A i \in DOMAIN q.pRtLst : AsSaid(q.pRtLst[i], all[i])
    BY <1>1, <1>2 DEF Same
  <1>4. QED
    BY <1>1, <1>2, <1>3 DEF OneMore, all

LEMMA FinishConnected ==
  ASSUME NEW p, Finish(p), Complete(p), ~CombinerPending(p)
  PROVE  priv' = Connect(p) /\ pc' = "socket" /\ ucs' = ucs
  BY DEF Finish, ConnectIfComplete

LEMMA FinishWaits ==
  ASSUME NEW p, Finish(p), p.conData.outSocket = NULL
  PROVE  priv' = p /\ pc' = "socket" /\ ucs' = ucs
  BY DEF Finish, CombinerPending, ConnectIfComplete, Complete

LEMMA FinishFilled ==
  ASSUME NEW p, Finish(p), CombinerPending(p)
  PROVE  priv' = CombinerOut(p) /\ pc' = "nested" /\ ucs' = ucs
  BY DEF Finish

LEMMA ParseNetworkSocketSays ==
  ASSUME OneNetworkSocket, TypeInv, DocumentInv, NEW a \in Attributes, ParseNetworkSocket(a)
  PROVE  DocumentInv'
  <1> DEFINE p == Counted(priv)
             q == NetworkSocket(p, IsSource, a)
             s == Said(IsSource, a)
  <1>1. /\ Good(p) /\ p.pRtLst = priv.pRtLst /\ p.conData.sockCnt = priv.conData.sockCnt + 1
        /\ IsSource \in BOOLEAN
        /\ NothingRead(priv) => NothingRead(p)
        /\ LocalRead(priv) => LocalRead(p)
    BY CountedSays
  <1>2. NextSocket("NetworkSocket")
    BY DEF ParseNetworkSocket
  <1>3. Error \/ (Finish(q) /\ Read(<<s>>))
    BY DEF ParseNetworkSocket
  <1>4. /\ s \in SaidRecord /\ s.says = a /\ s.isTalker = ~IsSource /\ s.node = ucs.nodSize + 1
    BY <1>1, SaidFields
  <1> HIDE DEF p
  <1>5. NothingRead(p) => /\ q.pRtLst = p.pRtLst /\ q.conData.sockCnt = p.conData.sockCnt
                          /\ IsSource => NetworkRead(q, a)
    BY <1>1, FirstNetworkSays
  <1>6. LocalRead(p) => (~IsSource =>
          /\ Complete(q) /\ ~CombinerPending(q) /\ q.pRtLst = p.pRtLst
          /\ \E route : AsSaid(route, s) /\ Connect(q).pRtLst = Append(p.pRtLst, route))
    BY <1>1, SecondNetworkSays
  <1> HIDE DEF q, s
  <1>7. ASSUME SaidAtFirst("NetworkSocket"), Finish(q), Read(<<s>>) PROVE DocumentInv'
    <2>1. /\ NothingRead(p) /\ IsSource /\ Same(p, doc.sockets) /\ doc.sockets \in Seq(SaidRecord)
      BY <1>1, <1>7, SameKept DEF SaidAtFirst
    <2>2. /\ q.pRtLst = p.pRtLst /\ q.conData.sockCnt = p.conData.sockCnt /\ NetworkRead(q, s.says)
          /\ ~s.isTalker
      BY <1>4, <1>5, <2>1
    <2>3. priv' = q /\ pc' = "socket" /\ ucs' = ucs
      BY <1>7, <2>2, FinishWaits DEF NetworkRead
    <2>4. OneMore(q, doc'.sockets, s.node) /\ doc'.sockets \in Seq(SaidRecord)
      BY <1>1, <1>4, <1>7, <2>1, <2>2, OneMoreSaid, ReadSays
    <2>5. QED
      BY <1>1, <1>4, <1>7, <2>2, <2>3, <2>4, FirstSaid
  <1>8. ASSUME SaidAtSecond("NetworkSocket"), Finish(q), Read(<<s>>) PROVE DocumentInv'
    <2>1. LocalRead(p) /\ ~IsSource /\ Same(p, doc.sockets) /\ doc.sockets \in Seq(SaidRecord)
      <3>1. PICK pair \in SocketPairs :
              /\ pair[2] = "NetworkSocket" /\ pair = <<pair[1], pair[2]>>
              /\ \/ pair[1] \in LocalSockets /\ LocalRead(priv) /\ Same(priv, doc.sockets)
                 \/ pair[1] = "Combiner"
                 \/ pair[1] \in {"NetworkSocket", "Splitter"}
        BY <1>8 DEF SaidAtSecond
      <3>2. pair[1] # "Combiner" /\ pair[1] \notin {"NetworkSocket", "Splitter"}
        BY <3>1 DEF OneNetworkSocket, CombinersAreLocal
      <3>3. QED
        BY <1>1, <1>8, <3>1, <3>2, SameKept DEF SaidAtSecond
    <2>2. /\ Complete(q) /\ ~CombinerPending(q)
          /\ \E route : AsSaid(route, s) /\ Connect(q).pRtLst = Append(p.pRtLst, route)
      BY <1>6, <2>1
    <2>3. priv' = Connect(q) /\ pc' = "socket"
      BY <1>8, <2>2, FinishConnected
    <2>4. Same(priv', doc'.sockets) /\ doc'.sockets \in Seq(SaidRecord)
      BY <1>1, <1>4, <1>8, <2>1, <2>2, <2>3, SameAppended, ReadSays
    <2>5. QED
      BY <1>8, <2>3, <2>4, SecondSaid
  <1>9. QED
    BY <1>2, <1>3, <1>7, <1>8, ErrorDocument, SaidCases

LEMMA ParseLocalSocketSays ==
  ASSUME TypeInv, DocumentInv, NEW kind \in LocalSockets, NEW pin \in DOMAIN PortsOf(kind),
         ParseLocalSocket(kind, pin)
  PROVE  DocumentInv'
  <1> DEFINE p == Counted(priv)
             q == LocalSocket(p, IsSource, kind, pin)
             r == CombinerOut(q)
             none == <<>>
             last == doc.sockets[Len(doc.sockets)]
  <1>1. /\ Good(p) /\ p.pRtLst = priv.pRtLst /\ p.conData.sockCnt = priv.conData.sockCnt + 1
        /\ IsSource \in BOOLEAN
        /\ NothingRead(priv) => NothingRead(p)
        /\ LocalRead(priv) => LocalRead(p)
        /\ CombinerRead(priv) => CombinerRead(p)
        /\ \A a : NetworkRead(priv, a) => NetworkRead(p, a)
    BY CountedSays
  <1>2. NextSocket(kind)
    BY DEF ParseLocalSocket
  <1>3. Error \/ (~Rejected(q) /\ Finish(q) /\ Read(none))
    BY DEF ParseLocalSocket
  <1> HIDE DEF p
  <1>4. NothingRead(p) => /\ q.pRtLst = p.pRtLst /\ q.conData.sockCnt = p.conData.sockCnt
                          /\ IsSource => LocalRead(q)
    BY <1>1, FirstLocalSays
  <1>5. LocalRead(p) => (~IsSource => Rejected(q))
    BY <1>1, TwoLocals
  <1>6. CombinerRead(p) => (~IsSource =>
          CombinerPending(q) /\ r.pRtLst = p.pRtLst /\ NestedNext(r) /\ NothingLeft(r.conData))
    BY <1>1, CombinerSays
  <1>7. /\ last \in SaidRecord /\ last.says \in Attributes /\ NetworkRead(p, last.says)
        /\ ~last.isTalker /\ last.node = ucs.nodSize + 1
        => (~IsSource =>
             /\ Complete(q) /\ ~CombinerPending(q) /\ q.pRtLst = p.pRtLst
             /\ \E route : AsSaid(route, last) /\ Connect(q).pRtLst = Append(p.pRtLst, route))
    BY <1>1, SecondLocalSays
  <1> HIDE DEF q, r
  <1>8. ASSUME SaidAtFirst(kind), Finish(q), Read(none) PROVE DocumentInv'
    <2>1. /\ NothingRead(p) /\ IsSource /\ Same(p, doc.sockets) /\ doc.sockets \in Seq(SaidRecord)
      BY <1>1, <1>8, SameKept DEF SaidAtFirst
    <2>2. /\ q.pRtLst = p.pRtLst /\ q.conData.sockCnt = p.conData.sockCnt /\ LocalRead(q)
      BY <1>4, <2>1
    <2>3. priv' = q /\ pc' = "socket"
      BY <1>8, <2>2, FinishWaits DEF LocalRead
    <2>4. doc'.sockets = doc.sockets
      BY <1>8, <2>1, NothingSaid, ReadSays
    <2>5. Same(priv', doc'.sockets)
      BY <2>1, <2>2, <2>3, <2>4, SameKept
    <2>6. QED
      BY <1>1, <1>8, <2>1, <2>2, <2>3, <2>4, <2>5, FirstSaid
  <1>9. ASSUME SaidAtSecond(kind), ~Rejected(q), Finish(q), Read(none) PROVE DocumentInv'
    <2>1. ~IsSource /\ doc.sockets \in Seq(SaidRecord)
      BY <1>9 DEF SaidAtSecond
    <2>2. doc'.sockets = doc.sockets
      BY <1>9, <2>1, NothingSaid, ReadSays
    <2>3. \/ LocalRead(p)
          \/ CombinerRead(p) /\ Same(p, doc.sockets)
          \/ OneMore(priv, doc.sockets, ucs.nodSize + 1)
      BY <1>1, <1>9, SameKept DEF SaidAtSecond
    <2>4. CASE LocalRead(p)
      BY <1>5, <1>9, <2>1, <2>4
    <2>5. CASE CombinerRead(p) /\ Same(p, doc.sockets)
      <3>1. priv' = r /\ pc' = "nested"
        BY <1>6, <1>9, <2>1, <2>5, FinishFilled DEF r
      <3>2. Same(priv', doc'.sockets) /\ NestedNext(priv') /\ NothingLeft(priv'.conData)
        BY <1>6, <2>1, <2>2, <2>5, <3>1, SameKept
      <3>3. QED
        BY <1>9, <2>1, <2>2, <3>1, <3>2, SecondSaid
    <2>6. CASE OneMore(priv, doc.sockets, ucs.nodSize + 1)
      <3>1. /\ Len(doc.sockets) = Len(p.pRtLst) + 1 /\ NetworkRead(p, last.says)
            /\ \A i \in DOMAIN p.pRtLst : AsSaid(p.pRtLst[i], doc.sockets[i])
            /\ ~last.isTalker /\ last.node = ucs.nodSize + 1
        BY <1>1, <2>6 DEF OneMore
      <3>2. Len(p.pRtLst) \in Nat
        <4> DEFINE S == ToSet(p.pRtLst)
        <4>1. p.pRtLst \in Seq(S)
          BY <1>1 DEF Good, Pointers
        <4> HIDE DEF S
        <4>2. QED
          BY <4>1
      <3>3. last \in SaidRecord /\ last.says \in Attributes
        <4>1. last \in SaidRecord
          <5> DEFINE S == SaidRecord
          <5>1. doc.sockets \in Seq(S) /\ Len(doc.sockets) > 0
            BY <2>1, <3>1, <3>2
          <5> HIDE DEF S
          <5>2. last \in S
            BY <5>1
          <5>3. QED
            BY <5>2 DEF S
        <4>2. QED
          BY <4>1 DEF SaidRecord
      <3>4. PICK route : AsSaid(route, last) /\ Connect(q).pRtLst = Append(p.pRtLst, route)
        BY <1>7, <2>1, <3>1, <3>3
      <3>5. Complete(q) /\ ~CombinerPending(q)
        BY <1>7, <2>1, <3>1, <3>3
      <3>6. priv' = Connect(q) /\ pc' = "socket"
        BY <1>9, <3>5, FinishConnected
      <3>7. Same(priv', doc'.sockets)
        BY <1>1, <2>2, <3>1, <3>4, <3>6, SameGrows
      <3>8. QED
        BY <1>9, <2>1, <2>2, <3>6, <3>7, SecondSaid
    <2>7. QED
      BY <2>3, <2>4, <2>5, <2>6
  <1>10. QED
    BY <1>2, <1>3, <1>8, <1>9, ErrorDocument, SaidCases

LEMMA ParseSplitterInSays ==
  ASSUME TypeInv, DocumentInv, NEW a \in Attributes, ParseSplitterIn(a)
  PROVE  DocumentInv'
  <1> DEFINE p == Counted(priv)
             yes == TRUE
             q == NetworkSocket(SplitterIn(p), yes, a)
             s == Said(yes, a)
  <1>1. /\ Good(p) /\ p.pRtLst = priv.pRtLst /\ p.conData.sockCnt = priv.conData.sockCnt + 1
        /\ NothingRead(priv) => NothingRead(p)
    BY CountedSays
  <1>2. NextSocket("Splitter") /\ IsSource
    BY DEF ParseSplitterIn
  <1>3. Finish(q) /\ Read(<<s>>)
    BY DEF ParseSplitterIn
  <1>4. SaidAtFirst("Splitter")
    BY <1>2, SaidCases DEF SaidAtSecond
  <1>5. yes \in BOOLEAN /\ (~yes <=> FALSE)
    OBVIOUS
  <1> HIDE DEF p, yes
  <1>6. /\ s \in SaidRecord /\ s.says = a /\ s.isTalker = ~yes /\ s.node = ucs.nodSize + 1
    BY <1>5, SaidFields
  <1>7. /\ NothingRead(p) /\ Same(p, doc.sockets) /\ doc.sockets \in Seq(SaidRecord)
    BY <1>1, <1>4, SameKept DEF SaidAtFirst
  <1>8. /\ q.pRtLst = p.pRtLst /\ q.conData.sockCnt = p.conData.sockCnt /\ NetworkRead(q, a)
    BY <1>1, <1>5, <1>7, FirstSplitterSays
  <1>9. ~s.isTalker /\ NetworkRead(q, s.says)
    BY <1>5, <1>6, <1>8
  <1> HIDE DEF q, s
  <1>10. priv' = q /\ pc' = "socket" /\ ucs' = ucs
    BY <1>3, <1>8, FinishWaits DEF NetworkRead
  <1>11. OneMore(q, doc'.sockets, s.node) /\ doc'.sockets \in Seq(SaidRecord)
    BY <1>1, <1>3, <1>6, <1>7, <1>8, <1>9, OneMoreSaid, ReadSays
  <1>12. QED
    BY <1>1, <1>3, <1>4, <1>6, <1>8, <1>10, <1>11, FirstSaid

LEMMA ParseSplitterOutSays ==
  ASSUME OneNetworkSocket, TypeInv, DocumentInv, ParseSplitterOut
  PROVE  DocumentInv'
  <1> DEFINE p == Counted(priv)
             q == SplitterOut(p)
             none == <<>>
  <1>1. /\ Good(p) /\ p.pRtLst = priv.pRtLst
        /\ LocalRead(priv) => LocalRead(p)
    BY CountedSays
  <1>2. NextSocket("Splitter") /\ ~IsSource
    BY DEF ParseSplitterOut
  <1>3. \/ Error
        \/ priv.conData.inSocket # NULL /\ priv' = q /\ pc' = "nested" /\ Read(none)
    BY DEF ParseSplitterOut
  <1>4. SaidAtSecond("Splitter")
    BY <1>2, SaidCases DEF SaidAtFirst
  <1>5. LocalRead(p) => q.pRtLst = p.pRtLst /\ NestedNext(q) /\ NothingLeft(q.conData)
    BY <1>1, SplitterSays
  <1> HIDE DEF p, q
  <1>6. ASSUME priv.conData.inSocket # NULL, priv' = q, pc' = "nested", Read(none)
        PROVE  DocumentInv'
    <2>1. LocalRead(p) /\ Same(p, doc.sockets) /\ doc.sockets \in Seq(SaidRecord)
      <3>1. PICK pair \in SocketPairs :
              /\ pair[2] = "Splitter" /\ pair = <<pair[1], pair[2]>>
              /\ \/ pair[1] \in LocalSockets /\ LocalRead(priv) /\ Same(priv, doc.sockets)
                 \/ pair[1] = "Combiner" /\ CombinerRead(priv)
                 \/ pair[1] \in {"NetworkSocket", "Splitter"}
        BY <1>4 DEF SaidAtSecond
      <3>2. ~CombinerRead(priv) /\ pair[1] \notin {"NetworkSocket", "Splitter"}
        BY <1>6, <3>1 DEF OneNetworkSocket, CombinerRead
      <3>3. QED
        BY <1>1, <1>4, <3>1, <3>2, SameKept DEF SaidAtSecond
    <2>2. doc'.sockets = doc.sockets
      BY <1>6, <2>1, NothingSaid, ReadSays
    <2>3. Same(priv', doc'.sockets) /\ NestedNext(priv') /\ NothingLeft(priv'.conData)
      BY <1>5, <1>6, <2>1, <2>2, SameKept
    <2>4. QED
      BY <1>4, <1>6, <2>1, <2>2, <2>3, SecondSaid
  <1>7. QED
    BY <1>3, <1>6, ErrorDocument

LEMMA ParseCombinerSays ==
  ASSUME TypeInv, DocumentInv, ParseCombiner
  PROVE  DocumentInv'
  <1> DEFINE p == Counted(priv)
             q == Combiner(p)
             none == <<>>
  <1>1. /\ Good(p) /\ p.pRtLst = priv.pRtLst /\ p.conData.sockCnt = priv.conData.sockCnt + 1
        /\ NothingRead(priv) => NothingRead(p)
    BY CountedSays
  <1>2. NextSocket("Combiner")
    BY DEF ParseCombiner
  <1>3. Error \/ (IsSource /\ Finish(q) /\ Read(none))
    BY DEF ParseCombiner
  <1>4. NothingRead(p) => /\ q.pRtLst = p.pRtLst /\ q.conData.sockCnt = p.conData.sockCnt
                          /\ CombinerRead(q)
    BY <1>1, FirstCombinerSays
  <1> HIDE DEF p, q
  <1>5. ASSUME IsSource, Finish(q), Read(none) PROVE DocumentInv'
    <2>1. SaidAtFirst("Combiner")
      BY <1>2, <1>5, SaidCases DEF SaidAtSecond
    <2>2. NothingRead(p) /\ Same(p, doc.sockets) /\ doc.sockets \in Seq(SaidRecord)
      BY <1>1, <2>1, SameKept DEF SaidAtFirst
    <2>3. q.conData.sockCnt = p.conData.sockCnt /\ CombinerRead(q) /\ q.pRtLst = p.pRtLst
      BY <1>4, <2>2
    <2>4. priv' = q /\ pc' = "socket"
      BY <1>5, <2>3, FinishWaits DEF CombinerRead
    <2>5. doc'.sockets = doc.sockets
      BY <1>5, <2>2, NothingSaid, ReadSays
    <2>6. Same(priv', doc'.sockets)
      BY <2>2, <2>3, <2>4, <2>5, SameKept
    <2>7. QED
      BY <1>1, <1>5, <2>1, <2>2, <2>3, <2>4, <2>5, <2>6, FirstSaid
  <1>6. QED
    BY <1>3, <1>5, ErrorDocument

LEMMA ParseNestedSocketSays ==
  ASSUME ~MixedSockets, TypeInv, DocumentInv, NEW a \in Attributes, ParseNestedSocket(a)
  PROVE  DocumentInv'
  <1> DEFINE q == NetworkSocket(priv, NestedIsSource, a)
             r == DeepCopyJobList(ConnectIfComplete(q), priv)
             s == Said(NestedIsSource, a)
             c == priv.conData
  <1>1. Good(priv) /\ NestedIsSource \in BOOLEAN /\ (NestedIsSource <=> c.combiner # NULL)
    BY DEF TypeInv, Good, NestedIsSource
  <1>2. /\ pc = "nested" /\ pc' = "nested" /\ priv' = r /\ SameAttributes(a)
        /\ doc'.pair = doc.pair /\ doc'.first = <<a>> /\ doc'.sockets = Append(doc.sockets, s)
    BY DEF ParseNestedSocket, TypeInv, DocFields
  <1>3. /\ doc.sockets \in Seq(SaidRecord) /\ doc.pair = <<>> /\ NestedNext(priv)
        /\ Same(priv, doc.sockets)
        /\ \/ doc.first = <<>> /\ NothingLeft(c)
           \/ \E b \in Attributes : doc.first = <<b>> /\ NothingShows(c, b)
    BY <1>2 DEF DocumentInv
  <1>4. NothingShows(c, a)
    <2>1. ASSUME NEW b \in Attributes, doc.first = <<b>>, NothingShows(c, b)
          PROVE  NothingShows(c, a)
      <3>1. b \in ToSet(doc.first)
        BY <2>1 DEF ToSet
      <3>2. (a.label = NULL) = (b.label = NULL) /\ (a.fallback = NULL) = (b.fallback = NULL)
        BY <1>2, <3>1 DEF SameAttributes
      <3>3. QED
        BY <2>1, <3>2 DEF NothingShows
    <2>2. QED
      BY <1>3, <2>1, NothingLeftShows
  <1>5. s \in SaidRecord
    BY <1>1, SaidFields
  <1>6. /\ \E route : AsSaid(route, s) /\ r.pRtLst = Append(priv.pRtLst, route)
        /\ NestedNext(r) /\ Heard(r.conData, a)
    BY <1>1, <1>3, <1>4, NestedSays
  <1> HIDE DEF q, r, s
  <1>7. doc'.sockets = doc.sockets \o <<s>>
    <2> DEFINE S == SaidRecord
    <2>1. doc.sockets \in Seq(S) /\ s \in S
      BY <1>3, <1>5
    <2> HIDE DEF S
    <2>2. Append(doc.sockets, s) = doc.sockets \o <<s>>
      BY <2>1
    <2>3. QED
      BY <1>2, <2>2
  <1>8. Same(priv', doc'.sockets) /\ doc'.sockets \in Seq(SaidRecord)
    BY <1>1, <1>2, <1>3, <1>5, <1>6, <1>7, SameAppended
  <1>9. NestedNext(priv') /\ NothingShows(priv'.conData, a)
    BY <1>2, <1>6 DEF Heard, NothingShows
  <1>10. QED
    BY <1>2, <1>3, <1>8, <1>9 DEF DocumentInv

LEMMA EndNestedSays ==
  ASSUME TypeInv, DocumentInv, ParseInvalidNestedSocket \/ EndNested
  PROVE  DocumentInv'
  <1>1. /\ priv' = priv /\ pc = "nested" /\ pc' \in {"nested", "socket"} /\ doc'.pair = doc.pair
        /\ doc'.sockets = doc.sockets /\ doc'.first = doc.first
    BY DEF ParseInvalidNestedSocket, EndNested, TypeInv, DocFields
  <1>2. QED
    BY <1>1 DEF DocumentInv

LEMMA ParseSocketSays ==
  ASSUME OneNetworkSocket, ~MixedSockets, TypeInv, DocumentInv, ParseSocket
  PROVE  DocumentInv'
  BY ParseNetworkSocketSays, ParseLocalSocketSays, ParseSplitterInSays, ParseSplitterOutSays,
     ParseCombinerSays, ParseNestedSocketSays, EndNestedSays DEF ParseSocket

LEMMA ParseConnectionSays ==
  ASSUME TypeInv, DocumentInv, NEW pair \in SocketPairs, ParseConnection(pair)
  PROVE  DocumentInv'
  <1> DEFINE q == ClearedConnection
             c == q.conData
  <1>1. Good(priv)
    BY DEF TypeInv, Good
  <1>2. /\ pc = "connection" /\ priv' = q /\ pc' = "socket" /\ doc'.pair = pair
        /\ doc'.sockets = doc.sockets /\ doc'.first = <<>>
    BY DEF ParseConnection, ClearedConnection, TypeInv, DocFields
  <1>3. /\ q.pRtLst = priv.pRtLst /\ c.sockCnt = 0
        /\ c.inSocket = NULL /\ c.outSocket = NULL /\ c.combiner = NULL /\ c.splitter = NULL
    BY <1>1, ClearedConnectionFields DEF SameLists
  <1>4. c.routeName = NULL /\ c.labelFallback = NULL
    BY <1>1 DEF ClearedConnection, Good, HasFields, DataFields, NoConnection
  <1> HIDE DEF q
  <1>5. doc.sockets \in Seq(SaidRecord) /\ Same(priv, doc.sockets)
    BY <1>2 DEF DocumentInv
  <1>6. NothingRead(q) /\ Same(q, doc.sockets)
    BY <1>3, <1>4, <1>5, SameKept DEF NothingRead, NothingLeft
  <1>7. QED
    BY <1>2, <1>3, <1>5, <1>6 DEF DocumentInv

LEMMA OtherSays ==
  ASSUME doc.sockets \in Seq(SaidRecord), Same(priv, doc.sockets), priv'.pRtLst = priv.pRtLst,
         doc'.sockets = doc.sockets, pc' \notin {"socket", "nested"}
  PROVE  DocumentInv'
  BY SameKept DEF DocumentInv

LEMMA InitDocumentInv == Init => DocumentInv
  <1>1. SUFFICES ASSUME Init PROVE DocumentInv
    OBVIOUS
  <1>2. pc = "node" /\ priv.pRtLst = <<>> /\ doc.sockets = <<>>
    BY <1>1 DEF Init, NoData
  <1> DEFINE S == SaidRecord
  <1> HIDE DEF S
  <1>3. <<>> \in Seq(S)
    OBVIOUS
  <1>4. doc.sockets \in Seq(SaidRecord) /\ Same(priv, doc.sockets)
    BY <1>2, <1>3 DEF Same, S
  <1>5. QED
    BY <1>2, <1>4 DEF DocumentInv

LEMMA NextDocumentInv ==
  ASSUME OneNetworkSocket, ~MixedSockets, TypeInv, DocumentInv, [Next]_vars
  PROVE  DocumentInv'
  <1>1. Good(priv)
    BY DEF TypeInv, Good
  <1>2. pc \notin {"socket", "nested", "failed"} =>
          doc.sockets \in Seq(SaidRecord) /\ Same(priv, doc.sockets)
    BY DEF DocumentInv
  <1>3. ASSUME NEW names \in NodePorts, ParseNode(names) PROVE DocumentInv'
    <2> DEFINE p == ClearedNode
    <2>1. /\ Good(p) /\ p.pRtLst = priv.pRtLst /\ priv' = NewPorts(p, names)
          /\ names \in Seq(Ports) /\ pc = "node" /\ pc' = "connection" /\ doc' = doc
      BY <1>1, <1>3, ClearedNodeGood, XmlAssumption DEF ParseNode, ClearedNode
    <2> HIDE DEF p
    <2>2. PortStep(p, priv')
      BY <2>1, NewPortsStep DEF Good
    <2>3. QED
      BY <1>2, <2>1, <2>2, OtherSays DEF PortStep
  <1>4. ASSUME NEW link \in Links \cup {NULL}, EndConnection(link) PROVE DocumentInv'
    <2>1. doc.pair = <<>> /\ pc = "socket"
      BY <1>4 DEF EndConnection
    <2>2. doc.sockets \in Seq(SaidRecord) /\ Same(priv, doc.sockets)
      BY <2>1, PairFacts DEF DocumentInv
    <2>3. \/ Error
          \/ /\ priv' = priv \/ priv' = StoreDriverInfo(priv, link)
             /\ pc' = "connection"
             /\ doc' = doc \/ doc' = [doc EXCEPT !.links = Append(@, Link(link))]
      BY <1>4 DEF EndConnection
    <2>4. StoreDriverInfo(priv, link).pRtLst = priv.pRtLst
      BY <1>1, DriversGood DEF StoreDriverInfo
    <2>5. QED
      BY <2>2, <2>3, <2>4, OtherSays, ErrorDocument DEF TypeInv, DocFields
  <1>5. ASSUME NEW link \in Links, NEW kinds \in DriverKinds, ParseDriver(link, kinds)
        PROVE  DocumentInv'
    <2>1. \/ Error
          \/ /\ priv' = [priv EXCEPT !.drvInfLst = Expand(@, link, kinds)]
             /\ pc = "drivers" /\ pc' = "drivers"
             /\ doc' = [doc EXCEPT !.drivers = Append(@, [link |-> link, kinds |-> kinds])]
      BY <1>5 DEF ParseDriver
    <2>2. CASE /\ priv' = [priv EXCEPT !.drvInfLst = Expand(@, link, kinds)]
               /\ pc = "drivers" /\ pc' = "drivers"
               /\ doc' = [doc EXCEPT !.drivers = Append(@, [link |-> link, kinds |-> kinds])]
      <3>1. priv'.pRtLst = priv.pRtLst /\ doc'.sockets = doc.sockets
        BY <1>1, <2>2, DriversGood DEF TypeInv, DocFields
      <3>2. QED
        BY <1>2, <2>2, <3>1, OtherSays
    <2>3. QED
      BY <2>1, <2>2, ErrorDocument
  <1>6. CASE EndNode \/ ParseRoutes \/ FillDriverArray
    <2>1. /\ priv' = priv /\ doc' = doc /\ pc \notin {"socket", "nested", "failed"}
          /\ pc' \notin {"socket", "nested"}
      BY <1>6 DEF EndNode, ParseRoutes, FillDriverArray
    <2>2. QED
      BY <1>2, <2>1, OtherSays
  <1>7. CASE Fail
    BY <1>7, ErrorDocument DEF Fail
  <1>8. CASE UNCHANGED vars
    BY <1>8 DEF vars, DocumentInv
  <1>9. QED
    BY <1>3, <1>4, <1>5, <1>6, <1>7, <1>8, ParseSocketSays, ParseConnectionSays
    DEF Next, ParseAll

LEMMA DocumentInvIsEndpoints == TypeInv /\ DocumentInv => EndpointsOfDocument
  <1>1. SUFFICES ASSUME TypeInv, DocumentInv, pc \in {"node", "drivers", "done"}
                 PROVE  /\ Len(priv.pRtLst) = Len(doc.sockets)
                        /\ \A i \in DOMAIN doc.sockets :
                             LET r == priv.pRtLst[i]
                                 e == Endpoint(doc.sockets[i])
                             IN  /\ \A f \in {"isTalker", "isActive", "routeId", "routeName",
                                              "labelNormal", "labelFallback"} : r[f] = e[f]
                                 /\ r.ep.node = e.node
    BY DEF EndpointsOfDocument
  <1>2. doc.sockets \in Seq(SaidRecord) /\ Same(priv, doc.sockets)
    BY <1>1 DEF DocumentInv
  <1>3. priv.pRtLst \in Seq(ToSet(priv.pRtLst))
    BY <1>1 DEF TypeInv, Pointers
  <1>4. Len(priv.pRtLst) = Len(doc.sockets) /\ DOMAIN doc.sockets = DOMAIN priv.pRtLst
    <2> DEFINE S == SaidRecord
               T == ToSet(priv.pRtLst)
    <2>1. doc.sockets \in Seq(S) /\ priv.pRtLst \in Seq(T) /\ Len(priv.pRtLst) = Len(doc.sockets)
      BY <1>2, <1>3 DEF Same
    <2> HIDE DEF S, T
    <2>2. QED
      BY <2>1
  <1>5. ASSUME NEW i \in DOMAIN doc.sockets
        PROVE  LET r == priv.pRtLst[i]
                   e == Endpoint(doc.sockets[i])
               IN  /\ \A f \in {"isTalker", "isActive", "routeId", "routeName",
                                "labelNormal", "labelFallback"} : r[f] = e[f]
                   /\ r.ep.node = e.node
    <2> DEFINE r == priv.pRtLst[i]
               s == doc.sockets[i]
               e == Endpoint(s)
    <2>1. AsSaid(r, s)
      BY <1>2, <1>4 DEF Same
    <2> HIDE DEF r, s
    <2>2. /\ e.isTalker = s.isTalker /\ e.isActive = s.says.active /\ e.routeId = s.says.id
          /\ e.routeName = IF s.says.label # NULL THEN NULL ELSE s.says.route
          /\ e.labelNormal = s.says.label /\ e.labelFallback = s.says.fallback /\ e.node = s.node
      BY DEF Endpoint
    <2> HIDE DEF e
    <2>3. /\ r.isTalker = e.isTalker /\ r.isActive = e.isActive /\ r.routeId = e.routeId
          /\ r.routeName = e.routeName /\ r.labelNormal = e.labelNormal
          /\ r.labelFallback = e.labelFallback /\ r.ep.node = e.node
      BY <2>1, <2>2 DEF AsSaid
    <2>4. \A f \in {"isTalker", "isActive", "routeId", "routeName",
                    "labelNormal", "labelFallback"} : r[f] = e[f]
      BY <2>3
    <2>5. QED
      BY <2>3, <2>4 DEF r, s, e
  <1>6. QED
    BY <1>4, <1>5

\* ParseSocket and the connection in UcsXml.c: if every connection has one network socket, and all
\* sockets of a splitter or combiner have the same attributes, then each network socket of a
\* document of any length has its own endpoint, in the order of the document, with its node, its
\* direction, and the route or labels, the id and the state that it says itself.
THEOREM XmlEndpointsOfDocument ==
  ASSUME OneNetworkSocket, ~MixedSockets
  PROVE  Spec => []EndpointsOfDocument
  <1>1. Init => TypeInv /\ DocumentInv
    BY InitTypeInv, InitDocumentInv
  <1>2. TypeInv /\ DocumentInv /\ [Next]_vars => (TypeInv /\ DocumentInv)'
    BY NextTypeInv, NextDocumentInv
  <1>3. TypeInv /\ DocumentInv => EndpointsOfDocument
    BY DocumentInvIsEndpoints
  <1>4. QED
    BY <1>1, <1>2, <1>3, PTL DEF Spec

-----------------------------------------------------------------------------
(* Lists that are sorted, or made of lists. *)

LEMMA BeforeIsOrder ==
  ASSUME NEW x \in Nat \X Nat, NEW y \in Nat \X Nat, NEW z \in Nat \X Nat
  PROVE  /\ ~Before(x, x)
         /\ Before(x, y) /\ Before(y, z) => Before(x, z)
         /\ x = y \/ Before(x, y) \/ Before(y, x)
  BY DEF Before

\* Each pair has its place in the order.
Earlier(linked, x) == {y \in linked : Before(y, x)}

LEMMA EarlierGrows ==
  ASSUME NEW linked, IsFiniteSet(linked), linked \subseteq Nat \X Nat,
         NEW x \in linked, NEW y \in linked, Before(x, y)
  PROVE  Cardinality(Earlier(linked, x)) < Cardinality(Earlier(linked, y))
  <1> DEFINE Ex == Earlier(linked, x)
             Ey == Earlier(linked, y)
  <1>1. \A z \in Ex : z \in Ey
    BY BeforeIsOrder DEF Earlier
  <1>2. x \in Ey /\ x \notin Ex
    BY BeforeIsOrder DEF Earlier
  <1>3. IsFiniteSet(Ey)
    <2>1. Ey \in SUBSET linked
      BY DEF Earlier
    <2>2. QED
      BY <2>1, FS_Subset
  <1> HIDE DEF Ex, Ey
  <1>4. Ex \in SUBSET Ey /\ Ex # Ey
    BY <1>1, <1>2
  <1>5. /\ IsFiniteSet(Ex) /\ Cardinality(Ex) <= Cardinality(Ey)
        /\ Cardinality(Ey) = Cardinality(Ex) => Ey = Ex
    BY <1>3, <1>4, FS_Subset
  <1>6. Cardinality(Ex) \in Nat /\ Cardinality(Ey) \in Nat
    BY <1>3, <1>5, FS_CardinalityType
  <1>7. QED
    BY <1>4, <1>5, <1>6 DEF Ex, Ey

LEMMA EarlierIsLess ==
  ASSUME NEW linked, IsFiniteSet(linked), linked \subseteq Nat \X Nat, NEW x \in linked
  PROVE  Cardinality(Earlier(linked, x)) \in 0 .. Cardinality(linked) - 1
  <1> DEFINE Ex == Earlier(linked, x)
  <1>1. Ex \in SUBSET linked /\ x \notin Ex
    BY BeforeIsOrder DEF Earlier
  <1> HIDE DEF Ex
  <1>2. /\ IsFiniteSet(Ex) /\ Cardinality(Ex) <= Cardinality(linked)
        /\ Cardinality(linked) = Cardinality(Ex) => linked = Ex
    BY <1>1, FS_Subset
  <1>3. Cardinality(Ex) \in Nat /\ Cardinality(linked) \in Nat
    BY <1>2, FS_CardinalityType
  <1>4. QED
    BY <1>1, <1>2, <1>3 DEF Ex

\* The list of pairs has each of them once.
LEMMA PairsInOrder ==
  ASSUME NEW linked, IsFiniteSet(linked), linked \subseteq Nat \X Nat
  PROVE  /\ \A k \in 1 .. Cardinality(linked) : Pair(linked, k) \in linked
         /\ \A x \in linked : \E k \in 1 .. Cardinality(linked) : Pair(linked, k) = x
  <1> DEFINE n == Cardinality(linked)
             place == [x \in linked |-> Cardinality(Earlier(linked, x)) + 1]
  <1>1. n \in Nat
    BY FS_CardinalityType
  <1>2. \A x \in linked : Cardinality(Earlier(linked, x)) \in 0 .. n - 1
    BY EarlierIsLess
  <1>3. ASSUME NEW x \in linked, NEW y \in linked,
               Cardinality(Earlier(linked, x)) = Cardinality(Earlier(linked, y))
        PROVE  x = y
    <2>1. ASSUME NEW z \in linked, NEW w \in linked, Before(z, w)
          PROVE  Cardinality(Earlier(linked, z)) # Cardinality(Earlier(linked, w))
      <3>1. Cardinality(Earlier(linked, z)) < Cardinality(Earlier(linked, w))
        BY <2>1, EarlierGrows
      <3>2. /\ Cardinality(Earlier(linked, z)) \in 0 .. n - 1
            /\ Cardinality(Earlier(linked, w)) \in 0 .. n - 1
        BY <1>2
      <3> HIDE DEF n
      <3>3. QED
        BY <1>1, <3>1, <3>2
    <2>2. ~Before(x, y) /\ ~Before(y, x)
      BY <1>3, <2>1
    <2>3. QED
      BY <2>2, BeforeIsOrder
  <1> HIDE DEF n
  <1>4. place \in Surjection(linked, 1 .. n)
    <2>1. place \in Injection(linked, 1 .. n)
      <3>1. \A x \in linked : place[x] \in 1 .. n
        BY <1>1, <1>2
      <3>2. ASSUME NEW x \in linked, NEW y \in linked, place[x] = place[y]
            PROVE  x = y
        <4>1. Cardinality(Earlier(linked, x)) = Cardinality(Earlier(linked, y))
          BY <1>1, <1>2, <3>2
        <4>2. QED
          BY <1>3, <4>1
      <3> HIDE DEF place
      <3>3. place \in [linked -> 1 .. n]
        BY <3>1 DEF place
      <3>4. QED
        BY <3>2, <3>3 DEF Injection, IsInjective
    <2>2. IsFiniteSet(1 .. n) /\ Cardinality(1 .. n) = n
      BY <1>1, FS_Interval
    <2> HIDE DEF place
    <2>3. QED
      BY <2>1, <2>2, FS_Injection DEF n
  <1>5. ASSUME NEW k \in 1 .. n
        PROVE  /\ Pair(linked, k) \in linked
               /\ Cardinality(Earlier(linked, Pair(linked, k))) = k - 1
    <2>1. PICK x \in linked : place[x] = k
      BY <1>4 DEF Surjection
    <2>2. Cardinality(Earlier(linked, x)) = k - 1
      BY <1>1, <1>2, <2>1
    <2>3. QED
      BY <2>2 DEF Pair, Earlier
  <1>6. ASSUME NEW x \in linked PROVE \E k \in 1 .. n : Pair(linked, k) = x
    <2> DEFINE k == Cardinality(Earlier(linked, x)) + 1
    <2>1. k \in 1 .. n /\ Cardinality(Earlier(linked, x)) = k - 1
      BY <1>1, <1>2
    <2> HIDE DEF k
    <2>2. Pair(linked, k) = x
      BY <1>3, <1>5, <2>1
    <2>3. QED
      BY <2>1, <2>2
  <1>7. QED
    BY <1>5, <1>6 DEF n

\* FlattenSeq is a recursive function: the first lists joined.
Flattened(f, lists, n) == [i \in 1 .. n |-> IF i = 1 THEN lists[i] ELSE f[i - 1] \o lists[i]]

LEMMA FlattenedExists ==
  ASSUME NEW lists, NEW n \in Nat
  PROVE  \E f : f = Flattened(f, lists, n)
  <1> DEFINE Joins(k) == \E f : f = Flattened(f, lists, k)
             T == {k \in Nat : ~Joins(k)}
  <1>1. SUFFICES ASSUME T # {} PROVE FALSE
    OBVIOUS
  <1>2. PICK x \in T : \A y \in T : x <= y
    <2>1. T \subseteq Nat
      OBVIOUS
    <2> HIDE DEF T
    <2>2. QED
      BY <1>1, <2>1, MinimumOfNats
  <1>3. x # 0
    <2>1. <<>> = Flattened(<<>>, lists, 0)
      BY DEF Flattened
    <2>2. Joins(0)
      BY <2>1
    <2>3. QED
      BY <2>2
  <1>4. PICK f : f = Flattened(f, lists, x - 1)
    <2>1. x - 1 \in Nat /\ ~(x <= x - 1)
      BY <1>3
    <2>2. Joins(x - 1)
      BY <1>2, <2>1
    <2>3. QED
      BY <2>2
  <1> DEFINE last == IF x = 1 THEN lists[x] ELSE f[x - 1] \o lists[x]
             g == [i \in 1 .. x |-> IF i = x THEN last ELSE f[i]]
             h == Flattened(g, lists, x)
  <1>5. g = h
    <2>1. x \in Nat /\ x # 0
      BY <1>3
    <2>2. f = [i \in 1 .. x - 1 |-> IF i = 1 THEN lists[i] ELSE f[i - 1] \o lists[i]]
      BY <1>4 DEF Flattened
    <2>3. ASSUME NEW i \in 1 .. x PROVE g[i] = h[i]
      <3>1. h[i] = IF i = 1 THEN lists[i] ELSE g[i - 1] \o lists[i]
        BY DEF Flattened
      <3>2. i # 1 => i - 1 \in 1 .. x /\ i - 1 # x
        BY <2>1
      <3>3. i # 1 => g[i - 1] = f[i - 1]
        BY <3>2
      <3>4. CASE i = x
        BY <3>1, <3>3, <3>4
      <3>5. CASE i # x
        <4>1. i \in 1 .. x - 1 /\ g[i] = f[i]
          BY <2>1, <3>5
        <4>2. f[i] = IF i = 1 THEN lists[i] ELSE f[i - 1] \o lists[i]
          BY <2>2, <4>1
        <4>3. QED
          BY <3>1, <3>3, <4>1, <4>2
      <3>6. QED
        BY <3>4, <3>5
    <2>4. g = [i \in 1 .. x |-> g[i]] /\ h = [i \in 1 .. x |-> h[i]]
      BY DEF Flattened
    <2> HIDE DEF g, h
    <2>5. QED
      BY <2>3, <2>4
  <1>6. Joins(x)
    <2> HIDE DEF g
    <2>1. QED
      BY <1>5
  <1>7. QED
    BY <1>6

LEMMA FlattenSteps ==
  ASSUME NEW lists, NEW n \in Nat \ {0}, Len(lists) = n
  PROVE  \E f : /\ f[1] = lists[1]
                /\ \A i \in 1 .. n - 1 : f[i + 1] = f[i] \o lists[i + 1]
                /\ FlattenSeq(lists) = f[n]
  <1> DEFINE f == CHOOSE f : f = [i \in 1 .. n |-> IF i = 1 THEN lists[i] ELSE f[i - 1] \o lists[i]]
  <1>1. FlattenSeq(lists) = f[n]
    BY DEF FlattenSeq
  <1>2. \E g : g = [i \in 1 .. n |-> IF i = 1 THEN lists[i] ELSE g[i - 1] \o lists[i]]
    BY FlattenedExists DEF Flattened
  <1>3. f = [i \in 1 .. n |-> IF i = 1 THEN lists[i] ELSE f[i - 1] \o lists[i]]
    BY <1>2
  <1> HIDE DEF f
  <1>4. f[1] = lists[1]
    BY <1>3
  <1>5. ASSUME NEW i \in 1 .. n - 1 PROVE f[i + 1] = f[i] \o lists[i + 1]
    <2>1. i + 1 \in 1 .. n /\ i + 1 # 1 /\ (i + 1) - 1 = i
      OBVIOUS
    <2>2. f[i + 1] = f[(i + 1) - 1] \o lists[i + 1]
      BY <1>3, <2>1
    <2>3. QED
      BY <2>1, <2>2
  <1>6. QED
    BY <1>1, <1>4, <1>5

\* The second list behind the first.
Joins(a, b, list) ==
  /\ Len(list) = Len(a) + Len(b)
  /\ \A k \in DOMAIN a : \E m \in DOMAIN list : list[m] = a[k]
  /\ \A k \in DOMAIN b : \E m \in DOMAIN list : list[m] = b[k]

LEMMA JoinedLists ==
  ASSUME NEW T, NEW a \in Seq(T), NEW b \in Seq(T), NEW list, list = a \o b
  PROVE  list \in Seq(T) /\ Joins(a, b, list)
  <1>1. list \in Seq(T) /\ Len(list) = Len(a) + Len(b) /\ DOMAIN list = 1 .. Len(a) + Len(b)
    OBVIOUS
  <1>2. Len(a) \in Nat /\ Len(b) \in Nat /\ DOMAIN a = 1 .. Len(a) /\ DOMAIN b = 1 .. Len(b)
    OBVIOUS
  <1>3. ASSUME NEW k \in DOMAIN a PROVE \E m \in DOMAIN list : list[m] = a[k]
    <2>1. k \in DOMAIN list /\ list[k] = a[k]
      BY <1>1, <1>2
    <2>2. QED
      BY <2>1
  <1>4. ASSUME NEW k \in DOMAIN b PROVE \E m \in DOMAIN list : list[m] = b[k]
    <2>1. Len(a) + k \in DOMAIN list /\ list[Len(a) + k] = b[k]
      BY <1>1, <1>2
    <2>2. QED
      BY <2>1
  <1>5. QED
    BY <1>1, <1>3, <1>4 DEF Joins

\* The joined list has every element of every list, and as many as the pairs that count them: those
\* that begin with i count list i.
UpTo(pairs, i) == {x \in pairs : x[1] \in 1 .. i}
At(pairs, i) == {x \in pairs : x[1] = i}

FlattenedUpTo(T, joined, lists, pairs, i) ==
  /\ joined \in Seq(T)
  /\ IsFiniteSet(UpTo(pairs, i)) /\ Len(joined) = Cardinality(UpTo(pairs, i))
  /\ \A j \in 1 .. i : \A m \in DOMAIN lists[j] : \E k \in DOMAIN joined : joined[k] = lists[j][m]

LEMMA OneMoreList ==
  ASSUME NEW T, NEW joined, NEW lists, NEW pairs, NEW i \in Nat,
         FlattenedUpTo(T, joined, lists, pairs, i), lists[i + 1] \in Seq(T),
         IsFiniteSet(At(pairs, i + 1)), Cardinality(At(pairs, i + 1)) = Len(lists[i + 1]),
         NEW new, new = joined \o lists[i + 1]
  PROVE  FlattenedUpTo(T, new, lists, pairs, i + 1)
  <1> DEFINE U == UpTo(pairs, i)
             A == At(pairs, i + 1)
             V == UpTo(pairs, i + 1)
             last == lists[i + 1]
  <1>1. joined \in Seq(T) /\ last \in Seq(T) /\ IsFiniteSet(U) /\ Len(joined) = Cardinality(U)
    BY DEF FlattenedUpTo
  <1>2. /\ new \in Seq(T) /\ Len(new) = Len(joined) + Len(last)
        /\ \A k \in DOMAIN joined : \E m \in DOMAIN new : new[m] = joined[k]
        /\ \A k \in DOMAIN last : \E m \in DOMAIN new : new[m] = last[k]
    <2>1. new = joined \o last
      OBVIOUS
    <2> HIDE DEF last
    <2>2. new \in Seq(T) /\ Joins(joined, last, new)
      BY <1>1, <2>1, JoinedLists
    <2>3. QED
      BY <2>2 DEF Joins
  <1>3. V = U \cup A /\ U \cap A = {}
    <2>1. \A j : j \in 1 .. i + 1 <=> j \in 1 .. i \/ j = i + 1
      OBVIOUS
    <2>2. i + 1 \notin 1 .. i
      OBVIOUS
    <2>3. QED
      BY <2>1, <2>2 DEF UpTo, At
  <1> HIDE DEF U, A, V, last
  <1>4. IsFiniteSet(V) /\ Cardinality(V) = Cardinality(U) + Cardinality(A)
    <2>1. IsFiniteSet(U) /\ IsFiniteSet(A)
      BY <1>1 DEF A
    <2>2. /\ IsFiniteSet(U \cup A)
          /\ Cardinality(U \cup A) = Cardinality(U) + Cardinality(A) - Cardinality(U \cap A)
      BY <2>1, FS_Union
    <2>3. Cardinality(U) \in Nat /\ Cardinality(A) \in Nat /\ Cardinality(U \cap A) = 0
      BY <1>3, <2>1, FS_CardinalityType, FS_EmptySet
    <2>4. QED
      BY <1>3, <2>2, <2>3
  <1>5. Len(new) = Cardinality(V)
    BY <1>1, <1>2, <1>4 DEF A, last
  <1>6. ASSUME NEW j \in 1 .. i + 1, NEW m \in DOMAIN lists[j]
        PROVE  \E k \in DOMAIN new : new[k] = lists[j][m]
    <2>1. CASE j = i + 1
      BY <1>2, <2>1 DEF last
    <2>2. CASE j # i + 1
      <3>1. j \in 1 .. i
        BY <2>2
      <3>2. PICK k \in DOMAIN joined : joined[k] = lists[j][m]
        BY <3>1 DEF FlattenedUpTo
      <3>3. QED
        BY <1>2, <3>2
    <2>3. QED
      BY <2>1, <2>2
  <1>7. QED
    BY <1>2, <1>4, <1>5, <1>6 DEF FlattenedUpTo, V

LEMMA FlattenCounts ==
  ASSUME NEW T, NEW lists, NEW n \in Nat \ {0}, Len(lists) = n,
         \A i \in 1 .. n : lists[i] \in Seq(T),
         NEW pairs, \A i \in 1 .. n : /\ IsFiniteSet(At(pairs, i))
                                      /\ Cardinality(At(pairs, i)) = Len(lists[i])
  PROVE  FlattenedUpTo(T, FlattenSeq(lists), lists, pairs, n)
  <1>1. PICK f : /\ f[1] = lists[1]
                 /\ \A i \in 1 .. n - 1 : f[i + 1] = f[i] \o lists[i + 1]
                 /\ FlattenSeq(lists) = f[n]
    BY FlattenSteps
  <1> DEFINE Holds(i) == FlattenedUpTo(T, f[i], lists, pairs, i)
             W == {i \in 1 .. n : ~Holds(i)}
  <1>2. SUFFICES ASSUME W # {} PROVE FALSE
    <2>1. Holds(n) => FlattenedUpTo(T, FlattenSeq(lists), lists, pairs, n)
      BY <1>1
    <2> HIDE DEF Holds
    <2>2. QED
      BY <1>2, <2>1
  <1>3. PICK x \in W : \A y \in W : x <= y
    <2>1. W \subseteq Nat
      OBVIOUS
    <2> HIDE DEF W
    <2>2. QED
      BY <1>2, <2>1, MinimumOfNats
  <1>4. x # 1
    <2>1. UpTo(pairs, 1) = At(pairs, 1)
      BY DEF UpTo, At
    <2>2. 1 \in 1 .. n
      OBVIOUS
    <2>3. /\ lists[1] \in Seq(T) /\ IsFiniteSet(At(pairs, 1))
          /\ Cardinality(At(pairs, 1)) = Len(lists[1])
      BY <2>2
    <2>4. \A j \in 1 .. 1 : j = 1
      OBVIOUS
    <2>5. \A j \in 1 .. 1 : \A m \in DOMAIN lists[j] :
            \E k \in DOMAIN lists[1] : lists[1][k] = lists[j][m]
      BY <2>4
    <2>6. FlattenedUpTo(T, lists[1], lists, pairs, 1)
      BY <2>1, <2>3, <2>5 DEF FlattenedUpTo
    <2>7. Holds(1)
      BY <1>1, <2>6
    <2>8. QED
      BY <2>7
  <1> DEFINE i == x - 1
  <1>5. i \in Nat /\ i \in 1 .. n - 1 /\ i \in 1 .. n /\ i + 1 = x /\ ~(x <= i) /\ i + 1 \in 1 .. n
    BY <1>4
  <1> HIDE DEF i
  <1>6. Holds(i)
    BY <1>3, <1>5
  <1>7. Holds(i + 1)
    <2>1. /\ FlattenedUpTo(T, f[i], lists, pairs, i) /\ lists[i + 1] \in Seq(T)
          /\ IsFiniteSet(At(pairs, i + 1)) /\ Cardinality(At(pairs, i + 1)) = Len(lists[i + 1])
      BY <1>5, <1>6
    <2>2. f[i + 1] = f[i] \o lists[i + 1]
      BY <1>1, <1>5
    <2>3. FlattenedUpTo(T, f[i + 1], lists, pairs, i + 1)
      BY <1>5, <2>1, <2>2, OneMoreList
    <2>4. QED
      BY <2>3
  <1>8. QED
    BY <1>5, <1>7

-----------------------------------------------------------------------------
(* The routes of the document. *)

LEMMA DocumentAgrees ==
  ASSUME TypeInv, DocumentInv, pc \in {"node", "drivers", "done"}
  PROVE  Agree(Len(doc.sockets))
  <1>1. doc.sockets \in Seq(SaidRecord) /\ Same(priv, doc.sockets)
    BY DEF DocumentInv
  <1>2. priv.pRtLst \in Seq(ToSet(priv.pRtLst))
    BY DEF TypeInv, Pointers
  <1> DEFINE S == SaidRecord
             T == ToSet(priv.pRtLst)
             n == Len(doc.sockets)
  <1>3. doc.sockets \in Seq(S) /\ priv.pRtLst \in Seq(T) /\ Len(priv.pRtLst) = n
    BY <1>1, <1>2 DEF Same
  <1> HIDE DEF S, T
  <1>4. /\ n \in Nat /\ DOMAIN priv.pRtLst = 1 .. n /\ DOMAIN doc.sockets = 1 .. n
        /\ \A i \in 1 .. n : doc.sockets[i] \in S
    BY <1>3
  <1> HIDE DEF n
  <1>5. \A i \in 1 .. n : doc.sockets[i] \in SaidRecord /\ AsSaid(priv.pRtLst[i], doc.sockets[i])
    BY <1>1, <1>4 DEF S, Same
  <1>6. QED
    BY <1>3, <1>4, <1>5 DEF Agree, n

LEMMA SaidTypes ==
  ASSUME NEW n, Agree(n), NEW i \in 1 .. n
  PROVE  LET a == SaidOf(i) IN
         /\ a.label \in Nat /\ a.fallback \in Nat /\ a.active \in BOOLEAN
         /\ a.id \in 0 .. IdRange - 1 /\ (a.route # NULL \/ a.label # NULL)
         /\ doc.sockets[i].isTalker \in BOOLEAN
  <1>1. doc.sockets[i] \in SaidRecord
    BY DEF Agree
  <1>2. SaidOf(i) \in Attributes /\ doc.sockets[i].isTalker \in BOOLEAN
    BY <1>1 DEF SaidRecord, SaidOf
  <1>3. SaidOf(i) \in Attribute /\ (SaidOf(i).route # NULL \/ SaidOf(i).label # NULL)
    BY <1>2, XmlAssumption
  <1>4. QED
    BY <1>2, <1>3 DEF Attribute

LEMMA LinkedIsSaid ==
  ASSUME NEW n, Agree(n), NEW i \in 1 .. n, NEW j \in 1 .. n
  PROVE  Linked(i, j) <=>
           /\ doc.sockets[i].isTalker /\ ~doc.sockets[j].isTalker
           /\ SaidOf(i).label = NULL /\ SaidOf(j).label = NULL
           /\ SaidOf(i).route = SaidOf(j).route
  <1> DEFINE r == priv.pRtLst[i]
             q == priv.pRtLst[j]
             s == doc.sockets[i]
             t == doc.sockets[j]
  <1>1. /\ r.isTalker = s.isTalker /\ q.isTalker = t.isTalker
        /\ r.routeName = IF s.says.label # NULL THEN NULL ELSE s.says.route
        /\ q.routeName = IF t.says.label # NULL THEN NULL ELSE t.says.route
    BY DEF Agree, AsSaid
  <1>2. /\ s.says.route # NULL \/ s.says.label # NULL
        /\ t.says.route # NULL \/ t.says.label # NULL
    BY SaidTypes DEF SaidOf
  <1>3. s.isTalker /\ ~t.isTalker => i # j
    OBVIOUS
  <1>4. Linked(i, j) <=> /\ i # j /\ r.isTalker /\ ~q.isTalker
                         /\ r.routeName # NULL /\ r.routeName = q.routeName
    BY DEF Linked
  <1> HIDE DEF r, q
  <1>5. QED
    BY <1>1, <1>2, <1>3, <1>4 DEF SaidOf

LEMMA NamedPairs ==
  ASSUME NEW n, Agree(n)
  PROVE  /\ {x \in (DOMAIN priv.pRtLst) \X (DOMAIN priv.pRtLst) : Linked(x[1], x[2])} = SaidNamed
         /\ IsFiniteSet(SaidNamed) /\ SaidNamed \subseteq (1 .. n) \X (1 .. n)
  <1>1. DOMAIN priv.pRtLst = 1 .. n /\ DOMAIN doc.sockets = 1 .. n /\ n \in Nat
    BY DEF Agree
  <1>2. ASSUME NEW x \in (1 .. n) \X (1 .. n)
        PROVE  Linked(x[1], x[2]) <=> x \in SaidNamed
    <2>1. x[1] \in 1 .. n /\ x[2] \in 1 .. n
      OBVIOUS
    <2>2. x \in SaidNamed <=>
           /\ doc.sockets[x[1]].isTalker /\ ~doc.sockets[x[2]].isTalker
           /\ SaidOf(x[1]).label = NULL /\ SaidOf(x[2]).label = NULL
           /\ SaidOf(x[1]).route = SaidOf(x[2]).route
      BY <1>1 DEF SaidNamed, SaidOf
    <2>3. QED
      BY <2>1, <2>2, LinkedIsSaid
  <1>3. SaidNamed \subseteq (1 .. n) \X (1 .. n)
    BY <1>1 DEF SaidNamed
  <1>4. IsFiniteSet(SaidNamed)
    <2> DEFINE D == 1 .. n
    <2>1. IsFiniteSet(D) /\ SaidNamed \in SUBSET (D \X D)
      BY <1>1, <1>3, FS_Interval
    <2> HIDE DEF D
    <2>2. IsFiniteSet(D \X D)
      BY <2>1, FS_Product
    <2>3. QED
      BY <2>1, <2>2, FS_Subset
  <1>5. QED
    BY <1>1, <1>2, <1>3, <1>4

\* The route of a sender and a receiver of the same name.
NamedRoute(r, x) ==
  /\ r.source = x[1] /\ r.sink = x[2]
  /\ r.active <=> SaidOf(x[1]).active /\ SaidOf(x[2]).active
  /\ SaidOf(x[2]).id # Invalid => r.id = SaidOf(x[2]).id

LEMMA RouteOfPair ==
  ASSUME NEW n, Agree(n), NEW i \in 1 .. n, NEW j \in 1 .. n,
         NEW r, r = [source |-> i, sink |-> j, label |-> NULL,
                     id |-> IF priv.pRtLst[j].routeId # Invalid THEN priv.pRtLst[j].routeId
                                                                 ELSE priv.pRtLst[i].routeId,
                     active |-> priv.pRtLst[i].isActive /\ priv.pRtLst[j].isActive]
  PROVE  r \in GoodRoutes(n) /\ NamedRoute(r, <<i, j>>)
  <1> DEFINE a == SaidOf(i)
             b == SaidOf(j)
             id == IF b.id # Invalid THEN b.id ELSE a.id
  <1>1. /\ priv.pRtLst[i].routeId = a.id /\ priv.pRtLst[j].routeId = b.id
        /\ priv.pRtLst[i].isActive = a.active /\ priv.pRtLst[j].isActive = b.active
    BY DEF Agree, AsSaid, SaidOf
  <1>2. /\ a.id \in 0 .. IdRange - 1 /\ b.id \in 0 .. IdRange - 1
        /\ a.active \in BOOLEAN /\ b.active \in BOOLEAN
    BY SaidTypes
  <1>3. r = [source |-> i, sink |-> j, label |-> NULL, id |-> id, active |-> a.active /\ b.active]
    BY <1>1
  <1>4. id \in 0 .. IdRange - 1 /\ (id = a.id \/ id = b.id) /\ (b.id # Invalid => id = b.id)
    BY <1>2
  <1> HIDE DEF id
  <1>5. /\ i \in Nat /\ j \in Nat /\ i # NULL /\ j # NULL /\ NULL \in Nat
        /\ i \in 0 .. n /\ j \in 0 .. n
    BY DEF NULL, Agree
  <1>6. r \in RouteRecord
    BY <1>2, <1>3, <1>4, <1>5 DEF RouteRecord
  <1>7. \E k \in 1 .. n : SaidOf(k).id = r.id
    BY <1>3, <1>4
  <1>8. r \in GoodRoutes(n)
    BY <1>3, <1>5, <1>6, <1>7 DEF GoodRoutes
  <1>9. NamedRoute(r, <<i, j>>)
    BY <1>2, <1>3, <1>4 DEF NamedRoute
  <1>10. QED
    BY <1>8, <1>9

LEMMA NamedRoutesAreSaid ==
  ASSUME NEW n, Agree(n)
  PROVE  /\ NamedRoutes \in Seq(GoodRoutes(n)) /\ Len(NamedRoutes) = Cardinality(SaidNamed)
         /\ \A x \in SaidNamed : \E k \in DOMAIN NamedRoutes : NamedRoute(NamedRoutes[k], x)
  <1> DEFINE list == priv.pRtLst
             m == Cardinality(SaidNamed)
             route(i, j) ==
               [source |-> i, sink |-> j, label |-> NULL,
                id |-> IF list[j].routeId # Invalid THEN list[j].routeId ELSE list[i].routeId,
                active |-> list[i].isActive /\ list[j].isActive]
             all == [k \in 1 .. m |-> route(Pair(SaidNamed, k)[1], Pair(SaidNamed, k)[2])]
  <1>1. NamedRoutes = all
    BY NamedPairs DEF NamedRoutes
  <1>2. m \in Nat /\ IsFiniteSet(SaidNamed) /\ SaidNamed \subseteq (1 .. n) \X (1 .. n)
    BY NamedPairs, FS_CardinalityType
  <1>3. /\ \A k \in 1 .. m : Pair(SaidNamed, k) \in SaidNamed
        /\ \A x \in SaidNamed : \E k \in 1 .. m : Pair(SaidNamed, k) = x
    <2>1. SaidNamed \subseteq Nat \X Nat
      BY <1>2
    <2>2. QED
      BY <1>2, <2>1, PairsInOrder
  <1> HIDE DEF m
  <1>4. ASSUME NEW x \in SaidNamed
        PROVE  route(x[1], x[2]) \in GoodRoutes(n) /\ NamedRoute(route(x[1], x[2]), x)
    <2>1. x[1] \in 1 .. n /\ x[2] \in 1 .. n /\ x = <<x[1], x[2]>>
      BY <1>2
    <2>2. \A r : r = route(x[1], x[2]) => r \in GoodRoutes(n) /\ NamedRoute(r, <<x[1], x[2]>>)
      BY <2>1, RouteOfPair
    <2>3. QED
      BY <2>1, <2>2
  <1> HIDE DEF route
  <1>5. \A k \in 1 .. m : all[k] \in GoodRoutes(n)
    BY <1>3, <1>4
  <1>6. ASSUME NEW x \in SaidNamed PROVE \E k \in 1 .. m : NamedRoute(all[k], x)
    <2>1. PICK k \in 1 .. m : Pair(SaidNamed, k) = x
      BY <1>3
    <2>2. all[k] = route(x[1], x[2])
      BY <2>1
    <2>3. QED
      BY <1>4, <2>2
  <1>7. all = [k \in 1 .. m |-> all[k]]
    OBVIOUS
  <1> HIDE DEF all
  <1>8. all \in Seq(GoodRoutes(n)) /\ Len(all) = m /\ DOMAIN all = 1 .. m
    <2> DEFINE T == GoodRoutes(n)
    <2>1. \A k \in 1 .. m : all[k] \in T
      BY <1>5
    <2> HIDE DEF T
    <2>2. QED
      BY <1>2, <1>7, <2>1 DEF T
  <1>9. QED
    BY <1>1, <1>6, <1>8 DEF m

\* The route of an endpoint with a label.
LabelRoute(r, x) ==
  /\ x[1] \in {r.source, r.sink} /\ NULL \in {r.source, r.sink}
  /\ r.label = SaidOf(x[1])[x[2]]
  /\ r.active <=> SaidOf(x[1]).active

CreatedFor(i, label) == IF label = NULL THEN <<>> ELSE <<GetDefaultCreatedRoute(i, label)>>
LabelLists ==
  [i \in DOMAIN priv.pRtLst |->
    CreatedFor(i, priv.pRtLst[i].labelNormal) \o CreatedFor(i, priv.pRtLst[i].labelFallback)]

LEMMA LabelRoutesJoined == LabelRoutes = FlattenSeq(LabelLists)
  BY DEF LabelRoutes, LabelLists, CreatedFor

LEMMA RouteOfLabel ==
  ASSUME NEW n, Agree(n), NEW i \in 1 .. n, NEW label \in Nat, label # NULL,
         NEW r, r = GetDefaultCreatedRoute(i, label)
  PROVE  /\ r \in GoodRoutes(n) /\ i \in {r.source, r.sink} /\ NULL \in {r.source, r.sink}
         /\ r.label = label /\ (r.active <=> SaidOf(i).active)
  <1> DEFINE e == priv.pRtLst[i]
             s == doc.sockets[i]
             a == SaidOf(i)
  <1>1. e.isTalker = s.isTalker /\ e.routeId = a.id /\ e.isActive = a.active
    BY DEF Agree, AsSaid, SaidOf
  <1>2. a.id \in 0 .. IdRange - 1 /\ a.active \in BOOLEAN /\ s.isTalker \in BOOLEAN
    BY SaidTypes
  <1>3. r = [source |-> IF s.isTalker THEN i ELSE NULL, sink |-> IF s.isTalker THEN NULL ELSE i,
             label |-> label, id |-> a.id, active |-> a.active]
    BY <1>1 DEF GetDefaultCreatedRoute
  <1> HIDE DEF e, a
  <1>4. i \in Nat /\ NULL \in Nat /\ i \in 0 .. n /\ NULL \in 0 .. n
    BY DEF NULL, Agree
  <1>5. /\ r.source \in {i, NULL} /\ r.sink \in {i, NULL}
        /\ i \in {r.source, r.sink} /\ NULL \in {r.source, r.sink}
        /\ r.label = label /\ r.id = a.id /\ r.active = a.active
    BY <1>3
  <1>6. r \in RouteRecord
    BY <1>2, <1>3, <1>4 DEF RouteRecord
  <1>7. \E k \in 1 .. n : SaidOf(k).id = r.id
    BY <1>5 DEF a
  <1>8. {r.source, r.sink} \subseteq 0 .. n
    BY <1>4, <1>5
  <1>9. r \in GoodRoutes(n)
    BY <1>5, <1>6, <1>7, <1>8 DEF GoodRoutes
  <1>10. QED
    BY <1>5, <1>9 DEF a

\* One list for each endpoint: none, one or both of its labels.
ListFor(list, n, i, label) ==
  /\ list \in Seq(GoodRoutes(n)) /\ Len(list) = IF label = NULL THEN 0 ELSE 1
  /\ label # NULL => 1 \in DOMAIN list /\ list[1] = GetDefaultCreatedRoute(i, label)

LEMMA CreatedForLabel ==
  ASSUME NEW n, Agree(n), NEW i \in 1 .. n, NEW label \in Nat
  PROVE  ListFor(CreatedFor(i, label), n, i, label)
  <1> DEFINE T == GoodRoutes(n)
             r == GetDefaultCreatedRoute(i, label)
             list == CreatedFor(i, label)
  <1>1. CASE label = NULL
    <2>1. list = <<>>
      BY <1>1 DEF CreatedFor
    <2> HIDE DEF T, list
    <2>2. list \in Seq(T) /\ Len(list) = 0
      BY <2>1
    <2>3. QED
      BY <1>1, <2>2 DEF T, list, ListFor
  <1>2. CASE label # NULL
    <2>1. list = <<r>> /\ r \in T
      BY <1>2, RouteOfLabel DEF CreatedFor
    <2> HIDE DEF T, r, list
    <2>2. list \in Seq(T) /\ Len(list) = 1 /\ 1 \in DOMAIN list /\ list[1] = r
      BY <2>1
    <2>3. QED
      BY <1>2, <2>2 DEF T, r, list, ListFor
  <1>3. QED
    BY <1>1, <1>2

LEMMA LabelsAt ==
  ASSUME NEW n, Agree(n), NEW i \in 1 .. n
  PROVE  /\ IsFiniteSet(At(SaidLabels, i))
         /\ Cardinality(At(SaidLabels, i)) =
              (IF SaidOf(i).label = NULL THEN 0 ELSE 1) + (IF SaidOf(i).fallback = NULL THEN 0 ELSE 1)
  <1> DEFINE a == SaidOf(i)
             x == <<i, "label">>
             y == <<i, "fallback">>
             A == At(SaidLabels, i)
  <1>1. DOMAIN doc.sockets = 1 .. n
    BY DEF Agree
  <1>2. a["label"] = a.label /\ a["fallback"] = a.fallback
    OBVIOUS
  <1>3. \A z : z \in A <=> (z = x /\ a.label # NULL) \/ (z = y /\ a.fallback # NULL)
    BY <1>1, <1>2 DEF At, SaidLabels, SaidOf
  <1>4. x # y
    OBVIOUS
  <1> HIDE DEF a, x, y, A
  <1>5. /\ IsFiniteSet({}) /\ Cardinality({}) = 0
        /\ IsFiniteSet({x}) /\ Cardinality({x}) = 1 /\ IsFiniteSet({y}) /\ Cardinality({y}) = 1
        /\ IsFiniteSet({x} \cup {y}) /\ Cardinality({x} \cup {y}) = 2
    <2>1. IsFiniteSet({}) /\ Cardinality({}) = 0
      BY FS_EmptySet
    <2>2. \A z : IsFiniteSet({z}) /\ Cardinality({z}) = 1
      BY FS_Singleton
    <2>3. IsFiniteSet({x} \cup {y}) /\ Cardinality({x} \cup {y}) = 2
      <3> DEFINE S == {x}
      <3>1. IsFiniteSet(S) /\ Cardinality(S) = 1 /\ y \notin S
        BY <1>4, <2>2
      <3> HIDE DEF S
      <3>2. IsFiniteSet(S \cup {y}) /\ Cardinality(S \cup {y}) = Cardinality(S) + 1
        BY <3>1, FS_AddElement
      <3>3. Cardinality(S \cup {y}) = 2
        BY <3>1, <3>2
      <3>4. QED
        BY <3>2, <3>3 DEF S
    <2>4. /\ IsFiniteSet({x}) /\ Cardinality({x}) = 1
          /\ IsFiniteSet({y}) /\ Cardinality({y}) = 1
      BY <2>2
    <2>5. QED
      BY <2>1, <2>3, <2>4
  <1>6. CASE a.label = NULL /\ a.fallback = NULL
    <2>1. A = {}
      BY <1>3, <1>6
    <2>2. QED
      BY <1>5, <1>6, <2>1 DEF A, a
  <1>7. CASE a.label # NULL /\ a.fallback = NULL
    <2>1. A = {x}
      BY <1>3, <1>7
    <2>2. QED
      BY <1>5, <1>7, <2>1 DEF A, a
  <1>8. CASE a.label = NULL /\ a.fallback # NULL
    <2>1. A = {y}
      BY <1>3, <1>8
    <2>2. QED
      BY <1>5, <1>8, <2>1 DEF A, a
  <1>9. CASE a.label # NULL /\ a.fallback # NULL
    <2>1. A = {x} \cup {y}
      BY <1>3, <1>9
    <2>2. QED
      BY <1>5, <1>9, <2>1 DEF A, a
  <1>10. QED
    BY <1>6, <1>7, <1>8, <1>9

LEMMA LabelListOf ==
  ASSUME NEW n, Agree(n), NEW i \in 1 .. n, NEW list, list = LabelLists[i]
  PROVE  /\ list \in Seq(GoodRoutes(n)) /\ Len(list) = Cardinality(At(SaidLabels, i))
         /\ \A l \in {"label", "fallback"} : SaidOf(i)[l] # NULL =>
              \E m \in DOMAIN list : list[m] = GetDefaultCreatedRoute(i, SaidOf(i)[l])
  <1> DEFINE T == GoodRoutes(n)
             a == SaidOf(i)
             normal == CreatedFor(i, a.label)
             fallback == CreatedFor(i, a.fallback)
  <1>1. a.label \in Nat /\ a.fallback \in Nat
    BY SaidTypes
  <1>2. list = normal \o fallback
    BY DEF LabelLists, Agree, AsSaid, SaidOf
  <1>3. ListFor(normal, n, i, a.label) /\ ListFor(fallback, n, i, a.fallback)
    BY <1>1, CreatedForLabel
  <1> HIDE DEF normal, fallback
  <1>4. /\ normal \in Seq(T) /\ Len(normal) = IF a.label = NULL THEN 0 ELSE 1
        /\ a.label # NULL => 1 \in DOMAIN normal /\ normal[1] = GetDefaultCreatedRoute(i, a.label)
    BY <1>3 DEF ListFor
  <1>5. /\ fallback \in Seq(T) /\ Len(fallback) = IF a.fallback = NULL THEN 0 ELSE 1
        /\ a.fallback # NULL =>
             1 \in DOMAIN fallback /\ fallback[1] = GetDefaultCreatedRoute(i, a.fallback)
    BY <1>3 DEF ListFor
  <1> HIDE DEF T
  <1>6. list \in Seq(T) /\ Joins(normal, fallback, list)
    BY <1>2, <1>4, <1>5, JoinedLists
  <1>7. Len(list) = Cardinality(At(SaidLabels, i))
    BY <1>4, <1>5, <1>6, LabelsAt DEF Joins
  <1>8. ASSUME NEW l \in {"label", "fallback"}, a[l] # NULL
        PROVE  \E m \in DOMAIN list : list[m] = GetDefaultCreatedRoute(i, a[l])
    <2>1. CASE l = "label"
      BY <1>4, <1>6, <1>8, <2>1 DEF Joins
    <2>2. CASE l = "fallback"
      BY <1>5, <1>6, <1>8, <2>2 DEF Joins
    <2>3. QED
      BY <2>1, <2>2
  <1>9. QED
    BY <1>6, <1>7, <1>8 DEF T

LEMMA LabelRoutesAreSaid ==
  ASSUME NEW n, Agree(n)
  PROVE  /\ LabelRoutes \in Seq(GoodRoutes(n)) /\ IsFiniteSet(SaidLabels)
         /\ Len(LabelRoutes) = Cardinality(SaidLabels)
         /\ \A x \in SaidLabels : \E k \in DOMAIN LabelRoutes : LabelRoute(LabelRoutes[k], x)
  <1> DEFINE T == GoodRoutes(n)
             lists == LabelLists
  <1>1. n \in Nat /\ DOMAIN priv.pRtLst = 1 .. n /\ DOMAIN doc.sockets = 1 .. n
    BY DEF Agree
  <1>2. Len(lists) = n /\ lists = [i \in 1 .. n |-> lists[i]]
    <2>1. lists = [i \in 1 .. n |-> lists[i]]
      BY <1>1 DEF LabelLists
    <2> HIDE DEF lists
    <2>2. QED
      BY <1>1, <2>1
  <1>3. \A i \in 1 .. n : /\ lists[i] \in Seq(T) /\ Len(lists[i]) = Cardinality(At(SaidLabels, i))
                          /\ IsFiniteSet(At(SaidLabels, i))
    BY LabelListOf, LabelsAt
  <1>4. ASSUME NEW x \in SaidLabels
        PROVE  /\ x[1] \in 1 .. n /\ x[2] \in {"label", "fallback"} /\ SaidOf(x[1])[x[2]] # NULL
               /\ x = <<x[1], x[2]>>
    BY <1>1 DEF SaidLabels, SaidOf
  <1>5. CASE n = 0
    <2>1. lists = <<>>
      BY <1>2, <1>5
    <2>2. LabelRoutes = <<>>
      BY <2>1, LabelRoutesJoined DEF FlattenSeq
    <2>3. SaidLabels = {}
      BY <1>4, <1>5
    <2> HIDE DEF T
    <2>4. LabelRoutes \in Seq(T) /\ Len(LabelRoutes) = 0
      BY <2>2
    <2>5. QED
      BY <2>3, <2>4, FS_EmptySet DEF T
  <1>6. CASE n # 0
    <2> HIDE DEF T, lists
    <2>1. FlattenedUpTo(T, FlattenSeq(lists), lists, SaidLabels, n)
      <3>1. n \in Nat \ {0}
        BY <1>1, <1>6
      <3>2. QED
        BY <1>2, <1>3, <3>1, FlattenCounts
    <2>2. UpTo(SaidLabels, n) = SaidLabels
      BY <1>4 DEF UpTo
    <2>3. /\ LabelRoutes \in Seq(T) /\ IsFiniteSet(SaidLabels)
          /\ Len(LabelRoutes) = Cardinality(SaidLabels)
          /\ \A j \in 1 .. n : \A m \in DOMAIN lists[j] :
               \E k \in DOMAIN LabelRoutes : LabelRoutes[k] = lists[j][m]
      BY <2>1, <2>2, LabelRoutesJoined DEF FlattenedUpTo, lists
    <2>4. ASSUME NEW x \in SaidLabels
          PROVE  \E k \in DOMAIN LabelRoutes : LabelRoute(LabelRoutes[k], x)
      <3> DEFINE i == x[1]
                 label == SaidOf(i)[x[2]]
                 r == GetDefaultCreatedRoute(i, label)
      <3>1. i \in 1 .. n /\ x[2] \in {"label", "fallback"} /\ label # NULL
        BY <1>4
      <3>2. label \in Nat
        <4>1. SaidOf(i).label \in Nat /\ SaidOf(i).fallback \in Nat
          BY <3>1, SaidTypes
        <4>2. QED
          BY <3>1, <4>1
      <3>3. PICK m \in DOMAIN lists[i] : lists[i][m] = r
        BY <3>1, LabelListOf DEF lists
      <3>4. PICK k \in DOMAIN LabelRoutes : LabelRoutes[k] = r
        BY <2>3, <3>1, <3>3
      <3> HIDE DEF r, label
      <3>5. /\ i \in {r.source, r.sink} /\ NULL \in {r.source, r.sink}
            /\ r.label = label /\ (r.active <=> SaidOf(i).active)
        BY <3>1, <3>2, RouteOfLabel DEF r
      <3>6. LabelRoute(r, x)
        BY <3>5 DEF LabelRoute, label
      <3>7. QED
        BY <3>4, <3>6
    <2>5. QED
      BY <2>3, <2>4 DEF T
  <1>7. QED
    BY <1>5, <1>6

-----------------------------------------------------------------------------
(* The numbers of the routes. *)

Unnumbered(routes, k) == {m \in 1 .. k - 1 : routes[m].id = Invalid}

LEMMA UnnumberedBefore ==
  ASSUME NEW routes, NEW k \in Nat \ {0}
  PROVE  /\ IsFiniteSet(Unnumbered(routes, k))
         /\ Cardinality(Unnumbered(routes, k)) \in 0 .. k - 1
  <1> DEFINE D == 1 .. k - 1
             U == Unnumbered(routes, k)
  <1>1. IsFiniteSet(D) /\ Cardinality(D) = k - 1
    BY FS_Interval
  <1>2. U \in SUBSET D
    BY DEF Unnumbered
  <1> HIDE DEF D, U
  <1>3. IsFiniteSet(U) /\ Cardinality(U) <= Cardinality(D)
    BY <1>1, <1>2, FS_Subset
  <1>4. Cardinality(U) \in Nat
    BY <1>3, FS_CardinalityType
  <1>5. QED
    BY <1>1, <1>3, <1>4 DEF U

LEMMA UnnumberedGrows ==
  ASSUME NEW routes, NEW k \in Nat \ {0}, NEW m \in Nat \ {0}, k < m, routes[k].id = Invalid
  PROVE  Cardinality(Unnumbered(routes, k)) < Cardinality(Unnumbered(routes, m))
  <1> DEFINE U == Unnumbered(routes, k)
             V == Unnumbered(routes, m)
  <1>1. U \in SUBSET V /\ k \in V /\ k \notin U
    BY DEF Unnumbered
  <1>2. IsFiniteSet(U) /\ IsFiniteSet(V) /\ Cardinality(U) \in Nat /\ Cardinality(V) \in Nat
    BY UnnumberedBefore, FS_CardinalityType
  <1> HIDE DEF U, V
  <1>3. Cardinality(U) <= Cardinality(V) /\ (Cardinality(U) = Cardinality(V) => U = V)
    BY <1>1, <1>2, FS_Subset
  <1>4. Cardinality(U) # Cardinality(V)
    BY <1>1, <1>3
  <1>5. Cardinality(U) < Cardinality(V)
    BY <1>2, <1>3, <1>4
  <1>6. QED
    BY <1>5 DEF U, V

\* A number changes nothing else.
SameRoute(q, r) ==
  /\ q.source = r.source /\ q.sink = r.sink /\ q.label = r.label /\ q.active = r.active
  /\ r.id # Invalid => q.id = r.id

LEMMA NumberingKeeps ==
  ASSUME NEW n, NEW routes \in Seq(GoodRoutes(n)), NEW k \in DOMAIN routes
  PROVE  /\ SameRoute(Numbered(routes)[k], routes[k])
         /\ routes[k].id = Invalid =>
              Numbered(routes)[k].id =
                (AutoIdStart + Cardinality(Unnumbered(routes, k))) % IdRange
  <1> DEFINE r == routes[k]
             number == (AutoIdStart + Cardinality(Unnumbered(routes, k))) % IdRange
             q == Numbered(routes)[k]
  <1>1. r \in RouteRecord
    <2> DEFINE T == GoodRoutes(n)
    <2>1. routes \in Seq(T)
      OBVIOUS
    <2> HIDE DEF T
    <2>2. routes[k] \in T
      BY <2>1
    <2>3. QED
      BY <2>2 DEF T, GoodRoutes
  <1>2. q = IF r.id # Invalid THEN r ELSE [r EXCEPT !.id = number]
    BY DEF Numbered, Unnumbered
  <1> HIDE DEF r, number, q
  <1>3. SameRoute(q, r) /\ (r.id = Invalid => q.id = number)
    BY <1>1, <1>2 DEF SameRoute, RouteRecord
  <1>4. QED
    BY <1>3 DEF r, number, q

LEMMA NumberedDomain ==
  ASSUME NEW T, NEW routes \in Seq(T)
  PROVE  /\ Len(Numbered(routes)) = Len(routes) /\ Len(routes) \in Nat
         /\ DOMAIN Numbered(routes) = 1 .. Len(routes) /\ DOMAIN routes = 1 .. Len(routes)
  <1> DEFINE all == Numbered(routes)
             f(k) == IF routes[k].id # Invalid THEN routes[k]
                     ELSE [routes[k] EXCEPT !.id =
                            (AutoIdStart + Cardinality({m \in 1 .. k - 1 : routes[m].id = Invalid}))
                              % IdRange]
  <1>1. DOMAIN routes = 1 .. Len(routes) /\ Len(routes) \in Nat
    OBVIOUS
  <1>2. all = [k \in 1 .. Len(routes) |-> f(k)]
    BY <1>1 DEF Numbered
  <1> HIDE DEF f, all
  <1>3. Len(all) = Len(routes) /\ DOMAIN all = 1 .. Len(routes)
    BY <1>1, <1>2
  <1>4. QED
    BY <1>1, <1>3 DEF all

\* As long as the counter does not pass its end, it does not give zero, and it gives
\* each number once.
LEMMA DoubleFits ==
  ASSUME NEW h \in Nat, NEW c \in 0 .. h - 1
  PROVE  (h + c) % (h + h) = h + c
  OBVIOUS

LEMMA CounterFits ==
  ASSUME NEW l \in Nat, l <= IdRange - AutoIdStart, NEW k \in 1 .. l, NEW c \in 0 .. k - 1
  PROVE  (AutoIdStart + c) % IdRange = AutoIdStart + c
  <1>1. IdRange = AutoIdStart + AutoIdStart /\ AutoIdStart \in Nat
    BY DEF IdRange, AutoIdStart
  <1>2. c \in 0 .. AutoIdStart - 1
    BY <1>1
  <1>3. (AutoIdStart + c) % (AutoIdStart + AutoIdStart) = AutoIdStart + c
    BY <1>1, <1>2, DoubleFits
  <1>4. QED
    BY <1>1, <1>3

LEMMA NumberInRange ==
  ASSUME NEW n, NEW routes \in Seq(GoodRoutes(n)), NEW k \in DOMAIN routes, routes[k].id = Invalid,
         Len(routes) <= IdRange - AutoIdStart
  PROVE  Numbered(routes)[k].id = AutoIdStart + Cardinality(Unnumbered(routes, k))
  <1>1. k \in 1 .. Len(routes) /\ Len(routes) \in Nat
    BY NumberedDomain
  <1>2. Cardinality(Unnumbered(routes, k)) \in 0 .. k - 1
    BY <1>1, UnnumberedBefore
  <1>3. Numbered(routes)[k].id = (AutoIdStart + Cardinality(Unnumbered(routes, k))) % IdRange
    BY NumberingKeeps
  <1>4. (AutoIdStart + Cardinality(Unnumbered(routes, k))) % IdRange =
          AutoIdStart + Cardinality(Unnumbered(routes, k))
    BY <1>1, <1>2, CounterFits
  <1>5. QED
    BY <1>3, <1>4

LEMMA NumbersDiffer ==
  ASSUME NEW n, NEW routes \in Seq(GoodRoutes(n)), Len(routes) <= IdRange - AutoIdStart,
         NEW k \in DOMAIN routes, routes[k].id = Invalid,
         NEW m \in DOMAIN routes, routes[m].id = Invalid,
         Numbered(routes)[k].id = Numbered(routes)[m].id
  PROVE  k = m
  <1> DEFINE c == Cardinality(Unnumbered(routes, k))
             d == Cardinality(Unnumbered(routes, m))
  <1>1. k \in Nat \ {0} /\ m \in Nat \ {0}
    BY NumberedDomain
  <1>2. AutoIdStart + c = AutoIdStart + d
    BY NumberInRange
  <1>3. c \in Nat /\ d \in Nat
    BY <1>1, UnnumberedBefore
  <1>4. /\ k < m => c < d
        /\ m < k => d < c
    BY <1>1, UnnumberedGrows
  <1> HIDE DEF c, d
  <1>5. c = d
    BY <1>2, <1>3 DEF AutoIdStart
  <1>6. QED
    BY <1>1, <1>3, <1>4, <1>5

-----------------------------------------------------------------------------
(* The routes of the list that the library gets. *)

\* The routes depend on the list of the endpoints only.
LEMMA RoutesKept ==
  ASSUME priv'.pRtLst = priv.pRtLst
  PROVE  Numbered(NamedRoutes \o LabelRoutes)' = Numbered(NamedRoutes \o LabelRoutes)
  BY DEF Numbered, NamedRoutes, LabelRoutes, GetDefaultCreatedRoute, Linked

LEMMA InitRoutesInv == Init => RoutesInv
  BY DEF Init, RoutesInv

LEMMA SocketRoutes == ParseSocket => pc' \notin {"drivers", "done"}
  BY DEF ParseSocket, ParseNetworkSocket, ParseSplitterIn, ParseLocalSocket, ParseSplitterOut,
    ParseCombiner, ParseNestedSocket, ParseInvalidNestedSocket, EndNested, Finish, Error

LEMMA NextRoutesInv ==
  ASSUME TypeInv, RoutesInv, [Next]_vars
  PROVE  RoutesInv'
  <1>1. CASE Error
    BY <1>1 DEF Error, RoutesInv
  <1>2. CASE ParseRoutes
    BY <1>2, RoutesKept DEF ParseRoutes, RoutesInv
  <1>3. CASE /\ priv'.pRtLst = priv.pRtLst /\ ucs'.pRoutes = ucs.pRoutes
             /\ pc' \in {"drivers", "done"} => pc \in {"drivers", "done"}
    BY <1>3, RoutesKept DEF RoutesInv
  <1>4. ASSUME NEW link \in Links, NEW kinds \in DriverKinds, ParseDriver(link, kinds)
        PROVE  RoutesInv'
    <2>1. \/ Error
          \/ /\ priv' = [priv EXCEPT !.drvInfLst = Expand(@, link, kinds)]
             /\ pc' = pc /\ ucs' = ucs
      BY <1>4 DEF ParseDriver
    <2>2. Good(priv)
      BY DEF TypeInv, Good
    <2>3. \/ Error
          \/ priv'.pRtLst = priv.pRtLst /\ pc' = pc /\ ucs' = ucs
      BY <2>1, <2>2, DriversGood
    <2>4. QED
      BY <1>1, <1>3, <2>3
  <1>5. CASE FillDriverArray
    <2>1. /\ priv' = priv /\ pc = "drivers"
          /\ ucs' = [ucs EXCEPT !.ppDriver = priv.drvInfLst]
      BY <1>5 DEF FillDriverArray
    <2>2. ucs'.pRoutes = ucs.pRoutes
      BY <2>1 DEF TypeInv, UcsFields
    <2>3. QED
      BY <1>3, <2>1, <2>2
  <1>6. CASE ParseSocket
    BY <1>6, SocketRoutes DEF RoutesInv
  <1>7. ASSUME NEW link \in Links \cup {NULL}, EndConnection(link) PROVE RoutesInv'
    BY <1>7 DEF EndConnection, Error, RoutesInv
  <1>8. ASSUME NEW names \in NodePorts, ParseNode(names) PROVE RoutesInv'
    BY <1>8 DEF ParseNode, RoutesInv
  <1>9. ASSUME NEW pair \in SocketPairs, ParseConnection(pair) PROVE RoutesInv'
    BY <1>9 DEF ParseConnection, RoutesInv
  <1>10. CASE EndNode
    BY <1>10 DEF EndNode, RoutesInv
  <1>11. CASE Fail
    BY <1>1, <1>11 DEF Fail
  <1>12. CASE UNCHANGED vars
    BY <1>3, <1>12 DEF vars
  <1>13. QED
    BY <1>2, <1>4, <1>5, <1>6, <1>7, <1>8, <1>9, <1>10, <1>11, <1>12 DEF Next, ParseAll

\* The list before it is numbered has every route of the document.
LEMMA RoutesAreSaid ==
  ASSUME NEW n, Agree(n), NEW routes, routes = NamedRoutes \o LabelRoutes
  PROVE  /\ routes \in Seq(GoodRoutes(n))
         /\ Len(routes) = Cardinality(SaidNamed) + Cardinality(SaidLabels)
         /\ \A x \in SaidNamed : \E k \in DOMAIN routes : NamedRoute(routes[k], x)
         /\ \A x \in SaidLabels : \E k \in DOMAIN routes : LabelRoute(routes[k], x)
  <1> DEFINE T == GoodRoutes(n)
             named == NamedRoutes
             labels == LabelRoutes
  <1>1. /\ named \in Seq(T) /\ Len(named) = Cardinality(SaidNamed)
        /\ \A x \in SaidNamed : \E k \in DOMAIN named : NamedRoute(named[k], x)
    BY NamedRoutesAreSaid
  <1>2. /\ labels \in Seq(T) /\ Len(labels) = Cardinality(SaidLabels)
        /\ \A x \in SaidLabels : \E k \in DOMAIN labels : LabelRoute(labels[k], x)
    BY LabelRoutesAreSaid
  <1>3. routes = named \o labels
    OBVIOUS
  <1> HIDE DEF T, named, labels
  <1>4. routes \in Seq(T) /\ Joins(named, labels, routes)
    BY <1>1, <1>2, <1>3, JoinedLists
  <1>5. Len(routes) = Cardinality(SaidNamed) + Cardinality(SaidLabels)
    BY <1>1, <1>2, <1>4 DEF Joins
  <1>6. ASSUME NEW x \in SaidNamed PROVE \E k \in DOMAIN routes : NamedRoute(routes[k], x)
    <2>1. PICK k \in DOMAIN named : NamedRoute(named[k], x)
      BY <1>1
    <2>2. PICK m \in DOMAIN routes : routes[m] = named[k]
      BY <1>4, <2>1 DEF Joins
    <2>3. QED
      BY <2>1, <2>2
  <1>7. ASSUME NEW x \in SaidLabels PROVE \E k \in DOMAIN routes : LabelRoute(routes[k], x)
    <2>1. PICK k \in DOMAIN labels : LabelRoute(labels[k], x)
      BY <1>2
    <2>2. PICK m \in DOMAIN routes : routes[m] = labels[k]
      BY <1>4, <2>1 DEF Joins
    <2>3. QED
      BY <2>1, <2>2
  <1>8. QED
    BY <1>4, <1>5, <1>6, <1>7 DEF T

\* The assertions of a DEBUG build.
LEMMA NumberedChecked ==
  ASSUME NoZeroIds, NEW n, Agree(n), NEW routes \in Seq(GoodRoutes(n)),
         Len(routes) <= IdRange - AutoIdStart, NEW k \in DOMAIN routes
  PROVE  Checked(Numbered(routes)[k])
  <1> DEFINE r == routes[k]
             q == Numbered(routes)[k]
  <1>1. r \in GoodRoutes(n)
    <2> DEFINE T == GoodRoutes(n)
    <2>1. routes \in Seq(T)
      OBVIOUS
    <2> HIDE DEF T
    <2>2. routes[k] \in T
      BY <2>1
    <2>3. QED
      BY <2>2 DEF T
  <1>2. SameRoute(q, r)
    BY NumberingKeeps
  <1>3. k \in Nat \ {0}
    BY NumberedDomain
  <1>4. q.id # 0
    <2>1. CASE r.id = Invalid
      <3> DEFINE c == Cardinality(Unnumbered(routes, k))
      <3>1. q.id = AutoIdStart + c
        BY <2>1, NumberInRange
      <3>2. c \in Nat
        BY <1>3, UnnumberedBefore
      <3> HIDE DEF c, q
      <3>3. QED
        BY <3>1, <3>2 DEF AutoIdStart
    <2>2. CASE r.id # Invalid
      <3>1. PICK i \in 1 .. n : SaidOf(i).id = r.id
        BY <1>1, <2>2 DEF GoodRoutes
      <3>2. SaidOf(i) \in Attributes
        BY <3>1 DEF Agree, SaidRecord, SaidOf
      <3>3. r.id # 0
        BY <3>1, <3>2 DEF NoZeroIds
      <3>4. QED
        BY <1>2, <2>2, <3>3 DEF SameRoute
    <2>3. QED
      BY <2>1, <2>2
  <1> HIDE DEF r, q
  <1>5. /\ {q.source, q.sink} \subseteq 0 .. n
        /\ NULL \in {q.source, q.sink} => q.label # NULL
    BY <1>1, <1>2 DEF GoodRoutes, SameRoute
  <1>6. ASSUME NEW i \in {q.source, q.sink} \ {NULL}
        PROVE  priv.pRtLst[i].ep.jobs # <<>> /\ priv.pRtLst[i].ep.node # NULL
    <2>1. i \in 1 .. n
      BY <1>5 DEF NULL, Agree
    <2>2. doc.sockets[i] \in SaidRecord /\ AsSaid(priv.pRtLst[i], doc.sockets[i])
      BY <2>1 DEF Agree
    <2>3. QED
      BY <2>2 DEF SaidRecord, AsSaid, NULL
  <1>7. Checked(q)
    BY <1>4, <1>5, <1>6 DEF Checked
  <1>8. QED
    BY <1>7 DEF q

LEMMA AutoIsUnnumbered ==
  ASSUME NEW n, Agree(n), NEW routes \in Seq(GoodRoutes(n)), ucs.pRoutes = Numbered(routes),
         NEW k \in AutoRoutes
  PROVE  k \in DOMAIN routes /\ routes[k].id = Invalid
  <1>1. k \in DOMAIN routes /\ \A i \in DOMAIN doc.sockets : SaidOf(i).id # ucs.pRoutes[k].id
    BY NumberedDomain DEF AutoRoutes
  <1>2. routes[k] \in GoodRoutes(n)
    <2> DEFINE T == GoodRoutes(n)
    <2>1. routes \in Seq(T)
      OBVIOUS
    <2> HIDE DEF T
    <2>2. routes[k] \in T
      BY <1>1, <2>1
    <2>3. QED
      BY <2>2 DEF T
  <1>3. routes[k].id # Invalid => ucs.pRoutes[k].id = routes[k].id
    BY <1>1, NumberingKeeps DEF SameRoute
  <1>4. routes[k].id # Invalid => \E i \in DOMAIN doc.sockets : SaidOf(i).id = routes[k].id
    BY <1>2 DEF GoodRoutes, Agree
  <1>5. QED
    BY <1>1, <1>3, <1>4

LEMMA RoutesInvIsOfDocument ==
  ASSUME NoZeroIds, TypeInv, DocumentInv, RoutesInv
  PROVE  RoutesOfDocument
  <1>1. SUFFICES ASSUME pc \in {"drivers", "done"}
        PROVE  /\ Len(ucs.pRoutes) = Cardinality(SaidNamed) + Cardinality(SaidLabels)
               /\ \A x \in SaidNamed : \E k \in DOMAIN ucs.pRoutes : NamedRoute(ucs.pRoutes[k], x)
               /\ \A x \in SaidLabels : \E k \in DOMAIN ucs.pRoutes : LabelRoute(ucs.pRoutes[k], x)
               /\ Len(ucs.pRoutes) <= IdRange - AutoIdStart =>
                    /\ RoutesChecked
                    /\ \A k, m \in AutoRoutes : ucs.pRoutes[k].id = ucs.pRoutes[m].id => k = m
    BY DEF RoutesOfDocument, SaidNamed, SaidLabels, SaidOf, AutoRoutes, NamedRoute, LabelRoute
  <1> DEFINE n == Len(doc.sockets)
             routes == NamedRoutes \o LabelRoutes
             all == Numbered(routes)
  <1>2. Agree(n)
    BY <1>1, DocumentAgrees
  <1>3. ucs.pRoutes = all
    BY <1>1 DEF RoutesInv
  <1> HIDE DEF n
  <1>4. /\ routes \in Seq(GoodRoutes(n))
        /\ Len(routes) = Cardinality(SaidNamed) + Cardinality(SaidLabels)
        /\ \A x \in SaidNamed : \E k \in DOMAIN routes : NamedRoute(routes[k], x)
        /\ \A x \in SaidLabels : \E k \in DOMAIN routes : LabelRoute(routes[k], x)
    BY <1>2, RoutesAreSaid
  <1> HIDE DEF routes
  <1>5. Len(all) = Len(routes) /\ DOMAIN all = DOMAIN routes
    BY <1>4, NumberedDomain
  <1>6. \A k \in DOMAIN routes : SameRoute(all[k], routes[k])
    BY <1>4, NumberingKeeps
  <1> HIDE DEF all
  <1>7. ASSUME NEW x \in SaidNamed PROVE \E k \in DOMAIN all : NamedRoute(all[k], x)
    <2>1. PICK k \in DOMAIN routes : NamedRoute(routes[k], x)
      BY <1>4
    <2>2. SameRoute(all[k], routes[k])
      BY <1>6
    <2>3. NamedRoute(all[k], x)
      BY <2>1, <2>2 DEF NamedRoute, SameRoute
    <2>4. QED
      BY <1>5, <2>3
  <1>8. ASSUME NEW x \in SaidLabels PROVE \E k \in DOMAIN all : LabelRoute(all[k], x)
    <2>1. PICK k \in DOMAIN routes : LabelRoute(routes[k], x)
      BY <1>4
    <2>2. SameRoute(all[k], routes[k])
      BY <1>6
    <2>3. LabelRoute(all[k], x)
      BY <2>1, <2>2 DEF LabelRoute, SameRoute
    <2>4. QED
      BY <1>5, <2>3
  <1>9. ASSUME Len(routes) <= IdRange - AutoIdStart
        PROVE  RoutesChecked /\ \A k, m \in AutoRoutes : ucs.pRoutes[k].id = ucs.pRoutes[m].id => k = m
    <2>1. \A k \in DOMAIN routes : Checked(all[k])
      BY <1>2, <1>4, <1>9, NumberedChecked DEF all
    <2>2. RoutesChecked
      BY <1>3, <1>5, <2>1 DEF RoutesChecked
    <2>3. ASSUME NEW k \in AutoRoutes, NEW m \in AutoRoutes, all[k].id = all[m].id PROVE k = m
      <3>1. /\ k \in DOMAIN routes /\ routes[k].id = Invalid
            /\ m \in DOMAIN routes /\ routes[m].id = Invalid
        BY <1>2, <1>3, <1>4, AutoIsUnnumbered DEF all
      <3>2. QED
        BY <1>4, <1>9, <2>3, <3>1, NumbersDiffer DEF all
    <2>4. QED
      BY <1>3, <2>2, <2>3
  <1>10. QED
    BY <1>3, <1>4, <1>5, <1>7, <1>8, <1>9

\* ParseRoutes and the assertions behind it in UcsXml.c: if every connection has one network
\* socket, all sockets of a splitter or combiner have the same attributes, and no RouteId is 0, then
\* in a document of any length every sender and receiver of the same name are joined by one route,
\* every label has its own, there are no others, and as long as the counter of 16 bits has a number
\* for each, the routes without an id get different ones, and the assertions of a DEBUG build hold.
THEOREM XmlRoutesOfDocument ==
  ASSUME OneNetworkSocket, ~MixedSockets, NoZeroIds
  PROVE  Spec => []RoutesOfDocument
  <1>1. Init => TypeInv /\ DocumentInv /\ RoutesInv
    BY InitTypeInv, InitDocumentInv, InitRoutesInv
  <1>2. TypeInv /\ DocumentInv /\ RoutesInv /\ [Next]_vars => (TypeInv /\ DocumentInv /\ RoutesInv)'
    BY NextTypeInv, NextDocumentInv, NextRoutesInv
  <1>3. TypeInv /\ DocumentInv /\ RoutesInv => RoutesOfDocument
    BY RoutesInvIsOfDocument
  <1>4. QED
    BY <1>1, <1>2, <1>3, PTL DEF Spec

-----------------------------------------------------------------------------
(* Lists of lists, each element of which stands for a list. *)

LEMMA StepByStep ==
  ASSUME NEW n \in Nat, NEW S, 0 \in S, \A k \in 0 .. n - 1 : k \in S => k + 1 \in S
  PROVE  n \in S
  <1> DEFINE T == {k \in 0 .. n : k \notin S}
  <1>1. SUFFICES ASSUME n \notin S PROVE FALSE
    OBVIOUS
  <1>2. T \subseteq Nat /\ T # {}
    BY <1>1
  <1>3. PICK x \in T : \A y \in T : x <= y
    <2> HIDE DEF T
    <2>1. QED
      BY <1>2, MinimumOfNats
  <1>4. x \in 0 .. n /\ x \notin S /\ x # 0
    BY <1>3
  <1>5. x - 1 \in 0 .. n - 1 /\ (x - 1) + 1 = x
    BY <1>4
  <1>6. x - 1 \in S
    BY <1>3, <1>5
  <1>7. QED
    BY <1>4, <1>5, <1>6

\* The first k lists.
Cut(s, k) == [i \in 1 .. k |-> s[i]]

LEMMA CutFacts ==
  ASSUME NEW T, NEW s \in Seq(T)
  PROVE  /\ Len(s) \in Nat /\ Cut(s, 0) = <<>> /\ Cut(s, Len(s)) = s
         /\ \A k \in 0 .. Len(s) - 1 :
              /\ Cut(s, k) \in Seq(T) /\ Len(Cut(s, k)) = k
              /\ s[k + 1] \in T /\ Cut(s, k + 1) = Append(Cut(s, k), s[k + 1])
  <1>1. Len(s) \in Nat /\ Cut(s, 0) = <<>>
    BY DEF Cut
  <1>2. Cut(s, Len(s)) = s
    BY DEF Cut
  <1>3. ASSUME NEW k \in 0 .. Len(s) - 1
        PROVE  /\ Cut(s, k) \in Seq(T) /\ Len(Cut(s, k)) = k
               /\ s[k + 1] \in T /\ Cut(s, k + 1) = Append(Cut(s, k), s[k + 1])
    <2>1. \A i \in 1 .. k + 1 : s[i] \in T
      BY <1>1
    <2>2. Cut(s, k) \in Seq(T) /\ Len(Cut(s, k)) = k
      BY <1>1, <2>1 DEF Cut
    <2>3. Cut(s, k + 1) = Append(Cut(s, k), s[k + 1])
      BY <1>1, <2>1 DEF Cut
    <2>4. QED
      BY <1>1, <2>1, <2>2, <2>3
  <1>4. QED
    BY <1>1, <1>2, <1>3

\* The steps of FlattenSeq determine what it returns.
LEMMA FlattenGiven ==
  ASSUME NEW lists, NEW n \in Nat \ {0}, Len(lists) = n,
         NEW f, f[1] = lists[1], \A i \in 1 .. n - 1 : f[i + 1] = f[i] \o lists[i + 1]
  PROVE  FlattenSeq(lists) = f[n]
  <1>1. PICK g : /\ g[1] = lists[1]
                 /\ \A i \in 1 .. n - 1 : g[i + 1] = g[i] \o lists[i + 1]
                 /\ FlattenSeq(lists) = g[n]
    BY FlattenSteps
  <1> DEFINE S == {k \in Nat : k + 1 \in 1 .. n => f[k + 1] = g[k + 1]}
  <1>2. 0 \in S
    BY <1>1
  <1>3. ASSUME NEW k \in 0 .. (n - 1) - 1, k \in S PROVE k + 1 \in S
    <2>1. k + 1 \in 1 .. n - 1 /\ k + 1 \in 1 .. n
      OBVIOUS
    <2>2. f[k + 1] = g[k + 1]
      BY <1>3, <2>1
    <2>3. f[(k + 1) + 1] = f[k + 1] \o lists[(k + 1) + 1]
      BY <2>1
    <2>4. g[(k + 1) + 1] = g[k + 1] \o lists[(k + 1) + 1]
      BY <1>1, <2>1
    <2>5. f[(k + 1) + 1] = g[(k + 1) + 1] /\ k + 1 \in Nat
      BY <2>2, <2>3, <2>4
    <2>6. QED
      BY <2>5
  <1>4. n - 1 \in S
    <2> HIDE DEF S
    <2>1. n - 1 \in Nat
      OBVIOUS
    <2>2. QED
      BY <1>2, <1>3, <2>1, StepByStep
  <1>5. f[n] = g[n]
    BY <1>4
  <1>6. QED
    BY <1>1, <1>5

LEMMA FlattenEmpty == FlattenSeq(<<>>) = <<>>
  BY DEF FlattenSeq

LEMMA FlattenAppended ==
  ASSUME NEW T, NEW lists \in Seq(Seq(T)), NEW x \in Seq(T), FlattenSeq(lists) \in Seq(T)
  PROVE  FlattenSeq(Append(lists, x)) = FlattenSeq(lists) \o x
  <1> DEFINE n == Len(lists)
             U == Seq(T)
             new == Append(lists, x)
  <1>1. lists \in Seq(U) /\ x \in U
    OBVIOUS
  <1>2. CASE lists = <<>>
    <2>1. Len(new) = 1 /\ new[1] = x
      BY <1>2
    <2> HIDE DEF new
    <2>2. PICK f : /\ f[1] = new[1]
                   /\ \A i \in 1 .. 1 - 1 : f[i + 1] = f[i] \o new[i + 1]
                   /\ FlattenSeq(new) = f[1]
      <3>1. 1 \in Nat \ {0}
        OBVIOUS
      <3>2. QED
        BY <2>1, <3>1, FlattenSteps
    <2>3. FlattenSeq(lists) \o x = x
      BY <1>2, FlattenEmpty
    <2>4. QED
      BY <2>1, <2>2, <2>3 DEF new
  <1>3. CASE lists # <<>>
    <2> HIDE DEF U
    <2>1. /\ n \in Nat \ {0} /\ Len(new) = n + 1 /\ new[n + 1] = x
          /\ \A i \in 1 .. n : new[i] = lists[i]
      BY <1>1, <1>3
    <2> HIDE DEF new, n
    <2>2. Len(lists) = n
      BY DEF n
    <2>3. PICK f : /\ f[1] = lists[1]
                   /\ \A i \in 1 .. n - 1 : f[i + 1] = f[i] \o lists[i + 1]
                   /\ FlattenSeq(lists) = f[n]
      BY <2>1, <2>2, FlattenSteps
    <2> DEFINE g == [i \in 1 .. n + 1 |-> IF i = n + 1 THEN f[n] \o x ELSE f[i]]
    <2>4. g[1] = new[1]
      BY <2>1, <2>3
    <2>5. ASSUME NEW i \in 1 .. n PROVE g[i + 1] = g[i] \o new[i + 1]
      <3>1. CASE i = n
        <4>1. n \in 1 .. n + 1 /\ n + 1 \in 1 .. n + 1 /\ n # n + 1
          BY <2>1
        <4>2. g[n] = f[n] /\ g[n + 1] = f[n] \o x
          BY <4>1
        <4>3. QED
          BY <2>1, <3>1, <4>2
      <3>2. CASE i # n
        <4>1. i \in 1 .. n - 1 /\ i + 1 \in 1 .. n
          BY <2>1, <3>2
        <4>2. g[i + 1] = f[i + 1] /\ g[i] = f[i] /\ new[i + 1] = lists[i + 1]
          BY <2>1, <4>1
        <4>3. QED
          BY <2>3, <4>1, <4>2
      <3>3. QED
        BY <3>1, <3>2
    <2>6. g[n + 1] = f[n] \o x
      BY <2>1
    <2> HIDE DEF g
    <2>7. FlattenSeq(new) = g[n + 1]
      <3> DEFINE l == n + 1
      <3>1. l \in Nat \ {0} /\ l - 1 = n /\ Len(new) = l
        BY <2>1
      <3>2. \A i \in 1 .. l - 1 : g[i + 1] = g[i] \o new[i + 1]
        BY <2>5, <3>1
      <3> HIDE DEF l
      <3>3. FlattenSeq(new) = g[l]
        BY <2>4, <3>1, <3>2, FlattenGiven
      <3>4. QED
        BY <3>3 DEF l
    <2>8. QED
      BY <2>3, <2>6, <2>7 DEF new
  <1>4. QED
    BY <1>2, <1>3

LEMMA FlattenType ==
  ASSUME NEW T, NEW lists \in Seq(Seq(T))
  PROVE  FlattenSeq(lists) \in Seq(T)
  <1> DEFINE n == Len(lists)
             U == Seq(T)
             S == {k \in 0 .. n : FlattenSeq(Cut(lists, k)) \in U}
  <1>1. /\ n \in Nat /\ Cut(lists, 0) = <<>> /\ Cut(lists, n) = lists
        /\ \A k \in 0 .. n - 1 :
             /\ Cut(lists, k) \in Seq(U) /\ Len(Cut(lists, k)) = k
             /\ lists[k + 1] \in U /\ Cut(lists, k + 1) = Append(Cut(lists, k), lists[k + 1])
    BY CutFacts
  <1>2. 0 \in S
    BY <1>1, FlattenEmpty
  <1>3. ASSUME NEW k \in 0 .. n - 1, k \in S PROVE k + 1 \in S
    <2>1. FlattenSeq(Cut(lists, k)) \in Seq(T)
      BY <1>3
    <2>2. FlattenSeq(Append(Cut(lists, k), lists[k + 1])) = FlattenSeq(Cut(lists, k)) \o lists[k + 1]
      BY <1>1, <2>1, FlattenAppended
    <2>3. FlattenSeq(Cut(lists, k)) \o lists[k + 1] \in Seq(T)
      BY <1>1, <2>1, ConcatProperties
    <2>4. FlattenSeq(Cut(lists, k + 1)) \in U
      BY <1>1, <2>2, <2>3
    <2>5. k + 1 \in 0 .. n
      BY <1>1
    <2>6. QED
      BY <2>4, <2>5
  <1>4. n \in S
    <2> HIDE DEF S, n
    <2>1. QED
      BY <1>1, <1>2, <1>3, StepByStep
  <1>5. QED
    BY <1>1, <1>4

LEMMA FlattenAppend ==
  ASSUME NEW T, NEW lists \in Seq(Seq(T)), NEW x \in Seq(T)
  PROVE  FlattenSeq(Append(lists, x)) = FlattenSeq(lists) \o x
  BY FlattenType, FlattenAppended

LEMMA FlattenOne ==
  ASSUME NEW T, NEW x \in Seq(T)
  PROVE  FlattenSeq(<<x>>) = x
  <1> DEFINE U == Seq(T)
             none == <<>>
  <1>1. none \in Seq(U) /\ Append(none, x) = <<x>> /\ none \o x = x
    OBVIOUS
  <1>2. FlattenSeq(Append(none, x)) = FlattenSeq(none) \o x
    BY <1>1, FlattenAppend
  <1>3. QED
    BY <1>1, <1>2, FlattenEmpty

LEMMA FlattenOnes ==
  ASSUME NEW T, NEW list \in Seq(T)
  PROVE  FlattenSeq([i \in DOMAIN list |-> <<list[i]>>]) = list
  <1> DEFINE n == Len(list)
             U == Seq(T)
             ones == [i \in DOMAIN list |-> <<list[i]>>]
             S == {k \in 0 .. n : FlattenSeq(Cut(ones, k)) = Cut(list, k)}
  <1>1. ones \in Seq(U) /\ Len(ones) = n /\ \A i \in 1 .. n : ones[i] = <<list[i]>>
    <2>1. n \in Nat /\ DOMAIN list = 1 .. n /\ \A i \in 1 .. n : list[i] \in T
      OBVIOUS
    <2>2. \A i \in 1 .. n : <<list[i]>> \in U
      BY <2>1
    <2> HIDE DEF n, U
    <2>3. ones = [i \in 1 .. n |-> <<list[i]>>]
      BY <2>1
    <2>4. ones \in [1 .. n -> U]
      BY <2>2, <2>3
    <2>5. \A i \in 1 .. n : ones[i] = <<list[i]>>
      BY <2>3
    <2> HIDE DEF ones
    <2>6. QED
      BY <2>1, <2>4, <2>5
  <1> HIDE DEF ones
  <1>2. /\ n \in Nat /\ Cut(ones, 0) = <<>> /\ Cut(ones, n) = ones
        /\ \A k \in 0 .. n - 1 :
             /\ Cut(ones, k) \in Seq(U) /\ Len(Cut(ones, k)) = k
             /\ ones[k + 1] \in U /\ Cut(ones, k + 1) = Append(Cut(ones, k), ones[k + 1])
    <2> HIDE DEF U, n
    <2>1. QED
      BY <1>1, CutFacts
  <1>3. /\ Cut(list, 0) = <<>> /\ Cut(list, n) = list
        /\ \A k \in 0 .. n - 1 :
             /\ Cut(list, k) \in Seq(T) /\ list[k + 1] \in T
             /\ Cut(list, k + 1) = Append(Cut(list, k), list[k + 1])
    BY CutFacts
  <1>4. 0 \in S
    BY <1>2, <1>3, FlattenEmpty
  <1>5. ASSUME NEW k \in 0 .. n - 1, k \in S PROVE k + 1 \in S
    <2> DEFINE one == ones[k + 1]
               before == Cut(list, k)
    <2>1. FlattenSeq(Cut(ones, k)) = before
      BY <1>5
    <2>2. FlattenSeq(Append(Cut(ones, k), one)) = FlattenSeq(Cut(ones, k)) \o one
      BY <1>2, FlattenAppend
    <2>3. one = <<list[k + 1]>>
      <3>1. k + 1 \in 1 .. n
        BY <1>2
      <3>2. QED
        BY <1>1, <3>1
    <2>4. before \o <<list[k + 1]>> = Append(before, list[k + 1])
      <3>1. before \in Seq(T) /\ list[k + 1] \in T
        BY <1>3
      <3> HIDE DEF before
      <3>2. QED
        BY <3>1
    <2>5. FlattenSeq(Cut(ones, k + 1)) = Cut(list, k + 1)
      BY <1>2, <1>3, <2>1, <2>2, <2>3, <2>4
    <2>6. k + 1 \in 0 .. n
      BY <1>2
    <2>7. QED
      BY <2>5, <2>6
  <1>6. n \in S
    <2> HIDE DEF S, n
    <2>1. QED
      BY <1>2, <1>4, <1>5, StepByStep
  <1>7. FlattenSeq(ones) = list
    BY <1>2, <1>3, <1>6
  <1>8. QED
    BY <1>7 DEF ones

\* Lists whose elements belong together, one by one, are joined to lists of which that is true, too.
Related(R, a, b) == Len(a) = Len(b) /\ \A k \in DOMAIN a : <<a[k], b[k]>> \in R

LEMMA RelatedJoined ==
  ASSUME NEW T, NEW U, NEW R, NEW a \in Seq(T), NEW b \in Seq(U), Related(R, a, b),
         NEW x \in Seq(T), NEW y \in Seq(U), Related(R, x, y)
  PROVE  Related(R, a \o x, b \o y)
  <1> DEFINE n == Len(a)
             m == Len(x)
  <1>1. n \in Nat /\ m \in Nat /\ DOMAIN a = 1 .. n /\ DOMAIN x = 1 .. m
    OBVIOUS
  <1>2. n = Len(b) /\ m = Len(y)
    BY DEF Related
  <1>3. /\ Len(a \o x) = n + m /\ DOMAIN (a \o x) = 1 .. n + m
        /\ \A k \in 1 .. n + m : (a \o x)[k] = IF k <= n THEN a[k] ELSE x[k - n]
    OBVIOUS
  <1>4. /\ Len(b \o y) = n + m
        /\ \A k \in 1 .. n + m : (b \o y)[k] = IF k <= n THEN b[k] ELSE y[k - n]
    BY <1>2
  <1>5. (\A k \in 1 .. n : <<a[k], b[k]>> \in R) /\ \A k \in 1 .. m : <<x[k], y[k]>> \in R
    BY <1>1 DEF Related
  <1> DEFINE p == a \o x
             q == b \o y
  <1> HIDE DEF n, m, p, q
  <1>6. ASSUME NEW k \in 1 .. n + m PROVE <<p[k], q[k]>> \in R
    <2>1. CASE k <= n
      <3>1. k \in 1 .. n
        BY <1>1, <2>1
      <3>2. p[k] = a[k] /\ q[k] = b[k]
        BY <1>3, <1>4, <2>1 DEF p, q
      <3>3. QED
        BY <1>5, <3>1, <3>2
    <2>2. CASE ~(k <= n)
      <3>1. k - n \in 1 .. m
        BY <1>1, <2>2
      <3>2. p[k] = x[k - n] /\ q[k] = y[k - n]
        BY <1>3, <1>4, <2>2 DEF p, q
      <3>3. QED
        BY <1>5, <3>1, <3>2
    <2>3. QED
      BY <2>1, <2>2
  <1>7. QED
    BY <1>3, <1>4, <1>6 DEF Related, p, q

LEMMA FlattenRelated ==
  ASSUME NEW T, NEW U, NEW R, NEW lists \in Seq(Seq(T)), NEW lists2 \in Seq(Seq(U)),
         Len(lists) = Len(lists2), \A i \in DOMAIN lists : Related(R, lists[i], lists2[i])
  PROVE  Related(R, FlattenSeq(lists), FlattenSeq(lists2))
  <1> DEFINE n == Len(lists)
             TT == Seq(T)
             UU == Seq(U)
             S == {k \in 0 .. n : Related(R, FlattenSeq(Cut(lists, k)), FlattenSeq(Cut(lists2, k)))}
  <1>1. /\ n \in Nat /\ Cut(lists, 0) = <<>> /\ Cut(lists, n) = lists
        /\ \A k \in 0 .. n - 1 :
             /\ Cut(lists, k) \in Seq(TT) /\ Len(Cut(lists, k)) = k
             /\ lists[k + 1] \in TT /\ Cut(lists, k + 1) = Append(Cut(lists, k), lists[k + 1])
    BY CutFacts
  <1>2. /\ Cut(lists2, 0) = <<>> /\ Cut(lists2, n) = lists2
        /\ \A k \in 0 .. n - 1 :
             /\ Cut(lists2, k) \in Seq(UU) /\ Len(Cut(lists2, k)) = k
             /\ lists2[k + 1] \in UU /\ Cut(lists2, k + 1) = Append(Cut(lists2, k), lists2[k + 1])
    BY CutFacts
  <1>3. 0 \in S
    BY <1>1, <1>2, FlattenEmpty DEF Related
  <1>4. ASSUME NEW k \in 0 .. n - 1, k \in S PROVE k + 1 \in S
    <2> DEFINE a == FlattenSeq(Cut(lists, k))
               b == FlattenSeq(Cut(lists2, k))
               x == lists[k + 1]
               y == lists2[k + 1]
    <2>1. a \in Seq(T) /\ b \in Seq(U) /\ Related(R, a, b)
      BY <1>1, <1>2, <1>4, FlattenType
    <2>2. /\ FlattenSeq(Append(Cut(lists, k), x)) = a \o x
          /\ FlattenSeq(Append(Cut(lists2, k), y)) = b \o y
      BY <1>1, <1>2, FlattenAppend
    <2>3. x \in Seq(T) /\ y \in Seq(U) /\ Related(R, x, y)
      <3>1. k + 1 \in DOMAIN lists
        BY <1>1
      <3>2. QED
        BY <1>1, <1>2, <3>1
    <2> HIDE DEF a, b, x, y
    <2>4. Related(R, a \o x, b \o y)
      BY <2>1, <2>3, RelatedJoined
    <2>5. Related(R, FlattenSeq(Cut(lists, k + 1)), FlattenSeq(Cut(lists2, k + 1)))
      BY <1>1, <1>2, <2>2, <2>4 DEF a, b, x, y
    <2>6. k + 1 \in 0 .. n
      BY <1>1
    <2>7. QED
      BY <2>5, <2>6
  <1>5. n \in S
    <2> HIDE DEF S, n
    <2>1. QED
      BY <1>1, <1>3, <1>4, StepByStep
  <1>6. QED
    BY <1>1, <1>2, <1>5

-----------------------------------------------------------------------------
(* The list of drivers. *)

\* What a Driver element makes of one entry.
Part(e, link, kinds) ==
  IF e.linkName # link \/ kinds = <<>> THEN <<e>>
  ELSE [k \in DOMAIN kinds |-> [e EXCEPT !.driverType = kinds[k]]]

Parts(list, link, kinds) == [i \in DOMAIN list |-> Part(list[i], link, kinds)]

LEMMA EntryOfType ==
  ASSUME NEW e \in DriverEntry, NEW type \in DriverTypes
  PROVE  [e EXCEPT !.driverType = type] \in DriverEntry
  BY DEF DriverEntry

LEMMA ExpandIsParts ==
  ASSUME NEW list, NEW link, NEW kinds
  PROVE  Expand(list, link, kinds) = FlattenSeq(Parts(list, link, kinds))
  BY DEF Expand, Parts, Part

LEMMA PartType ==
  ASSUME NEW e \in DriverEntry, NEW link, NEW kinds \in Seq(DriverTypes)
  PROVE  Part(e, link, kinds) \in Seq(DriverEntry)
  <1> DEFINE T == DriverEntry
  <1>1. CASE e.linkName # link \/ kinds = <<>>
    <2>1. e \in T
      OBVIOUS
    <2> HIDE DEF T
    <2>2. <<e>> \in Seq(T)
      BY <2>1
    <2>3. QED
      BY <1>1, <2>2 DEF Part, T
  <1>2. CASE ~(e.linkName # link \/ kinds = <<>>)
    <2>1. Len(kinds) \in Nat /\ DOMAIN kinds = 1 .. Len(kinds)
          /\ \A k \in 1 .. Len(kinds) : kinds[k] \in DriverTypes
      OBVIOUS
    <2>2. \A k \in 1 .. Len(kinds) : [e EXCEPT !.driverType = kinds[k]] \in T
      BY <2>1, EntryOfType
    <2>3. Part(e, link, kinds) = [k \in 1 .. Len(kinds) |-> [e EXCEPT !.driverType = kinds[k]]]
      BY <1>2, <2>1 DEF Part
    <2> DEFINE n == Len(kinds)
    <2> HIDE DEF T, n
    <2>4. Part(e, link, kinds) \in [1 .. n -> T]
      BY <2>2, <2>3 DEF n
    <2>5. n \in Nat
      BY <2>1 DEF n
    <2>6. QED
      BY <2>4, <2>5 DEF T
  <1>3. QED
    BY <1>1, <1>2

LEMMA PartsType ==
  ASSUME NEW list \in Seq(DriverEntry), NEW link, NEW kinds \in Seq(DriverTypes)
  PROVE  /\ Parts(list, link, kinds) \in Seq(Seq(DriverEntry))
         /\ Len(Parts(list, link, kinds)) = Len(list)
         /\ Expand(list, link, kinds) \in Seq(DriverEntry)
  <1> DEFINE T == DriverEntry
             U == Seq(T)
             n == Len(list)
             parts == Parts(list, link, kinds)
  <1>1. n \in Nat /\ DOMAIN list = 1 .. n /\ \A i \in 1 .. n : list[i] \in T
    <2> HIDE DEF T
    <2>1. list \in Seq(T)
      BY DEF T
    <2>2. QED
      BY <2>1
  <1>2. \A i \in 1 .. n : Part(list[i], link, kinds) \in U
    BY <1>1, PartType
  <1> HIDE DEF T, U, n
  <1>3. parts = [i \in 1 .. n |-> Part(list[i], link, kinds)]
    BY <1>1 DEF Parts
  <1>4. parts \in [1 .. n -> U]
    BY <1>2, <1>3
  <1> HIDE DEF parts
  <1>5. parts \in Seq(U) /\ Len(parts) = n
    BY <1>1, <1>4
  <1>6. FlattenSeq(parts) \in Seq(T)
    BY <1>5, FlattenType DEF U
  <1>7. QED
    BY <1>5, <1>6, ExpandIsParts DEF T, U, n, parts

LEMMA ExpandAppend ==
  ASSUME NEW list \in Seq(DriverEntry), NEW e \in DriverEntry, NEW link,
         NEW kinds \in Seq(DriverTypes)
  PROVE  Expand(Append(list, e), link, kinds) = Expand(list, link, kinds) \o Part(e, link, kinds)
  <1> DEFINE T == DriverEntry
             U == Seq(T)
             n == Len(list)
             more == Append(list, e)
             parts == Parts(list, link, kinds)
             part == Part(e, link, kinds)
  <1>1. /\ n \in Nat /\ DOMAIN list = 1 .. n /\ DOMAIN more = 1 .. n + 1
        /\ more[n + 1] = e /\ \A i \in 1 .. n : more[i] = list[i]
    <2> HIDE DEF T
    <2>1. list \in Seq(T) /\ e \in T
      BY DEF T
    <2>2. QED
      BY <2>1
  <1>2. parts \in Seq(U) /\ Len(parts) = n /\ part \in Seq(T)
    BY PartsType, PartType
  <1>3. /\ DOMAIN parts = 1 .. n
        /\ \A i \in 1 .. n : parts[i] = Part(list[i], link, kinds)
    BY <1>1 DEF Parts
  <1> HIDE DEF more, parts, n, T
  <1>4. /\ DOMAIN Parts(more, link, kinds) = 1 .. n + 1
        /\ \A i \in 1 .. n + 1 : Parts(more, link, kinds)[i] = Part(more[i], link, kinds)
        /\ Parts(more, link, kinds) = [i \in 1 .. n + 1 |-> Part(more[i], link, kinds)]
    BY <1>1 DEF Parts
  <1> HIDE DEF part
  <1>5. part \in U
    BY <1>2
  <1>6. /\ DOMAIN Append(parts, part) = 1 .. n + 1 /\ Append(parts, part) \in Seq(U)
        /\ Append(parts, part)[n + 1] = part
        /\ \A i \in 1 .. n : Append(parts, part)[i] = parts[i]
    <2> HIDE DEF U
    <2>1. QED
      BY <1>1, <1>2, <1>5
  <1>7. Parts(more, link, kinds) = Append(parts, part)
    <2> DEFINE both == Append(parts, part)
    <2>1. \A i \in 1 .. n + 1 : both[i] = Part(more[i], link, kinds)
      <3>1. both[n + 1] = Part(more[n + 1], link, kinds)
        BY <1>1, <1>6 DEF part
      <3>2. \A i \in 1 .. n : both[i] = Part(more[i], link, kinds)
        BY <1>1, <1>3, <1>6
      <3>3. \A i \in 1 .. n + 1 : i \in 1 .. n \/ i = n + 1
        BY <1>1
      <3> HIDE DEF both
      <3>4. QED
        BY <3>1, <3>2, <3>3
    <2>2. both = [i \in 1 .. n + 1 |-> both[i]]
      <3> HIDE DEF U
      <3>1. both \in Seq(U)
        BY <1>6
      <3> HIDE DEF both
      <3>2. DOMAIN both = 1 .. n + 1
        BY <1>6 DEF both
      <3>3. QED
        BY <3>1, <3>2
    <2> HIDE DEF both
    <2>3. QED
      BY <1>4, <2>1, <2>2 DEF both
  <1>8. FlattenSeq(Append(parts, part)) = FlattenSeq(parts) \o part
    BY <1>2, FlattenAppend
  <1>9. QED
    BY <1>7, <1>8, ExpandIsParts DEF parts, part, more

LEMMA ExpandEmpty ==
  ASSUME NEW link, NEW kinds
  PROVE  Expand(<<>>, link, kinds) = <<>>
  <1>1. Parts(<<>>, link, kinds) = <<>>
    BY DEF Parts
  <1>2. QED
    BY <1>1, ExpandIsParts, FlattenEmpty

LEMMA ExpandJoined ==
  ASSUME NEW list \in Seq(DriverEntry), NEW more \in Seq(DriverEntry), NEW link,
         NEW kinds \in Seq(DriverTypes)
  PROVE  Expand(list \o more, link, kinds) = Expand(list, link, kinds) \o Expand(more, link, kinds)
  <1> DEFINE T == DriverEntry
             n == Len(more)
             Big(s) == Expand(s, link, kinds)
             S == {k \in 0 .. n : Big(list \o Cut(more, k)) = Big(list) \o Big(Cut(more, k))}
  <1>1. /\ n \in Nat /\ Cut(more, 0) = <<>> /\ Cut(more, n) = more
        /\ \A k \in 0 .. n - 1 :
             /\ Cut(more, k) \in Seq(T) /\ more[k + 1] \in T
             /\ Cut(more, k + 1) = Append(Cut(more, k), more[k + 1])
    <2> HIDE DEF T, n
    <2>1. more \in Seq(T) /\ n = Len(more)
      BY DEF T, n
    <2>2. QED
      BY <2>1, CutFacts
  <1>2. 0 \in S
    <2> DEFINE big == Big(list)
               none == <<>>
    <2>1. list \in Seq(T) /\ big \in Seq(T)
      BY PartsType
    <2>2. Big(none) = none
      BY ExpandEmpty
    <2> HIDE DEF T, big
    <2>3. list \o none = list /\ big \o none = big
      BY <2>1
    <2>4. Big(list \o Cut(more, 0)) = Big(list) \o Big(Cut(more, 0))
      BY <1>1, <2>2, <2>3 DEF big
    <2>5. 0 \in 0 .. n
      BY <1>1
    <2>6. QED
      BY <2>4, <2>5
  <1>3. ASSUME NEW k \in 0 .. n - 1, k \in S PROVE k + 1 \in S
    <2> DEFINE cut == Cut(more, k)
               e == more[k + 1]
               part == Part(e, link, kinds)
               x == Big(list)
               y == Big(cut)
    <2>1. cut \in Seq(T) /\ e \in T /\ Cut(more, k + 1) = Append(cut, e)
      BY <1>1
    <2>2. part \in Seq(T) /\ x \in Seq(T) /\ y \in Seq(T) /\ Big(list \o cut) = x \o y
      BY <1>3, <2>1, PartType, PartsType
    <2> HIDE DEF cut, e, part, x, y
    <2>3. list \o cut \in Seq(T) /\ list \o Append(cut, e) = Append(list \o cut, e)
      <3> HIDE DEF T
      <3>1. list \in Seq(T)
        BY DEF T
      <3>2. QED
        BY <2>1, <3>1
    <2>4. Big(Append(list \o cut, e)) = Big(list \o cut) \o part
      BY <2>1, <2>3, ExpandAppend DEF part
    <2>5. Big(Append(cut, e)) = y \o part
      BY <2>1, ExpandAppend DEF part, y
    <2>6. (x \o y) \o part = x \o (y \o part)
      <3> HIDE DEF T
      <3>1. QED
        BY <2>2, ConcatAssociative
    <2>7. Big(list \o Cut(more, k + 1)) = Big(list) \o Big(Cut(more, k + 1))
      BY <2>1, <2>2, <2>3, <2>4, <2>5, <2>6 DEF x
    <2>8. k + 1 \in 0 .. n
      BY <1>1
    <2>9. QED
      BY <2>7, <2>8
  <1>4. n \in S
    <2> HIDE DEF S, n
    <2>1. QED
      BY <1>1, <1>2, <1>3, StepByStep
  <1>5. QED
    BY <1>1, <1>4

\* Expand works on each of the lists from which a list is joined.
LEMMA ExpandLists ==
  ASSUME NEW lists \in Seq(Seq(DriverEntry)), NEW link, NEW kinds \in Seq(DriverTypes),
         NEW new \in Seq(Seq(DriverEntry)), Len(new) = Len(lists),
         \A i \in 1 .. Len(lists) : new[i] = Expand(lists[i], link, kinds)
  PROVE  Expand(FlattenSeq(lists), link, kinds) = FlattenSeq(new)
  <1> DEFINE T == DriverEntry
             U == Seq(T)
             n == Len(lists)
             Big(s) == Expand(s, link, kinds)
             S == {k \in 0 .. n : Big(FlattenSeq(Cut(lists, k))) = FlattenSeq(Cut(new, k))}
  <1>1. /\ n \in Nat /\ Cut(lists, 0) = <<>> /\ Cut(lists, n) = lists
        /\ \A k \in 0 .. n - 1 :
             /\ Cut(lists, k) \in Seq(U) /\ Len(Cut(lists, k)) = k
             /\ lists[k + 1] \in U /\ Cut(lists, k + 1) = Append(Cut(lists, k), lists[k + 1])
    <2> HIDE DEF U, n
    <2>1. lists \in Seq(U) /\ n = Len(lists)
      BY DEF U, n
    <2>2. QED
      BY <2>1, CutFacts
  <1>2. /\ Cut(new, 0) = <<>> /\ Cut(new, n) = new
        /\ \A k \in 0 .. n - 1 :
             /\ Cut(new, k) \in Seq(U) /\ new[k + 1] \in U
             /\ Cut(new, k + 1) = Append(Cut(new, k), new[k + 1])
    <2> HIDE DEF U, n
    <2>1. new \in Seq(U) /\ n = Len(new)
      BY DEF U, n
    <2>2. /\ Len(new) \in Nat /\ Cut(new, 0) = <<>> /\ Cut(new, Len(new)) = new
          /\ \A k \in 0 .. Len(new) - 1 :
               /\ Cut(new, k) \in Seq(U) /\ Len(Cut(new, k)) = k
               /\ new[k + 1] \in U /\ Cut(new, k + 1) = Append(Cut(new, k), new[k + 1])
      BY <2>1, CutFacts, Zenon
    <2>3. QED
      BY <2>1, <2>2, Zenon
  <1>3. 0 \in S
    <2>1. Big(FlattenSeq(Cut(lists, 0))) = FlattenSeq(Cut(new, 0))
      BY <1>1, <1>2, FlattenEmpty, ExpandEmpty
    <2>2. 0 \in 0 .. n
      BY <1>1
    <2>3. QED
      BY <2>1, <2>2
  <1>4. ASSUME NEW k \in 0 .. n - 1, k \in S PROVE k + 1 \in S
    <2> DEFINE a == FlattenSeq(Cut(lists, k))
               b == FlattenSeq(Cut(new, k))
               x == lists[k + 1]
               y == new[k + 1]
    <2>1. x \in Seq(T) /\ y \in Seq(T) /\ a \in Seq(T) /\ Big(a) = b
      BY <1>1, <1>2, <1>4, FlattenType
    <2>2. FlattenSeq(Append(Cut(lists, k), x)) = a \o x /\ FlattenSeq(Append(Cut(new, k), y)) = b \o y
      BY <1>1, <1>2, FlattenAppend
    <2>3. y = Big(x)
      <3>1. k + 1 \in 1 .. Len(lists)
        BY <1>1
      <3>2. QED
        BY <3>1
    <2> HIDE DEF a, b, x, y
    <2>4. Big(a \o x) = Big(a) \o Big(x)
      <3>1. a \in Seq(DriverEntry) /\ x \in Seq(DriverEntry)
        BY <2>1
      <3>2. Expand(a \o x, link, kinds) = Expand(a, link, kinds) \o Expand(x, link, kinds)
        BY <3>1, ExpandJoined, Zenon
      <3>3. QED
        BY <3>2
    <2>5. Big(FlattenSeq(Cut(lists, k + 1))) = FlattenSeq(Cut(new, k + 1))
      BY <1>1, <1>2, <2>1, <2>2, <2>3, <2>4 DEF x, y
    <2>6. k + 1 \in 0 .. n
      BY <1>1
    <2>7. QED
      BY <2>5, <2>6
  <1>5. n \in S
    <2> HIDE DEF S, n
    <2>1. QED
      BY <1>1, <1>3, <1>4, StepByStep
  <1>6. QED
    BY <1>1, <1>2, <1>5

\* The entries of other drivers stay, an entry of this driver is there once for each child.
LEMMA ExpandOthers ==
  ASSUME NEW list \in Seq(DriverEntry), NEW link, NEW kinds,
         \A i \in DOMAIN list : list[i].linkName # link
  PROVE  Expand(list, link, kinds) = list
  <1>1. Parts(list, link, kinds) = [i \in DOMAIN list |-> <<list[i]>>]
    BY DEF Parts, Part
  <1>2. QED
    BY <1>1, ExpandIsParts, FlattenOnes

LEMMA ExpandOne ==
  ASSUME NEW e \in DriverEntry, NEW kinds \in Seq(DriverTypes), kinds # <<>>
  PROVE  Expand(<<e>>, e.linkName, kinds) =
           [k \in DOMAIN kinds |-> [e EXCEPT !.driverType = kinds[k]]]
  <1> DEFINE part == Part(e, e.linkName, kinds)
             one == <<e>>
  <1>1. part = [k \in DOMAIN kinds |-> [e EXCEPT !.driverType = kinds[k]]]
    BY DEF Part
  <1>2. part \in Seq(DriverEntry)
    BY PartType
  <1>3. DOMAIN one = {1} /\ one[1] = e
    OBVIOUS
  <1> HIDE DEF part, one
  <1>4. Parts(one, e.linkName, kinds) = [i \in {1} |-> part]
    BY <1>3 DEF Parts, part
  <1>5. [i \in {1} |-> part] = <<part>>
    OBVIOUS
  <1>6. FlattenSeq(<<part>>) = part
    BY <1>2, FlattenOne
  <1>7. Expand(one, e.linkName, kinds) = part
    BY <1>4, <1>5, <1>6, ExpandIsParts
  <1>8. QED
    BY <1>1, <1>7 DEF one

-----------------------------------------------------------------------------
(* The device that gives a channel its name is the one in the list of its endpoint. *)

LEMMA FitsKept ==
  ASSUME NEW obj, NEW obj2, Closed(obj), NEW o, o.refs \subseteq DOMAIN obj, Fits(obj, o),
         \A x \in DOMAIN obj : /\ obj2[x].kind = obj[x].kind
                               /\ NoDevice(obj, x) => NoDevice(obj2, x)
  PROVE  Fits(obj2, o)
  BY DEF Fits

LEMMA ShapeAdded ==
  ASSUME NEW obj, Closed(obj), Shape(obj), NEW o \in ObjectRecord, o.refs \subseteq DOMAIN obj,
         Fits(obj, o)
  PROVE  Shape(Append(obj, o))
  <1> DEFINE list == Append(obj, o)
             new == Len(obj) + 1
  <1>1. /\ DOMAIN list = DOMAIN obj \cup {new} /\ list[new] = o
        /\ \A i \in DOMAIN obj : list[i] = obj[i]
    BY ObjectAdded DEF Closed
  <1> HIDE DEF list, new
  <1>2. \A x \in DOMAIN obj : obj[x].refs \subseteq DOMAIN obj
    BY DEF Closed
  <1>3. \A x \in DOMAIN obj : /\ list[x].kind = obj[x].kind
                              /\ NoDevice(obj, x) => NoDevice(list, x)
    BY <1>1, <1>2 DEF NoDevice
  <1>4. ASSUME NEW x \in DOMAIN list PROVE Fits(list, list[x])
    <2>1. CASE x \in DOMAIN obj
      <3>1. list[x] = obj[x] /\ obj[x].refs \subseteq DOMAIN obj /\ Fits(obj, obj[x])
        BY <1>1, <1>2, <2>1 DEF Shape
      <3>2. QED
        BY <1>3, <3>1, FitsKept
    <2>2. CASE x = new
      BY <1>1, <1>3, <2>2, FitsKept
    <2>3. QED
      BY <1>1, <2>1, <2>2
  <1>5. QED
    BY <1>4 DEF Shape, list

\* A splitter or a combiner is filled with a socket.
LEMMA ShapeFilled ==
  ASSUME NEW obj, Closed(obj), Shape(obj), NEW x \in DOMAIN obj, NEW y \in DOMAIN obj,
         obj[x].kind \in Indirect, obj[y].kind \notin Indirect,
         obj[x].kind = "Splitter" => obj[y].kind \notin Devices
  PROVE  Shape(WithRefs(obj, x, {y}))
  <1> DEFINE list == WithRefs(obj, x, {y})
  <1>1. {y} \subseteq Nat /\ obj \in Seq(ObjectRecord)
    BY DEF Closed
  <1>2. Changed(obj, x, {y}, list)
    BY <1>1, RefsChanged
  <1> HIDE DEF list
  <1>3. /\ DOMAIN list = DOMAIN obj /\ list[x].kind = obj[x].kind /\ list[x].refs = {y}
        /\ \A i \in DOMAIN obj \ {x} : list[i] = obj[i]
    BY <1>2 DEF Changed
  <1>4. \A i \in DOMAIN obj : list[i].kind = obj[i].kind
    BY <1>3
  <1>5. \A i \in DOMAIN obj : obj[i].refs \subseteq DOMAIN obj
    BY DEF Closed
  <1>6. \A i \in DOMAIN obj : i # x /\ NoDevice(obj, i) => NoDevice(list, i)
    BY <1>3, <1>4, <1>5 DEF NoDevice
  <1>7. obj[x].kind = "Splitter" => NoDevice(list, x)
    BY <1>3, <1>4 DEF NoDevice
  <1>8. Fits(list, list[x])
    BY <1>3, <1>4 DEF Fits, Indirect
  <1>9. ASSUME NEW i \in DOMAIN list, i # x PROVE Fits(list, list[i])
    <2>1. list[i] = obj[i] /\ Fits(obj, obj[i]) /\ obj[i].refs \subseteq DOMAIN obj
      BY <1>3, <1>5, <1>9 DEF Shape
    <2>2. QED
      BY <1>4, <1>6, <1>7, <2>1 DEF Fits
  <1>10. QED
    BY <1>8, <1>9 DEF Shape, list

LEMMA ChannelIsReached ==
  ASSUME NEW p, NEW x
  PROVE  ChannelOf(p, x) = Reached(p.objList, x)
  BY DEF ChannelOf, Reached, KindOf, Indirect, Devices

\* The devices of an endpoint are those its connection stands for, as all jobs are used.
LEMMA EndpointDevices ==
  ASSUME NEW obj, NEW jobs, EndpointOK(obj, jobs), Shape(obj), jobs # <<>>,
         NEW a, NEW b, obj[jobs[Len(jobs)]].refs = {a, b}
  PROVE  DevicesIn(obj, jobs) = Reached(obj, a) \cup Reached(obj, b)
  <1> DEFINE n == Len(jobs)
  <1>1. /\ n \in Nat \ {0} /\ DOMAIN jobs = 1 .. n /\ ToSet(jobs) = {jobs[i] : i \in 1 .. n}
        /\ \A i \in 1 .. n : jobs[i] \in DOMAIN obj
    BY DEF EndpointOK, ToSet
  <1>2. /\ \A i \in 1 .. n : obj[jobs[i]].kind = "Connection" <=> i = n
        /\ \A i \in 1 .. n : \A x \in obj[jobs[i]].refs : \E k \in 1 .. i - 1 : jobs[k] = x
        /\ \A i \in 1 .. n :
             \/ i = n
             \/ obj[jobs[i]].kind \in Ports
             \/ \E k \in i + 1 .. n : jobs[i] \in obj[jobs[k]].refs
    BY <1>1 DEF EndpointOK
  <1>3. obj[jobs[n]].refs = {a, b}
    OBVIOUS
  <1> HIDE DEF n
  <1>4. \A i \in 1 .. n : Fits(obj, obj[jobs[i]])
    BY <1>1 DEF Shape
  <1>5. \A i \in 1 .. n : obj[jobs[i]].refs \subseteq ToSet(jobs)
    BY <1>1, <1>2
  <1>6. a \in ToSet(jobs) /\ b \in ToSet(jobs)
    BY <1>1, <1>3, <1>5
  <1>7. \A x \in ToSet(jobs) : Reached(obj, x) \subseteq DevicesIn(obj, jobs)
    BY <1>1, <1>5 DEF Reached, DevicesIn
  <1>8. ASSUME NEW d \in DevicesIn(obj, jobs) PROVE d \in Reached(obj, a) \cup Reached(obj, b)
    <2>1. PICK i \in 1 .. n : d = jobs[i]
      BY <1>1 DEF DevicesIn
    <2>2. obj[d].kind \in Devices
      BY DEF DevicesIn
    <2>3. i # n /\ obj[d].kind \notin Ports
      BY <1>1, <1>2, <2>1, <2>2 DEF Devices, Ports
    <2>4. PICK k \in i + 1 .. n : d \in obj[jobs[k]].refs
      BY <1>2, <2>1, <2>3
    <2>5. k \in 1 .. n /\ Fits(obj, obj[jobs[k]])
      BY <1>4, <2>4
    <2>6. obj[jobs[k]].kind \in Indirect \cup {"Connection"}
      BY <2>2, <2>4, <2>5 DEF Fits
    <2>7. CASE obj[jobs[k]].kind = "Connection"
      <3>1. d \in {a, b} /\ obj[d].kind \notin Indirect
        BY <1>2, <1>3, <2>2, <2>4, <2>5, <2>7 DEF Devices, Indirect
      <3>2. QED
        BY <2>2, <3>1 DEF Reached
    <2>8. CASE obj[jobs[k]].kind \in Indirect
      <3> DEFINE s == jobs[k]
      <3>1. obj[s].kind \in Indirect /\ d \in obj[s].refs /\ k # n /\ obj[s].kind \notin Ports
        BY <1>1, <1>2, <2>4, <2>5, <2>8 DEF Indirect, Ports
      <3>2. PICK m \in k + 1 .. n : s \in obj[jobs[m]].refs
        BY <1>2, <2>5, <3>1
      <3>3. m \in 1 .. n /\ Fits(obj, obj[jobs[m]])
        BY <1>4, <2>5, <3>2
      <3> HIDE DEF s
      <3>4. ~NoDevice(obj, s)
        BY <2>2, <3>1 DEF NoDevice
      <3>5. obj[jobs[m]].kind \notin Indirect
        BY <3>1, <3>2, <3>3, <3>4 DEF Fits, Indirect
      <3>6. m = n
        BY <1>2, <3>1, <3>2, <3>3, <3>5 DEF Fits
      <3>7. s \in {a, b}
        BY <1>3, <3>2, <3>6
      <3>8. QED
        BY <2>2, <3>1, <3>7 DEF Reached
    <2>9. QED
      BY <2>6, <2>7, <2>8
  <1>9. QED
    BY <1>6, <1>7, <1>8

LEMMA GrownTwice ==
  ASSUME NEW p, NEW q, NEW r, Grown(p, q), Grown(q, r)
  PROVE  Grown(p, r)
  BY Zenon DEF Grown

LEMMA GrownSame ==
  ASSUME NEW p, NEW q, SameLists(p, q), q.objList = p.objList
  PROVE  Grown(p, q)
  BY DEF Grown, SameLists

\* A new object at the end of the list.
LEMMA GrownObject ==
  ASSUME NEW p, Good(p), NEW q, SameLists(p, q), NEW o \in ObjectRecord,
         q.objList = Append(p.objList, o), o.refs \subseteq DOMAIN p.objList,
         Shape(p.objList) => Fits(p.objList, o)
  PROVE  Grown(p, q) /\ q.objList[LastObject(p) + 1] = o /\ LastObject(p) + 1 \notin DOMAIN p.objList
  <1>1. Closed(p.objList) /\ p.objList \in Seq(ObjectRecord)
    BY SocketsOf DEF Good
  <1>2. /\ DOMAIN q.objList = DOMAIN p.objList \cup {LastObject(p) + 1}
        /\ q.objList[LastObject(p) + 1] = o /\ LastObject(p) + 1 \notin DOMAIN p.objList
        /\ \A i \in DOMAIN p.objList : q.objList[i] = p.objList[i]
    BY <1>1, ObjectAdded DEF LastObject
  <1>3. Shape(p.objList) => Shape(q.objList)
    BY <1>1, ShapeAdded
  <1>4. QED
    BY <1>2, <1>3 DEF Grown, SameLists

LEMMA CountedGrown ==
  ASSUME NEW p, Good(p)
  PROVE  Grown(p, Counted(p))
  BY CountedFields, GrownSame DEF Good

LEMMA PortsGrown ==
  ASSUME NEW p, Good(p), NEW q, PortStep(p, q)
  PROVE  Grown(p, q)
  <1>1. /\ q.pRtLst = p.pRtLst /\ q.drvInfLst = p.drvInfLst
        /\ Kept(p.objList, q.objList, {})
        /\ \A x \in DOMAIN q.objList \ DOMAIN p.objList : q.objList[x].refs = {}
    BY DEF PortStep
  <1>2. DOMAIN p.objList \subseteq DOMAIN q.objList
    BY <1>1, KeptDomain
  <1>3. \A x \in DOMAIN p.objList : q.objList[x] = p.objList[x]
    BY <1>1 DEF Kept
  <1>4. Closed(p.objList)
    BY SocketsOf DEF Good
  <1>5. \A x \in DOMAIN p.objList : p.objList[x].refs \subseteq DOMAIN p.objList
    BY <1>4 DEF Closed
  <1>6. \A x \in DOMAIN p.objList : /\ q.objList[x].kind = p.objList[x].kind
                                    /\ NoDevice(p.objList, x) => NoDevice(q.objList, x)
    BY <1>3, <1>5 DEF NoDevice
  <1>7. ASSUME Shape(p.objList), NEW x \in DOMAIN q.objList PROVE Fits(q.objList, q.objList[x])
    <2>1. CASE x \in DOMAIN p.objList
      <3>1. /\ q.objList[x] = p.objList[x] /\ p.objList[x].refs \subseteq DOMAIN p.objList
            /\ Fits(p.objList, p.objList[x])
        BY <1>3, <1>5, <1>7, <2>1 DEF Shape
      <3>2. QED
        BY <1>4, <1>6, <3>1, FitsKept
    <2>2. CASE x \notin DOMAIN p.objList
      BY <1>1, <2>2 DEF Fits
    <2>3. QED
      BY <2>1, <2>2
  <1>8. QED
    BY <1>1, <1>2, <1>3, <1>7 DEF Grown, Shape

LEMMA NetworkSocketGrown ==
  ASSUME NEW p, Good(p), NEW isSource \in BOOLEAN, NEW a, NEW q, q = NetworkSocket(p, isSource, a)
  PROVE  Grown(p, q)
  <1> DEFINE c == p.conData
             new == LastObject(p) + 1
             list == Append(p.objList, GetNetworkSocket)
             inSplitter == c.combiner = NULL /\ c.splitter # NULL
  <1>1. SameLists(p, q) /\ q.objList = IF inSplitter THEN WithRefs(list, c.splitter, {new}) ELSE list
    <2>1. NetworkSocketRead(p, isSource, q)
      BY NetworkSocketFields DEF Good
    <2>2. QED
      BY <2>1 DEF NetworkSocketRead
  <1>2. /\ GetNetworkSocket \in ObjectRecord /\ GetNetworkSocket.refs = {}
        /\ GetNetworkSocket.kind = "NetworkSocket"
    BY KindFacts, NetworkKind DEF GetNetworkSocket, Kinds
  <1>3. /\ Closed(p.objList) /\ p.objList \in Seq(ObjectRecord)
        /\ c.splitter # NULL =>
             p.objList[c.splitter].kind = "Splitter" /\ c.splitter \in DOMAIN p.objList
    BY SocketsOf DEF Good, KindOf
  <1>4. /\ DOMAIN list = DOMAIN p.objList \cup {new} /\ list[new] = GetNetworkSocket
        /\ \A i \in DOMAIN p.objList : list[i] = p.objList[i]
    BY <1>2, <1>3, ObjectAdded DEF LastObject
  <1>5. Closed(list)
    BY <1>2, <1>3, ClosedAdded
  <1>6. Shape(p.objList) => Shape(list)
    BY <1>2, <1>3, ShapeAdded DEF Fits
  <1> HIDE DEF new, list, c
  <1>7. CASE inSplitter
    <2>1. /\ c.splitter \in DOMAIN list /\ list[c.splitter].kind = "Splitter"
          /\ new \in DOMAIN list /\ list[new].kind = "NetworkSocket"
      BY <1>2, <1>3, <1>4, <1>7
    <2>2. Shape(list) => Shape(q.objList)
      BY <1>1, <1>5, <1>7, <2>1, ShapeFilled DEF Indirect, Devices
    <2>3. {new} \subseteq Nat /\ list \in Seq(ObjectRecord)
      BY <1>5, <2>1 DEF Closed
    <2>4. Changed(list, c.splitter, {new}, q.objList)
      BY <1>1, <1>7, <2>1, <2>3, RefsChanged
    <2>5. /\ DOMAIN q.objList = DOMAIN list
          /\ \A i \in DOMAIN list : q.objList[i].kind = list[i].kind
      BY <2>4 DEF Changed
    <2>6. QED
      BY <1>1, <1>4, <1>6, <2>2, <2>5 DEF Grown, SameLists
  <1>8. CASE ~inSplitter
    BY <1>1, <1>4, <1>6, <1>8 DEF Grown, SameLists
  <1>9. QED
    BY <1>7, <1>8

LEMMA LocalSocketGrown ==
  ASSUME NEW p, Good(p), NEW isSource \in BOOLEAN, NEW kind \in LocalSockets,
         NEW pin \in DOMAIN PortsOf(kind), NEW q, q = LocalSocket(p, isSource, kind, pin)
  PROVE  Grown(p, q)
  <1> DEFINE ports == CreatePorts(p, PortsOf(kind))
             ids == PortIds(ports, kind)
             socket == GetSocket(kind, ids, pin)
  <1>1. PortStep(p, ports) /\ \A i \in DOMAIN PortsOf(kind) : ports.nodeData[PortsOf(kind)[i]] # NULL
    BY CreatePortsStep DEF Good
  <1>2. Good(ports) /\ ports.conData = p.conData
    BY <1>1 DEF PortStep, Good
  <1> HIDE DEF ports
  <1>3. LocalSocketRead(p, ports, isSource, kind, pin, q)
    BY <1>2, LocalSocketFields DEF ports, Good
  <1>4. /\ ids \in Seq(DOMAIN ports.objList)
        /\ DOMAIN ids = DOMAIN PortsOf(kind)
        /\ \A i \in DOMAIN ids : ports.objList[ids[i]] = Object(PortsOf(kind)[i], {})
        /\ socket \in ObjectRecord /\ socket.kind = kind /\ socket.refs \subseteq ToSet(ids)
    BY <1>1, <1>2, SocketOnPorts DEF Good
  <1>5. SameLists(ports, q) /\ q.objList = Append(ports.objList, socket)
    BY <1>3 DEF LocalSocketRead
  <1> HIDE DEF ids, socket
  <1>6. \A y \in ToSet(ids) : y \in DOMAIN ports.objList /\ ports.objList[y].kind \in Ports
    <2>1. \A i \in DOMAIN PortsOf(kind) : Object(PortsOf(kind)[i], {}).kind \in Ports
      BY PortNames DEF Object
    <2>2. QED
      BY <1>4, <2>1 DEF ToSet
  <1>7. /\ \A y \in socket.refs : y \in DOMAIN ports.objList /\ ports.objList[y].kind \in Ports
        /\ socket.kind \in LocalSockets
    BY <1>4, <1>6
  <1>8. Fits(ports.objList, socket)
    BY <1>7 DEF Fits, Devices, Indirect, Ports, LocalSockets
  <1>9. socket.refs \subseteq DOMAIN ports.objList
    BY <1>7
  <1>10. Grown(ports, q)
    BY <1>2, <1>4, <1>5, <1>8, <1>9, GrownObject
  <1>11. QED
    BY <1>1, <1>10, PortsGrown, GrownTwice

LEMMA SplitterInGrown ==
  ASSUME NEW p, Good(p), NEW q, q = SplitterIn(p)
  PROVE  Grown(p, q)
  <1>1. SameLists(p, q) /\ q.objList = Append(p.objList, GetSplitter({}))
    BY SplitterInFields DEF Good
  <1>2. GetSplitter({}) \in ObjectRecord /\ GetSplitter({}).refs = {}
    BY KindFacts DEF GetSplitter, Kinds
  <1>3. QED
    BY <1>1, <1>2, GrownObject DEF Fits

LEMMA CombinerGrown ==
  ASSUME NEW p, Good(p), NEW q, q = Combiner(p)
  PROVE  Grown(p, q)
  <1>1. SameLists(p, q) /\ q.objList = Append(p.objList, GetCombiner)
    BY CombinerFields DEF Good
  <1>2. GetCombiner \in ObjectRecord /\ GetCombiner.refs = {}
    BY KindFacts DEF GetCombiner, Kinds
  <1>3. QED
    BY <1>1, <1>2, GrownObject DEF Fits

\* A splitter takes the place of a socket, or of a splitter with a NetworkSocket.
LEMMA SplitterOutGrown ==
  ASSUME NEW p, Good(p), NEW q, q = SplitterOut(p), p.conData.inSocket # NULL,
         KindOf(p, p.conData.inSocket) # "Combiner",
         KindOf(p, p.conData.inSocket) = "Splitter" => NoDevice(p.objList, p.conData.inSocket)
  PROVE  /\ Grown(p, q) /\ q.objList[LastObject(p) + 1] = GetSplitter({p.conData.inSocket})
         /\ LastObject(p) + 1 \notin DOMAIN p.objList
  <1> DEFINE x == p.conData.inSocket
             splitter == GetSplitter({x})
  <1>1. SameLists(p, q) /\ q.objList = Append(p.objList, splitter)
    BY SplitterOutFields DEF Good
  <1>2. x \in DOMAIN p.objList /\ p.objList \in Seq(ObjectRecord)
    BY SocketsOf DEF Good
  <1>3. {x} \in SUBSET Nat
    BY <1>2
  <1>4. splitter \in ObjectRecord /\ splitter.refs = {x} /\ splitter.kind = "Splitter"
    BY <1>3, KindFacts DEF GetSplitter, Kinds
  <1>5. Fits(p.objList, splitter)
    BY <1>4 DEF Fits, KindOf, Indirect
  <1>6. splitter.refs \subseteq DOMAIN p.objList
    BY <1>2, <1>4
  <1> HIDE DEF splitter
  <1>7. /\ Grown(p, q) /\ q.objList[LastObject(p) + 1] = splitter
        /\ LastObject(p) + 1 \notin DOMAIN p.objList
    BY <1>1, <1>4, <1>5, <1>6, GrownObject
  <1>8. QED
    BY <1>7 DEF splitter

\* A combiner is filled with a socket.
LEMMA CombinerOutGrown ==
  ASSUME NEW p, Good(p), CombinerPending(p), KindOf(p, p.conData.outSocket) \notin Indirect,
         NEW q, q = CombinerOut(p)
  PROVE  Grown(p, q)
  <1> DEFINE x == p.conData.combiner
             y == p.conData.outSocket
  <1>1. SameLists(p, q) /\ q.objList = WithRefs(p.objList, x, {y})
    BY CombinerOutFields DEF Good
  <1>2. /\ x \in DOMAIN p.objList /\ y \in DOMAIN p.objList /\ p.objList[x].kind = "Combiner"
        /\ Closed(p.objList) /\ p.objList \in Seq(ObjectRecord)
    BY SocketsOf DEF Good, CombinerPending, KindOf
  <1>3. Shape(p.objList) => Shape(q.objList)
    BY <1>1, <1>2, ShapeFilled DEF KindOf, Indirect
  <1>4. {y} \subseteq Nat
    BY <1>2
  <1>5. Changed(p.objList, x, {y}, q.objList)
    BY <1>1, <1>2, <1>4, RefsChanged
  <1>6. /\ DOMAIN q.objList = DOMAIN p.objList
        /\ \A i \in DOMAIN p.objList : q.objList[i].kind = p.objList[i].kind
    BY <1>5 DEF Changed
  <1>7. QED
    BY <1>1, <1>3, <1>6 DEF Grown, SameLists

\* A connection, which is the last job of a new endpoint.
LEMMA ConnectGrown ==
  ASSUME NEW p, Good(p), Complete(p), NEW q, q = Connect(p)
  PROVE  /\ Grown(p, q) /\ SameSockets(p.conData, q.conData)
         /\ \A x \in DOMAIN p.objList : q.objList[x] = p.objList[x]
         /\ q.pRtLst # <<>>
         /\ LET jobs == q.pRtLst[Len(q.pRtLst)].ep.jobs IN
            /\ jobs # <<>>
            /\ q.objList[jobs[Len(jobs)]].refs = {p.conData.inSocket, p.conData.outSocket}
  <1> DEFINE joined == Joined(p)
             new == LastObject(p) + 1
             con == Object("Connection", {p.conData.inSocket, p.conData.outSocket})
             list == p.conData.jobList
  <1>1. /\ q.objList = joined.objList /\ q.conData = joined.conData /\ q.drvInfLst = p.drvInfLst
        /\ \E route : /\ route.ep.jobs = joined.conData.jobList
                      /\ q.pRtLst = Append(p.pRtLst, route)
    BY ConnectFields
  <1>2. /\ joined.objList = Append(p.objList, con) /\ SameSockets(p.conData, joined.conData)
        /\ joined.conData.jobList = Append(list, new)
    BY JoinedFields DEF Good
  <1>3. /\ {p.conData.inSocket, p.conData.outSocket} \subseteq DOMAIN p.objList
        /\ p.objList \in Seq(ObjectRecord) /\ Closed(p.objList)
        /\ list \in Seq(DOMAIN p.objList)
    BY SocketsOf DEF Good, Complete
  <1>4. {p.conData.inSocket, p.conData.outSocket} \in SUBSET Nat
    BY <1>3
  <1>5. /\ con \in ObjectRecord /\ con.kind = "Connection"
        /\ con.refs = {p.conData.inSocket, p.conData.outSocket}
    BY <1>4, KindFacts DEF Kinds
  <1> HIDE DEF joined, con
  <1>6. Fits(p.objList, con)
    BY <1>5 DEF Fits
  <1>7. /\ DOMAIN q.objList = DOMAIN p.objList \cup {new} /\ q.objList[new] = con
        /\ \A i \in DOMAIN p.objList : q.objList[i] = p.objList[i]
    BY <1>1, <1>2, <1>3, <1>5, ObjectAdded DEF LastObject
  <1>8. Shape(p.objList) => Shape(q.objList)
    BY <1>1, <1>2, <1>3, <1>5, <1>6, ShapeAdded
  <1> HIDE DEF new, list
  <1>9. PICK route : route.ep.jobs = joined.conData.jobList /\ q.pRtLst = Append(p.pRtLst, route)
    BY <1>1
  <1>10. p.pRtLst \in Seq(ToSet(p.pRtLst))
    BY DEF Good, Pointers
  <1> DEFINE U == ToSet(p.pRtLst) \cup {route}
             n == Len(p.pRtLst)
  <1>11. p.pRtLst \in Seq(U) /\ route \in U
    BY <1>10, SeqGrows
  <1> HIDE DEF U
  <1>12. /\ n \in Nat /\ DOMAIN p.pRtLst = 1 .. n /\ DOMAIN q.pRtLst = 1 .. n + 1
         /\ Len(q.pRtLst) = n + 1 /\ q.pRtLst[n + 1] = route /\ q.pRtLst # <<>>
         /\ \A r \in 1 .. n : q.pRtLst[r] = p.pRtLst[r]
    BY <1>9, <1>11, LastOfAppend
  <1> DEFINE jobs == route.ep.jobs
             D == DOMAIN p.objList \cup {new}
  <1>13. list \in Seq(D) /\ new \in D /\ jobs = Append(list, new)
    BY <1>2, <1>3, <1>9, SeqGrows
  <1> HIDE DEF jobs, D, n
  <1>14. jobs # <<>> /\ jobs[Len(jobs)] = new
    BY <1>13, LastOfAppend
  <1>15. SameSockets(p.conData, q.conData)
    BY <1>1, <1>2
  <1>16. \A r \in DOMAIN p.pRtLst : r \in DOMAIN q.pRtLst /\ q.pRtLst[r] = p.pRtLst[r]
    BY <1>12
  <1>17. Grown(p, q)
    BY <1>1, <1>7, <1>8, <1>16 DEF Grown
  <1>18. q.pRtLst[Len(q.pRtLst)].ep.jobs = jobs
    BY <1>12 DEF jobs
  <1>19. QED
    BY <1>5, <1>7, <1>12, <1>14, <1>15, <1>17, <1>18

LEMMA SaidLast ==
  ASSUME NEW sockets \in Seq(SaidRecord), NEW s \in SaidRecord
  PROVE  sockets \o <<s>> \in Seq(SaidRecord) /\ LastSaid(sockets \o <<s>>, s.isTalker)
  <1> DEFINE all == sockets \o <<s>>
  <1>1. all \in Seq(SaidRecord) /\ Len(all) = Len(sockets) + 1 /\ all[Len(all)] = s
    BY OneSaid
  <1>2. Len(sockets) \in Nat
    OBVIOUS
  <1> HIDE DEF all
  <1>3. all # <<>>
    <2>1. Len(<<>>) = 0
      OBVIOUS
    <2>2. QED
      BY <1>1, <1>2, <2>1
  <1>4. QED
    BY <1>1, <1>3 DEF LastSaid, all

\* An object that does not change stands for the same as before.
LEMMA ReachedKept ==
  ASSUME NEW p, Good(p), NEW q, Grown(p, q), NEW x \in DOMAIN p.objList,
         q.objList[x].refs = p.objList[x].refs
  PROVE  /\ NoDevice(p.objList, x) => NoDevice(q.objList, x)
         /\ Reached(q.objList, x) = Reached(p.objList, x)
  <1>1. p.objList[x].refs \subseteq DOMAIN p.objList
    BY SocketsOf DEF Good, Closed
  <1>2. \A y \in DOMAIN p.objList : q.objList[y].kind = p.objList[y].kind
    BY DEF Grown
  <1>3. QED
    BY <1>1, <1>2 DEF NoDevice, Reached

\* Nothing that matters changes.
LEMMA HeardSame ==
  ASSUME NEW p, NEW q, SameSockets(p.conData, q.conData), q.objList = p.objList,
         q.pRtLst = p.pRtLst, NEW sockets, NEW pair
  PROVE  /\ HeardOK(p, sockets, pair) => HeardOK(q, sockets, pair)
         /\ NestedOK(p) => NestedOK(q)
  BY DEF SameSockets, HeardOK, SplitterOK, InputOK, ToJoin, OneDevice, Direction, Connected,
         NestedOK, Complete, KindOf

LEMMA CountedHeard ==
  ASSUME NEW p, Good(p), NEW q, q = Counted(p), NEW sockets, NEW pair, HeardOK(p, sockets, pair)
  PROVE  HeardOK(q, sockets, pair)
  <1>1. SameLists(p, q) /\ q.objList = p.objList /\ SameSockets(p.conData, q.conData)
    BY CountedFields DEF Good
  <1>2. QED
    BY <1>1, HeardSame DEF SameLists

\* A connection that is complete is connected.
LEMMA ConnectHeard ==
  ASSUME NEW p, Good(p), NEW q, q = ConnectIfComplete(p), NEW sockets, NEW pair,
         SplitterOK(p), InputOK(p, sockets, pair), ToJoin(p, sockets)
  PROVE  /\ Grown(p, q) /\ HeardOK(q, sockets, pair) /\ SameSockets(p.conData, q.conData)
         /\ NestedOK(p) => NestedOK(q)
  <1>1. CASE Complete(p)
    <2> DEFINE in == p.conData.inSocket
               out == p.conData.outSocket
               splitter == p.conData.splitter
    <2>1. q = Connect(p)
      BY <1>1 DEF ConnectIfComplete
    <2>2. /\ Grown(p, q) /\ SameSockets(p.conData, q.conData)
          /\ \A x \in DOMAIN p.objList : q.objList[x] = p.objList[x]
          /\ Connected(q)
      <3>1. /\ Grown(p, q) /\ SameSockets(p.conData, q.conData)
            /\ \A x \in DOMAIN p.objList : q.objList[x] = p.objList[x]
            /\ q.pRtLst # <<>>
            /\ LET jobs == q.pRtLst[Len(q.pRtLst)].ep.jobs IN
               /\ jobs # <<>>
               /\ q.objList[jobs[Len(jobs)]].refs = {in, out}
        BY <1>1, <2>1, ConnectGrown
      <3>2. q.conData.inSocket = in /\ q.conData.outSocket = out
        BY <3>1 DEF SameSockets
      <3>3. QED
        BY <3>1, <3>2 DEF Connected
    <2>3. /\ in \in DOMAIN p.objList /\ out \in DOMAIN p.objList
          /\ splitter # NULL => splitter \in DOMAIN p.objList
      BY <1>1, SocketsOf DEF Good, Complete
    <2>4. /\ q.conData.inSocket = in /\ q.conData.outSocket = out
          /\ q.conData.splitter = splitter /\ q.conData.combiner = p.conData.combiner
          /\ KindOf(q, in) = KindOf(p, in)
          /\ Reached(q.objList, in) = Reached(p.objList, in)
          /\ Reached(q.objList, out) = Reached(p.objList, out)
          /\ splitter # NULL => (NoDevice(p.objList, splitter) => NoDevice(q.objList, splitter))
      BY <2>2, <2>3, ReachedKept DEF SameSockets, KindOf
    <2> HIDE DEF in, out, splitter
    <2>5. SplitterOK(q) /\ InputOK(q, sockets, pair) /\ (NestedOK(p) => NestedOK(q))
      BY <2>4 DEF SplitterOK, InputOK, NestedOK, in, splitter
    <2>6. ToJoin(q, sockets)
      BY <1>1, <2>4 DEF ToJoin, OneDevice, Direction, in, out, splitter
    <2>7. QED
      BY <2>2, <2>5, <2>6 DEF HeardOK
  <1>2. CASE ~Complete(p)
    <2>1. q = p
      BY <1>2 DEF ConnectIfComplete
    <2>2. SameSockets(p.conData, q.conData) /\ SameLists(p, q) /\ q.objList = p.objList
      BY <2>1 DEF SameSockets, SameLists
    <2>3. Grown(p, q)
      BY <2>2, GrownSame
    <2>4. QED
      BY <1>2, <2>1, <2>2, <2>3 DEF HeardOK
  <1>3. QED
    BY <1>1, <1>2

LEMMA FirstNetworkHeard ==
  ASSUME NEW p, Good(p), Fresh(p), NEW isSource \in BOOLEAN, isSource, NEW a,
         NEW q, q = NetworkSocket(p, isSource, a), NEW sockets, LastSaid(sockets, FALSE),
         NEW pair, pair # <<"NetworkSocket">>
  PROVE  HeardOK(q, sockets, pair)
  <1> DEFINE new == LastObject(p) + 1
  <1>1. p.conData.splitter = NULL /\ p.conData.outSocket = NULL
    BY DEF Fresh
  <1>2. SocketStep(p, q, isSource, new)
    BY <1>1, NetworkSocketStep
  <1>3. q.conData.splitter = NULL /\ q.conData.outSocket = NULL
    BY <1>1, <1>2 DEF SocketStep
  <1>4. QED
    BY <1>3 DEF HeardOK, SplitterOK, InputOK, ToJoin, Complete

LEMMA FirstLocalHeard ==
  ASSUME NEW p, Good(p), Fresh(p), NEW isSource \in BOOLEAN, NEW kind \in LocalSockets,
         NEW pin \in DOMAIN PortsOf(kind), NEW q, q = LocalSocket(p, isSource, kind, pin),
         NEW sockets, NEW pair
  PROVE  isSource => HeardOK(q, sockets, pair)
  <1>1. PICK new : SocketStep(p, q, isSource, new) /\ KindOf(q, new) = kind
    BY LocalSocketKind
  <1>2. /\ q.conData.splitter = NULL
        /\ (isSource => q.conData.outSocket = NULL /\ q.conData.inSocket = new)
    BY <1>1 DEF SocketStep, Fresh
  <1>3. isSource => KindOf(q, q.conData.inSocket) # "NetworkSocket"
    BY <1>1, <1>2 DEF LocalSockets
  <1>4. QED
    BY <1>2, <1>3 DEF HeardOK, SplitterOK, InputOK, ToJoin, Complete

\* The splitter in the first place points to its first NetworkSocket.
LEMMA SplitterFilled ==
  ASSUME NEW p, Good(p), p.conData.combiner = NULL, p.conData.splitter # NULL,
         NEW isSource \in BOOLEAN, NEW a, NEW q, q = NetworkSocket(p, isSource, a)
  PROVE  /\ SplitterOK(q) /\ SameSockets(p.conData, q.conData)
         /\ KindOf(q, q.conData.splitter) = "Splitter"
  <1> DEFINE new == LastObject(p) + 1
  <1>1. InSplitterRead(p, q, new)
    BY InSplitterStep
  <1>2. /\ SameSockets(p.conData, q.conData)
        /\ q.objList[p.conData.splitter].refs = {new} /\ q.objList[new] = GetNetworkSocket
        /\ q.objList[p.conData.splitter].kind = "Splitter"
    BY <1>1 DEF InSplitterRead
  <1>3. q.conData.splitter = p.conData.splitter /\ q.objList[new].kind = "NetworkSocket"
    BY <1>2, NetworkKind DEF SameSockets
  <1>4. QED
    BY <1>2, <1>3 DEF SplitterOK, NoDevice, KindOf, Devices

LEMMA SplitterInHeard ==
  ASSUME NEW p, Good(p), Fresh(p), NEW isSource \in BOOLEAN, NEW a,
         NEW q, q = NetworkSocket(SplitterIn(p), isSource, a), NEW sockets, NEW pair
  PROVE  HeardOK(q, sockets, pair) /\ Grown(p, q)
  <1> DEFINE r == SplitterIn(p)
             new == LastObject(p) + 1
  <1>1. Good(r) /\ Grown(p, r)
    BY SplitterInPointers, SplitterInGrown
  <1>2. /\ r.conData.inSocket = new /\ r.conData.outSocket = NULL /\ r.conData.combiner = NULL
        /\ r.conData.splitter = new
    BY SplitterInFields DEF Good, Fresh
  <1>3. p.objList \in Seq(ObjectRecord)
    BY SocketsOf DEF Good
  <1>4. new # NULL
    BY <1>3, ObjectAdded DEF LastObject, NULL
  <1>5. q = NetworkSocket(r, isSource, a)
    OBVIOUS
  <1> HIDE DEF r, new
  <1>6. /\ SplitterOK(q) /\ SameSockets(r.conData, q.conData)
        /\ KindOf(q, q.conData.splitter) = "Splitter"
    BY <1>1, <1>2, <1>4, <1>5, SplitterFilled
  <1>7. /\ q.conData.inSocket = new /\ q.conData.outSocket = NULL
        /\ KindOf(q, q.conData.inSocket) = "Splitter"
    BY <1>2, <1>6 DEF SameSockets
  <1>8. Grown(r, q)
    BY <1>1, <1>5, NetworkSocketGrown
  <1>9. Grown(p, q)
    BY <1>1, <1>8, GrownTwice
  <1>10. QED
    BY <1>6, <1>7, <1>9 DEF HeardOK, InputOK, ToJoin, Complete

LEMMA CombinerHeard ==
  ASSUME NEW p, Good(p), Fresh(p), NEW q, q = Combiner(p), NEW sockets, NEW pair
  PROVE  HeardOK(q, sockets, pair)
  <1>1. /\ q.conData.inSocket = NULL /\ q.conData.splitter = NULL
    BY CombinerFields DEF Good, Fresh
  <1>2. QED
    BY <1>1 DEF HeardOK, SplitterOK, InputOK, ToJoin, Complete

\* The first socket of a connection: local, a NetworkSocket or a splitter.
LEMMA InputKinds ==
  ASSUME NEW p, Good(p), HasInput(p)
  PROVE  LET in == p.conData.inSocket IN
         /\ in \in DOMAIN p.objList /\ in # NULL
         /\ p.conData.outSocket = NULL /\ p.conData.combiner = NULL
         /\ \/ KindOf(p, in) \in LocalSockets /\ p.conData.splitter = NULL
            \/ KindOf(p, in) = "NetworkSocket" /\ p.conData.splitter = NULL
            \/ KindOf(p, in) = "Splitter" /\ p.conData.splitter = in
  <1>1. JobListOK(p.objList, p.conData.jobList, {p.conData.inSocket})
        /\ p.conData.inSocket \in ToSet(p.conData.jobList)
    BY DEF HasInput
  <1>2. p.conData.inSocket \in DOMAIN p.objList /\ p.conData.inSocket # NULL
    BY <1>1, JobIsObject
  <1>3. QED
    BY <1>2 DEF HasInput

LEMMA SecondNetworkHeard ==
  ASSUME NEW p, Good(p), HasInput(p), NEW isSource \in BOOLEAN, ~isSource, NEW a,
         NEW q, q = NetworkSocket(p, isSource, a), NEW before,
         HeardOK(p, before, <<"NetworkSocket">>), NEW sockets, LastSaid(sockets, TRUE)
  PROVE  SocketHeard(q, sockets, <<>>)
  <1> DEFINE in == p.conData.inSocket
             new == LastObject(p) + 1
  <1>1. /\ in \in DOMAIN p.objList /\ in # NULL
        /\ p.conData.outSocket = NULL /\ p.conData.combiner = NULL
        /\ \/ KindOf(p, in) \in LocalSockets /\ p.conData.splitter = NULL
           \/ KindOf(p, in) = "NetworkSocket" /\ p.conData.splitter = NULL
           \/ KindOf(p, in) = "Splitter" /\ p.conData.splitter = in
    BY InputKinds
  <1>2. KindOf(p, in) # "NetworkSocket"
    BY <1>1 DEF HeardOK, InputOK
  <1>3. Grown(p, q)
    BY NetworkSocketGrown
  <1>4. KindOf(q, in) # "NetworkSocket"
    BY <1>1, <1>2, <1>3 DEF Grown, KindOf
  <1>5. CASE p.conData.splitter = NULL
    <2>1. SocketStep(p, q, isSource, new) /\ q.objList[new] = GetNetworkSocket
      BY <1>5, NetworkSocketStep
    <2>2. q.conData.inSocket = in /\ q.conData.outSocket = new /\ q.conData.splitter = NULL
      BY <1>5, <2>1 DEF SocketStep
    <2>3. Reached(q.objList, new) = {}
      BY <2>1, NetworkKind DEF Reached, Devices, Indirect
    <2>4. QED
      BY <1>4, <2>2, <2>3 DEF SocketHeard, SplitterOK, InputOK, ToJoin, OneDevice, Direction
  <1>6. CASE p.conData.splitter # NULL
    <2>1. SplitterOK(q) /\ SameSockets(p.conData, q.conData)
      BY <1>1, <1>6, SplitterFilled
    <2>2. q.conData.inSocket = in /\ q.conData.outSocket = NULL
      BY <1>1, <2>1 DEF SameSockets
    <2>3. QED
      BY <1>4, <2>1, <2>2 DEF SocketHeard, InputOK, ToJoin, Complete
  <1>7. QED
    BY <1>5, <1>6

LEMMA SecondLocalHeard ==
  ASSUME NEW p, Good(p), HasInput(p), NEW isSource \in BOOLEAN, ~isSource,
         NEW kind \in LocalSockets, NEW pin \in DOMAIN PortsOf(kind),
         NEW q, q = LocalSocket(p, isSource, kind, pin), ~Rejected(q),
         NEW sockets, NEW pair, HeardOK(p, sockets, pair)
  PROVE  SocketHeard(q, sockets, <<>>) /\ ~CombinerPending(q)
  <1> DEFINE in == p.conData.inSocket
  <1>1. /\ in \in DOMAIN p.objList /\ in # NULL
        /\ p.conData.outSocket = NULL /\ p.conData.combiner = NULL
        /\ \/ KindOf(p, in) \in LocalSockets /\ p.conData.splitter = NULL
           \/ KindOf(p, in) = "NetworkSocket" /\ p.conData.splitter = NULL
           \/ KindOf(p, in) = "Splitter" /\ p.conData.splitter = in
    BY InputKinds
  <1>2. PICK new : SocketStep(p, q, isSource, new) /\ KindOf(q, new) = kind
    BY LocalSocketKind
  <1>3. Grown(p, q)
    BY LocalSocketGrown
  <1>4. /\ q.conData.inSocket = in /\ q.conData.outSocket = new /\ new # NULL
        /\ q.conData.combiner = NULL /\ q.conData.splitter = p.conData.splitter
        /\ Kept(p.objList, q.objList, {})
    BY <1>1, <1>2 DEF SocketStep
  <1>5. ~CombinerPending(q)
    BY <1>4 DEF CombinerPending
  <1>6. q.objList[in] = p.objList[in] /\ KindOf(q, in) = KindOf(p, in)
    BY <1>1, <1>4 DEF Kept, KindOf
  <1>7. KindOf(q, in) \in {"NetworkSocket", "Splitter"}
    <2>1. NetworkIsInput(q) \/ NetworkIsOutput(q)
      BY <1>1, <1>4, <1>5 DEF Rejected, Complete
    <2>2. ~NetworkIsOutput(q)
      BY <1>2, <1>4 DEF NetworkIsOutput, LocalSockets
    <2>3. QED
      BY <1>4, <2>1, <2>2 DEF NetworkIsInput
  <1>8. CASE KindOf(p, in) = "NetworkSocket" /\ p.conData.splitter = NULL
    <2>1. LastSaid(sockets, FALSE)
      BY <1>1, <1>8 DEF HeardOK, InputOK
    <2>2. Reached(q.objList, in) = {}
      BY <1>6, <1>8 DEF Reached, Devices, Indirect, KindOf
    <2>3. QED
      BY <1>4, <1>5, <1>6, <1>8, <2>1, <2>2
      DEF SocketHeard, SplitterOK, InputOK, ToJoin, OneDevice, Direction
  <1>9. CASE KindOf(p, in) = "Splitter" /\ p.conData.splitter = in
    <2>1. NoDevice(p.objList, in)
      BY <1>1, <1>9 DEF HeardOK, SplitterOK
    <2>2. NoDevice(q.objList, in)
      BY <1>1, <1>3, <1>6, <2>1, ReachedKept
    <2>3. Reached(q.objList, in) = {}
      BY <1>6, <1>9, <2>2 DEF Reached, Devices, Indirect, KindOf, NoDevice
    <2>4. QED
      BY <1>1, <1>4, <1>5, <1>6, <1>9, <2>2, <2>3
      DEF SocketHeard, SplitterOK, InputOK, ToJoin, OneDevice, Direction
  <1>10. QED
    BY <1>1, <1>6, <1>7, <1>8, <1>9 DEF LocalSockets

\* The local socket of a combiner.
LEMMA CombinerFilledHeard ==
  ASSUME NEW p, Good(p), HasCombiner(p), NEW isSource \in BOOLEAN, ~isSource,
         NEW kind \in LocalSockets, NEW pin \in DOMAIN PortsOf(kind),
         NEW q, q = LocalSocket(p, isSource, kind, pin), CombinerPending(q), NEW r, r = CombinerOut(q),
         NEW sockets, NEW pair
  PROVE  Grown(q, r) /\ HeardOK(r, sockets, pair) /\ NestedOK(r)
  <1>1. PICK new : SocketStep(p, q, isSource, new) /\ KindOf(q, new) = kind
    BY LocalSocketKind
  <1>2. q.conData.inSocket = NULL /\ q.conData.splitter = NULL /\ q.conData.outSocket = new
    BY <1>1 DEF SocketStep, HasCombiner
  <1>3. Good(q)
    BY LocalSocketPointers
  <1>4. r.conData.inSocket = NULL /\ r.conData.splitter = NULL
    BY <1>2, <1>3, CombinerOutFields DEF Good
  <1>5. KindOf(q, q.conData.outSocket) \notin Indirect
    BY <1>1, <1>2 DEF LocalSockets, Indirect
  <1>6. Grown(q, r)
    BY <1>3, <1>5, CombinerOutGrown
  <1>7. QED
    BY <1>4, <1>6 DEF HeardOK, SplitterOK, InputOK, ToJoin, Complete, NestedOK

LEMMA SplitterOutHeard ==
  ASSUME NEW p, Good(p), HasInput(p), NEW q, q = SplitterOut(p), NEW before, NEW pair,
         HeardOK(p, before, pair), NEW sockets
  PROVE  Grown(p, q) /\ HeardOK(q, sockets, <<>>) /\ NestedOK(q)
  <1> DEFINE in == p.conData.inSocket
             new == LastObject(p) + 1
             splitter == p.conData.splitter
  <1>1. /\ in \in DOMAIN p.objList /\ in # NULL
        /\ p.conData.outSocket = NULL /\ p.conData.combiner = NULL
        /\ \/ KindOf(p, in) \in LocalSockets /\ p.conData.splitter = NULL
           \/ KindOf(p, in) = "NetworkSocket" /\ p.conData.splitter = NULL
           \/ KindOf(p, in) = "Splitter" /\ p.conData.splitter = in
    BY InputKinds
  <1>2. KindOf(p, in) # "Combiner" /\ (KindOf(p, in) = "Splitter" => NoDevice(p.objList, in))
    BY <1>1 DEF LocalSockets, HeardOK, SplitterOK
  <1>3. Grown(p, q) /\ q.objList[new] = GetSplitter({in}) /\ new \notin DOMAIN p.objList
    BY <1>1, <1>2, SplitterOutGrown
  <1>4. /\ q.conData.inSocket = new /\ q.conData.outSocket = NULL
        /\ q.conData.splitter = splitter
        /\ q.objList = Append(p.objList, GetSplitter({in}))
    BY <1>1, SplitterOutFields DEF Good
  <1>5. KindOf(q, new) = "Splitter"
    BY <1>3 DEF KindOf, GetSplitter, Object
  <1>6. SplitterOK(q)
    <2>1. SUFFICES ASSUME splitter # NULL PROVE NoDevice(q.objList, splitter)
      BY <1>4 DEF SplitterOK
    <2>2. splitter \in DOMAIN p.objList /\ NoDevice(p.objList, splitter)
      BY <1>1, <2>1 DEF HeardOK, SplitterOK
    <2>3. p.objList \in Seq(ObjectRecord) /\ {in} \in SUBSET Nat
      BY <1>1, SocketsOf DEF Good
    <2>4. GetSplitter({in}) \in ObjectRecord
      BY <2>3, KindFacts DEF GetSplitter, Kinds
    <2>5. q.objList[splitter] = p.objList[splitter]
      BY <1>4, <2>2, <2>3, <2>4, ObjectAdded
    <2>6. QED
      BY <1>3, <2>2, <2>5, ReachedKept
  <1>7. QED
    BY <1>3, <1>4, <1>5, <1>6 DEF HeardOK, InputOK, ToJoin, Complete, NestedOK

LEMMA NestedHeard ==
  ASSUME NEW p, Good(p), InSplitter(p) \/ InCombiner(p) \/ InTwoSplitters(p), NestedOK(p),
         NEW isSource \in BOOLEAN, isSource <=> p.conData.combiner # NULL, NEW a,
         NEW q, q = NetworkSocket(p, isSource, a), NEW sockets, LastSaid(sockets, ~isSource)
  PROVE  SocketHeard(q, sockets, <<>>) /\ NestedOK(q)
  <1> DEFINE in == p.conData.inSocket
             new == LastObject(p) + 1
  <1>1. Grown(p, q) /\ (in # NULL => in \in DOMAIN p.objList)
    BY NetworkSocketGrown, SocketsOf DEF Good
  <1>2. in # NULL /\ p.conData.combiner = NULL => KindOf(q, in) # "NetworkSocket"
    BY <1>1 DEF NestedOK, Grown, KindOf
  <1>3. CASE InSplitter(p)
    <2>1. p.conData.splitter = NULL /\ p.conData.combiner = NULL /\ ~isSource
      BY <1>3 DEF InSplitter
    <2>2. SocketStep(p, q, isSource, new) /\ q.objList[new] = GetNetworkSocket
      BY <2>1, NetworkSocketStep
    <2>3. /\ q.conData.inSocket = in /\ q.conData.outSocket = new /\ q.conData.splitter = NULL
          /\ q.conData.combiner = NULL
      BY <2>1, <2>2 DEF SocketStep
    <2>4. Reached(q.objList, new) = {}
      BY <2>2, NetworkKind DEF Reached, Devices, Indirect
    <2>5. LastSaid(sockets, TRUE)
      BY <2>1
    <2>6. QED
      BY <1>2, <2>1, <2>3, <2>4, <2>5
      DEF SocketHeard, SplitterOK, InputOK, ToJoin, OneDevice, Direction, NestedOK
  <1>4. CASE InTwoSplitters(p)
    <2>1. p.conData.splitter # NULL /\ p.conData.combiner = NULL /\ p.conData.outSocket = NULL
      BY <1>4 DEF InTwoSplitters
    <2>2. SplitterOK(q) /\ SameSockets(p.conData, q.conData)
      BY <2>1, SplitterFilled
    <2>3. /\ q.conData.inSocket = in /\ q.conData.outSocket = NULL /\ q.conData.combiner = NULL
      BY <2>1, <2>2 DEF SameSockets
    <2>4. QED
      BY <1>2, <2>1, <2>2, <2>3 DEF SocketHeard, InputOK, ToJoin, Complete, NestedOK
  <1>5. CASE InCombiner(p)
    <2>1. p.objList \in Seq(ObjectRecord)
      BY SocketsOf DEF Good
    <2>2. p.conData.splitter = NULL /\ p.conData.combiner # NULL
      BY <1>5, <2>1 DEF InCombiner, NULL
    <2>3. SocketStep(p, q, isSource, new) /\ q.objList[new] = GetNetworkSocket
      BY <2>2, NetworkSocketStep
    <2>4. /\ q.conData.inSocket = new /\ q.conData.splitter = NULL
          /\ q.conData.combiner # NULL /\ KindOf(q, new) = "NetworkSocket"
      BY <2>2, <2>3, NetworkKind DEF SocketStep, KindOf
    <2>5. Reached(q.objList, new) = {}
      BY <2>3, NetworkKind DEF Reached, Devices, Indirect
    <2>6. LastSaid(sockets, FALSE)
      BY <2>2
    <2>7. QED
      BY <2>4, <2>5, <2>6
      DEF SocketHeard, SplitterOK, InputOK, ToJoin, OneDevice, Direction, NestedOK
  <1>6. QED
    BY <1>3, <1>4, <1>5

LEMMA HeardFacts ==
  ASSUME TypeInv, HeardInv, pc \in {"socket", "nested"}
  PROVE  /\ Good(priv) /\ Good(Counted(priv)) /\ Grown(priv, Counted(priv))
         /\ doc.sockets \in Seq(SaidRecord)
         /\ HeardOK(priv, doc.sockets, doc.pair) /\ HeardOK(Counted(priv), doc.sockets, doc.pair)
  <1> DEFINE p == Counted(priv)
  <1>1. Good(priv)
    BY DEF TypeInv, Good
  <1>2. HeardOK(priv, doc.sockets, doc.pair) /\ doc.sockets \in Seq(SaidRecord)
    BY DEF HeardInv
  <1>3. Good(p) /\ Grown(priv, p)
    BY <1>1, CountedPointers, CountedGrown
  <1>4. HeardOK(p, doc.sockets, doc.pair)
    BY <1>1, <1>2, CountedHeard
  <1>5. QED
    BY <1>1, <1>2, <1>3, <1>4

LEMMA FinishHeard ==
  ASSUME NEW q, Good(q), ~CombinerPending(q), Finish(q), Grown(priv, q), NEW sockets, NEW pair,
         SocketHeard(q, sockets, pair)
  PROVE  Grown(priv, priv') /\ HeardOK(priv', sockets, pair) /\ pc' = "socket"
  <1>1. priv' = ConnectIfComplete(q) /\ pc' = "socket"
    BY DEF Finish
  <1>2. Grown(q, priv') /\ HeardOK(priv', sockets, pair)
    BY <1>1, ConnectHeard DEF SocketHeard
  <1>3. Grown(priv, priv')
    BY <1>2, GrownTwice
  <1>4. QED
    BY <1>1, <1>2, <1>3

LEMMA ParseNetworkSocketHeard ==
  ASSUME OneNetworkSocket, TypeInv, JobsInv, HeardInv, NEW a \in Attributes, ParseNetworkSocket(a)
  PROVE  Error \/ HeardStep
  <1> DEFINE p == Counted(priv)
             q == NetworkSocket(p, IsSource, a)
             s == Said(IsSource, a)
             all == doc.sockets \o <<s>>
  <1>1. NextSocket("NetworkSocket") /\ pc = "socket"
    BY DEF ParseNetworkSocket, NextSocket
  <1>2. Error \/ (Finish(q) /\ Read(<<s>>))
    BY DEF ParseNetworkSocket
  <1>3. /\ Good(p) /\ Grown(priv, p) /\ doc.sockets \in Seq(SaidRecord)
        /\ HeardOK(p, doc.sockets, doc.pair)
    BY <1>1, HeardFacts
  <1>4. IsSource \in BOOLEAN /\ (Fresh(priv) => Fresh(p)) /\ (HasInput(priv) => HasInput(p))
    BY CountedSocket
  <1>5. s \in SaidRecord /\ s.isTalker = ~IsSource
    BY <1>4, SaidFields
  <1>6. all \in Seq(SaidRecord) /\ LastSaid(all, s.isTalker)
    BY <1>3, <1>5, SaidLast
  <1> HIDE DEF p
  <1>7. Good(q) /\ Grown(p, q)
    BY <1>3, <1>4, NetworkSocketGood, NetworkSocketGrown
  <1>8. Grown(priv, q)
    BY <1>3, <1>7, GrownTwice
  <1>9. Read(<<s>>) => doc'.pair = Tail(doc.pair) /\ doc'.sockets = all
    BY ReadSays
  <1>10. ASSUME AtFirst, doc.pair[1] = "NetworkSocket", Finish(q), Read(<<s>>) PROVE HeardStep
    <2>1. IsSource /\ Fresh(p) /\ doc.pair \in SocketPairs
      BY <1>4, <1>10 DEF AtFirst
    <2>2. doc'.pair = <<doc.pair[2]>> /\ doc.pair[2] # "NetworkSocket"
      BY <1>9, <1>10, <2>1, PairFacts DEF OneNetworkSocket
    <2>3. doc'.pair # <<"NetworkSocket">>
      BY <2>2
    <2>4. LastSaid(all, FALSE)
      BY <1>5, <1>6, <2>1
    <2>5. HeardOK(q, all, doc'.pair)
      BY <1>3, <1>4, <2>1, <2>3, <2>4, FirstNetworkHeard
    <2>6. ~CombinerPending(q)
      <3>1. IsSource => InputRead(p, q)
        <4>1. Endpoints(p)
          BY CountedSocket DEF p
        <4>2. QED
          BY <1>3, <1>4, <2>1, <4>1, FirstNetwork
      <3>2. QED
        BY <2>1, <3>1 DEF InputRead, CombinerPending
    <2>7. SocketHeard(q, all, doc'.pair)
      BY <2>5 DEF HeardOK, SocketHeard
    <2> HIDE DEF q, all
    <2>8. Grown(priv, priv') /\ HeardOK(priv', all, doc'.pair) /\ pc' = "socket"
      BY <1>7, <1>8, <1>10, <2>6, <2>7, FinishHeard
    <2>9. QED
      BY <1>6, <1>9, <1>10, <2>8 DEF HeardStep
  <1>11. ASSUME AtSecond("NetworkSocket"), Finish(q), Read(<<s>>) PROVE HeardStep
    <2>1. ~IsSource /\ HasInput(p) /\ doc.pair = <<"NetworkSocket">>
      BY <1>4, <1>11 DEF AtSecond, OneNetworkSocket, CombinersAreLocal
    <2>2. doc'.pair = <<>>
      BY <1>9, <1>11, <2>1
    <2>3. LastSaid(all, TRUE)
      BY <1>5, <1>6, <2>1
    <2>4. SocketHeard(q, all, <<>>)
      BY <1>3, <1>4, <2>1, <2>3, SecondNetworkHeard
    <2>5. ~CombinerPending(q)
      <3>1. ~IsSource => OutputRead(q)
        <4>1. Endpoints(p)
          BY CountedSocket DEF p
        <4>2. QED
          BY <1>3, <1>4, <2>1, <4>1, SecondNetwork
      <3>2. QED
        BY <2>1, <3>1 DEF OutputRead, CombinerPending
    <2> HIDE DEF q, all
    <2>6. Grown(priv, priv') /\ HeardOK(priv', all, <<>>) /\ pc' = "socket"
      BY <1>7, <1>8, <1>11, <2>4, <2>5, FinishHeard
    <2>7. QED
      BY <1>6, <1>9, <1>11, <2>2, <2>6 DEF HeardStep
  <1>12. QED
    BY <1>1, <1>2, <1>10, <1>11, SocketCases

LEMMA ParseLocalSocketHeard ==
  ASSUME TypeInv, JobsInv, HeardInv, NEW kind \in LocalSockets, NEW pin \in DOMAIN PortsOf(kind),
         ParseLocalSocket(kind, pin)
  PROVE  Error \/ HeardStep
  <1> DEFINE p == Counted(priv)
             q == LocalSocket(p, IsSource, kind, pin)
             none == <<>>
  <1>1. NextSocket(kind) /\ pc = "socket"
    BY DEF ParseLocalSocket, NextSocket
  <1>2. Error \/ (~Rejected(q) /\ Finish(q) /\ Read(none))
    BY DEF ParseLocalSocket
  <1>3. /\ Good(p) /\ Grown(priv, p) /\ doc.sockets \in Seq(SaidRecord)
        /\ HeardOK(p, doc.sockets, doc.pair)
    BY <1>1, HeardFacts
  <1>4. /\ IsSource \in BOOLEAN /\ Endpoints(p)
        /\ Fresh(priv) => Fresh(p)
        /\ HasInput(priv) => HasInput(p)
        /\ HasCombiner(priv) => HasCombiner(p)
    BY CountedSocket
  <1> HIDE DEF p
  <1>5. Good(q) /\ Grown(p, q)
    BY <1>3, <1>4, LocalSocketPointers, LocalSocketGrown
  <1>6. Grown(priv, q)
    BY <1>3, <1>5, GrownTwice
  <1>7. Read(none) => doc'.pair = Tail(doc.pair) /\ doc'.sockets = doc.sockets
    BY <1>3, ReadSays, NothingSaid
  <1>8. IsSource => (Fresh(p) => HeardOK(q, doc.sockets, doc'.pair) /\ ~CombinerPending(q))
    <2>1. SUFFICES ASSUME Fresh(p)
                   PROVE  IsSource => HeardOK(q, doc.sockets, doc'.pair) /\ ~CombinerPending(q)
      OBVIOUS
    <2>2. IsSource => HeardOK(q, doc.sockets, doc'.pair)
      BY <1>3, <1>4, <2>1, FirstLocalHeard
    <2>3. IsSource => InputRead(p, q)
      BY <1>3, <1>4, <2>1, FirstLocal
    <2> HIDE DEF q
    <2>4. QED
      BY <2>2, <2>3 DEF InputRead, CombinerPending
  <1>9. ASSUME HasInput(p), ~IsSource, ~Rejected(q)
        PROVE  SocketHeard(q, doc.sockets, <<>>) /\ ~CombinerPending(q)
    BY <1>3, <1>4, <1>9, SecondLocalHeard
  <1>10. ASSUME HasCombiner(p), ~IsSource
         PROVE  /\ CombinerPending(q) /\ Grown(q, CombinerOut(q))
                /\ HeardOK(CombinerOut(q), doc.sockets, <<>>) /\ NestedOK(CombinerOut(q))
    <2>1. ~IsSource => CombinerFilled(q)
      BY <1>3, <1>4, <1>10, SecondOfCombiner
    <2>2. CombinerPending(q)
      BY <1>10, <2>1 DEF CombinerFilled
    <2>3. QED
      BY <1>3, <1>4, <1>10, <2>2, CombinerFilledHeard
  <1> HIDE DEF q
  <1>11. ASSUME AtFirst, Finish(q), Read(none) PROVE HeardStep
    <2>1. HeardOK(q, doc.sockets, doc'.pair) /\ ~CombinerPending(q)
      BY <1>4, <1>8, <1>11 DEF AtFirst
    <2>2. SocketHeard(q, doc.sockets, doc'.pair)
      BY <2>1 DEF HeardOK, SocketHeard
    <2>3. Grown(priv, priv') /\ HeardOK(priv', doc.sockets, doc'.pair) /\ pc' = "socket"
      BY <1>5, <1>6, <1>11, <2>1, <2>2, FinishHeard
    <2>4. QED
      BY <1>3, <1>7, <1>11, <2>3 DEF HeardStep
  <1>12. ASSUME AtSecond(kind), ~Rejected(q), Finish(q), Read(none) PROVE HeardStep
    <2>1. ~IsSource /\ doc.pair = <<kind>> /\ (HasInput(p) \/ HasCombiner(p))
      BY <1>4, <1>12 DEF AtSecond
    <2>2. doc'.pair = <<>> /\ doc'.sockets = doc.sockets
      BY <1>7, <1>12, <2>1
    <2>3. CASE HasInput(p)
      <3>1. SocketHeard(q, doc.sockets, <<>>) /\ ~CombinerPending(q)
        BY <1>9, <1>12, <2>1, <2>3
      <3>2. Grown(priv, priv') /\ HeardOK(priv', doc.sockets, <<>>) /\ pc' = "socket"
        BY <1>5, <1>6, <1>12, <3>1, FinishHeard
      <3>3. QED
        BY <1>3, <2>2, <3>2 DEF HeardStep
    <2>4. CASE HasCombiner(p)
      <3>1. /\ CombinerPending(q) /\ Grown(q, CombinerOut(q))
            /\ HeardOK(CombinerOut(q), doc.sockets, <<>>) /\ NestedOK(CombinerOut(q))
        BY <1>10, <2>1, <2>4
      <3>2. priv' = CombinerOut(q)
        BY <1>12, <3>1, FinishFilled
      <3>3. Grown(priv, priv')
        BY <1>6, <3>1, <3>2, GrownTwice
      <3>4. QED
        BY <1>3, <2>2, <3>1, <3>2, <3>3 DEF HeardStep
    <2>5. QED
      BY <2>1, <2>3, <2>4
  <1>13. QED
    BY <1>1, <1>2, <1>11, <1>12, SocketCases

LEMMA ParseSplitterInHeard ==
  ASSUME TypeInv, JobsInv, HeardInv, NEW a \in Attributes, ParseSplitterIn(a)
  PROVE  HeardStep
  <1> DEFINE p == Counted(priv)
             yes == TRUE
             q == NetworkSocket(SplitterIn(p), yes, a)
             s == Said(yes, a)
             all == doc.sockets \o <<s>>
  <1>1. NextSocket("Splitter") /\ pc = "socket" /\ IsSource /\ Finish(q) /\ Read(<<s>>)
    BY DEF ParseSplitterIn, NextSocket
  <1>2. Good(p) /\ Grown(priv, p) /\ doc.sockets \in Seq(SaidRecord)
    BY <1>1, HeardFacts
  <1>3. AtFirst /\ (Fresh(priv) => Fresh(p)) /\ Endpoints(p)
    BY <1>1, SocketCases, CountedSocket DEF AtSecond
  <1>4. yes \in BOOLEAN /\ Fresh(p)
    BY <1>3 DEF AtFirst
  <1> HIDE DEF p, yes
  <1>5. s \in SaidRecord
    BY <1>4, SaidFields
  <1>6. all \in Seq(SaidRecord)
    BY <1>2, <1>5, SaidLast
  <1>7. doc'.sockets = all
    BY <1>1, ReadSays
  <1>8. HeardOK(q, all, doc'.pair) /\ Grown(p, q)
    BY <1>2, <1>4, SplitterInHeard
  <1>9. Good(q)
    BY <1>2, <1>4, SplitterInPointers, NetworkSocketGood
  <1>10. InputRead(p, q)
    BY <1>2, <1>3, <1>4, SplitterInJobs
  <1> HIDE DEF q, all
  <1>11. ~CombinerPending(q) /\ SocketHeard(q, all, doc'.pair) /\ Grown(priv, q)
    BY <1>2, <1>8, <1>10, GrownTwice DEF InputRead, CombinerPending, HeardOK, SocketHeard
  <1>12. Grown(priv, priv') /\ HeardOK(priv', all, doc'.pair) /\ pc' = "socket"
    BY <1>1, <1>9, <1>11, FinishHeard
  <1>13. QED
    BY <1>6, <1>7, <1>12 DEF HeardStep

LEMMA ParseSplitterOutHeard ==
  ASSUME TypeInv, JobsInv, HeardInv, ParseSplitterOut
  PROVE  Error \/ HeardStep
  <1> DEFINE p == Counted(priv)
             q == SplitterOut(p)
             none == <<>>
  <1>1. NextSocket("Splitter") /\ ~IsSource /\ pc = "socket"
    BY DEF ParseSplitterOut, NextSocket
  <1>2. \/ Error
        \/ priv.conData.inSocket # NULL /\ priv' = q /\ pc' = "nested" /\ Read(none)
    BY DEF ParseSplitterOut
  <1>3. /\ Good(p) /\ Grown(priv, p) /\ doc.sockets \in Seq(SaidRecord)
        /\ HeardOK(p, doc.sockets, doc.pair)
    BY <1>1, HeardFacts
  <1>4. AtSecond("Splitter") /\ (HasInput(priv) => HasInput(p))
    BY <1>1, SocketCases, CountedSocket DEF AtFirst
  <1> HIDE DEF p, q
  <1>5. ASSUME priv.conData.inSocket # NULL, priv' = q, pc' = "nested", Read(none)
        PROVE  HeardStep
    <2>1. HasInput(p) /\ doc.pair = <<"Splitter">>
      BY <1>4, <1>5 DEF AtSecond, HasCombiner
    <2>2. doc'.pair = <<>> /\ doc'.sockets = doc.sockets
      BY <1>3, <1>5, <2>1, ReadSays, NothingSaid
    <2>3. Grown(p, q) /\ HeardOK(q, doc.sockets, <<>>) /\ NestedOK(q)
      BY <1>3, <2>1, SplitterOutHeard DEF q
    <2>4. Grown(priv, q)
      BY <1>3, <2>3, GrownTwice
    <2>5. QED
      BY <1>3, <1>5, <2>2, <2>3, <2>4 DEF HeardStep
  <1>6. QED
    BY <1>2, <1>5

LEMMA ParseCombinerHeard ==
  ASSUME TypeInv, JobsInv, HeardInv, ParseCombiner
  PROVE  Error \/ HeardStep
  <1> DEFINE p == Counted(priv)
             q == Combiner(p)
             none == <<>>
  <1>1. NextSocket("Combiner") /\ pc = "socket"
    BY DEF ParseCombiner, NextSocket
  <1>2. Error \/ (IsSource /\ Finish(q) /\ Read(none))
    BY DEF ParseCombiner
  <1>3. Good(p) /\ Grown(priv, p) /\ doc.sockets \in Seq(SaidRecord)
    BY <1>1, HeardFacts
  <1>4. (Fresh(priv) => Fresh(p)) /\ Endpoints(p)
    BY CountedSocket
  <1> HIDE DEF p, q
  <1>5. ASSUME IsSource, Finish(q), Read(none) PROVE HeardStep
    <2>1. AtFirst
      BY <1>1, <1>5, SocketCases DEF AtSecond
    <2>2. Fresh(p)
      BY <1>4, <2>1 DEF AtFirst
    <2>3. HeardOK(q, doc.sockets, doc'.pair) /\ Grown(p, q) /\ Good(q)
      BY <1>3, <2>2, CombinerHeard, CombinerGrown, CombinerPointers DEF q
    <2>4. q.conData.outSocket = NULL
      BY <1>3, <1>4, <2>2, FirstCombiner DEF q
    <2>5. ~CombinerPending(q) /\ SocketHeard(q, doc.sockets, doc'.pair) /\ Grown(priv, q)
      BY <1>3, <2>3, <2>4, GrownTwice DEF CombinerPending, HeardOK, SocketHeard
    <2>6. Grown(priv, priv') /\ HeardOK(priv', doc.sockets, doc'.pair) /\ pc' = "socket"
      BY <1>5, <2>3, <2>5, FinishHeard
    <2>7. doc'.sockets = doc.sockets
      BY <1>3, <1>5, ReadSays, NothingSaid
    <2>8. QED
      BY <1>3, <2>6, <2>7 DEF HeardStep
  <1>6. QED
    BY <1>2, <1>5

LEMMA ParseNestedSocketHeard ==
  ASSUME TypeInv, JobsInv, HeardInv, NEW a \in Attributes, ParseNestedSocket(a)
  PROVE  HeardStep
  <1> DEFINE q == NetworkSocket(priv, NestedIsSource, a)
             r == ConnectIfComplete(q)
             s == Said(NestedIsSource, a)
             all == doc.sockets \o <<s>>
  <1>1. NestedIsSource \in BOOLEAN /\ (NestedIsSource <=> priv.conData.combiner # NULL)
    BY DEF NestedIsSource
  <1>2. /\ pc = "nested" /\ pc' = "nested" /\ priv' = DeepCopyJobList(r, priv)
        /\ doc'.pair = doc.pair /\ doc'.sockets = Append(doc.sockets, s)
    BY DEF ParseNestedSocket, TypeInv, DocFields
  <1>3. Good(priv) /\ doc.sockets \in Seq(SaidRecord) /\ NestedOK(priv)
    BY <1>2, HeardFacts DEF HeardInv
  <1>4. doc.pair = <<>> /\ (InSplitter(priv) \/ InCombiner(priv) \/ InTwoSplitters(priv))
    BY <1>2 DEF JobsInv, ConnectionInv
  <1>5. s \in SaidRecord /\ s.isTalker = ~NestedIsSource
    BY <1>1, SaidFields
  <1>6. all \in Seq(SaidRecord) /\ LastSaid(all, ~NestedIsSource)
    BY <1>3, <1>5, SaidLast
  <1>7. doc'.sockets = all
    <2> DEFINE S == SaidRecord
    <2>1. doc.sockets \in Seq(S) /\ s \in S
      BY <1>3, <1>5
    <2> HIDE DEF S, s
    <2>2. Append(doc.sockets, s) = doc.sockets \o <<s>>
      BY <2>1
    <2>3. QED
      BY <1>2, <2>2
  <1> HIDE DEF all, s
  <1>8. SocketHeard(q, all, <<>>) /\ NestedOK(q)
    BY <1>1, <1>3, <1>4, <1>6, NestedHeard
  <1>9. Good(q) /\ Grown(priv, q)
    BY <1>1, <1>3, NetworkSocketGood, NetworkSocketGrown
  <1> HIDE DEF q
  <1>10. Grown(q, r) /\ HeardOK(r, all, <<>>) /\ NestedOK(r) /\ Good(r)
    BY <1>8, <1>9, ConnectHeard, ConnectIfCompletePointers DEF SocketHeard
  <1> HIDE DEF r
  <1>11. SameLists(r, priv') /\ priv'.objList = r.objList /\ SameSockets(r.conData, priv'.conData)
    BY <1>2, <1>10, CopiedFields DEF Good
  <1>12. HeardOK(priv', all, <<>>) /\ NestedOK(priv')
    BY <1>10, <1>11, HeardSame DEF SameLists
  <1>13. Grown(priv, priv')
    BY <1>9, <1>10, <1>11, GrownSame, GrownTwice
  <1>14. QED
    BY <1>2, <1>4, <1>6, <1>7, <1>12, <1>13 DEF HeardStep

LEMMA EndNestedHeard ==
  ASSUME TypeInv, HeardInv, ParseInvalidNestedSocket \/ EndNested
  PROVE  HeardStep
  <1>1. /\ priv' = priv /\ pc = "nested" /\ pc' \in {"nested", "socket"} /\ doc'.pair = doc.pair
        /\ doc'.sockets = doc.sockets
    BY DEF ParseInvalidNestedSocket, EndNested, TypeInv, DocFields
  <1>2. Grown(priv, priv')
    BY <1>1 DEF Grown
  <1>3. QED
    BY <1>1, <1>2 DEF HeardInv, HeardStep

LEMMA ParseSocketHeard ==
  ASSUME OneNetworkSocket, TypeInv, JobsInv, HeardInv, ParseSocket
  PROVE  Error \/ HeardStep
  BY ParseNetworkSocketHeard, ParseLocalSocketHeard, ParseSplitterInHeard, ParseSplitterOutHeard,
     ParseCombinerHeard, ParseNestedSocketHeard, EndNestedHeard DEF ParseSocket

\* The other elements: a connection starts with nothing, an error gives everything back.
LEMMA ErrorHeard ==
  ASSUME HeardInv, Error
  PROVE  HeardInv'
  <1>1. priv'.objList = <<>> /\ doc' = doc /\ pc' = "failed"
    BY NoDataGood DEF Error
  <1>2. Shape(priv'.objList)
    BY <1>1 DEF Shape
  <1>3. QED
    BY <1>1, <1>2 DEF HeardInv

LEMMA StepHeard ==
  ASSUME HeardInv, HeardStep
  PROVE  HeardInv'
  BY DEF HeardInv, HeardStep, Grown

LEMMA ParseNodeGrown ==
  ASSUME TypeInv, NEW names \in NodePorts, ParseNode(names)
  PROVE  Grown(priv, priv')
  <1> DEFINE p == ClearedNode
  <1>1. Good(priv)
    BY DEF TypeInv, Good
  <1>2. /\ Good(p) /\ p.pRtLst = priv.pRtLst /\ p.objList = priv.objList
        /\ p.drvInfLst = priv.drvInfLst
        /\ priv' = NewPorts(p, names) /\ names \in Seq(Ports)
    BY <1>1, ClearedNodeGood, XmlAssumption DEF ParseNode, ClearedNode
  <1> HIDE DEF p
  <1>3. PortStep(p, priv')
    BY <1>2, NewPortsStep DEF Good
  <1>4. Grown(p, priv')
    BY <1>2, <1>3, PortsGrown
  <1>5. QED
    BY <1>2, <1>4 DEF Grown

LEMMA ParseConnectionHeard ==
  ASSUME TypeInv, HeardInv, NEW pair \in SocketPairs, ParseConnection(pair)
  PROVE  Grown(priv, priv') /\ HeardInv'
  <1> DEFINE q == ClearedConnection
  <1>1. Good(priv)
    BY DEF TypeInv, Good
  <1>2. priv' = q /\ pc' = "socket" /\ doc'.sockets = doc.sockets
    BY DEF ParseConnection, ClearedConnection, TypeInv, DocFields
  <1>3. /\ SameLists(priv, q) /\ q.objList = priv.objList
        /\ q.conData.inSocket = NULL /\ q.conData.splitter = NULL
    BY <1>1, ClearedConnectionFields
  <1> HIDE DEF q
  <1>4. HeardOK(q, doc.sockets, doc'.pair)
    BY <1>3 DEF HeardOK, SplitterOK, InputOK, ToJoin, Complete
  <1>5. Grown(priv, q)
    BY <1>3, GrownSame
  <1>6. QED
    BY <1>2, <1>3, <1>4, <1>5 DEF HeardInv

LEMMA OtherHeard ==
  ASSUME HeardInv, priv'.objList = priv.objList, doc'.sockets = doc.sockets,
         pc' \notin {"socket", "nested"}
  PROVE  HeardInv'
  BY DEF HeardInv

LEMMA InitHeardInv == Init => HeardInv
  <1>1. SUFFICES ASSUME Init PROVE HeardInv
    OBVIOUS
  <1>2. pc = "node" /\ priv.objList = <<>> /\ doc.sockets = <<>>
    BY <1>1, NoDataGood DEF Init
  <1> DEFINE S == SaidRecord
  <1> HIDE DEF S
  <1>3. <<>> \in Seq(S)
    OBVIOUS
  <1>4. Shape(priv.objList) /\ doc.sockets \in Seq(SaidRecord)
    BY <1>2, <1>3 DEF Shape, S
  <1>5. QED
    BY <1>2, <1>4 DEF HeardInv

LEMMA NextHeardInv ==
  ASSUME OneNetworkSocket, TypeInv, JobsInv, HeardInv, [Next]_vars
  PROVE  HeardInv'
  <1>1. Good(priv)
    BY DEF TypeInv, Good
  <1>2. ASSUME NEW names \in NodePorts, ParseNode(names) PROVE HeardInv'
    <2>1. Grown(priv, priv') /\ doc' = doc /\ pc' = "connection"
      BY <1>2, ParseNodeGrown DEF ParseNode
    <2>2. QED
      BY <2>1 DEF HeardInv, Grown
  <1>3. ASSUME NEW link \in Links \cup {NULL}, EndConnection(link) PROVE HeardInv'
    <2>1. \/ Error
          \/ /\ priv' = priv \/ priv' = StoreDriverInfo(priv, link)
             /\ pc' = "connection"
             /\ doc' = doc \/ doc' = [doc EXCEPT !.links = Append(@, Link(link))]
      BY <1>3 DEF EndConnection
    <2>2. StoreDriverInfo(priv, link).objList = priv.objList
      BY <1>1, DriversGood DEF StoreDriverInfo
    <2>3. QED
      BY <2>1, <2>2, OtherHeard, ErrorHeard DEF TypeInv, DocFields
  <1>4. ASSUME NEW link \in Links, NEW kinds \in DriverKinds, ParseDriver(link, kinds)
        PROVE  HeardInv'
    <2>1. \/ Error
          \/ /\ priv' = [priv EXCEPT !.drvInfLst = Expand(@, link, kinds)]
             /\ pc' = "drivers"
             /\ doc' = [doc EXCEPT !.drivers = Append(@, [link |-> link, kinds |-> kinds])]
      BY <1>4 DEF ParseDriver
    <2>2. CASE /\ priv' = [priv EXCEPT !.drvInfLst = Expand(@, link, kinds)]
               /\ pc' = "drivers"
               /\ doc' = [doc EXCEPT !.drivers = Append(@, [link |-> link, kinds |-> kinds])]
      <3>1. priv'.objList = priv.objList /\ doc'.sockets = doc.sockets
        BY <1>1, <2>2, DriversGood DEF TypeInv, DocFields
      <3>2. QED
        BY <2>2, <3>1, OtherHeard
    <2>3. QED
      BY <2>1, <2>2, ErrorHeard
  <1>5. CASE EndNode \/ ParseRoutes \/ FillDriverArray
    <2>1. priv' = priv /\ doc' = doc /\ pc' \notin {"socket", "nested"}
      BY <1>5 DEF EndNode, ParseRoutes, FillDriverArray
    <2>2. QED
      BY <2>1, OtherHeard
  <1>6. CASE Fail
    BY <1>6, ErrorHeard DEF Fail
  <1>7. CASE UNCHANGED vars
    BY <1>7 DEF vars, HeardInv
  <1>8. CASE ParseSocket
    BY <1>8, ParseSocketHeard, StepHeard, ErrorHeard
  <1>9. QED
    BY <1>2, <1>3, <1>4, <1>5, <1>6, <1>7, <1>8, ParseConnectionHeard DEF Next, ParseAll

-----------------------------------------------------------------------------
(* The drivers that the document names, and their entries. *)

LEMMA EntriesAreKinds ==
  ASSUME NEW l
  PROVE  EntriesOf(l) = KindsOf(doc.drivers, l.link)
  BY DEF EntriesOf, KindsOf

\* A driver has a child at least.
LEMMA KindsType ==
  ASSUME NEW drivers \in Seq(DriverSaid), NEW link
  PROVE  KindsOf(drivers, link) \in Seq(DriverTypes) /\ KindsOf(drivers, link) # <<>>
  <1> DEFINE named == {i \in DOMAIN drivers : drivers[i].link = link}
  <1>1. CASE named = {}
    <2>1. KindsOf(drivers, link) = <<"Cdev">>
      BY <1>1 DEF KindsOf
    <2> DEFINE T == DriverTypes
               x == "Cdev"
    <2>2. x \in T
      BY DEF DriverTypes
    <2> HIDE DEF T, x
    <2>3. <<x>> \in Seq(T) /\ <<x>> # <<>>
      BY <2>2
    <2>4. QED
      BY <2>1, <2>3 DEF T, x
  <1>2. CASE named # {}
    <2> DEFINE i == CHOOSE i \in named : TRUE
    <2>1. i \in named /\ KindsOf(drivers, link) = drivers[i].kinds
      BY <1>2 DEF KindsOf
    <2> HIDE DEF i
    <2>2. i \in DOMAIN drivers
      BY <2>1
    <2> DEFINE T == DriverSaid
    <2> HIDE DEF T
    <2>3. drivers \in Seq(T)
      BY DEF T
    <2>4. drivers[i] \in T
      BY <2>2, <2>3
    <2>5. drivers[i].kinds \in Seq(DriverTypes) \ {<<>>}
      BY <2>4 DEF T, DriverSaid
    <2>6. QED
      BY <2>1, <2>5
  <1>3. QED
    BY <1>1, <1>2

LEMMA KindsOfSet ==
  ASSUME NEW drivers, NEW link, NEW named, named = {i \in DOMAIN drivers : drivers[i].link = link}
  PROVE  KindsOf(drivers, link) =
           IF named = {} THEN <<"Cdev">> ELSE drivers[CHOOSE i \in named : TRUE].kinds
  BY DEF KindsOf

\* One more driver element, which was not there before.
LEMMA KindsAdded ==
  ASSUME NEW drivers \in Seq(DriverSaid), NEW d \in DriverSaid,
         \A i \in DOMAIN drivers : drivers[i].link # d.link, NEW link
  PROVE  KindsOf(Append(drivers, d), link) =
           IF link = d.link THEN d.kinds ELSE KindsOf(drivers, link)
  <1> DEFINE T == DriverSaid
             n == Len(drivers)
             more == Append(drivers, d)
             named(s) == {i \in DOMAIN s : s[i].link = link}
  <1>1. /\ n \in Nat /\ DOMAIN drivers = 1 .. n /\ DOMAIN more = 1 .. n + 1
        /\ more[n + 1] = d /\ \A i \in 1 .. n : more[i] = drivers[i]
    <2> HIDE DEF T
    <2>1. drivers \in Seq(T) /\ d \in T
      BY DEF T
    <2>2. QED
      BY <2>1
  <1> HIDE DEF more, n
  <1>2. CASE link = d.link
    <2>1. named(more) = {n + 1}
      BY <1>1, <1>2
    <2>2. (CHOOSE i \in named(more) : TRUE) = n + 1
      BY <2>1
    <2>3. KindsOf(more, link) = more[n + 1].kinds
      BY <2>1, <2>2 DEF KindsOf
    <2>4. QED
      BY <1>1, <1>2, <2>3 DEF more
  <1>3. CASE link # d.link
    <2>1. named(more) = named(drivers)
      BY <1>1, <1>3
    <2> DEFINE both == named(drivers)
               i == CHOOSE i \in both : TRUE
    <2>2. both # {} => more[i] = drivers[i]
      BY <1>1
    <2>3. KindsOf(more, link) = KindsOf(drivers, link)
      <3>1. both = {j \in DOMAIN drivers : drivers[j].link = link}
        OBVIOUS
      <3>2. both = {j \in DOMAIN more : more[j].link = link}
        BY <2>1
      <3> HIDE DEF both
      <3>3. /\ KindsOf(drivers, link) = IF both = {} THEN <<"Cdev">> ELSE drivers[i].kinds
            /\ KindsOf(more, link) = IF both = {} THEN <<"Cdev">> ELSE more[i].kinds
        BY <3>1, <3>2, KindsOfSet
      <3> HIDE DEF i
      <3>4. QED
        BY <2>2, <3>3
    <2>4. QED
      BY <1>3, <2>3 DEF more
  <1>4. QED
    BY <1>2, <1>3

LEMMA EntriesFacts ==
  ASSUME NEW e \in DriverEntry, NEW kinds \in Seq(DriverTypes)
  PROVE  /\ Entries(e, kinds) \in Seq(DriverEntry) /\ Len(Entries(e, kinds)) = Len(kinds)
         /\ DOMAIN Entries(e, kinds) = DOMAIN kinds
         /\ \A k \in DOMAIN kinds :
              /\ Entries(e, kinds)[k].driverType = kinds[k]
              /\ \A f \in {"linkName", "nodeAddress", "direction", "channel"} :
                   Entries(e, kinds)[k][f] = e[f]
  <1> DEFINE T == DriverEntry
             n == Len(kinds)
             all == Entries(e, kinds)
  <1>1. n \in Nat /\ DOMAIN kinds = 1 .. n /\ \A k \in 1 .. n : kinds[k] \in DriverTypes
    OBVIOUS
  <1>2. \A k \in 1 .. n : [e EXCEPT !.driverType = kinds[k]] \in T
    BY <1>1, EntryOfType
  <1>3. all = [k \in 1 .. n |-> [e EXCEPT !.driverType = kinds[k]]]
    BY <1>1 DEF Entries
  <1>4. ASSUME NEW k \in 1 .. n
        PROVE  /\ all[k].driverType = kinds[k]
               /\ \A f \in {"linkName", "nodeAddress", "direction", "channel"} : all[k][f] = e[f]
    <2>1. all[k] = [e EXCEPT !.driverType = kinds[k]]
      BY <1>3
    <2>2. QED
      BY <2>1 DEF DriverEntry
  <1>5. all \in Seq(T) /\ Len(all) = n /\ DOMAIN all = 1 .. n
    <2> HIDE DEF T, n
    <2>1. all \in [1 .. n -> T]
      BY <1>2, <1>3
    <2> HIDE DEF all
    <2>2. QED
      BY <1>1, <2>1
  <1>6. QED
    BY <1>1, <1>4, <1>5

LEMMA ShownType ==
  ASSUME NEW links, links \in Seq(ToSet(links)), NEW base \in Seq(DriverEntry),
         Len(base) = Len(links), NEW drivers \in Seq(DriverSaid)
  PROVE  /\ Shown(base, links, drivers) \in Seq(Seq(DriverEntry))
         /\ Len(Shown(base, links, drivers)) = Len(links)
         /\ DOMAIN Shown(base, links, drivers) = DOMAIN links
         /\ DOMAIN base = DOMAIN links /\ \A i \in DOMAIN links : base[i] \in DriverEntry
  <1> DEFINE T == DriverEntry
             U == Seq(T)
             n == Len(links)
             all == Shown(base, links, drivers)
  <1>1. n \in Nat /\ DOMAIN links = 1 .. n
    <2> DEFINE S == ToSet(links)
    <2> HIDE DEF S
    <2>1. links \in Seq(S)
      BY DEF S
    <2>2. QED
      BY <2>1
  <1>2. DOMAIN base = 1 .. n /\ \A i \in 1 .. n : base[i] \in T
    <2> HIDE DEF T
    <2>1. base \in Seq(T)
      BY DEF T
    <2>2. QED
      BY <1>1, <2>1
  <1>3. \A i \in 1 .. n : Entries(base[i], KindsOf(drivers, links[i].link)) \in U
    BY <1>2, KindsType, EntriesFacts
  <1> HIDE DEF U, n
  <1>4. all = [i \in 1 .. n |-> Entries(base[i], KindsOf(drivers, links[i].link))]
    BY <1>1 DEF Shown
  <1>5. all \in [1 .. n -> U]
    BY <1>3, <1>4
  <1> HIDE DEF all
  <1>6. all \in Seq(U) /\ Len(all) = n /\ DOMAIN all = 1 .. n
    BY <1>1, <1>5
  <1>7. QED
    BY <1>1, <1>2, <1>6 DEF U, all, n

\* Objects and routes stay, and so does what the entries say.
LEMMA SaysLinkKept ==
  ASSUME NEW p, Endpoints(p), NEW q, NEW e, NEW l, SaysLink(p, e, l),
         \A x \in DOMAIN p.objList : q.objList[x].kind = p.objList[x].kind,
         \A r \in DOMAIN p.pRtLst : r \in DOMAIN q.pRtLst /\ q.pRtLst[r] = p.pRtLst[r]
  PROVE  SaysLink(q, e, l)
  <1> DEFINE jobs == p.pRtLst[l.endpoint].ep.jobs
  <1>1. /\ l.endpoint \in DOMAIN p.pRtLst /\ l.endpoint \in DOMAIN q.pRtLst
        /\ q.pRtLst[l.endpoint] = p.pRtLst[l.endpoint]
    BY DEF SaysLink
  <1>2. jobs \in Seq(DOMAIN p.objList)
    BY <1>1 DEF Endpoints, EndpointOK
  <1> HIDE DEF jobs
  <1>3. ToSet(jobs) \subseteq DOMAIN p.objList
    BY <1>2 DEF ToSet
  <1>4. DevicesIn(q.objList, jobs) = DevicesIn(p.objList, jobs)
    BY <1>3 DEF DevicesIn
  <1>5. QED
    BY <1>1, <1>4 DEF SaysLink, jobs

LEMMA DriversKept ==
  ASSUME NEW p, Endpoints(p), NEW q, NEW links, NEW drivers, DriversOK(p, links, drivers),
         \A x \in DOMAIN p.objList : q.objList[x].kind = p.objList[x].kind,
         \A r \in DOMAIN p.pRtLst : r \in DOMAIN q.pRtLst /\ q.pRtLst[r] = p.pRtLst[r],
         q.drvInfLst = p.drvInfLst
  PROVE  DriversOK(q, links, drivers)
  <1>1. PICK base \in Seq(DriverEntry) :
          /\ Len(base) = Len(links)
          /\ \A i \in DOMAIN links : SaysLink(p, base[i], links[i])
          /\ p.drvInfLst = FlattenSeq(Shown(base, links, drivers))
    BY DEF DriversOK
  <1>2. \A i \in DOMAIN links : SaysLink(q, base[i], links[i])
    BY <1>1, SaysLinkKept
  <1>3. QED
    BY <1>1, <1>2 DEF DriversOK

LEMMA EntriesOfOne ==
  ASSUME NEW e \in DriverEntry, NEW type, e.driverType = type
  PROVE  Entries(e, <<type>>) = <<e>>
  <1>1. [e EXCEPT !.driverType = type] = e
    BY DEF DriverEntry
  <1>2. DOMAIN <<type>> = {1} /\ <<type>>[1] = type
    OBVIOUS
  <1>3. Entries(e, <<type>>) = [k \in {1} |-> e]
    BY <1>1, <1>2 DEF Entries
  <1>4. QED
    BY <1>3

LEMMA AppendedSeq ==
  ASSUME NEW s, s \in Seq(ToSet(s)), NEW x
  PROVE  Append(s, x) \in Seq(ToSet(Append(s, x)))
  <1> DEFINE S == ToSet(s)
             more == Append(s, x)
             S2 == ToSet(more)
  <1> HIDE DEF S
  <1>1. s \in Seq(S)
    BY DEF S
  <1>2. more \in Seq(S \cup {x})
    BY <1>1
  <1> HIDE DEF more
  <1>3. \A i \in 1 .. Len(more) : more[i] \in S2
    BY <1>2 DEF ToSet
  <1> HIDE DEF S2
  <1>4. more \in Seq(S2)
    BY <1>2, <1>3
  <1>5. QED
    BY <1>4 DEF S2, more

LEMMA ShownAppended ==
  ASSUME NEW links, links \in Seq(ToSet(links)), NEW base \in Seq(DriverEntry),
         Len(base) = Len(links), NEW l, NEW e \in DriverEntry, e.driverType = "Cdev",
         NEW drivers \in Seq(DriverSaid), drivers = <<>>
  PROVE  MoreShown(links, base, drivers, l, e)
  <1> DEFINE T == DriverEntry
             U == Seq(T)
             n == Len(links)
             all == Shown(base, links, drivers)
             links2 == Append(links, l)
             base2 == Append(base, e)
             one == <<e>>
  <1>1. /\ all \in Seq(U) /\ Len(all) = n /\ DOMAIN all = DOMAIN links /\ one \in U
        /\ \A i \in DOMAIN links : all[i] = Entries(base[i], KindsOf(drivers, links[i].link))
    <2>1. one \in U
      <3> HIDE DEF T
      <3>1. e \in T
        BY DEF T
      <3>2. QED
        BY <3>1
    <2>2. QED
      BY <2>1, ShownType DEF Shown
  <1>2. /\ n \in Nat /\ DOMAIN links = 1 .. n /\ DOMAIN links2 = 1 .. n + 1 /\ links2[n + 1] = l
        /\ \A i \in 1 .. n : links2[i] = links[i]
        /\ links2 \in Seq(ToSet(links2)) /\ Len(links2) = n + 1
    <2> DEFINE S == ToSet(links)
    <2>1. links2 \in Seq(ToSet(links2))
      BY AppendedSeq
    <2> HIDE DEF S
    <2>2. links \in Seq(S)
      BY DEF S
    <2>3. /\ n \in Nat /\ DOMAIN links = 1 .. n /\ DOMAIN links2 = 1 .. n + 1 /\ links2[n + 1] = l
          /\ \A i \in 1 .. n : links2[i] = links[i]
          /\ Len(links2) = n + 1
      BY <2>2
    <2>4. QED
      BY <2>1, <2>3
  <1>3. /\ base2 \in Seq(T) /\ Len(base2) = n + 1 /\ base2[n + 1] = e
        /\ \A i \in 1 .. n : base2[i] = base[i]
    <2> HIDE DEF T
    <2>1. base \in Seq(T) /\ e \in T
      BY DEF T
    <2> HIDE DEF n
    <2>2. Len(base) = n
      BY DEF n
    <2>3. QED
      BY <1>2, <2>1, <2>2
  <1>4. Entries(e, KindsOf(drivers, l.link)) = one
    <2>1. KindsOf(drivers, l.link) = <<"Cdev">>
      BY DEF KindsOf
    <2>2. QED
      BY <2>1, EntriesOfOne
  <1> HIDE DEF all, links2, base2, n, one
  <1>5. Shown(base2, links2, drivers) =
          [i \in 1 .. n + 1 |-> Entries(base2[i], KindsOf(drivers, links2[i].link))]
    BY <1>2 DEF Shown
  <1> DEFINE both == Append(all, one)
  <1>6. both \in Seq(U) /\ DOMAIN both = 1 .. n + 1 /\ both[n + 1] = one
        /\ \A i \in 1 .. n : both[i] = all[i]
    <2> HIDE DEF U
    <2>1. QED
      BY <1>1, <1>2
  <1> HIDE DEF both
  <1>7. \A i \in 1 .. n + 1 : both[i] = Entries(base2[i], KindsOf(drivers, links2[i].link))
    <2>1. both[n + 1] = Entries(base2[n + 1], KindsOf(drivers, links2[n + 1].link))
      BY <1>2, <1>3, <1>4, <1>6
    <2>2. \A i \in 1 .. n : both[i] = Entries(base2[i], KindsOf(drivers, links2[i].link))
      BY <1>1, <1>2, <1>3, <1>6
    <2>3. \A i \in 1 .. n + 1 : i \in 1 .. n \/ i = n + 1
      BY <1>2
    <2>4. QED
      BY <2>1, <2>2, <2>3
  <1>8. both = [i \in 1 .. n + 1 |-> both[i]]
    <2> HIDE DEF U
    <2>1. QED
      BY <1>6
  <1>9. Shown(base2, links2, drivers) = both
    BY <1>5, <1>7, <1>8
  <1>10. QED
    BY <1>2, <1>3, <1>9 DEF MoreShown, n, base2, links2, both, all, one

\* One more connection with a driver.
LEMMA LinkAppended ==
  ASSUME NEW p, NEW links, links \in Seq(ToSet(links)), NEW l, NEW e \in DriverEntry,
         e.driverType = "Cdev", SaysLink(p, e, l), Endpoints(p),
         NEW drivers \in Seq(DriverSaid), drivers = <<>>, DriversOK(p, links, drivers),
         NEW q, q.objList = p.objList, q.pRtLst = p.pRtLst, q.drvInfLst = Append(p.drvInfLst, e)
  PROVE  DriversOK(q, Append(links, l), drivers)
  <1>1. PICK base \in Seq(DriverEntry) :
          /\ Len(base) = Len(links)
          /\ \A i \in DOMAIN links : SaysLink(p, base[i], links[i])
          /\ p.drvInfLst = FlattenSeq(Shown(base, links, drivers))
    BY DEF DriversOK
  <1> DEFINE T == DriverEntry
             all == Shown(base, links, drivers)
             links2 == Append(links, l)
             base2 == Append(base, e)
             n == Len(links) + 1
  <1>2. /\ Shown(base2, links2, drivers) = Append(all, <<e>>)
        /\ base2 \in Seq(T) /\ Len(base2) = Len(links2)
        /\ DOMAIN links2 = DOMAIN links \cup {n} /\ links2[n] = l /\ base2[n] = e
        /\ \A i \in DOMAIN links : links2[i] = links[i] /\ base2[i] = base[i]
    <2>1. Len(base) = Len(links)
      BY <1>1
    <2>2. MoreShown(links, base, drivers, l, e)
      BY <2>1, ShownAppended
    <2>3. QED
      BY <2>2 DEF MoreShown
  <1>3. all \in Seq(Seq(T))
    BY <1>1, ShownType
  <1> HIDE DEF all, links2, base2, n
  <1>4. FlattenSeq(Append(all, <<e>>)) = Append(p.drvInfLst, e)
    <2> DEFINE list == FlattenSeq(all)
    <2>1. e \in T
      OBVIOUS
    <2> HIDE DEF T
    <2>2. <<e>> \in Seq(T)
      BY <2>1
    <2>3. FlattenSeq(Append(all, <<e>>)) = list \o <<e>>
      BY <1>3, <2>2, FlattenAppend
    <2>4. list \in Seq(T)
      BY <1>3, FlattenType
    <2> HIDE DEF list
    <2>5. list \o <<e>> = Append(list, e)
      BY <2>1, <2>4
    <2>6. QED
      BY <1>1, <2>3, <2>5 DEF list, all
  <1>5. \A i \in DOMAIN links2 : SaysLink(p, base2[i], links2[i])
    BY <1>1, <1>2
  <1>6. \A i \in DOMAIN links2 : SaysLink(q, base2[i], links2[i])
    BY <1>5, SaysLinkKept
  <1>7. QED
    BY <1>2, <1>4, <1>6 DEF DriversOK, links2, T

\* What StoreDriverInfo says of a connection is what the document says: its two sockets are those
\* of its last endpoint, of which one is a device, and the last NetworkSocket has its direction.
DriverOf(link) ==
  LET out == ChannelOf(priv, priv.conData.outSocket) IN
  [linkName |-> link, nodeAddress |-> ucs.nodSize + 1, direction |-> CfgDirection(priv),
   channel |-> IF out # {} THEN out ELSE ChannelOf(priv, priv.conData.inSocket),
   driverType |-> "Cdev"]

LEMMA LinkEntry ==
  ASSUME TypeInv, JobsInv, HeardInv, NEW link \in Links, pc = "socket", Complete(priv)
  PROVE  /\ DriverOf(link) \in DriverEntry /\ DriverOf(link).driverType = "Cdev"
         /\ SaysLink(priv, DriverOf(link), Link(link))
  <1> DEFINE in == priv.conData.inSocket
             out == priv.conData.outSocket
             obj == priv.objList
             last == Len(priv.pRtLst)
             jobs == priv.pRtLst[last].ep.jobs
             e == DriverOf(link)
             l == Link(link)
  <1>1. HeardOK(priv, doc.sockets, doc.pair)
    BY DEF HeardInv
  <1>2. OneDevice(priv) /\ Direction(priv, doc.sockets) /\ Connected(priv)
    BY <1>1 DEF HeardOK, ToJoin
  <1>3. /\ in # NULL
        /\ KindOf(priv, in) = "NetworkSocket" => LastSaid(doc.sockets, FALSE)
    BY <1>1 DEF HeardOK, InputOK, Complete
  <1>4. priv.pRtLst # <<>> /\ jobs # <<>> /\ obj[jobs[Len(jobs)]].refs = {in, out}
    BY <1>2 DEF Connected
  <1>5. last \in DOMAIN priv.pRtLst
    <2> DEFINE S == ToSet(priv.pRtLst)
    <2>1. priv.pRtLst \in Seq(S)
      BY DEF TypeInv, Pointers
    <2> HIDE DEF S
    <2>2. QED
      BY <1>4, <2>1
  <1>6. EndpointOK(obj, jobs) /\ Shape(obj) /\ obj \in Seq(ObjectRecord)
    BY <1>5 DEF JobsInv, Endpoints, HeardInv, TypeInv, Pointers
  <1>7. DevicesIn(obj, jobs) = Reached(obj, in) \cup Reached(obj, out)
    <2> HIDE DEF jobs, obj, in, out
    <2>1. QED
      BY <1>4, <1>6, EndpointDevices
  <1>8. e.channel = DevicesIn(obj, jobs)
    <2>1. e.channel = IF Reached(obj, out) # {} THEN Reached(obj, out) ELSE Reached(obj, in)
      BY ChannelIsReached DEF DriverOf
    <2>2. Reached(obj, in) = {} \/ Reached(obj, out) = {}
      BY <1>2 DEF OneDevice
    <2>3. QED
      BY <1>7, <2>1, <2>2
  <1>9. DevicesIn(obj, jobs) \subseteq Nat
    <2>1. jobs \in Seq(DOMAIN obj) /\ DOMAIN obj \subseteq Nat
      BY <1>6 DEF EndpointOK
    <2> HIDE DEF jobs, obj
    <2>2. ToSet(jobs) \subseteq DOMAIN obj
      BY <2>1 DEF ToSet
    <2>3. QED
      BY <2>1, <2>2 DEF DevicesIn
  <1>10. /\ e.linkName = link /\ e.nodeAddress = ucs.nodSize + 1 /\ e.driverType = "Cdev"
         /\ e.direction = IF KindOf(priv, in) = "NetworkSocket" THEN "Rx" ELSE "Tx"
         /\ DOMAIN e = {"linkName", "nodeAddress", "direction", "channel", "driverType"}
    BY DEF DriverOf, CfgDirection
  <1>11. /\ l.link = link /\ l.node = ucs.nodSize + 1 /\ l.endpoint = last
         /\ l.splitterIn <=> priv.conData.splitter # NULL
         /\ l.isTalker = doc.sockets[Len(doc.sockets)].isTalker
    BY DEF Link
  <1>12. l.splitterIn \/ e.direction = IF l.isTalker THEN "Tx" ELSE "Rx"
    <2>1. CASE KindOf(priv, in) = "NetworkSocket"
      <3>1. l.isTalker = FALSE /\ e.direction = "Rx"
        BY <1>3, <1>10, <1>11, <2>1 DEF LastSaid
      <3>2. QED
        BY <3>1
    <2>2. CASE KindOf(priv, in) # "NetworkSocket"
      <3>1. l.splitterIn \/ l.isTalker = TRUE
        BY <1>2, <1>11, <2>2 DEF Direction, LastSaid
      <3>2. e.direction = "Tx"
        BY <1>10, <2>2
      <3>3. QED
        BY <3>1, <3>2
    <2>3. QED
      BY <2>1, <2>2
  <1>13. ucs.nodSize + 1 \in Nat
    BY XmlAssumption DEF TypeInv
  <1>14. e \in DriverEntry
    <2>1. e.direction \in {"Tx", "Rx"} /\ e.channel \in SUBSET Nat /\ e.driverType \in DriverTypes
      BY <1>8, <1>9, <1>10 DEF DriverTypes
    <2>2. e = [linkName |-> e.linkName, nodeAddress |-> e.nodeAddress, direction |-> e.direction,
               channel |-> e.channel, driverType |-> e.driverType]
      BY DEF DriverOf
    <2> HIDE DEF e
    <2>3. QED
      BY <1>10, <1>13, <2>1, <2>2 DEF DriverEntry
  <1>15. SaysLink(priv, e, l)
    <2> HIDE DEF e, l
    <2>1. QED
      BY <1>5, <1>8, <1>10, <1>11, <1>12 DEF SaysLink
  <1>16. QED
    BY <1>10, <1>14, <1>15

\* A Driver element makes one entry of each of its children, for the connections that name it.
LEMMA EntriesExpanded ==
  ASSUME NEW e \in DriverEntry, NEW drivers \in Seq(DriverSaid), NEW d \in DriverSaid,
         \A i \in DOMAIN drivers : drivers[i].link # d.link
  PROVE  Expand(Entries(e, KindsOf(drivers, e.linkName)), d.link, d.kinds) =
           Entries(e, KindsOf(Append(drivers, d), e.linkName))
  <1> DEFINE old == Entries(e, KindsOf(drivers, e.linkName))
  <1>1. KindsOf(Append(drivers, d), e.linkName) =
          IF e.linkName = d.link THEN d.kinds ELSE KindsOf(drivers, e.linkName)
    BY KindsAdded
  <1>2. d.kinds \in Seq(DriverTypes) /\ d.kinds # <<>>
    BY DEF DriverSaid
  <1>3. CASE e.linkName # d.link
    <2>1. old \in Seq(DriverEntry) /\ \A k \in DOMAIN old : old[k]["linkName"] = e.linkName
      BY KindsType, EntriesFacts
    <2>2. Expand(old, d.link, d.kinds) = old
      BY <1>3, <2>1, ExpandOthers
    <2>3. QED
      BY <1>1, <1>3, <2>2
  <1>4. CASE e.linkName = d.link
    <2> DEFINE f == [e EXCEPT !.driverType = "Cdev"]
               type == "Cdev"
               T == DriverEntry
    <2>1. f \in T /\ f.driverType = type /\ f.linkName = d.link
      BY <1>4, EntryOfType DEF DriverTypes, DriverEntry
    <2>2. KindsOf(drivers, e.linkName) = <<type>>
      BY <1>4 DEF KindsOf
    <2>3. old = <<f>>
      <3>1. DOMAIN <<type>> = {1} /\ <<type>>[1] = type
        OBVIOUS
      <3>2. old = [k \in {1} |-> f]
        BY <2>2, <3>1 DEF Entries
      <3> HIDE DEF f
      <3>3. [k \in {1} |-> f] = <<f>>
        OBVIOUS
      <3>4. QED
        BY <3>2, <3>3
    <2>4. \A k \in DOMAIN d.kinds :
            [f EXCEPT !.driverType = d.kinds[k]] = [e EXCEPT !.driverType = d.kinds[k]]
      BY DEF DriverEntry
    <2> HIDE DEF f
    <2>5. Expand(<<f>>, d.link, d.kinds) =
            [k \in DOMAIN d.kinds |-> [f EXCEPT !.driverType = d.kinds[k]]]
      BY <1>2, <2>1, ExpandOne
    <2>6. [k \in DOMAIN d.kinds |-> [f EXCEPT !.driverType = d.kinds[k]]] = Entries(e, d.kinds)
      BY <2>4 DEF Entries
    <2>7. QED
      BY <1>1, <1>4, <2>3, <2>5, <2>6
  <1>5. QED
    BY <1>3, <1>4

LEMMA DriverExpanded ==
  ASSUME NEW p, NEW links, links \in Seq(ToSet(links)), NEW drivers \in Seq(DriverSaid),
         DriversOK(p, links, drivers), Endpoints(p), NEW d \in DriverSaid,
         \A i \in DOMAIN drivers : drivers[i].link # d.link,
         NEW q, q.objList = p.objList, q.pRtLst = p.pRtLst,
         q.drvInfLst = Expand(p.drvInfLst, d.link, d.kinds)
  PROVE  DriversOK(q, links, Append(drivers, d))
  <1>1. PICK base \in Seq(DriverEntry) :
          /\ Len(base) = Len(links)
          /\ \A i \in DOMAIN links : SaysLink(p, base[i], links[i])
          /\ p.drvInfLst = FlattenSeq(Shown(base, links, drivers))
    BY DEF DriversOK
  <1> DEFINE T == DriverEntry
             old == Shown(base, links, drivers)
             drivers2 == Append(drivers, d)
             new == Shown(base, links, drivers2)
  <1>2. drivers2 \in Seq(DriverSaid)
    <2> DEFINE S == DriverSaid
    <2>1. drivers \in Seq(S) /\ d \in S
      OBVIOUS
    <2> HIDE DEF S
    <2>2. QED
      BY <2>1 DEF S
  <1>3. /\ old \in Seq(Seq(T)) /\ new \in Seq(Seq(T)) /\ Len(new) = Len(old)
        /\ DOMAIN old = DOMAIN links /\ \A i \in DOMAIN links : base[i] \in T
    <2> HIDE DEF drivers2
    <2>1. QED
      BY <1>1, <1>2, ShownType
  <1>4. ASSUME NEW i \in 1 .. Len(old) PROVE new[i] = Expand(old[i], d.link, d.kinds)
    <2>1. i \in DOMAIN links
      <3> DEFINE U == Seq(T)
      <3> HIDE DEF U, old
      <3>1. old \in Seq(U)
        BY <1>3 DEF U
      <3>2. QED
        BY <1>3, <3>1
    <2>2. base[i] \in T /\ base[i].linkName = links[i].link
      BY <1>1, <1>3, <2>1 DEF SaysLink
    <2>3. /\ old[i] = Entries(base[i], KindsOf(drivers, base[i].linkName))
          /\ new[i] = Entries(base[i], KindsOf(drivers2, base[i].linkName))
      BY <2>1, <2>2 DEF Shown
    <2>4. QED
      BY <2>2, <2>3, EntriesExpanded
  <1>5. d.kinds \in Seq(DriverTypes)
    BY DEF DriverSaid
  <1>6. Expand(FlattenSeq(old), d.link, d.kinds) = FlattenSeq(new)
    <2> HIDE DEF old, new
    <2>1. old \in Seq(Seq(DriverEntry)) /\ new \in Seq(Seq(DriverEntry))
      BY <1>3
    <2>2. QED
      BY <1>3, <1>4, <1>5, <2>1, ExpandLists
  <1>7. \A i \in DOMAIN links : SaysLink(q, base[i], links[i])
    BY <1>1, SaysLinkKept
  <1>8. QED
    BY <1>1, <1>6, <1>7 DEF DriversOK

LEMMA ErrorDrivers == Error => DriversInv'
  BY DEF Error, DriversInv

\* Nothing of it changes, as long as no driver is read.
LEMMA OtherDrivers ==
  ASSUME JobsInv, DriversInv, pc \notin {"failed", "done"}, doc'.links = doc.links,
         doc'.drivers = doc.drivers, Grown(priv, priv'),
         pc \in {"drivers"} \/ pc' \notin {"failed", "done"},
         pc' \in {"drivers", "done"} \/ pc # "drivers",
         pc' = "done" => ucs'.ppDriver = priv'.drvInfLst
  PROVE  DriversInv'
  <1>1. Endpoints(priv) /\ DriversOK(priv, doc.links, doc.drivers)
    BY DEF JobsInv, DriversInv
  <1>2. DriversOK(priv', doc.links, doc.drivers)
    BY <1>1, DriversKept DEF Grown
  <1>3. QED
    BY <1>2 DEF DriversInv

LEMMA SocketDrivers ==
  ASSUME TypeInv, ParseSocket
  PROVE  \/ Error
         \/ /\ doc'.links = doc.links /\ doc'.drivers = doc.drivers
            /\ pc \in {"socket", "nested"} /\ pc' \in {"socket", "nested"}
  <1> DEFINE Left == /\ doc'.links = doc.links /\ doc'.drivers = doc.drivers
                      /\ pc \in {"socket", "nested"} /\ pc' \in {"socket", "nested"}
  <1>1. ASSUME NEW p, NEW sockets, Finish(p), Read(sockets), pc = "socket" PROVE Left
    <2>1. pc' \in {"socket", "nested"}
      BY <1>1 DEF Finish
    <2>2. doc'.links = doc.links /\ doc'.drivers = doc.drivers
      BY <1>1 DEF Read, TypeInv, DocFields
    <2>3. QED
      BY <1>1, <2>1, <2>2
  <1>2. ASSUME NEW a \in Attributes, ParseNetworkSocket(a) PROVE Error \/ Left
    <2>1. pc = "socket"
      BY <1>2 DEF ParseNetworkSocket, NextSocket
    <2> HIDE DEF Left
    <2>2. QED
      BY <1>1, <1>2, <2>1 DEF ParseNetworkSocket
  <1>3. ASSUME NEW a \in Attributes, ParseSplitterIn(a) PROVE Error \/ Left
    <2>1. pc = "socket"
      BY <1>3 DEF ParseSplitterIn, NextSocket
    <2> HIDE DEF Left
    <2>2. QED
      BY <1>1, <1>3, <2>1 DEF ParseSplitterIn
  <1>4. ASSUME NEW kind \in LocalSockets, NEW pin \in DOMAIN PortsOf(kind),
               ParseLocalSocket(kind, pin)
        PROVE  Error \/ Left
    <2>1. pc = "socket"
      BY <1>4 DEF ParseLocalSocket, NextSocket
    <2> HIDE DEF Left
    <2>2. QED
      BY <1>1, <1>4, <2>1 DEF ParseLocalSocket
  <1>5. CASE ParseSplitterOut
    BY <1>5 DEF ParseSplitterOut, NextSocket, Read, TypeInv, DocFields
  <1>6. CASE ParseCombiner
    <2>1. pc = "socket"
      BY <1>6 DEF ParseCombiner, NextSocket
    <2> DEFINE p == Combiner(Counted(priv))
               none == <<>>
    <2>2. Error \/ (Finish(p) /\ Read(none))
      BY <1>6 DEF ParseCombiner
    <2> HIDE DEF Left
    <2>3. Finish(p) /\ Read(none) => Left
      BY <1>1, <2>1, Zenon
    <2>4. QED
      BY <2>2, <2>3, Zenon DEF Left
  <1>7. ASSUME NEW a \in Attributes, ParseNestedSocket(a) PROVE Left
    BY <1>7 DEF ParseNestedSocket, TypeInv, DocFields
  <1>8. CASE ParseInvalidNestedSocket \/ EndNested
    BY <1>8 DEF ParseInvalidNestedSocket, EndNested, TypeInv, DocFields
  <1>9. QED
    BY <1>2, <1>3, <1>4, <1>5, <1>6, <1>7, <1>8 DEF ParseSocket

LEMMA EndConnectionDrivers ==
  ASSUME TypeInv, JobsInv, HeardInv, DriversInv, NEW link \in Links \cup {NULL},
         EndConnection(link)
  PROVE  DriversInv'
  <1>1. Good(priv) /\ pc = "socket"
    BY DEF TypeInv, Good, EndConnection
  <1>2. CASE priv' = priv /\ doc' = doc /\ pc' = "connection"
    <2>1. Grown(priv, priv')
      BY <1>2 DEF Grown
    <2>2. QED
      BY <1>1, <1>2, <2>1, OtherDrivers
  <1>3. CASE /\ link \in Links /\ Complete(priv) /\ priv' = StoreDriverInfo(priv, link)
             /\ pc' = "connection" /\ doc' = [doc EXCEPT !.links = Append(@, Link(link))]
    <2> DEFINE e == DriverOf(link)
               l == Link(link)
    <2>1. e \in DriverEntry /\ e.driverType = "Cdev" /\ SaysLink(priv, e, l)
      BY <1>1, <1>3, LinkEntry
    <2>2. priv' = [priv EXCEPT !.drvInfLst = Append(priv.drvInfLst, e)]
      <3>1. StoreDriverInfo(priv, link) = [priv EXCEPT !.drvInfLst = Append(priv.drvInfLst, e)]
        BY <1>1 DEF StoreDriverInfo, AddDriverInfo, DriverOf, Good, HasFields, DataFields
      <3>2. QED
        BY <1>3, <3>1
    <2>3. doc'.links = Append(doc.links, l) /\ doc'.drivers = doc.drivers
      BY <1>3 DEF TypeInv, DocFields
    <2>4. /\ doc.links \in Seq(ToSet(doc.links)) /\ doc.drivers \in Seq(DriverSaid)
          /\ doc.drivers = <<>> /\ DriversOK(priv, doc.links, doc.drivers)
      BY <1>1 DEF DriversInv
    <2> HIDE DEF e, l
    <2>5. /\ priv'.objList = priv.objList /\ priv'.pRtLst = priv.pRtLst
          /\ priv'.drvInfLst = Append(priv.drvInfLst, e)
      BY <1>1, <2>2, DriversGood
    <2>6. DriversOK(priv', Append(doc.links, l), doc.drivers)
      BY <2>1, <2>4, <2>5, LinkAppended DEF JobsInv
    <2>7. Append(doc.links, l) \in Seq(ToSet(Append(doc.links, l)))
      BY <2>4, AppendedSeq
    <2>8. QED
      BY <1>3, <2>3, <2>4, <2>6, <2>7 DEF DriversInv
  <1>4. CASE Error
    BY <1>4, ErrorDrivers
  <1>5. QED
    BY <1>2, <1>3, <1>4 DEF EndConnection

LEMMA ParseDriverDrivers ==
  ASSUME TypeInv, JobsInv, DriversInv, NEW link \in Links, NEW kinds \in DriverKinds,
         ParseDriver(link, kinds)
  PROVE  DriversInv'
  <1> DEFINE d == [link |-> link, kinds |-> kinds]
  <1>1. \/ Error
        \/ /\ priv' = [priv EXCEPT !.drvInfLst = Expand(priv.drvInfLst, link, kinds)]
           /\ doc' = [doc EXCEPT !.drivers = Append(doc.drivers, d)]
           /\ pc' = pc /\ kinds # <<>>
    BY DEF ParseDriver, TypeInv, HasFields, DataFields, DocFields
  <1>2. /\ pc = "drivers" /\ \A i \in DOMAIN doc.drivers : doc.drivers[i].link # link
        /\ Good(priv)
    BY DEF ParseDriver, TypeInv, Good
  <1>3. kinds \in Seq(DriverTypes)
    BY XmlAssumption
  <1>4. CASE /\ priv' = [priv EXCEPT !.drvInfLst = Expand(priv.drvInfLst, link, kinds)]
             /\ doc' = [doc EXCEPT !.drivers = Append(doc.drivers, d)]
             /\ pc' = pc /\ kinds # <<>>
    <2>1. d \in DriverSaid /\ d.link = link /\ d.kinds = kinds
      BY <1>3, <1>4 DEF DriverSaid
    <2>2. doc'.links = doc.links /\ doc'.drivers = Append(doc.drivers, d)
      BY <1>4 DEF TypeInv, DocFields
    <2> HIDE DEF d
    <2>3. /\ doc.links \in Seq(ToSet(doc.links)) /\ doc.drivers \in Seq(DriverSaid)
          /\ DriversOK(priv, doc.links, doc.drivers) /\ Endpoints(priv)
      BY <1>2 DEF DriversInv, JobsInv
    <2>4. /\ priv'.objList = priv.objList /\ priv'.pRtLst = priv.pRtLst
          /\ priv'.drvInfLst = Expand(priv.drvInfLst, link, kinds)
      BY <1>2, <1>4, DriversGood
    <2>5. DriversOK(priv', doc.links, Append(doc.drivers, d))
      BY <1>2, <2>1, <2>3, <2>4, DriverExpanded
    <2>6. Append(doc.drivers, d) \in Seq(DriverSaid)
      <3> DEFINE S == DriverSaid
      <3>1. doc.drivers \in Seq(S) /\ d \in S
        BY <2>1, <2>3
      <3> HIDE DEF S
      <3>2. QED
        BY <3>1 DEF S
    <2>7. QED
      BY <1>2, <1>4, <2>2, <2>3, <2>5, <2>6 DEF DriversInv
  <1>5. QED
    BY <1>1, <1>4, ErrorDrivers

LEMMA InitDriversInv == Init => DriversInv
  <1>1. SUFFICES ASSUME Init PROVE DriversInv
    OBVIOUS
  <1>2. pc = "node" /\ priv.drvInfLst = <<>> /\ doc.links = <<>> /\ doc.drivers = <<>>
    BY <1>1 DEF Init, NoData
  <1>3. \A S : <<>> \in Seq(S)
    OBVIOUS
  <1> DEFINE none == <<>>
  <1>4. none \in Seq(DriverEntry) /\ Len(none) = 0 /\ DOMAIN none = {}
    BY <1>3
  <1>5. Shown(none, none, none) = <<>>
    BY DEF Shown
  <1>6. DriversOK(priv, none, none)
    <2>1. FlattenSeq(Shown(none, none, none)) = <<>>
      BY <1>5, FlattenEmpty
    <2> HIDE DEF none
    <2>2. priv.drvInfLst = FlattenSeq(Shown(none, none, none))
      BY <1>2, <2>1
    <2>3. QED
      BY <1>4, <2>2 DEF DriversOK
  <1>7. doc.links \in Seq(ToSet(doc.links)) /\ doc.drivers \in Seq(DriverSaid)
    BY <1>2, <1>3
  <1>8. QED
    BY <1>2, <1>6, <1>7 DEF DriversInv

LEMMA NextDriversInv ==
  ASSUME OneNetworkSocket, TypeInv, JobsInv, HeardInv, DriversInv, [Next]_vars
  PROVE  DriversInv'
  <1>1. Grown(priv, priv)
    BY DEF Grown
  <1>2. ASSUME NEW names \in NodePorts, ParseNode(names) PROVE DriversInv'
    <2>1. Grown(priv, priv') /\ doc' = doc /\ pc = "node" /\ pc' = "connection"
      BY <1>2, ParseNodeGrown DEF ParseNode
    <2>2. QED
      BY <2>1, OtherDrivers
  <1>3. ASSUME NEW pair \in SocketPairs, ParseConnection(pair) PROVE DriversInv'
    <2>1. /\ Grown(priv, priv') /\ doc'.links = doc.links /\ doc'.drivers = doc.drivers
          /\ pc = "connection" /\ pc' = "socket"
      BY <1>3, ParseConnectionHeard DEF ParseConnection, TypeInv, DocFields
    <2>2. QED
      BY <2>1, OtherDrivers
  <1>4. CASE ParseSocket
    <2>1. \/ Error
          \/ /\ doc'.links = doc.links /\ doc'.drivers = doc.drivers
             /\ pc \in {"socket", "nested"} /\ pc' \in {"socket", "nested"}
      BY <1>4, SocketDrivers
    <2>2. Error \/ Grown(priv, priv')
      BY <1>4, ParseSocketHeard DEF HeardStep
    <2>3. QED
      BY <2>1, <2>2, OtherDrivers, ErrorDrivers
  <1>5. CASE EndNode \/ ParseRoutes \/ FillDriverArray
    <2>1. /\ priv' = priv /\ doc' = doc /\ pc \in {"connection", "node", "drivers"}
          /\ pc' \in {"node", "drivers", "done"} /\ (pc = "drivers" <=> pc' = "done")
          /\ pc' = "done" => ucs'.ppDriver = priv.drvInfLst
      BY <1>5 DEF EndNode, ParseRoutes, FillDriverArray, TypeInv, UcsFields
    <2>2. QED
      BY <1>1, <2>1, OtherDrivers
  <1>6. CASE Fail
    BY <1>6, ErrorDrivers DEF Fail
  <1>7. CASE UNCHANGED vars
    BY <1>7 DEF vars, DriversInv
  <1>8. QED
    BY <1>2, <1>3, <1>4, <1>5, <1>6, <1>7, EndConnectionDrivers, ParseDriverDrivers
    DEF Next, ParseAll

\* The array is what the document asks for, entry by entry.
LEMMA DriversInvIsInArray == TypeInv /\ JobsInv /\ DriversInv => DriversInArray
  <1>1. SUFFICES ASSUME TypeInv, JobsInv, DriversInv, pc = "done" PROVE DriversInArray
    BY DEF DriversInArray
  <1> DEFINE links == doc.links
             T == DriverEntry
             said == [link : ToSet(links), kind : DriverTypes]
             asked(i) == [k \in DOMAIN EntriesOf(links[i]) |->
                           [link |-> links[i], kind |-> EntriesOf(links[i])[k]]]
             expected == [i \in DOMAIN links |-> asked(i)]
             R == {y \in T \X said :
                     SaysLink(priv, y[1], y[2].link) /\ y[1].driverType = y[2].kind}
  <1>2. PICK base \in Seq(DriverEntry) :
          /\ Len(base) = Len(links)
          /\ \A i \in DOMAIN links : SaysLink(priv, base[i], links[i])
          /\ priv.drvInfLst = FlattenSeq(Shown(base, links, doc.drivers))
    BY <1>1 DEF DriversInv, DriversOK
  <1>3. links \in Seq(ToSet(links)) /\ doc.drivers \in Seq(DriverSaid) /\ ucs.ppDriver = priv.drvInfLst
    BY <1>1 DEF DriversInv
  <1> DEFINE shown == Shown(base, links, doc.drivers)
  <1>4. /\ shown \in Seq(Seq(T)) /\ Len(shown) = Len(links) /\ DOMAIN shown = DOMAIN links
        /\ \A i \in DOMAIN links : base[i] \in T
    <2> HIDE DEF shown, links
    <2>1. QED
      BY <1>2, <1>3, ShownType DEF shown
  <1>5. ASSUME NEW i \in DOMAIN links
        PROVE  asked(i) \in Seq(said) /\ Related(R, shown[i], asked(i))
    <2> DEFINE kinds == EntriesOf(links[i])
               e == base[i]
    <2>1. kinds = KindsOf(doc.drivers, links[i].link) /\ kinds \in Seq(DriverTypes)
      BY <1>3, EntriesAreKinds, KindsType
    <2>2. shown[i] = Entries(e, kinds)
      BY <2>1 DEF Shown
    <2>3. links[i] \in ToSet(links) /\ e \in T /\ SaysLink(priv, e, links[i])
      BY <1>2, <1>4 DEF ToSet
    <2> HIDE DEF kinds, e
    <2>4. /\ Entries(e, kinds) \in Seq(T) /\ Len(Entries(e, kinds)) = Len(kinds)
          /\ DOMAIN Entries(e, kinds) = DOMAIN kinds
          /\ \A k \in DOMAIN kinds :
               /\ Entries(e, kinds)[k].driverType = kinds[k]
               /\ \A f \in {"linkName", "nodeAddress", "direction", "channel"} :
                    Entries(e, kinds)[k][f] = e[f]
      BY <2>1, <2>3, EntriesFacts
    <2> DEFINE n == Len(kinds)
               S == DriverTypes
    <2>5. n \in Nat /\ DOMAIN kinds = 1 .. n /\ \A k \in 1 .. n : kinds[k] \in S
      <3> HIDE DEF S
      <3>1. kinds \in Seq(S)
        BY <2>1 DEF S
      <3>2. QED
        BY <3>1
    <2>6. asked(i) = [k \in 1 .. n |-> [link |-> links[i], kind |-> kinds[k]]]
      BY <2>5 DEF kinds
    <2> HIDE DEF links, n
    <2>7. \A k \in 1 .. n : [link |-> links[i], kind |-> kinds[k]] \in said
      BY <2>3, <2>5
    <2> DEFINE a == asked(i)
    <2>8. /\ a \in [1 .. n -> said]
          /\ \A k \in 1 .. n : a[k] = [link |-> links[i], kind |-> kinds[k]]
      BY <2>6, <2>7
    <2> HIDE DEF a, said
    <2>9. a \in Seq(said) /\ Len(a) = n
      BY <2>5, <2>8
    <2> DEFINE all == Entries(e, kinds)
    <2> HIDE DEF all
    <2>10. ASSUME NEW k \in 1 .. n PROVE <<all[k], a[k]>> \in R
      <3>1. all[k] \in T
        <4>1. all \in Seq(T) /\ k \in DOMAIN all
          BY <2>4, <2>5 DEF all
        <4> HIDE DEF T
        <4>2. QED
          BY <4>1
      <3>2. a[k] \in said /\ a[k].link = links[i] /\ a[k].kind = kinds[k]
        BY <2>7, <2>8
      <3>3. /\ all[k].driverType = kinds[k]
            /\ \A f \in {"linkName", "nodeAddress", "direction", "channel"} : all[k][f] = e[f]
        BY <2>4, <2>5 DEF all
      <3>4. /\ all[k].linkName = e.linkName /\ all[k].nodeAddress = e.nodeAddress
            /\ all[k].direction = e.direction /\ all[k].channel = e.channel
        BY <3>3
      <3>5. SaysLink(priv, all[k], links[i])
        BY <2>3, <3>4 DEF SaysLink
      <3> HIDE DEF T
      <3>6. QED
        BY <3>1, <3>2, <3>3, <3>5
    <2>11. Related(R, all, a)
      <3> HIDE DEF R
      <3>1. Len(all) = n /\ DOMAIN all = 1 .. n
        BY <2>4, <2>5 DEF all, n
      <3>2. QED
        BY <2>9, <2>10, <3>1 DEF Related
    <2>12. QED
      BY <2>2, <2>9, <2>11 DEF all, a, said
  <1>6. /\ expected \in Seq(Seq(said)) /\ Len(expected) = Len(links)
        /\ \A i \in DOMAIN links : expected[i] = asked(i)
    <2> DEFINE n == Len(links)
               U == Seq(said)
    <2>1. n \in Nat /\ DOMAIN links = 1 .. n
      <3> DEFINE S == ToSet(links)
      <3> HIDE DEF S
      <3>1. links \in Seq(S)
        BY <1>3 DEF S
      <3>2. QED
        BY <3>1
    <2>2. \A i \in 1 .. n : asked(i) \in U
      BY <1>5, <2>1
    <2> HIDE DEF U, asked, n
    <2>3. expected = [i \in 1 .. n |-> asked(i)]
      BY <2>1
    <2>4. expected \in [1 .. n -> U] /\ \A i \in 1 .. n : expected[i] = asked(i)
      BY <2>2, <2>3
    <2> HIDE DEF expected
    <2>5. expected \in Seq(U) /\ Len(expected) = n
      BY <2>1, <2>4
    <2>6. QED
      BY <2>1, <2>4, <2>5 DEF U, n
  <1> HIDE DEF shown, expected, asked, R, said
  <1> DEFINE drivers == ucs.ppDriver
             all == FlattenSeq(expected)
  <1>7. Related(R, drivers, all)
    <2>1. \A i \in DOMAIN shown : Related(R, shown[i], expected[i])
      BY <1>4, <1>5, <1>6
    <2>2. Related(R, FlattenSeq(shown), FlattenSeq(expected))
      BY <1>4, <1>6, <2>1, FlattenRelated
    <2>3. QED
      BY <1>2, <1>3, <2>2 DEF shown
  <1> HIDE DEF drivers, all
  <1>8. ASSUME NEW i \in DOMAIN drivers
        PROVE  LET l == all[i].link
                   jobs == ToSet(priv.pRtLst[l.endpoint].ep.jobs)
               IN  /\ drivers[i].linkName = l.link
                   /\ drivers[i].nodeAddress = l.node
                   /\ drivers[i].driverType = all[i].kind
                   /\ drivers[i].channel =
                        {j \in jobs : KindOf(priv, j) \in {"USBSocket", "MediaLBSocket"}}
                   /\ l.splitterIn \/ drivers[i].direction = IF l.isTalker THEN "Tx" ELSE "Rx"
    <2>1. <<drivers[i], all[i]>> \in R
      BY <1>7 DEF Related
    <2>2. SaysLink(priv, drivers[i], all[i].link) /\ drivers[i].driverType = all[i].kind
      BY <2>1 DEF R
    <2>3. QED
      BY <2>2 DEF SaysLink, DevicesIn, Devices, KindOf
  <1>9. Len(drivers) = Len(all)
    BY <1>7 DEF Related
  <1>10. QED
    BY <1>8, <1>9 DEF DriversInArray, drivers, all, expected, asked, links

\* StoreDriverInfo, ParseDriver and FillDriverArray of UcsXml.c: if every connection has one network
\* socket, alone or those of a splitter or of a combiner, then in a document of any length every
\* connection with a driver has one entry for each child of that driver, with its node, the device
\* in the job list of its endpoint as the channel, and the direction of that endpoint.
THEOREM XmlDriversInArray ==
  ASSUME OneNetworkSocket
  PROVE  Spec => []DriversInArray
  <1> DEFINE Inv == TypeInv /\ JobsInv /\ HeardInv /\ DriversInv
  <1>1. Init => Inv
    BY InitTypeInv, InitJobsInv, InitHeardInv, InitDriversInv
  <1>2. Inv /\ [Next]_vars => Inv'
    BY NextTypeInv, NextJobsInv, NextHeardInv, NextDriversInv DEF OneNetworkSocket
  <1>3. Inv => DriversInArray
    BY DriversInvIsInArray
  <1>4. QED
    BY <1>1, <1>2, <1>3, PTL DEF Spec
===============================================================================
