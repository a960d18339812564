----------------------------- MODULE Xml2Struct -----------------------------
(***************************************************************************)
(* xml2struct (tool/xml2struct) parses an XML configuration and prints it  *)
(* as C variables, for programs that are built without the parser.         *)
(*                                                                         *)
(* Of the text only the declarations matter: what each one declares, under *)
(* which name, and which names it uses.  NameLookupTable is the function   *)
(* names.  A name is a prefix with the numbers that are printed behind it. *)
(*                                                                         *)
(* The same program prints the drivers of a node as a table for the Linux  *)
(* driver (Xml2Driver.c), one file for each node.                          *)
(***************************************************************************)
EXTENDS UcsXml, Functions

CONSTANT ScriptLists \* which list of scripts each node points to, NULL for none: a set of sequences

ASSUME StructAssumption == ScriptLists \subseteq [1 .. MaxNodes -> Nat]

VARIABLES
  text,       \* the declarations in the order they are printed
  probes      \* the files for the Linux driver

structVars == <<vars, text, probes>>

StructInit == Init /\ text = <<>> /\ probes = <<>>

NoTable == [names |-> <<>>, text |-> <<>>]
NoName == <<"NULL">>

GetNameFromTable(t, element) ==
  IF element \in DOMAIN t.names THEN t.names[element] ELSE NoName

IsNamed(t, element) == element \in DOMAIN t.names

\* StoreNameInTable, and the text of the declaration.
Declare(t, element, name, uses) ==
  [names |-> [e \in DOMAIN t.names \cup {element} |-> IF e = element THEN name ELSE t.names[e]],
   text  |-> Append(t.text, [element |-> element, name |-> name, uses |-> uses])]

\* The first number that makes a new name; place is the side and number of the route.
GetVariableName(t, place, short) ==
  LET used == {n \in 0 .. Len(t.text) : <<place, short, n>> \in Range(t.names)}
  IN  <<place, short, CHOOSE n \in 0 .. Len(t.text) : n \notin used /\ 0 .. n - 1 \subseteq used>>

-----------------------------------------------------------------------------
(* Resources. *)

ObjectOf(o) == <<"object", o>>

\* The short name of a kind; the two ports of a stream socket have the same one.
ShortName(o) == IF KindOf(priv, o) \in {"strmPortA", "strmPortB"} THEN "StrmPort" ELSE KindOf(priv, o)

JobList(r) == <<"jobs", r>>

\* The names of the elements that an element points to.
Uses(t, o) == {GetNameFromTable(t, ObjectOf(r)) : r \in priv.objList[o].refs}

\* An element is printed once, after those it points to.
RECURSIVE PrintUcsElement(_, _, _)
PrintUcsElement(t, o, place) ==
  IF IsNamed(t, ObjectOf(o)) THEN t
  ELSE LET inner == FoldLeft(LAMBDA u, r : PrintUcsElement(u, r, place), t,
                             SetToSortSeq(priv.objList[o].refs, <))
       IN  Declare(inner, ObjectOf(o), GetVariableName(inner, place, ShortName(o)), Uses(inner, o))

\* A default created endpoint (NULL) has no jobs.
PrintJobs(t, r, place) ==
  IF r = NULL THEN t
  ELSE LET jobs == priv.pRtLst[r].ep.jobs
           all == FoldLeft(LAMBDA u, o : PrintUcsElement(u, o, place), t, jobs)
       IN  IF IsNamed(all, JobList(r)) THEN all
           ELSE Declare(all, JobList(r), GetVariableName(all, place, "JobList"),
                        {GetNameFromTable(all, ObjectOf(o)) : o \in ToSet(jobs)})

\* The routes, in the order in which each loop over them prints.
EachRoute == [i \in DOMAIN ucs.pRoutes |-> i]

FaultyPrintRouteJobs(t, i) == PrintJobs(t, ucs.pRoutes[i].source, <<"Src", i>>)
PrintRouteJobs(t, i) ==
  PrintJobs(PrintJobs(t, ucs.pRoutes[i].source, <<"Src", i>>), ucs.pRoutes[i].sink, <<"Snk", i>>)

-----------------------------------------------------------------------------
(* Scripts, nodes and routes. *)

\* The scripts of a node, named after the first node that has them.  Each has one message here.
PrintScripts(t, list, node) ==
  IF list = NULL \/ IsNamed(t, <<"scripts", list>>) THEN t
  ELSE LET request == <<"RequestForNode", node>>
           message == Declare(t, <<"message", list>>, request, {})
       IN  Declare(message, <<"scripts", list>>, <<"ScriptsForNode", node>>, {request})

AllNodes == <<"AllNodes">>
AllRoutes == <<"AllRoutes">>

\* The signatures and the array of nodes; a node is named by its place in the array.
PrintNodes(t, scriptsOf) ==
  LET signature(n) == <<"SignatureForNode", n>>
      signed == FoldLeft(LAMBDA u, n : Declare(u, signature(n), signature(n), {}),
                         t, [n \in 1 .. ucs.nodSize |-> n])
      lists == {scriptsOf[n] : n \in 1 .. ucs.nodSize} \ {NULL}
  IN  Declare(signed, AllNodes, AllNodes,
              {signature(n) : n \in 1 .. ucs.nodSize}
                \cup {GetNameFromTable(signed, <<"scripts", s>>) : s \in lists})

\* Endpoints: those of the document, and the ones created for route i.
EndpointOf(r, i) == IF r = NULL THEN <<"created", i>> ELSE <<"endpoint", r>>

PrintEndpoint(t, r, side, i) ==
  IF IsNamed(t, EndpointOf(r, i)) THEN t
  ELSE Declare(t, EndpointOf(r, i), <<side, i>>,
               {GetNameFromTable(t, AllNodes)}
                 \cup IF r = NULL THEN {} ELSE {GetNameFromTable(t, JobList(r))})

PrintEndpoints(t, i) ==
  PrintEndpoint(PrintEndpoint(t, ucs.pRoutes[i].source, "SourceEndpointForRoute", i),
                ucs.pRoutes[i].sink, "SinkEndpointForRoute", i)

\* Without routes AllRoutes is a NULL pointer, declared at the start.
PrintRoutes(t) ==
  LET all == FoldLeft(PrintEndpoints, t, EachRoute)
      ends == UNION {{EndpointOf(ucs.pRoutes[i].source, i), EndpointOf(ucs.pRoutes[i].sink, i)} :
                       i \in DOMAIN ucs.pRoutes}
  IN  Declare(all, AllRoutes, AllRoutes, {GetNameFromTable(all, e) : e \in ends})

PrintUcsStructures(scriptsOf) ==
  LET resources == FoldLeft(PrintRouteJobs, NoTable, EachRoute)
      scripts == FoldLeft(LAMBDA t, n : PrintScripts(t, scriptsOf[n], n),
                          resources, [n \in 1 .. ucs.nodSize |-> n])
  IN  /\ text' = PrintRoutes(PrintNodes(scripts, scriptsOf)).text
      /\ UNCHANGED <<vars, probes>>

-----------------------------------------------------------------------------
(* Drivers. *)

\* The table of a node: the channels that every device has, and those of the
\* document.  Nothing at all is printed if the document has no driver.
FaultyPrintUcsDriver(n) ==
  [node |-> n, wired |-> ucs.ppDriver # <<>>, drivers |-> ucs.ppDriver]
PrintUcsDriver(n) ==
  [node |-> n, wired |-> ucs.ppDriver # <<>>,
   drivers |-> SelectSeq(ucs.ppDriver, LAMBDA drv : drv.nodeAddress = n)]

\* -drv for the node n, and -all.
PrintSingleDriver(n) ==
  /\ n <= ucs.nodSize
  /\ probes' = <<PrintUcsDriver(n)>>
  /\ UNCHANGED <<vars, text>>

PrintAllDrivers ==
  /\ probes' = [n \in 1 .. ucs.nodSize |-> PrintUcsDriver(n)]
  /\ UNCHANGED <<vars, text>>

\* The program does one job with a document that it could parse.
Job ==
  /\ pc = "done" /\ text = <<>> /\ probes = <<>>
  /\ \/ \E scriptsOf \in ScriptLists : PrintUcsStructures(scriptsOf)
     \/ \E n \in 1 .. MaxNodes : PrintSingleDriver(n)
     \/ PrintAllDrivers

StructNext == (Next /\ UNCHANGED <<text, probes>>) \/ Job

StructSpec == StructInit /\ [][StructNext]_structVars

-----------------------------------------------------------------------------
(* Properties. *)

\* The C compiler reads the text once.  Objects are shared by job lists, job lists by
\* routes, scripts by nodes: each is declared once, under a name of its own, and every name
\* that a declaration uses was declared before it.
DeclaredOnceBeforeUse ==
  \A i \in DOMAIN text :
    /\ text[i].uses \subseteq {text[k].name : k \in 1 .. i - 1}
    /\ \A k \in DOMAIN text :
         text[i].element = text[k].element \/ text[i].name = text[k].name => i = k

\* The tables have what the document says of the drivers: each has those of its node, as many
\* as the document gives the connections of that node, and the tables of all nodes one after
\* the other have the whole array for the configurator in its order.
DriversOfDocument ==
  LET ofNode(n) == UNION {{i} \X DOMAIN EntriesOf(doc.links[i]) :
                            i \in {l \in DOMAIN doc.links : doc.links[l].node = n}}
  IN  /\ \A f \in DOMAIN probes :
           /\ \A drv \in ToSet(probes[f].drivers) : drv.nodeAddress = probes[f].node
           /\ Len(probes[f].drivers) = Cardinality(ofNode(probes[f].node))
      /\ probes # <<>> /\ Len(probes) = ucs.nodSize =>
           FlattenSeq([f \in DOMAIN probes |-> probes[f].drivers]) = ucs.ppDriver
=============================================================================
