---------------------------- MODULE UcsXmlScripts ----------------------------
(***************************************************************************)
(* The scripts of the XML configuration (libraries/ucs-xml) and the memory *)
(* of the parser.  UcsXml_Parse reads all Script elements of a document    *)
(* and links them to the nodes that name them; UcsXml_ParseScript reads    *)
(* one script for a node of its own.  Whatever they allocate goes into a   *)
(* list of objects that is freed as a whole, apart from the two roots.     *)
(*                                                                         *)
(* The document is made up while it is read.  Of an action only its kind   *)
(* and the length of its payload matter; any allocation may fail, any      *)
(* mandatory attribute may be missing.                                     *)
(***************************************************************************)
EXTENDS Naturals, Sequences, FiniteSets, SequencesExt

CONSTANTS
  Entries,      \* the calls of the user, of "Parse" and "ParseScript"
  Names,        \* names of scripts
  MaxNodes,     \* bound: nodes of the document
  MaxScripts,   \* bound: Script elements of the document
  Contents,     \* the contents of a Script, a set of sequences of Element
  Compact,      \* there are no blanks between the elements of the document
  ByteRange     \* the values of data_size, 2^8

NULL == 0

\* The bytes an action puts before its payload, and whether the payload is an
\* attribute (GetPayload) or fixed.
Header == [MsgSend |-> 0, GPIOPortPinMode |-> 2, I2CPortWrite |-> 8]
Fixed == [GPIOPortCreate |-> 3, GPIOPinState |-> 6, I2CPortCreate |-> 4, I2CPortRead |-> 6]
Kinds == DOMAIN Header \cup DOMAIN Fixed

\* A Pause has its time as size, an action the length of its payload.
Element == [kind : Kinds \cup {"Pause"}, size : Nat]

ASSUME ScriptAssumption ==
  /\ Entries \subseteq {"Parse", "ParseScript"}
  /\ \A c \in Contents : c \in Seq(Element)
  /\ {MaxNodes, MaxScripts} \subseteq Nat
  /\ Compact \in BOOLEAN
  /\ ByteRange \in Nat \ {0}

Roots == {"val", "pInternal"}

VARIABLES
  pc,        \* what is done next
  entry,     \* the call that is made
  heap,      \* how often each object and each root was freed, NULL before its allocation
  objList,   \* struct UcsXmlObjectList: the objects and the cells that hold them
  scrlst,    \* struct UcsXmlScript: which node names which script
  nodes,     \* init_script_list of each node
  script,    \* the script that is being read
  doc        \* the Script elements read so far

vars == <<pc, entry, heap, objList, scrlst, nodes, script, doc>>

NewScript(name, content, size) ==
  [name |-> name, content |-> content, next |-> 1, size |-> size, actions |-> <<>>, pause |-> 0]

NoScript == NewScript(NULL, <<>>, 0)

\* References of "Parse": the names in the Script attributes of the nodes.
Init ==
  /\ pc = "start"
  /\ entry \in Entries
  /\ \E names \in BoundedSeq(Names, MaxNodes) :
       scrlst = IF entry = "ParseScript"
                THEN <<[name |-> NULL, singleShot |-> TRUE, inUse |-> FALSE]>>
                ELSE [n \in DOMAIN names |->
                       [name |-> names[n], singleShot |-> FALSE, inUse |-> FALSE]]
  /\ heap = [objects |-> <<>>, roots |-> [r \in Roots |-> NULL]]
  /\ objList = <<>>
  /\ nodes = [n \in DOMAIN scrlst |-> <<>>]
  /\ script = NoScript
  /\ doc = <<>>

-----------------------------------------------------------------------------
(* Memory.  An object that lives has the count 1, a freed one 2, and so on. *)

\* MCalloc: the object is number Len(heap.objects) + 1; the first one is held by
\* the list itself, each other one by a cell that is allocated, too.
Allocated(m) ==
  LET object == Len(m.heap.objects) + 1 IN
  IF m.list = <<>>
  THEN [heap |-> [m.heap EXCEPT !.objects = Append(@, 1)],
        list |-> <<[obj |-> object, cell |-> NULL]>>]
  ELSE [heap |-> [m.heap EXCEPT !.objects = @ \o <<1, 1>>],
        list |-> Append(m.list, [obj |-> object, cell |-> object + 1])]

\* A series of calls of MCalloc; no element takes more than three.
MCalloc[n \in 0 .. 3] ==
  IF n = 0 THEN [heap |-> heap, list |-> objList] ELSE Allocated(MCalloc[n - 1])

\* The cell cannot be allocated: the object is freed and not in the list.
WithoutCell(m) == [m EXCEPT !.heap.objects = Append(@, 2)]

\* FreeObjList frees the objects and the cells, not the first cell.
FaultyFreeObjList(h, list) ==
  [h EXCEPT !.objects = [o \in DOMAIN @ |-> @[o] + Cardinality({i \in DOMAIN list : list[i].obj = o})]]

FreedByList(list, o) ==
  Cardinality({i \in DOMAIN list : list[i].obj = o})
  + Cardinality({i \in DOMAIN list : i > 1 /\ list[i].cell = o})

FreeObjList(h, list) ==
  [h EXCEPT !.objects = [o \in DOMAIN @ |-> @[o] + FreedByList(list, o)]]

FreeRoot(h, root) == IF h.roots[root] = NULL THEN h ELSE [h EXCEPT !.roots[root] = @ + 1]

\* FreeVal and FreeValScript return at once if there is no pInternal.
FreeVal(h, list) ==
  IF h.roots["val"] = NULL \/ h.roots["pInternal"] = NULL THEN h
  ELSE FreeRoot(FreeRoot(FreeObjList(h, list), "pInternal"), "val")

\* The label ERROR of the two calls; UcsXml_ParseScript then frees priv.
Error(m) ==
  /\ heap' = LET freed == FreeVal(m.heap, m.list) IN
             IF entry = "ParseScript" THEN FreeRoot(freed, "pInternal") ELSE freed
  /\ objList' = m.list
  /\ pc' = "failed"
  /\ UNCHANGED <<entry, scrlst, nodes, script, doc>>

Memory == [heap |-> heap, list |-> objList]

\* The calloc of the two roots.
AllocRoot(root, next) ==
  /\ heap' = [heap EXCEPT !.roots[root] = 1]
  /\ pc' = next
  /\ UNCHANGED <<entry, objList, scrlst, nodes, script, doc>>

AllocRoots ==
  \/ pc = "start" /\ (AllocRoot("val", "val") \/ Error(Memory))
  \/ pc = "val" /\ (AllocRoot("pInternal", "script") \/ Error(Memory))

-----------------------------------------------------------------------------
(* Scripts. *)

IsAction(e) == e.kind # "Pause"

\* GetCountArray starts behind the first child, which is a blank text unless
\* the document is compact.
FaultyCounted(content) == Cardinality({i \in DOMAIN content : IsAction(content[i]) /\ i > 1})
Counted(content) ==
  Cardinality({i \in DOMAIN content : IsAction(content[i]) /\ (Compact => i > 1)})

\* ParseScript: the actions are counted, and the array is allocated.
BeginScript(name, content) ==
  /\ pc = "script"
  /\ Len(doc) < MaxScripts
  /\ IF Counted(content) = 0
     THEN Error(Memory)
     ELSE /\ script' = NewScript(name, content, Counted(content))
          /\ heap' = MCalloc[1].heap
          /\ objList' = MCalloc[1].list
          /\ pc' = "action"
          /\ UNCHANGED <<entry, scrlst, nodes, doc>>

InScript == pc = "action" /\ script.next <= Len(script.content)
Current == script.content[script.next]

\* ParseScriptPause: the time is kept for the next action.
FaultyParseScriptPause ==
  /\ InScript /\ ~IsAction(Current)
  /\ script' = [script EXCEPT !.next = @ + 1, !.pause = @ + Current.size]
  /\ UNCHANGED <<pc, entry, heap, objList, scrlst, nodes, doc>>

ParseScriptPause ==
  /\ InScript /\ ~IsAction(Current)
  /\ script' = [script EXCEPT !.next = @ + 1, !.pause = Current.size]
  /\ UNCHANGED <<pc, entry, heap, objList, scrlst, nodes, doc>>

\* FillScriptInitialValues takes the pause over and allocates the two
\* messages; the data is an object of its own.
Action(e) ==
  LET length == IF e.kind \in DOMAIN Header THEN Header[e.kind] + e.size ELSE Fixed[e.kind]
  IN  [kind |-> e.kind, pause |-> script.pause, length |-> length,
       data_size |-> IF e.kind \in DOMAIN Header
                     THEN ((e.size % ByteRange) + Header[e.kind]) % ByteRange
                     ELSE Fixed[e.kind]]

\* An empty payload has no object.
Objects(e) == IF e.kind \in DOMAIN Header /\ e.size = 0 THEN 2 ELSE 3

ParseScriptAction ==
  LET m == MCalloc[Objects(Current)] IN
  /\ InScript /\ IsAction(Current)
  /\ script' = [script EXCEPT !.next = @ + 1, !.pause = 0,
                              !.actions = Append(@, Action(Current))]
  /\ heap' = m.heap
  /\ objList' = m.list
  /\ UNCHANGED <<pc, entry, scrlst, nodes, doc>>

\* Every node that names the script gets it.
Matches(ref) == ref.singleShot \/ ref.name = script.name

EndScript ==
  LET named == {n \in DOMAIN scrlst : Matches(scrlst[n])} IN
  /\ pc = "action" /\ script.next > Len(script.content)
  /\ IF named = {}
     THEN Error(Memory)
     ELSE /\ nodes' = [n \in DOMAIN nodes |-> IF n \in named THEN script.actions ELSE nodes[n]]
          /\ scrlst' = [n \in DOMAIN scrlst |->
                         [scrlst[n] EXCEPT !.inUse = @ \/ n \in named]]
          /\ doc' = Append(doc, [name |-> script.name, content |-> script.content])
          /\ script' = NoScript
          /\ pc' = IF entry = "Parse" THEN "script" ELSE "done"
          /\ UNCHANGED <<entry, heap, objList>>

\* The end of ParseAllScripts: if there are scripts at all, each name must have one.
EndScripts ==
  /\ pc = "script" /\ entry = "Parse"
  /\ IF doc # <<>> /\ \E n \in DOMAIN scrlst : ~scrlst[n].inUse
     THEN Error(Memory)
     ELSE /\ pc' = "done"
          /\ UNCHANGED <<entry, heap, objList, scrlst, nodes, script, doc>>

\* A mandatory attribute is missing or invalid, or an allocation fails, after any
\* number of the allocations of an element.
ParseError ==
  /\ pc \in {"script", "action"}
  /\ \E n \in 0 .. 3 :
       \/ Error(MCalloc[n])
       \/ MCalloc[n].list # <<>> /\ Error(WithoutCell(MCalloc[n]))

\* UcsXml_FreeVal and UcsXml_FreeScript.
Release ==
  /\ pc = "done"
  /\ heap' = FreeVal(heap, objList)
  /\ pc' = "released"
  /\ UNCHANGED <<entry, objList, scrlst, nodes, script, doc>>

Next ==
  \/ AllocRoots
  \/ \E name \in Names, content \in Contents : BeginScript(name, content)
  \/ ParseScriptPause
  \/ ParseScriptAction
  \/ EndScript
  \/ EndScripts
  \/ ParseError
  \/ Release

Spec == Init /\ [][Next]_vars

-----------------------------------------------------------------------------
(* Properties. *)

\* All that was allocated for the document lives until the call fails or the user
\* gives it back, and is then freed exactly once, however far the parser came.
ObjectsFreedOnce ==
  \A o \in DOMAIN heap.objects :
    IF pc \in {"failed", "released"} THEN heap.objects[o] = 2 ELSE heap.objects[o] = 1

\* The same for the structure that is returned and its private part, as
\* UcsXml.h:84 says that NULL is all that is left of a failed call.
RootsFreedOnce ==
  \A r \in Roots :
    pc \in {"failed", "released"} => heap.roots[r] \in {NULL, 2}

\* The array of a script has room for its actions: the actions are counted in
\* one pass over the children and written in another.
ActionsFit == pc = "action" => Len(script.actions) <= script.size

\* A script is the actions of its element in their order, each with the pause of the Pause
\* element right before it, and with a size that is that of its data.
PauseBefore(content, i) ==
  IF i = 1 \/ IsAction(content[i - 1]) THEN 0 ELSE content[i - 1].size

ActionsUpTo(content, i) == Cardinality({j \in 1 .. i : IsAction(content[j])})

IsScriptOf(actions, content) ==
  /\ Len(actions) = ActionsUpTo(content, Len(content))
  /\ \A i \in DOMAIN content : IsAction(content[i]) =>
       LET action == actions[ActionsUpTo(content, i)] IN
       /\ action.kind = content[i].kind
       /\ action.pause = PauseBefore(content, i)
       /\ action.data_size = action.length

\* After a parse without error every node that names a script has the last one of that
\* name, and every script was named by a node; the one exception is a document without any
\* script, whose names are not looked at.
ScriptsOfDocument ==
  pc = "done" =>
    /\ \A n \in DOMAIN scrlst :
         LET named == {k \in DOMAIN doc : scrlst[n].singleShot \/ doc[k].name = scrlst[n].name}
         IN  \/ doc = <<>>
             \/ \E k \in named : /\ \A j \in named : j <= k
                                 /\ IsScriptOf(nodes[n], doc[k].content)
    /\ \A k \in DOMAIN doc : \E n \in DOMAIN scrlst :
         scrlst[n].singleShot \/ doc[k].name = scrlst[n].name
=============================================================================
