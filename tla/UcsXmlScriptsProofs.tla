------------------------- MODULE UcsXmlScriptsProofs -------------------------
(***************************************************************************)
(* For any document, any failure and any number of scripts: the parser     *)
(* frees every object it allocated once, writes no action beyond the array *)
(* of a script if the document has blanks, and gives each node the last    *)
(* script it names.                                                        *)
(***************************************************************************)
EXTENDS UcsXmlScripts, FiniteSetTheorems, SequenceTheorems, TLAPS

\* The objects of a list of n entries: the first one has no cell.
ObjectCount(n) == IF n = 0 THEN 0 ELSE 2 * n - 1

\* Each object is 1 and is held once, either by an entry or as the cell of one.
Held(objects, list) ==
  /\ list \in Seq([obj : Nat, cell : Nat])
  /\ objects \in Seq(Nat) /\ Len(objects) = ObjectCount(Len(list))
  /\ \A o \in 1 .. Len(objects) : objects[o] = 1
  /\ \A i \in 1 .. Len(list) :
       list[i] = IF i = 1 THEN [obj |-> 1, cell |-> NULL]
                 ELSE [obj |-> 2 * i - 2, cell |-> 2 * i - 1]

PcInv ==
  /\ pc \in {"start", "val", "script", "action", "done", "failed", "released"}
  /\ entry \in Entries
  /\ pc \in {"start", "val"} => objList = <<>> /\ heap.roots["pInternal"] = NULL
  /\ pc = "val" => heap.roots["val"] = 1
  /\ pc \in {"script", "action", "done"} => \A r \in Roots : heap.roots[r] = 1

MemoryInv ==
  /\ heap \in [objects : Seq(Nat), roots : [Roots -> Nat]]
  /\ pc \notin {"failed", "released"} => Held(heap.objects, objList)
  /\ ObjectsFreedOnce

\* The documents that are read as they are meant: a size fits in its byte.
SizesFit ==
  \A c \in Contents : \A i \in DOMAIN c :
    c[i].kind \in DOMAIN Header => c[i].size + Header[c[i].kind] < ByteRange

ActionRecord == [kind : Kinds, pause : Nat, length : Nat, data_size : Nat]
ScriptRecord == [name : Names \cup {NULL}, content : Seq(Element), next : Nat, size : Nat,
                 actions : Seq(ActionRecord), pause : Nat]

\* The actions are those of the content up to, not including, the element number next.
ReadUpTo(content, next, actions) ==
  /\ Len(actions) = ActionsUpTo(content, next - 1)
  /\ \A i \in 1 .. next - 1 : IsAction(content[i]) =>
       LET action == actions[ActionsUpTo(content, i)] IN
       /\ action.kind = content[i].kind
       /\ action.pause = PauseBefore(content, i)
       /\ SizesFit => action.data_size = action.length

\* The script that is read is the one of the content up to next.
ScriptInv ==
  /\ script \in ScriptRecord
  /\ pc = "action" =>
       /\ script.content \in Contents
       /\ script.next \in 1 .. Len(script.content) + 1
       /\ script.size = Counted(script.content)
       /\ script.pause = PauseBefore(script.content, script.next)
       /\ ReadUpTo(script.content, script.next, script.actions)

\* The Script elements of d that a reference names.
NamedBy(ref, d) == {k \in DOMAIN d : ref.singleShot \/ d[k].name = ref.name}

\* The actions are those of the last Script element that the reference names.
HasLast(ref, d, actions) ==
  \E k \in NamedBy(ref, d) : /\ \A j \in NamedBy(ref, d) : j <= k
                             /\ IsScriptOf(actions, d[k].content)

Ref == [name : Names \cup {NULL}, singleShot : BOOLEAN, inUse : BOOLEAN]
ScriptElement == [name : Names \cup {NULL}, content : Contents]

\* Each node has what the Script elements read so far say of it.
NodesInv ==
  /\ scrlst \in Seq(Ref) /\ doc \in Seq(ScriptElement)
  /\ DOMAIN nodes = DOMAIN scrlst
  /\ entry # "Parse" => \A n \in DOMAIN scrlst : scrlst[n].singleShot
  /\ \A n \in DOMAIN scrlst : scrlst[n].inUse <=> NamedBy(scrlst[n], doc) # {}
  /\ \A n \in DOMAIN scrlst : scrlst[n].inUse => HasLast(scrlst[n], doc, nodes[n])
  /\ \A k \in DOMAIN doc : \E n \in DOMAIN scrlst : k \in NamedBy(scrlst[n], doc)
  /\ pc = "done" /\ doc # <<>> => \A n \in DOMAIN scrlst : scrlst[n].inUse

-----------------------------------------------------------------------------
(* Allocation. *)

LEMMA WithObjects ==
  ASSUME NEW o, NEW r, NEW x
  PROVE  [[objects |-> o, roots |-> r] EXCEPT !.objects = x] = [objects |-> x, roots |-> r]
  OBVIOUS

LEMMA TwoMore ==
  ASSUME NEW s \in Seq(Nat), \A o \in 1 .. Len(s) : s[o] = 1
  PROVE  /\ s \o <<1, 1>> \in Seq(Nat) /\ Len(s \o <<1, 1>>) = Len(s) + 2
         /\ \A o \in 1 .. Len(s) + 2 : (s \o <<1, 1>>)[o] = 1
  <1>1. <<1, 1>> \in Seq(Nat) /\ Len(<<1, 1>>) = 2 /\ \A o \in 1 .. 2 : <<1, 1>>[o] = 1
    OBVIOUS
  <1>2. /\ s \o <<1, 1>> \in Seq(Nat) /\ Len(s \o <<1, 1>>) = Len(s) + 2
        /\ \A o \in 1 .. Len(s) + 2 :
             (s \o <<1, 1>>)[o] = IF o <= Len(s) THEN s[o] ELSE <<1, 1>>[o - Len(s)]
    BY <1>1, ConcatProperties
  <1>3. ASSUME NEW o \in 1 .. Len(s) + 2 PROVE (s \o <<1, 1>>)[o] = 1
    <2>1. o <= Len(s) => o \in 1 .. Len(s)
      OBVIOUS
    <2>2. o > Len(s) => o - Len(s) \in 1 .. 2
      OBVIOUS
    <2>3. QED
      BY <1>1, <1>2, <2>1, <2>2
  <1>4. QED
    BY <1>2, <1>3

LEMMA AllocatedIs ==
  ASSUME NEW o, NEW r, NEW l
  PROVE  Allocated([heap |-> [objects |-> o, roots |-> r], list |-> l])
           = IF l = <<>>
             THEN [heap |-> [objects |-> Append(o, 1), roots |-> r],
                   list |-> <<[obj |-> Len(o) + 1, cell |-> NULL]>>]
             ELSE [heap |-> [objects |-> o \o <<1, 1>>, roots |-> r],
                   list |-> Append(l, [obj |-> Len(o) + 1, cell |-> Len(o) + 1 + 1])]
  <1> DEFINE m == [heap |-> [objects |-> o, roots |-> r], list |-> l]
             one == Append(o, 1)
             two == o \o <<1, 1>>
  <1>1. m.heap = [objects |-> o, roots |-> r] /\ m.heap.objects = o /\ m.list = l
    OBVIOUS
  <1>2. /\ [m.heap EXCEPT !.objects = one] = [objects |-> one, roots |-> r]
        /\ [m.heap EXCEPT !.objects = two] = [objects |-> two, roots |-> r]
    <2> HIDE DEF m, one, two
    <2> QED
      BY <1>1, WithObjects
  <1>3. Allocated(m) = IF m.list = <<>>
                       THEN [heap |-> [m.heap EXCEPT !.objects = Append(m.heap.objects, 1)],
                             list |-> <<[obj |-> Len(m.heap.objects) + 1, cell |-> NULL]>>]
                       ELSE [heap |-> [m.heap EXCEPT !.objects = m.heap.objects \o <<1, 1>>],
                             list |-> Append(m.list, [obj |-> Len(m.heap.objects) + 1,
                                                      cell |-> Len(m.heap.objects) + 1 + 1])]
    BY DEF Allocated
  <1> HIDE DEF m
  <1>4. Allocated(m) = IF l = <<>>
                       THEN [heap |-> [m.heap EXCEPT !.objects = one],
                             list |-> <<[obj |-> Len(o) + 1, cell |-> NULL]>>]
                       ELSE [heap |-> [m.heap EXCEPT !.objects = two],
                             list |-> Append(l, [obj |-> Len(o) + 1, cell |-> Len(o) + 1 + 1])]
    BY <1>1, <1>3
  <1> HIDE DEF one, two
  <1>5. QED
    BY <1>2, <1>4 DEF m, one, two

LEMMA FirstHeld ==
  ASSUME NEW o, Held(o, <<>>)
  PROVE  Held(Append(o, 1), <<[obj |-> Len(o) + 1, cell |-> NULL]>>)
  <1>1. Len(o) = 0 /\ o \in Seq(Nat)
    BY DEF Held, ObjectCount
  <1>2. Append(o, 1) = <<1>>
    BY <1>1
  <1>3. ObjectCount(1) = 1
    BY DEF ObjectCount
  <1>4. QED
    BY <1>1, <1>2, <1>3 DEF Held, NULL

LEMMA MoreHeld ==
  ASSUME NEW o, NEW l, Held(o, l), l # <<>>
  PROVE  Held(o \o <<1, 1>>, Append(l, [obj |-> Len(o) + 1, cell |-> Len(o) + 1 + 1]))
  <1> DEFINE n == Len(l)
             entryOf(i) == IF i = 1 THEN [obj |-> 1, cell |-> NULL]
                           ELSE [obj |-> 2 * i - 2, cell |-> 2 * i - 1]
             held == [obj |-> Len(o) + 1, cell |-> Len(o) + 1 + 1]
  <1>1. /\ l \in Seq([obj : Nat, cell : Nat]) /\ n \in Nat /\ n > 0
        /\ o \in Seq(Nat) /\ \A i \in 1 .. Len(o) : o[i] = 1
        /\ \A i \in 1 .. n : l[i] = entryOf(i)
    BY DEF Held
  <1>2. Len(o) = 2 * n - 1
    BY <1>1 DEF Held, ObjectCount
  <1>3. held = entryOf(n + 1) /\ held \in [obj : Nat, cell : Nat]
    <2>1. Len(o) + 1 = 2 * (n + 1) - 2 /\ Len(o) + 1 + 1 = 2 * (n + 1) - 1 /\ n + 1 # 1
      BY <1>1, <1>2
    <2>2. Len(o) + 1 \in Nat /\ Len(o) + 1 + 1 \in Nat
      BY <1>1, <1>2
    <2>3. QED
      BY <2>1, <2>2
  <1>4. /\ o \o <<1, 1>> \in Seq(Nat) /\ Len(o \o <<1, 1>>) = Len(o) + 2
        /\ \A i \in 1 .. Len(o) + 2 : (o \o <<1, 1>>)[i] = 1
    BY <1>1, TwoMore
  <1>5. ObjectCount(n + 1) = Len(o) + 2
    BY <1>1, <1>2 DEF ObjectCount
  <1> HIDE DEF held, entryOf
  <1>6. /\ Append(l, held) \in Seq([obj : Nat, cell : Nat]) /\ Len(Append(l, held)) = n + 1
        /\ \A i \in 1 .. n + 1 : Append(l, held)[i] = entryOf(i)
    BY <1>1, <1>3, AppendProperties
  <1>7. QED
    BY <1>4, <1>5, <1>6 DEF Held, held, entryOf

\* m is a heap and a list of objects, with nothing lost and nothing held twice.
Holds(m) ==
  /\ m = [heap |-> [objects |-> m.heap.objects, roots |-> m.heap.roots], list |-> m.list]
  /\ Held(m.heap.objects, m.list)

LEMMA HeldHolds ==
  ASSUME NEW o, NEW r, NEW l, NEW m, Held(o, l),
         m = [heap |-> [objects |-> o, roots |-> r], list |-> l]
  PROVE  Holds(m) /\ m.list = l /\ m.heap.roots = r
  BY DEF Holds

LEMMA AllocatedHolds ==
  ASSUME NEW m, Holds(m)
  PROVE  /\ Holds(Allocated(m)) /\ Allocated(m).list # <<>>
         /\ Allocated(m).heap.roots = m.heap.roots
  <1> DEFINE o == m.heap.objects
             r == m.heap.roots
             l == m.list
             first == [obj |-> Len(o) + 1, cell |-> NULL]
             more == [obj |-> Len(o) + 1, cell |-> Len(o) + 1 + 1]
             objects == IF l = <<>> THEN Append(o, 1) ELSE o \o <<1, 1>>
             list == IF l = <<>> THEN <<first>> ELSE Append(l, more)
             a == Allocated(m)
  <1>1. Held(o, l) /\ l \in Seq([obj : Nat, cell : Nat])
    BY DEF Holds, Held
  <1>2. a = [heap |-> [objects |-> objects, roots |-> r], list |-> list]
    <2>1. a = Allocated([heap |-> [objects |-> o, roots |-> r], list |-> l])
      BY DEF Holds
    <2> HIDE DEF a, o, l, r
    <2>2. QED
      BY <2>1, AllocatedIs
  <1>3. Held(objects, list)
    <2> HIDE DEF o, l
    <2>1. QED
      BY <1>1, FirstHeld, MoreHeld
  <1>4. list # <<>>
    <2> HIDE DEF first, more, l
    <2>1. QED
      BY <1>1
  <1> HIDE DEF objects, list, a, r
  <1>5. Holds(a) /\ a.list = list /\ a.heap.roots = r
    BY <1>2, <1>3, HeldHolds
  <1>6. QED
    BY <1>4, <1>5 DEF a, r

\* The recursive function MCalloc, unfolded.
LEMMA MCallocSteps ==
  /\ MCalloc[0] = Memory
  /\ MCalloc[1] = Allocated(Memory)
  /\ MCalloc[2] = Allocated(MCalloc[1])
  /\ MCalloc[3] = Allocated(MCalloc[2])
  <1> DEFINE one == Allocated(Memory)
             two == Allocated(one)
             calls == [n \in 0 .. 3 |-> IF n = 0 THEN Memory ELSE IF n = 1 THEN one
                                       ELSE IF n = 2 THEN two ELSE Allocated(two)]
             body(f) == [n \in 0 .. 3 |-> IF n = 0 THEN [heap |-> heap, list |-> objList]
                                         ELSE Allocated(f[n - 1])]
  <1>1. MCalloc = CHOOSE f : f = body(f)
    BY DEF MCalloc
  <1>2. calls = body(calls)
    BY DEF Memory
  <1>3. MCalloc = body(MCalloc)
    BY <1>1, <1>2
  <1>4. QED
    BY <1>3 DEF Memory

LEMMA MCallocHolds ==
  ASSUME Holds(Memory), NEW n \in 0 .. 3
  PROVE  /\ Holds(MCalloc[n]) /\ MCalloc[n].heap.roots = heap.roots
         /\ n > 0 => MCalloc[n].list # <<>>
  BY MCallocSteps, AllocatedHolds DEF Memory

-----------------------------------------------------------------------------
(* Freeing. *)

\* h is a heap with these objects.
IsHeap(h, objects) ==
  /\ h = [objects |-> objects, roots |-> h.roots]
  /\ h.roots \in [Roots -> Nat]

\* FreeObjList would free what still lives.
Freeable(m) ==
  /\ m.heap.objects \in Seq(Nat) /\ IsHeap(m.heap, m.heap.objects)
  /\ \A o \in 1 .. Len(m.heap.objects) : m.heap.objects[o] + FreedByList(m.list, o) = 2

LEMMA FreeRootKeeps ==
  ASSUME NEW h, NEW o, IsHeap(h, o), NEW root \in Roots
  PROVE  IsHeap(FreeRoot(h, root), o)
  <1> DEFINE r == [h.roots EXCEPT ![root] = h.roots[root] + 1]
             x == [h EXCEPT !.roots = r]
  <1>1. r \in [Roots -> Nat]
    BY DEF IsHeap
  <1>2. x = [objects |-> o, roots |-> r]
    <2> HIDE DEF r
    <2>1. QED
      BY DEF IsHeap
  <1>3. FreeRoot(h, root) = IF h.roots[root] = NULL THEN h ELSE x
    BY DEF FreeRoot
  <1>4. IsHeap(x, o)
    <2> HIDE DEF r, x
    <2>1. x.roots = r
      BY <1>2
    <2>2. QED
      BY <1>1, <1>2, <2>1 DEF IsHeap
  <1> HIDE DEF x
  <1>5. QED
    BY <1>3, <1>4

LEMMA HeldEntries ==
  ASSUME NEW o, NEW l, Held(o, l), NEW i \in 1 .. Len(l)
  PROVE  /\ l[i].obj = IF i = 1 THEN 1 ELSE 2 * i - 2
         /\ i > 1 => l[i].cell = 2 * i - 1
  <1>1. Len(l) \in Nat
    BY DEF Held
  <1>2. CASE i = 1
    <2>1. l[i] = [obj |-> 1, cell |-> NULL]
      BY <1>2 DEF Held
    <2>2. QED
      BY <1>2, <2>1
  <1>3. CASE i # 1
    <2>1. l[i] = [obj |-> 2 * i - 2, cell |-> 2 * i - 1]
      BY <1>3 DEF Held
    <2>2. QED
      BY <1>3, <2>1
  <1>4. QED
    BY <1>2, <1>3

\* The entries that hold an object, as an index of the list and as a cell of one.
LEMMA HeldOnce ==
  ASSUME NEW o, NEW l, Held(o, l), NEW x \in 1 .. Len(o)
  PROVE  FreedByList(l, x) = 1
  <1> DEFINE objs == {i \in DOMAIN l : l[i].obj = x}
             cells == {i \in DOMAIN l : i > 1 /\ l[i].cell = x}
             n == Len(l)
  <1>1. /\ n \in Nat /\ n > 0 /\ DOMAIN l = 1 .. n /\ x \in Nat
        /\ x >= 1 /\ x <= 2 * n - 1
    BY DEF Held, ObjectCount
  <1>2. \A i \in 1 .. n : l[i].obj = IF i = 1 THEN 1 ELSE 2 * i - 2
    BY HeldEntries
  <1>3. \A i \in 1 .. n : i > 1 => l[i].cell = 2 * i - 1
    BY HeldEntries
  <1>4. FreedByList(l, x) = Cardinality(objs) + Cardinality(cells)
    BY DEF FreedByList
  <1>5. PICK k \in Nat : x = 2 * k \/ x = 2 * k + 1
    <2>1. x \div 2 \in Nat /\ (x = 2 * (x \div 2) \/ x = 2 * (x \div 2) + 1)
      BY <1>1
    <2>2. QED
      BY <2>1
  <1> HIDE DEF n
  <1>6. /\ x = 1 => objs = {1} /\ cells = {}
        /\ x = 2 * k => objs = {k + 1} /\ cells = {}
        /\ x = 2 * k + 1 /\ x # 1 => objs = {} /\ cells = {k + 1}
    <2>1. ASSUME x = 1 PROVE objs = {1} /\ cells = {}
      BY <1>1, <1>2, <1>3, <2>1
    <2>2. ASSUME x = 2 * k PROVE objs = {k + 1} /\ cells = {}
      <3>1. k + 1 \in 1 .. n /\ k + 1 # 1
        BY <1>1, <2>2
      <3>2. \A i \in 1 .. n : l[i].obj = x <=> i = k + 1
        BY <1>1, <1>2, <2>2, <3>1
      <3>3. \A i \in 1 .. n : i > 1 => l[i].cell # x
        BY <1>1, <1>3, <2>2
      <3>4. QED
        BY <1>1, <3>1, <3>2, <3>3
    <2>3. ASSUME x = 2 * k + 1, x # 1 PROVE objs = {} /\ cells = {k + 1}
      <3>1. k + 1 \in 1 .. n /\ k + 1 > 1
        BY <1>1, <2>3
      <3>2. \A i \in 1 .. n : l[i].obj # x /\ (i > 1 => (l[i].cell = x <=> i = k + 1))
        BY <1>1, <1>2, <1>3, <2>3, <3>1
      <3>3. QED
        BY <1>1, <3>1, <3>2
    <2>4. QED
      BY <2>1, <2>2, <2>3
  <1> HIDE DEF objs, cells
  <1>7. Cardinality({}) = 0 /\ Cardinality({1}) = 1 /\ Cardinality({k + 1}) = 1
    BY FS_EmptySet, FS_Singleton
  <1>8. \/ Cardinality(objs) = 1 /\ Cardinality(cells) = 0
        \/ Cardinality(objs) = 0 /\ Cardinality(cells) = 1
    BY <1>5, <1>6, <1>7, Zenon
  <1>9. QED
    BY <1>4, <1>8

LEMMA NotHeld ==
  ASSUME NEW o, NEW l, Held(o, l), l # <<>>
  PROVE  FreedByList(l, Len(o) + 1) = 0
  <1> DEFINE x == Len(o) + 1
             objs == {i \in DOMAIN l : l[i].obj = x}
             cells == {i \in DOMAIN l : i > 1 /\ l[i].cell = x}
             n == Len(l)
  <1>1. n \in Nat /\ n > 0 /\ DOMAIN l = 1 .. n /\ x = 2 * n
    BY DEF Held, ObjectCount
  <1>2. \A i \in 1 .. n : l[i].obj = IF i = 1 THEN 1 ELSE 2 * i - 2
    BY HeldEntries
  <1>3. \A i \in 1 .. n : i > 1 => l[i].cell = 2 * i - 1
    BY HeldEntries
  <1>4. FreedByList(l, x) = Cardinality(objs) + Cardinality(cells)
    BY DEF FreedByList
  <1> HIDE DEF x, n
  <1>5. objs = {} /\ cells = {}
    <2>1. \A i \in 1 .. n : l[i].obj # x /\ (i > 1 => l[i].cell # x)
      BY <1>1, <1>2, <1>3
    <2>2. QED
      BY <1>1, <2>1
  <1> HIDE DEF objs, cells
  <1>6. Cardinality({}) = 0
    BY FS_EmptySet
  <1>7. FreedByList(l, x) = 0
    BY <1>4, <1>5, <1>6
  <1>8. QED
    BY <1>7 DEF x

LEMMA HeldFreeable ==
  ASSUME NEW m, Holds(m), m.heap.roots \in [Roots -> Nat]
  PROVE  Freeable(m)
  <1> DEFINE o == m.heap.objects
             l == m.list
             r == m.heap.roots
  <1>1. m.heap = [objects |-> o, roots |-> r]
    BY DEF Holds
  <1>2. Held(o, l) /\ o \in Seq(Nat) /\ \A x \in 1 .. Len(o) : o[x] = 1
    BY DEF Holds, Held
  <1>3. \A x \in 1 .. Len(o) : o[x] + FreedByList(l, x) = 2
    <2> HIDE DEF o, l
    <2>1. QED
      BY <1>2, HeldOnce
  <1>4. QED
    BY <1>1, <1>2, <1>3 DEF Freeable, IsHeap

\* An object without a cell was freed at once and is not in the list.
LEMMA WithoutCellFreeable ==
  ASSUME NEW m, Holds(m), m.heap.roots \in [Roots -> Nat], m.list # <<>>
  PROVE  /\ Freeable(WithoutCell(m)) /\ WithoutCell(m).list = m.list
         /\ WithoutCell(m).heap.roots = m.heap.roots
  <1> DEFINE o == m.heap.objects
             l == m.list
             r == m.heap.roots
             o2 == Append(o, 2)
             a == WithoutCell(m)
  <1>1. /\ Held(o, l) /\ o \in Seq(Nat) /\ (\A x \in 1 .. Len(o) : o[x] = 1)
        /\ m = [heap |-> [objects |-> o, roots |-> r], list |-> l]
    BY DEF Holds, Held
  <1>2. a = [heap |-> [objects |-> o2, roots |-> r], list |-> l]
    <2>1. a = [m EXCEPT !.heap = [m.heap EXCEPT !.objects = o2]]
      BY DEF WithoutCell
    <2> HIDE DEF a, o2, o, r, l
    <2>2. m.heap = [objects |-> o, roots |-> r]
      BY <1>1
    <2>3. [m.heap EXCEPT !.objects = o2] = [objects |-> o2, roots |-> r]
      BY <2>2, WithObjects
    <2>4. QED
      BY <1>1, <2>1, <2>3
  <1>3. \A x \in 1 .. Len(o) : FreedByList(l, x) = 1
    <2> HIDE DEF o, l
    <2>1. QED
      BY <1>1, HeldOnce
  <1>4. FreedByList(l, Len(o) + 1) = 0
    <2> HIDE DEF o, l
    <2>1. QED
      BY <1>1, NotHeld
  <1>5. /\ o2 \in Seq(Nat) /\ Len(o2) = Len(o) + 1 /\ o2[Len(o) + 1] = 2
        /\ \A x \in 1 .. Len(o) : o2[x] = 1
    <2> HIDE DEF o
    <2>1. QED
      BY <1>1
  <1>6. \A x \in 1 .. Len(o2) : o2[x] + FreedByList(l, x) = 2
    <2> HIDE DEF o, o2, l
    <2>1. QED
      BY <1>1, <1>3, <1>4, <1>5
  <1> HIDE DEF a, o2, l
  <1>7. a.heap = [objects |-> o2, roots |-> r] /\ a.heap.objects = o2 /\ a.heap.roots = r
        /\ a.list = l
    BY <1>2
  <1>8. Freeable(a)
    BY <1>5, <1>6, <1>7 DEF Freeable, IsHeap
  <1>9. QED
    BY <1>7, <1>8 DEF a, l

\* What FreeVal leaves of a heap: each object has been freed.
LEMMA FreeValFrees ==
  ASSUME NEW m, Freeable(m), \A r \in Roots : m.heap.roots[r] # NULL
  PROVE  \E o \in Seq(Nat) : /\ IsHeap(FreeVal(m.heap, m.list), o)
                             /\ \A x \in 1 .. Len(o) : o[x] = 2
  <1> DEFINE o == m.heap.objects
             o2 == [x \in DOMAIN o |-> o[x] + FreedByList(m.list, x)]
             h == FreeObjList(m.heap, m.list)
             h2 == FreeRoot(h, "pInternal")
  <1>1. o \in Seq(Nat) /\ DOMAIN o = 1 .. Len(o) /\ Len(o) \in Nat
    BY DEF Freeable
  <1>2. o2 = [x \in 1 .. Len(o) |-> 2]
    BY <1>1 DEF Freeable
  <1>3. o2 \in Seq(Nat) /\ \A x \in 1 .. Len(o2) : o2[x] = 2
    <2> HIDE DEF o2
    <2>1. QED
      BY <1>1, <1>2
  <1>4. h = [m.heap EXCEPT !.objects = o2]
    BY DEF FreeObjList
  <1>5. IsHeap(h, o2)
    <2> HIDE DEF o2, h
    <2>1. m.heap = [objects |-> m.heap.objects, roots |-> m.heap.roots]
          /\ m.heap.roots \in [Roots -> Nat]
      BY DEF Freeable, IsHeap
    <2>2. h = [objects |-> o2, roots |-> m.heap.roots]
      BY <1>4, <2>1, WithObjects
    <2>3. QED
      BY <2>1, <2>2 DEF IsHeap
  <1>6. FreeVal(m.heap, m.list) = FreeRoot(h2, "val")
    BY DEF FreeVal, Roots
  <1>7. IsHeap(FreeRoot(h2, "val"), o2)
    <2>1. "pInternal" \in Roots /\ "val" \in Roots
      BY DEF Roots
    <2> HIDE DEF h, o2
    <2>2. QED
      BY <1>5, <2>1, FreeRootKeeps
  <1> HIDE DEF h2, o2
  <1>8. QED
    BY <1>3, <1>6, <1>7

-----------------------------------------------------------------------------
(* The memory of the parser. *)

MemInv == PcInv /\ MemoryInv

LEMMA HeapIs ==
  ASSUME NEW h, NEW o \in Seq(Nat), IsHeap(h, o)
  PROVE  h \in [objects : Seq(Nat), roots : [Roots -> Nat]] /\ h.objects = o
  BY DEF IsHeap

LEMMA MemoryHolds ==
  ASSUME MemInv, pc \notin {"failed", "released"}
  PROVE  Holds(Memory) /\ heap.roots \in [Roots -> Nat]
  BY DEF MemInv, MemoryInv, Holds, Memory

\* A failing call leaves nothing alive, whatever it had allocated.
LEMMA ErrorFrees ==
  ASSUME NEW m, Freeable(m), \A r \in Roots : m.heap.roots[r] # NULL, PcInv, Error(m)
  PROVE  MemInv'
  <1> DEFINE h == FreeVal(m.heap, m.list)
  <1>1. PICK o \in Seq(Nat) : IsHeap(h, o) /\ \A x \in 1 .. Len(o) : o[x] = 2
    BY FreeValFrees
  <1>2. IsHeap(FreeRoot(h, "pInternal"), o)
    <2> HIDE DEF h
    <2>1. "pInternal" \in Roots
      BY DEF Roots
    <2>2. QED
      BY <1>1, <2>1, FreeRootKeeps
  <1>3. heap' = h \/ heap' = FreeRoot(h, "pInternal")
    BY DEF Error
  <1>4. IsHeap(heap', o)
    <2> HIDE DEF h
    <2>1. QED
      BY <1>1, <1>2, <1>3
  <1>5. heap' \in [objects : Seq(Nat), roots : [Roots -> Nat]] /\ heap'.objects = o
    BY <1>4, HeapIs
  <1>6. pc' = "failed" /\ entry' = entry
    BY DEF Error
  <1>7. ObjectsFreedOnce'
    BY <1>1, <1>5, <1>6 DEF ObjectsFreedOnce
  <1>8. QED
    BY <1>5, <1>6, <1>7 DEF MemInv, PcInv, MemoryInv

\* What the steps that allocate leave: the heap and the list of some calls of MCalloc.
LEMMA AllocationKeeps ==
  ASSUME NEW m, Holds(m), m.heap.roots = heap.roots, heap.roots \in [Roots -> Nat],
         heap' = m.heap, objList' = m.list
  PROVE  /\ heap' \in [objects : Seq(Nat), roots : [Roots -> Nat]]
         /\ Held(heap'.objects, objList') /\ heap'.roots = heap.roots
         /\ \A o \in DOMAIN heap'.objects : heap'.objects[o] = 1
  <1>1. Held(m.heap.objects, m.list) /\ m.heap.objects \in Seq(Nat)
    BY DEF Holds, Held
  <1>2. m.heap \in [objects : Seq(Nat), roots : [Roots -> Nat]]
    BY <1>1 DEF Holds
  <1>3. \A o \in DOMAIN m.heap.objects : m.heap.objects[o] = 1
    BY <1>1 DEF Held
  <1>4. QED
    BY <1>1, <1>2, <1>3

LEMMA MemInit == Init => MemInv
  <1> SUFFICES ASSUME Init PROVE MemInv
    OBVIOUS
  <1>1. /\ heap = [objects |-> <<>>, roots |-> [r \in Roots |-> NULL]] /\ objList = <<>>
        /\ pc = "start" /\ entry \in Entries
    BY DEF Init
  <1>2. Held(<<>>, <<>>)
    BY DEF Held, ObjectCount
  <1>3. heap.objects = <<>> /\ heap.roots = [r \in Roots |-> NULL]
    BY <1>1
  <1>4. PcInv
    BY <1>1, <1>3 DEF PcInv, Roots
  <1>5. MemoryInv
    BY <1>1, <1>2, <1>3 DEF MemoryInv, ObjectsFreedOnce, NULL
  <1>6. QED
    BY <1>4, <1>5 DEF MemInv

LEMMA MemNext == MemInv /\ [Next]_vars => MemInv'
  <1> SUFFICES ASSUME MemInv, [Next]_vars PROVE MemInv'
    OBVIOUS
  <1>1. PcInv /\ MemoryInv
    BY DEF MemInv
  <1>2. ASSUME pc \in {"script", "action"}, NEW m, Holds(m), m.heap.roots = heap.roots, Error(m)
        PROVE  MemInv'
    <2>1. \A r \in Roots : m.heap.roots[r] # NULL
      BY <1>1, <1>2 DEF PcInv, NULL
    <2>2. Freeable(m)
      BY <1>1, <1>2, HeldFreeable DEF MemoryInv
    <2>3. QED
      BY <1>1, <1>2, <2>1, <2>2, ErrorFrees
  <1>3. ASSUME pc \in {"script", "action"} PROVE Holds(Memory) /\ Memory.heap.roots = heap.roots
    BY <1>3, MemoryHolds DEF Memory
  <1>4. CASE AllocRoots
    <2>1. CASE pc = "start" /\ AllocRoot("val", "val")
      <3>1. heap.roots \in [Roots -> Nat] /\ heap' = [heap EXCEPT !.roots["val"] = 1]
        BY <1>1, <2>1 DEF AllocRoot, MemoryInv
      <3>2. heap'.roots["val"] = 1 /\ heap'.roots["pInternal"] = heap.roots["pInternal"]
            /\ heap'.objects = heap.objects
            /\ heap' \in [objects : Seq(Nat), roots : [Roots -> Nat]]
        BY <1>1, <3>1 DEF MemoryInv, Roots
      <3>3. QED
        BY <1>1, <2>1, <3>2
        DEF AllocRoot, MemInv, PcInv, MemoryInv, ObjectsFreedOnce
    <2>2. CASE pc = "val" /\ AllocRoot("pInternal", "script")
      <3>1. heap.roots \in [Roots -> Nat] /\ heap' = [heap EXCEPT !.roots["pInternal"] = 1]
        BY <1>1, <2>2 DEF AllocRoot, MemoryInv
      <3>2. heap'.roots["val"] = heap.roots["val"] /\ heap'.roots["pInternal"] = 1
            /\ heap'.objects = heap.objects
            /\ heap' \in [objects : Seq(Nat), roots : [Roots -> Nat]]
        BY <1>1, <3>1 DEF MemoryInv, Roots
      <3>3. \A r \in Roots : heap'.roots[r] = 1
        BY <1>1, <2>2, <3>2 DEF PcInv, Roots
      <3>4. QED
        BY <1>1, <2>2, <3>2, <3>3
        DEF AllocRoot, MemInv, PcInv, MemoryInv, ObjectsFreedOnce
    <2>3. CASE pc \in {"start", "val"} /\ Error(Memory)
      <3>1. heap.roots["pInternal"] = NULL /\ Held(heap.objects, <<>>)
        BY <1>1, <2>3 DEF PcInv, MemoryInv
      <3>2. heap' = heap
        BY <2>3, <3>1 DEF Error, Memory, FreeVal, FreeRoot
      <3>3. Len(heap.objects) = 0
        BY <3>1 DEF Held, ObjectCount
      <3>4. pc' = "failed" /\ entry' = entry
        BY <2>3 DEF Error
      <3>5. QED
        BY <1>1, <3>2, <3>3, <3>4 DEF MemInv, PcInv, MemoryInv, ObjectsFreedOnce
    <2>4. QED
      BY <1>4, <2>1, <2>2, <2>3 DEF AllocRoots
  <1>5. ASSUME NEW name \in Names, NEW content \in Contents, BeginScript(name, content)
        PROVE  MemInv'
    <2>1. pc = "script" /\ Holds(Memory)
      BY <1>3, <1>5 DEF BeginScript
    <2>2. CASE Error(Memory)
      BY <1>2, <1>3, <2>1, <2>2
    <2>3. CASE ~Error(Memory)
      <3>1. heap' = MCalloc[1].heap /\ objList' = MCalloc[1].list /\ pc' = "action"
            /\ entry' = entry
        BY <1>5, <2>3 DEF BeginScript
      <3>2. Holds(MCalloc[1]) /\ MCalloc[1].heap.roots = heap.roots
        BY <2>1, MCallocHolds
      <3>3. /\ heap' \in [objects : Seq(Nat), roots : [Roots -> Nat]]
            /\ Held(heap'.objects, objList') /\ heap'.roots = heap.roots
            /\ \A o \in DOMAIN heap'.objects : heap'.objects[o] = 1
        <4>1. heap.roots \in [Roots -> Nat]
          BY <2>1, MemoryHolds
        <4> HIDE DEF MCalloc
        <4>2. QED
          BY <3>1, <3>2, <4>1, AllocationKeeps
      <3>4. QED
        BY <1>1, <2>1, <3>1, <3>3 DEF MemInv, PcInv, MemoryInv, ObjectsFreedOnce
    <2>4. QED
      BY <2>2, <2>3
  <1>6. CASE ParseScriptPause
    BY <1>1, <1>6
    DEF ParseScriptPause, MemInv, PcInv, MemoryInv, ObjectsFreedOnce
  <1>7. CASE ParseScriptAction
    <2> DEFINE m == MCalloc[Objects(Current)]
    <2>1. pc = "action" /\ Holds(Memory) /\ heap.roots \in [Roots -> Nat]
      BY <1>7, MemoryHolds DEF ParseScriptAction, InScript
    <2>2. Objects(Current) \in 0 .. 3
      BY DEF Objects
    <2>3. Holds(m) /\ m.heap.roots = heap.roots
      BY <2>1, <2>2, MCallocHolds
    <2>4. heap' = m.heap /\ objList' = m.list /\ pc' = pc /\ entry' = entry
      BY <1>7 DEF ParseScriptAction
    <2> HIDE DEF m
    <2>5. /\ heap' \in [objects : Seq(Nat), roots : [Roots -> Nat]]
          /\ Held(heap'.objects, objList') /\ heap'.roots = heap.roots
          /\ \A o \in DOMAIN heap'.objects : heap'.objects[o] = 1
      BY <2>1, <2>3, <2>4, AllocationKeeps
    <2>6. QED
      BY <1>1, <2>1, <2>4, <2>5 DEF MemInv, PcInv, MemoryInv, ObjectsFreedOnce
  <1>8. CASE EndScript
    <2>1. pc = "action" /\ Holds(Memory)
      BY <1>3, <1>8 DEF EndScript
    <2>2. CASE Error(Memory)
      BY <1>2, <1>3, <2>1, <2>2
    <2>3. CASE ~Error(Memory)
      <3>1. UNCHANGED <<entry, heap, objList>> /\ pc' \in {"script", "done"}
        BY <1>8, <2>3 DEF EndScript
      <3>2. QED
        BY <1>1, <2>1, <3>1 DEF MemInv, PcInv, MemoryInv, ObjectsFreedOnce
    <2>4. QED
      BY <2>2, <2>3
  <1>9. CASE EndScripts
    <2>1. pc = "script" /\ Holds(Memory)
      BY <1>3, <1>9 DEF EndScripts
    <2>2. CASE Error(Memory)
      BY <1>2, <1>3, <2>1, <2>2
    <2>3. CASE ~Error(Memory)
      BY <1>1, <1>9, <2>1, <2>3
      DEF EndScripts, MemInv, PcInv, MemoryInv, ObjectsFreedOnce
    <2>4. QED
      BY <2>2, <2>3
  <1>10. CASE ParseError
    <2>1. pc \in {"script", "action"} /\ Holds(Memory) /\ heap.roots \in [Roots -> Nat]
      BY <1>3, <1>10, MemoryHolds DEF ParseError
    <2>2. PICK n \in 0 .. 3 : \/ Error(MCalloc[n])
                              \/ MCalloc[n].list # <<>> /\ Error(WithoutCell(MCalloc[n]))
      BY <1>10 DEF ParseError
    <2> DEFINE m == MCalloc[n]
    <2>3. Holds(m) /\ m.heap.roots = heap.roots
      BY <2>1, MCallocHolds
    <2>4. CASE Error(m)
      BY <1>2, <2>1, <2>3, <2>4
    <2>5. CASE m.list # <<>> /\ Error(WithoutCell(m))
      <3>1. Freeable(WithoutCell(m)) /\ WithoutCell(m).heap.roots = heap.roots
        <4> HIDE DEF m
        <4>1. QED
          BY <2>1, <2>3, <2>5, WithoutCellFreeable
      <3>2. \A r \in Roots : heap.roots[r] # NULL
        BY <1>1, <2>1 DEF PcInv, NULL
      <3> HIDE DEF m
      <3>3. QED
        BY <1>1, <2>5, <3>1, <3>2, ErrorFrees
    <2>6. QED
      BY <2>2, <2>4, <2>5
  <1>11. CASE Release
    <2>1. pc = "done" /\ Holds(Memory) /\ heap.roots \in [Roots -> Nat]
      BY <1>11, MemoryHolds DEF Release
    <2>2. Freeable(Memory)
      BY <2>1, HeldFreeable DEF Memory
    <2>3. \A r \in Roots : Memory.heap.roots[r] # NULL
      BY <1>1, <2>1 DEF PcInv, Memory, NULL
    <2>4. PICK o \in Seq(Nat) : /\ IsHeap(FreeVal(Memory.heap, Memory.list), o)
                                /\ \A x \in 1 .. Len(o) : o[x] = 2
      BY <2>2, <2>3, FreeValFrees
    <2>5. IsHeap(heap', o) /\ pc' = "released" /\ entry' = entry
      BY <1>11, <2>4 DEF Release, Memory
    <2>6. heap' \in [objects : Seq(Nat), roots : [Roots -> Nat]] /\ heap'.objects = o
      BY <2>5, HeapIs
    <2>7. QED
      BY <1>1, <2>4, <2>5, <2>6 DEF MemInv, PcInv, MemoryInv, ObjectsFreedOnce
  <1>12. CASE UNCHANGED vars
    BY <1>1, <1>12 DEF vars, MemInv, PcInv, MemoryInv, ObjectsFreedOnce
  <1>13. QED
    BY <1>4, <1>5, <1>6, <1>7, <1>8, <1>9, <1>10, <1>11, <1>12 DEF Next

\* For every document and every failing allocation or attribute, each object of the parser
\* lives until the call fails or the user gives it back, and is then freed exactly once.
THEOREM ScriptsObjectsFreedOnce == Spec => []ObjectsFreedOnce
  <1>1. MemInv => ObjectsFreedOnce
    BY DEF MemInv, MemoryInv
  <1>2. QED
    BY MemInit, MemNext, <1>1, PTL DEF Spec

-----------------------------------------------------------------------------
(* The actions of a script. *)

LEMMA ActionsUpToNone == ASSUME NEW content PROVE ActionsUpTo(content, 0) = 0
  <1> DEFINE none == {j \in 1 .. 0 : IsAction(content[j])}
  <1>1. none = {}
    OBVIOUS
  <1> HIDE DEF none
  <1>2. Cardinality(none) = 0
    BY <1>1, FS_EmptySet, Zenon
  <1>3. QED
    BY <1>2 DEF ActionsUpTo, none

LEMMA ActionsUpToFinite ==
  ASSUME NEW content, NEW i \in Nat
  PROVE  IsFiniteSet({j \in 1 .. i : IsAction(content[j])}) /\ ActionsUpTo(content, i) \in Nat
  <1>1. IsFiniteSet(1 .. i)
    BY FS_Interval
  <1>2. {j \in 1 .. i : IsAction(content[j])} \in SUBSET (1 .. i)
    OBVIOUS
  <1>3. IsFiniteSet({j \in 1 .. i : IsAction(content[j])})
    BY <1>1, <1>2, FS_Subset
  <1>4. QED
    BY <1>3, FS_CardinalityType DEF ActionsUpTo

LEMMA ActionsUpToGrows ==
  ASSUME NEW content, NEW i \in Nat, NEW k \in Nat, i <= k
  PROVE  ActionsUpTo(content, i) <= ActionsUpTo(content, k)
  <1> DEFINE few == {j \in 1 .. i : IsAction(content[j])}
             many == {j \in 1 .. k : IsAction(content[j])}
  <1>1. few \in SUBSET many
    OBVIOUS
  <1>2. IsFiniteSet(many)
    BY ActionsUpToFinite
  <1> HIDE DEF few, many
  <1>3. Cardinality(few) <= Cardinality(many)
    BY <1>1, <1>2, FS_Subset
  <1>4. QED
    BY <1>3 DEF ActionsUpTo, few, many

LEMMA ActionsUpToNext ==
  ASSUME NEW content, NEW i \in Nat \ {0}
  PROVE  ActionsUpTo(content, i) =
           IF IsAction(content[i]) THEN ActionsUpTo(content, i - 1) + 1
           ELSE ActionsUpTo(content, i - 1)
  <1> DEFINE few == {j \in 1 .. i - 1 : IsAction(content[j])}
             many == {j \in 1 .. i : IsAction(content[j])}
  <1>1. IsFiniteSet(few) /\ i \notin few
    <2>1. i - 1 \in Nat /\ i \notin 1 .. i - 1
      OBVIOUS
    <2>2. QED
      BY <2>1, ActionsUpToFinite
  <1>2. IsAction(content[i]) => many = few \cup {i}
    OBVIOUS
  <1>3. ~IsAction(content[i]) => many = few
    OBVIOUS
  <1>4. ActionsUpTo(content, i) = Cardinality(many) /\ ActionsUpTo(content, i - 1) = Cardinality(few)
    BY DEF ActionsUpTo
  <1> HIDE DEF few, many
  <1>5. Cardinality(few \cup {i}) = Cardinality(few) + 1
    BY <1>1, FS_AddElement
  <1>6. IsAction(content[i]) => Cardinality(many) = Cardinality(few) + 1
    BY <1>2, <1>5, Zenon
  <1>7. ~IsAction(content[i]) => Cardinality(many) = Cardinality(few)
    BY <1>3, Zenon
  <1>8. QED
    BY <1>4, <1>6, <1>7

\* GetCountArray counts each action of a document with blanks.
LEMMA CountedAll ==
  ASSUME ~Compact, NEW content \in Seq(Element)
  PROVE  Counted(content) = ActionsUpTo(content, Len(content))
  <1>1. DOMAIN content = 1 .. Len(content)
    OBVIOUS
  <1>2. {i \in DOMAIN content : IsAction(content[i]) /\ (Compact => i > 1)}
          = {i \in 1 .. Len(content) : IsAction(content[i])}
    BY <1>1
  <1>3. QED
    BY <1>2, Zenon DEF Counted, ActionsUpTo

\* One more action is read.
LEMMA ReadAction ==
  ASSUME NEW content, NEW next \in Nat \ {0}, NEW actions \in Seq(ActionRecord),
         NEW action \in ActionRecord,
         ReadUpTo(content, next, actions), IsAction(content[next]),
         action.kind = content[next].kind, action.pause = PauseBefore(content, next),
         SizesFit => action.data_size = action.length
  PROVE  ReadUpTo(content, next + 1, Append(actions, action))
  <1> DEFINE more == Append(actions, action)
             A(i) == ActionsUpTo(content, i)
  <1>1. Len(actions) = A(next - 1) /\ Len(actions) \in Nat
    BY DEF ReadUpTo
  <1>2. A(next) = A(next - 1) + 1
    BY ActionsUpToNext
  <1>3. /\ Len(more) = Len(actions) + 1 /\ more[Len(actions) + 1] = action
        /\ \A i \in 1 .. Len(actions) : more[i] = actions[i]
    OBVIOUS
  <1>4. more[A(next)] = action
    BY <1>1, <1>2, <1>3
  <1>5. \A i \in 1 .. next - 1 : IsAction(content[i]) => more[A(i)] = actions[A(i)]
    <2>1. SUFFICES ASSUME NEW i \in 1 .. next - 1, IsAction(content[i])
                   PROVE  A(i) \in 1 .. Len(actions)
      BY <1>3
    <2> i \in Nat \ {0} /\ i - 1 \in Nat /\ next - 1 \in Nat /\ i <= next - 1
      OBVIOUS
    <2>2. A(i) = A(i - 1) + 1 /\ A(i - 1) \in Nat
      BY <2>1, ActionsUpToNext, ActionsUpToFinite
    <2>3. A(i) <= A(next - 1)
      BY ActionsUpToGrows
    <2>4. QED
      BY <1>1, <2>2, <2>3
  <1> HIDE DEF more, A
  <1>6. \A i \in 1 .. next : IsAction(content[i]) =>
          /\ more[A(i)].kind = content[i].kind
          /\ more[A(i)].pause = PauseBefore(content, i)
          /\ SizesFit => more[A(i)].data_size = more[A(i)].length
    <2>1. SUFFICES ASSUME NEW i \in 1 .. next, IsAction(content[i])
                   PROVE  /\ more[A(i)].kind = content[i].kind
                          /\ more[A(i)].pause = PauseBefore(content, i)
                          /\ SizesFit => more[A(i)].data_size = more[A(i)].length
      OBVIOUS
    <2>2. CASE i = next
      BY <1>4, <2>2
    <2>3. CASE i # next
      <3>1. i \in 1 .. next - 1
        BY <2>3
      <3>2. /\ actions[A(i)].kind = content[i].kind
            /\ actions[A(i)].pause = PauseBefore(content, i)
            /\ SizesFit => actions[A(i)].data_size = actions[A(i)].length
        BY <2>1, <3>1 DEF ReadUpTo, A
      <3>3. QED
        BY <1>5, <2>1, <3>1, <3>2
    <2>4. QED
      BY <2>2, <2>3
  <1>7. Len(more) = A(next) /\ next + 1 - 1 = next
    BY <1>1, <1>2, <1>3
  <1>8. ReadUpTo(content, next + 1, more)
    BY <1>6, <1>7 DEF ReadUpTo, A
  <1>9. QED
    BY <1>8 DEF more

\* A Pause adds no action.
LEMMA ReadPause ==
  ASSUME NEW content, NEW next \in Nat \ {0}, NEW actions \in Seq(ActionRecord),
         ReadUpTo(content, next, actions), ~IsAction(content[next])
  PROVE  ReadUpTo(content, next + 1, actions)
  <1>1. ActionsUpTo(content, next) = ActionsUpTo(content, next - 1)
    BY ActionsUpToNext
  <1>2. next + 1 - 1 = next
    OBVIOUS
  <1>3. \A i \in 1 .. next : IsAction(content[i]) => i \in 1 .. next - 1
    OBVIOUS
  <1>4. QED
    BY <1>1, <1>2, <1>3 DEF ReadUpTo

LEMMA RemainderOfLess ==
  ASSUME NEW a \in Nat, NEW b \in Nat \ {0}
  PROVE  a % b \in Nat /\ (a < b => a % b = a)
  OBVIOUS

\* A payload that fits in the byte of its length keeps its size.
LEMMA ActionIs ==
  ASSUME NEW e \in Element, IsAction(e), script.pause \in Nat
  PROVE  /\ Action(e) \in ActionRecord
         /\ Action(e).kind = e.kind /\ Action(e).pause = script.pause
         /\ (e.kind \in DOMAIN Header => e.size + Header[e.kind] < ByteRange)
              => Action(e).data_size = Action(e).length
  <1>1. e.kind \in Kinds /\ e.size \in Nat /\ ByteRange \in Nat \ {0}
    BY ScriptAssumption DEF IsAction, Element
  <1>2. CASE e.kind \in DOMAIN Header
    <2> DEFINE head == Header[e.kind]
               size == ((e.size % ByteRange) + head) % ByteRange
    <2>1. head \in Nat
      BY <1>2 DEF Header
    <2>2. e.size % ByteRange \in Nat
      BY <1>1, RemainderOfLess
    <2>3. size \in Nat
      BY <1>1, <2>1, <2>2, RemainderOfLess
    <2>4. ASSUME e.size + head < ByteRange PROVE size = head + e.size
      <3>1. e.size < ByteRange
        BY <1>1, <2>1, <2>4
      <3>2. e.size % ByteRange = e.size
        BY <1>1, <3>1, RemainderOfLess
      <3>3. (e.size + head) % ByteRange = e.size + head
        <4> DEFINE sum == e.size + head
        <4>1. sum \in Nat /\ sum < ByteRange
          BY <1>1, <2>1, <2>4
        <4> HIDE DEF sum
        <4>2. sum % ByteRange = sum
          BY <1>1, <4>1, RemainderOfLess
        <4>3. QED
          BY <4>2 DEF sum
      <3>4. size = e.size + head
        BY <3>2, <3>3, Zenon
      <3>5. QED
        BY <1>1, <2>1, <3>4
    <2>5. Action(e) = [kind |-> e.kind, pause |-> script.pause, length |-> head + e.size,
                       data_size |-> size]
      BY <1>2 DEF Action
    <2>6. head + e.size \in Nat
      BY <1>1, <2>1
    <2>7. e.size + Header[e.kind] < ByteRange => size = head + e.size
      BY <2>4
    <2> HIDE DEF size, head
    <2>8. QED
      BY <1>1, <1>2, <2>3, <2>5, <2>6, <2>7 DEF ActionRecord
  <1>3. CASE e.kind \notin DOMAIN Header
    <2> DEFINE size == Fixed[e.kind]
    <2>1. size \in Nat
      BY <1>1, <1>3 DEF Kinds, Fixed
    <2>2. Action(e) = [kind |-> e.kind, pause |-> script.pause, length |-> size,
                       data_size |-> size]
      BY <1>3 DEF Action
    <2> HIDE DEF size
    <2>3. QED
      BY <1>1, <1>3, <2>1, <2>2 DEF ActionRecord
  <1>4. QED
    BY <1>2, <1>3

LEMMA CountedIsNat ==
  ASSUME NEW content \in Seq(Element)
  PROVE  Counted(content) \in Nat
  <1> DEFINE counted == {i \in DOMAIN content : IsAction(content[i]) /\ (Compact => i > 1)}
  <1>1. IsFiniteSet(1 .. Len(content)) /\ DOMAIN content = 1 .. Len(content)
    BY FS_Interval
  <1>2. counted \in SUBSET (1 .. Len(content))
    BY <1>1
  <1> HIDE DEF counted
  <1>3. IsFiniteSet(counted)
    BY <1>1, <1>2, FS_Subset
  <1>4. QED
    BY <1>3, FS_CardinalityType DEF Counted, counted

LEMMA NewScriptIs ==
  ASSUME NEW name \in Names \cup {NULL}, NEW content \in Seq(Element), NEW size \in Nat,
         NEW s, s = NewScript(name, content, size)
  PROVE  /\ s \in ScriptRecord /\ s.content = content /\ s.size = size
         /\ s.next = 1 /\ s.actions = <<>> /\ s.pause = 0
  <1>1. <<>> \in Seq(ActionRecord)
    OBVIOUS
  <1>2. QED
    BY <1>1 DEF ScriptRecord, NewScript

LEMMA NoScriptIs == NoScript \in ScriptRecord
  <1>1. <<>> \in Seq(Element) /\ 0 \in Nat
    OBVIOUS
  <1>2. QED
    BY <1>1, NewScriptIs DEF NoScript

LEMMA ScriptInit == Init => ScriptInv
  BY NoScriptIs DEF Init, ScriptInv

LEMMA ScriptNext == ScriptInv /\ [Next]_vars => ScriptInv'
  <1> SUFFICES ASSUME ScriptInv, [Next]_vars PROVE ScriptInv'
    OBVIOUS
  <1>1. ASSUME NEW m, Error(m) PROVE ScriptInv'
    BY <1>1 DEF Error, ScriptInv
  <1>2. CASE AllocRoots
    BY <1>1, <1>2 DEF AllocRoots, AllocRoot, ScriptInv
  <1>3. ASSUME NEW name \in Names, NEW content \in Contents, BeginScript(name, content)
        PROVE  ScriptInv'
    <2>1. content \in Seq(Element)
      BY ScriptAssumption
    <2>2. CASE Error(Memory)
      BY <1>1, <2>2
    <2>3. CASE ~Error(Memory)
      <3>1. /\ script' = NewScript(name, content, Counted(content))
            /\ pc' = "action"
        BY <1>3, <2>3 DEF BeginScript
      <3>2. /\ script' \in ScriptRecord /\ script'.content = content
            /\ script'.size = Counted(content) /\ script'.next = 1
            /\ script'.actions = <<>> /\ script'.pause = 0
        <4> DEFINE count == Counted(content)
        <4>1. count \in Nat
          BY <2>1, CountedIsNat
        <4>2. script' = NewScript(name, content, count)
          BY <3>1
        <4> HIDE DEF count
        <4>3. /\ script' \in ScriptRecord /\ script'.content = content
              /\ script'.size = count /\ script'.next = 1
              /\ script'.actions = <<>> /\ script'.pause = 0
          BY <2>1, <4>1, <4>2, NewScriptIs
        <4>4. QED
          BY <4>3 DEF count
      <3>3. ReadUpTo(content, 1, <<>>)
        BY ActionsUpToNone DEF ReadUpTo
      <3>4. PauseBefore(content, 1) = 0 /\ 1 \in 1 .. Len(content) + 1
        BY <2>1 DEF PauseBefore
      <3>5. QED
        BY <3>2, <3>3, <3>4 DEF ScriptInv
    <2>4. QED
      BY <2>2, <2>3
  <1>4. ASSUME InScript
        PROVE  /\ pc = "action" /\ script.content \in Contents /\ script.content \in Seq(Element)
               /\ script.next \in Nat \ {0} /\ script.next <= Len(script.content)
               /\ script.next + 1 \in 1 .. Len(script.content) + 1
               /\ Current \in Element /\ Current.size \in Nat
               /\ script.actions \in Seq(ActionRecord) /\ script.pause \in Nat
               /\ script.pause = PauseBefore(script.content, script.next)
               /\ ReadUpTo(script.content, script.next, script.actions)
    <2>1. /\ pc = "action" /\ script.content \in Contents /\ script.content \in Seq(Element)
          /\ script.next \in 1 .. Len(script.content) + 1 /\ script.next <= Len(script.content)
          /\ script.actions \in Seq(ActionRecord) /\ script.pause \in Nat
          /\ script.pause = PauseBefore(script.content, script.next)
          /\ ReadUpTo(script.content, script.next, script.actions)
      BY <1>4 DEF InScript, ScriptInv, ScriptRecord
    <2>2. Len(script.content) \in Nat /\ script.next \in 1 .. Len(script.content)
      BY <2>1
    <2>3. Current \in Element
      BY <2>1, <2>2 DEF Current
    <2>4. QED
      BY <2>1, <2>2, <2>3 DEF Element
  <1>5. CASE ParseScriptPause
    <2> DEFINE next == script.next + 1
               size == Current.size
    <2>1. InScript /\ ~IsAction(Current) /\ pc' = pc
      BY <1>5 DEF ParseScriptPause
    <2>2. script' = [script EXCEPT !.next = next, !.pause = size, !.actions = script.actions]
      BY <1>5 DEF ParseScriptPause, ScriptInv, ScriptRecord
    <2>3. next \in Nat /\ size \in Nat
      BY <1>4, <2>1
    <2>4. ReadUpTo(script.content, next, script.actions)
      BY <1>4, <2>1, ReadPause DEF Current
    <2>5. PauseBefore(script.content, next) = size
      <3>1. next # 1 /\ next - 1 = script.next
        BY <1>4, <2>1
      <3>2. QED
        BY <2>1, <3>1 DEF PauseBefore, Current
    <2>6. next \in 1 .. Len(script.content) + 1
      BY <1>4, <2>1
    <2> HIDE DEF next, size
    <2>7. /\ script' \in ScriptRecord /\ script'.content = script.content
          /\ script'.size = script.size /\ script'.next = next
          /\ script'.pause = size /\ script'.actions = script.actions
      <3>1. script \in ScriptRecord /\ script.actions \in Seq(ActionRecord)
        BY <1>4, <2>1 DEF ScriptInv
      <3>2. QED
        BY <2>2, <2>3, <3>1 DEF ScriptRecord
    <2>8. QED
      BY <1>4, <2>1, <2>4, <2>5, <2>6, <2>7 DEF ScriptInv
  <1>6. CASE ParseScriptAction
    <2> DEFINE next == script.next + 1
               action == Action(Current)
               actions == Append(script.actions, action)
    <2>1. InScript /\ IsAction(Current) /\ pc' = pc
      BY <1>6 DEF ParseScriptAction
    <2>2. script' = [script EXCEPT !.next = next, !.pause = 0, !.actions = actions]
      BY <1>6 DEF ParseScriptAction
    <2>3. /\ action \in ActionRecord
          /\ action.kind = Current.kind /\ action.pause = script.pause
          /\ SizesFit => action.data_size = action.length
      <3>1. SizesFit => (Current.kind \in DOMAIN Header
                          => Current.size + Header[Current.kind] < ByteRange)
        <4>1. script.next \in DOMAIN script.content
          BY <1>4, <2>1
        <4>2. QED
          BY <1>4, <2>1, <4>1 DEF SizesFit, Current
      <3>2. QED
        BY <1>4, <2>1, <3>1, ActionIs
    <2>4. ReadUpTo(script.content, next, actions)
      <3> HIDE DEF action
      <3>1. QED
        BY <1>4, <2>1, <2>3, ReadAction DEF Current
    <2>5. PauseBefore(script.content, next) = 0
      <3>1. next # 1 /\ next - 1 = script.next
        BY <1>4, <2>1
      <3>2. QED
        BY <2>1, <3>1 DEF PauseBefore, Current
    <2>6. next \in Nat /\ next \in 1 .. Len(script.content) + 1
      BY <1>4, <2>1
    <2>7. actions \in Seq(ActionRecord)
      <3> HIDE DEF action
      <3>1. QED
        BY <1>4, <2>1, <2>3
    <2> HIDE DEF next, actions
    <2>8. /\ script' \in ScriptRecord /\ script'.content = script.content
          /\ script'.size = script.size /\ script'.next = next
          /\ script'.pause = 0 /\ script'.actions = actions
      <3>1. script \in ScriptRecord
        BY DEF ScriptInv
      <3>2. QED
        BY <2>2, <2>6, <2>7, <3>1 DEF ScriptRecord
    <2>9. QED
      BY <1>4, <2>1, <2>4, <2>5, <2>6, <2>8 DEF ScriptInv
  <1>7. CASE EndScript
    <2>1. CASE Error(Memory)
      BY <1>1, <2>1
    <2>2. CASE ~Error(Memory)
      BY <1>7, <2>2, NoScriptIs DEF EndScript, ScriptInv
    <2>3. QED
      BY <2>1, <2>2
  <1>8. CASE EndScripts
    BY <1>1, <1>8 DEF EndScripts, ScriptInv
  <1>9. CASE ParseError
    BY <1>1, <1>9 DEF ParseError
  <1>10. CASE Release
    BY <1>10 DEF Release, ScriptInv
  <1>11. CASE UNCHANGED vars
    BY <1>11 DEF vars, ScriptInv
  <1>12. QED
    BY <1>2, <1>3, <1>5, <1>6, <1>7, <1>8, <1>9, <1>10, <1>11 DEF Next

\* In a document with blanks between its elements, no action is written behind the end of
\* the array that ParseScript allocated, however many actions and pauses a script has.
THEOREM ScriptsActionsFit ==
  ASSUME ~Compact
  PROVE  Spec => []ActionsFit
  <1>1. ScriptInv => ActionsFit
    <2> SUFFICES ASSUME ScriptInv, pc = "action" PROVE Len(script.actions) <= script.size
      BY DEF ActionsFit
    <2> DEFINE content == script.content
               next == script.next
    <2>1. /\ content \in Contents /\ next \in 1 .. Len(content) + 1
          /\ script.size = Counted(content)
          /\ Len(script.actions) = ActionsUpTo(content, next - 1)
      BY DEF ScriptInv, ReadUpTo
    <2>2. content \in Seq(Element)
      BY <2>1, ScriptAssumption
    <2>3. Len(content) \in Nat /\ next - 1 \in Nat /\ next - 1 <= Len(content)
      BY <2>1, <2>2
    <2> HIDE DEF content, next
    <2>4. ActionsUpTo(content, next - 1) <= ActionsUpTo(content, Len(content))
      BY <2>3, ActionsUpToGrows
    <2>5. Counted(content) = ActionsUpTo(content, Len(content))
      BY <2>2, CountedAll
    <2>6. QED
      BY <2>1, <2>4, <2>5
  <1>2. QED
    BY ScriptInit, ScriptNext, <1>1, PTL DEF Spec

-----------------------------------------------------------------------------
(* The scripts of the nodes. *)

\* At the end of its element a script is complete.
LEMMA ReadToTheEnd ==
  ASSUME SizesFit, ScriptInv, pc = "action", script.next > Len(script.content)
  PROVE  IsScriptOf(script.actions, script.content)
  <1> DEFINE content == script.content
             next == script.next
             actions == script.actions
  <1>1. content \in Seq(Element) /\ next \in 1 .. Len(content) + 1
        /\ ReadUpTo(content, next, actions)
    BY DEF ScriptInv, ScriptRecord
  <1>2. Len(content) \in Nat /\ DOMAIN content = 1 .. Len(content) /\ next - 1 = Len(content)
    BY <1>1
  <1> HIDE DEF content, next, actions
  <1>3. IsScriptOf(actions, content)
    BY <1>1, <1>2 DEF ReadUpTo, IsScriptOf
  <1>4. QED
    BY <1>3 DEF actions, content

\* Another Script element of the document.
LEMMA NamedByMore ==
  ASSUME NEW d \in Seq(ScriptElement), NEW e \in ScriptElement, NEW ref, NEW ref2,
         ref2.singleShot = ref.singleShot, ref2.name = ref.name
  PROVE  LET more == Append(d, e) IN
         /\ Len(d) + 1 \in DOMAIN more /\ more[Len(d) + 1] = e
         /\ DOMAIN more = DOMAIN d \cup {Len(d) + 1}
         /\ \A k \in DOMAIN d : more[k] = d[k] /\ k < Len(d) + 1
         /\ ref.singleShot \/ e.name = ref.name
              => NamedBy(ref2, more) = NamedBy(ref, d) \cup {Len(d) + 1}
         /\ ~(ref.singleShot \/ e.name = ref.name) => NamedBy(ref2, more) = NamedBy(ref, d)
  <1> DEFINE more == Append(d, e)
  <1>1. /\ Len(d) + 1 \in DOMAIN more /\ more[Len(d) + 1] = e
        /\ DOMAIN more = DOMAIN d \cup {Len(d) + 1}
        /\ \A k \in DOMAIN d : more[k] = d[k] /\ k < Len(d) + 1
        /\ Len(d) + 1 \notin DOMAIN d
    OBVIOUS
  <1> HIDE DEF more
  <1>2. ref.singleShot \/ e.name = ref.name
          => NamedBy(ref2, more) = NamedBy(ref, d) \cup {Len(d) + 1}
    BY <1>1 DEF NamedBy
  <1>3. ~(ref.singleShot \/ e.name = ref.name) => NamedBy(ref2, more) = NamedBy(ref, d)
    BY <1>1 DEF NamedBy
  <1>4. QED
    BY <1>1, <1>2, <1>3 DEF more

\* The node of a reference that names the new element gets it.
LEMMA LastIsNew ==
  ASSUME NEW d \in Seq(ScriptElement), NEW e \in ScriptElement, NEW ref, NEW ref2,
         ref2.singleShot = ref.singleShot, ref2.name = ref.name,
         ref.singleShot \/ e.name = ref.name,
         NEW actions, IsScriptOf(actions, e.content)
  PROVE  HasLast(ref2, Append(d, e), actions)
  <1> DEFINE more == Append(d, e)
             k == Len(d) + 1
  <1>1. /\ more[k] = e /\ NamedBy(ref2, more) = NamedBy(ref, d) \cup {k}
        /\ k \in Nat /\ \A j \in DOMAIN d : j < k
    BY NamedByMore
  <1>2. \A j \in NamedBy(ref, d) : j \in Nat /\ j < k
    BY <1>1 DEF NamedBy
  <1> HIDE DEF more, k
  <1>3. \A j \in NamedBy(ref2, more) : j <= k
    BY <1>1, <1>2
  <1>4. HasLast(ref2, more, actions)
    BY <1>1, <1>3 DEF HasLast
  <1>5. QED
    BY <1>4 DEF more

\* The node of another reference keeps what it has.
LEMMA LastIsOld ==
  ASSUME NEW d \in Seq(ScriptElement), NEW e \in ScriptElement, NEW ref, NEW ref2,
         ref2.singleShot = ref.singleShot, ref2.name = ref.name,
         ~(ref.singleShot \/ e.name = ref.name),
         NEW actions, HasLast(ref, d, actions)
  PROVE  HasLast(ref2, Append(d, e), actions)
  <1> DEFINE more == Append(d, e)
  <1>1. /\ NamedBy(ref2, more) = NamedBy(ref, d)
        /\ \A k \in DOMAIN d : more[k] = d[k]
    BY NamedByMore
  <1>2. PICK k \in NamedBy(ref, d) : /\ \A j \in NamedBy(ref, d) : j <= k
                                     /\ IsScriptOf(actions, d[k].content)
    BY DEF HasLast
  <1>3. k \in DOMAIN d
    BY DEF NamedBy
  <1> HIDE DEF more
  <1>4. HasLast(ref2, more, actions)
    BY <1>1, <1>2, <1>3 DEF HasLast
  <1>5. QED
    BY <1>4 DEF more

LEMMA RefWith ==
  ASSUME NEW ref \in Ref, NEW b \in BOOLEAN, NEW ref2, ref2 = [ref EXCEPT !.inUse = b]
  PROVE  /\ ref2 \in Ref /\ ref2.singleShot = ref.singleShot /\ ref2.name = ref.name
         /\ ref2.inUse = b
  BY DEF Ref

LEMMA NodesInit == Init => NodesInv
  <1> SUFFICES ASSUME Init PROVE NodesInv
    OBVIOUS
  <1>1. PICK names \in BoundedSeq(Names, MaxNodes) :
          scrlst = IF entry = "ParseScript"
                   THEN <<[name |-> NULL, singleShot |-> TRUE, inUse |-> FALSE]>>
                   ELSE [n \in DOMAIN names |->
                          [name |-> names[n], singleShot |-> FALSE, inUse |-> FALSE]]
    BY DEF Init
  <1>2. PICK m \in 0 .. MaxNodes : names \in [1 .. m -> Names]
    BY DEF BoundedSeq, SeqOf
  <1>3. m \in Nat /\ entry \in {"Parse", "ParseScript"}
    BY ScriptAssumption DEF Init
  <1>4. /\ scrlst \in Seq(Ref) /\ \A n \in DOMAIN scrlst : ~scrlst[n].inUse
        /\ entry # "Parse" => \A n \in DOMAIN scrlst : scrlst[n].singleShot
    <2>1. CASE entry = "ParseScript"
      <3> DEFINE ref == [name |-> NULL, singleShot |-> TRUE, inUse |-> FALSE]
      <3>1. ref \in Ref /\ ~ref.inUse /\ ref.singleShot
        BY DEF Ref
      <3>2. scrlst = <<ref>>
        BY <1>1, <2>1
      <3> HIDE DEF ref
      <3>3. QED
        BY <3>1, <3>2
    <2>2. CASE entry # "ParseScript"
      <3> DEFINE ref(n) == [name |-> names[n], singleShot |-> FALSE, inUse |-> FALSE]
      <3>1. \A n \in 1 .. m : ref(n) \in Ref /\ ~ref(n).inUse
        BY <1>2 DEF Ref
      <3>2. scrlst = [n \in 1 .. m |-> ref(n)]
        BY <1>1, <1>2, <2>2
      <3> HIDE DEF ref
      <3>3. QED
        BY <1>3, <2>2, <3>1, <3>2
    <2>3. QED
      BY <2>1, <2>2
  <1>5. doc = <<>> /\ pc = "start" /\ nodes = [n \in DOMAIN scrlst |-> <<>>]
    BY DEF Init
  <1>6. doc \in Seq(ScriptElement) /\ DOMAIN doc = {}
    BY <1>5
  <1>7. \A n \in DOMAIN scrlst : NamedBy(scrlst[n], doc) = {}
    BY <1>6 DEF NamedBy
  <1>8. QED
    BY <1>4, <1>5, <1>6, <1>7 DEF NodesInv

\* The step that gives a script to its nodes.
LEMMA NodesEndScript ==
  ASSUME SizesFit, ScriptInv, NodesInv, EndScript, ~Error(Memory)
  PROVE  NodesInv'
  <1> DEFINE named == {n \in DOMAIN scrlst : Matches(scrlst[n])}
             e == [name |-> script.name, content |-> script.content]
  <1>1. /\ pc = "action" /\ script.next > Len(script.content) /\ named # {}
        /\ nodes' = [n \in DOMAIN nodes |-> IF n \in named THEN script.actions ELSE nodes[n]]
        /\ scrlst' = [n \in DOMAIN scrlst |->
                       [scrlst[n] EXCEPT !.inUse = scrlst[n].inUse \/ n \in named]]
        /\ doc' = Append(doc, e)
        /\ pc' = IF entry = "Parse" THEN "script" ELSE "done"
        /\ entry' = entry
    BY DEF EndScript
  <1>2. IsScriptOf(script.actions, script.content)
    BY <1>1, ReadToTheEnd
  <1>3. e \in ScriptElement /\ e.name = script.name /\ e.content = script.content
    BY <1>1 DEF ScriptInv, ScriptRecord, ScriptElement
  <1>4. /\ scrlst \in Seq(Ref) /\ doc \in Seq(ScriptElement) /\ DOMAIN nodes = DOMAIN scrlst
        /\ DOMAIN scrlst' = DOMAIN scrlst /\ DOMAIN nodes' = DOMAIN scrlst
    BY <1>1 DEF NodesInv
  <1>5. \A n \in DOMAIN scrlst : n \in named <=> scrlst[n].singleShot \/ e.name = scrlst[n].name
    BY <1>3 DEF Matches
  <1> HIDE DEF named, e
  <1>6. \A n \in DOMAIN scrlst : scrlst[n] \in Ref
    BY <1>4
  <1>7. ASSUME NEW n \in DOMAIN scrlst
        PROVE  /\ scrlst'[n] \in Ref
               /\ scrlst'[n].singleShot = scrlst[n].singleShot
               /\ scrlst'[n].name = scrlst[n].name
               /\ scrlst'[n].inUse <=> scrlst[n].inUse \/ n \in named
    <2> DEFINE ref == scrlst[n]
               ref2 == scrlst'[n]
               b == scrlst[n].inUse \/ n \in named
    <2>1. ref \in Ref /\ b \in BOOLEAN
      BY <1>6
    <2>2. ref2 = [ref EXCEPT !.inUse = b]
      BY <1>1
    <2> HIDE DEF ref, ref2, b
    <2>3. ref2 \in Ref /\ ref2.singleShot = ref.singleShot /\ ref2.name = ref.name
          /\ ref2.inUse = b
      BY <2>1, <2>2, RefWith
    <2>4. QED
      BY <2>3 DEF ref, ref2, b
  <1>8. scrlst' \in Seq(Ref) /\ doc' \in Seq(ScriptElement)
    <2>1. doc' \in Seq(ScriptElement)
      BY <1>1, <1>3, <1>4
    <2>2. Len(scrlst) \in Nat /\ DOMAIN scrlst = 1 .. Len(scrlst)
      BY <1>4
    <2>3. scrlst' \in [1 .. Len(scrlst) -> Ref]
      BY <1>1, <1>7, <2>2
    <2>4. QED
      BY <2>1, <2>2, <2>3
  <1>9. entry' # "Parse" => \A n \in DOMAIN scrlst' : scrlst'[n].singleShot
    BY <1>1, <1>4, <1>7 DEF NodesInv
  <1>10. ASSUME NEW n \in DOMAIN scrlst
         PROVE  /\ scrlst'[n].inUse <=> NamedBy(scrlst'[n], doc') # {}
                /\ scrlst'[n].inUse => HasLast(scrlst'[n], doc', nodes'[n])
                /\ \A k \in NamedBy(scrlst[n], doc) : k \in NamedBy(scrlst'[n], doc')
                /\ n \in named => Len(doc) + 1 \in NamedBy(scrlst'[n], doc')
    <2> DEFINE ref == scrlst[n]
               ref2 == scrlst'[n]
    <2>1. ref2.singleShot = ref.singleShot /\ ref2.name = ref.name
      BY <1>7
    <2>2. CASE n \in named
      <3>1. ref.singleShot \/ e.name = ref.name
        BY <1>5, <2>2
      <3>2. nodes'[n] = script.actions /\ ref2.inUse
        BY <1>1, <1>4, <1>7, <2>2
      <3> HIDE DEF ref, ref2
      <3>3. HasLast(ref2, doc', nodes'[n])
        BY <1>1, <1>2, <1>3, <1>4, <2>1, <3>1, <3>2, LastIsNew
      <3>4. NamedBy(ref2, doc') = NamedBy(ref, doc) \cup {Len(doc) + 1}
        BY <1>1, <1>3, <1>4, <2>1, <3>1, NamedByMore
      <3>5. QED
        BY <3>2, <3>3, <3>4 DEF ref, ref2
    <2>3. CASE n \notin named
      <3>1. ~(ref.singleShot \/ e.name = ref.name)
        BY <1>5, <2>3
      <3>2. nodes'[n] = nodes[n] /\ (ref2.inUse <=> ref.inUse)
        BY <1>1, <1>4, <1>7, <2>3
      <3>3. /\ ref.inUse <=> NamedBy(ref, doc) # {}
            /\ ref.inUse => HasLast(ref, doc, nodes[n])
        BY DEF NodesInv
      <3> HIDE DEF ref, ref2
      <3>4. ref.inUse => HasLast(ref2, doc', nodes[n])
        BY <1>1, <1>3, <1>4, <2>1, <3>1, <3>3, LastIsOld
      <3>5. NamedBy(ref2, doc') = NamedBy(ref, doc)
        BY <1>1, <1>3, <1>4, <2>1, <3>1, NamedByMore
      <3>6. QED
        BY <2>3, <3>2, <3>3, <3>4, <3>5 DEF ref, ref2
    <2>4. QED
      BY <2>2, <2>3
  <1>11. \A k \in DOMAIN doc' : \E n \in DOMAIN scrlst : k \in NamedBy(scrlst'[n], doc')
    <2>1. DOMAIN doc' = DOMAIN doc \cup {Len(doc) + 1}
      BY <1>1, <1>3, <1>4, NamedByMore
    <2>2. \A k \in DOMAIN doc : \E n \in DOMAIN scrlst : k \in NamedBy(scrlst[n], doc)
      BY DEF NodesInv
    <2>3. \E n \in DOMAIN scrlst : n \in named
      BY <1>1 DEF named
    <2>4. QED
      BY <1>10, <2>1, <2>2, <2>3
  <1>12. pc' = "done" => \A n \in DOMAIN scrlst : scrlst'[n].inUse
    BY <1>1, <1>5, <1>7 DEF NodesInv
  <1>13. QED
    BY <1>4, <1>8, <1>9, <1>10, <1>11, <1>12 DEF NodesInv

LEMMA NodesNext == SizesFit /\ ScriptInv /\ NodesInv /\ [Next]_vars => NodesInv'
  <1> SUFFICES ASSUME SizesFit, ScriptInv, NodesInv, [Next]_vars PROVE NodesInv'
    OBVIOUS
  <1>1. ASSUME UNCHANGED <<entry, scrlst, nodes, doc>>,
               pc' = "done" => doc = <<>> \/ \A n \in DOMAIN scrlst : scrlst[n].inUse
        PROVE  NodesInv'
    BY <1>1 DEF NodesInv
  <1>2. ASSUME NEW m, Error(m) PROVE NodesInv'
    BY <1>1, <1>2 DEF Error
  <1>3. CASE AllocRoots
    BY <1>1, <1>2, <1>3 DEF AllocRoots, AllocRoot
  <1>4. ASSUME NEW name \in Names, NEW content \in Contents, BeginScript(name, content)
        PROVE  NodesInv'
    BY <1>1, <1>2, <1>4 DEF BeginScript
  <1>5. CASE ParseScriptPause
    BY <1>1, <1>5 DEF ParseScriptPause, InScript
  <1>6. CASE ParseScriptAction
    BY <1>1, <1>6 DEF ParseScriptAction, InScript
  <1>7. CASE EndScript
    BY <1>2, <1>7, NodesEndScript
  <1>8. CASE EndScripts
    BY <1>1, <1>2, <1>8 DEF EndScripts
  <1>9. CASE ParseError
    BY <1>2, <1>9 DEF ParseError
  <1>10. CASE Release
    BY <1>1, <1>10 DEF Release
  <1>11. CASE UNCHANGED vars
    BY <1>11 DEF vars, NodesInv
  <1>12. QED
    BY <1>3, <1>4, <1>5, <1>6, <1>7, <1>8, <1>9, <1>10, <1>11 DEF Next

\* If every payload fits in the byte that holds its length, each node of a document that
\* was read has the actions, with their pauses and sizes, of the last Script element it names.
THEOREM ScriptsAreOfDocument ==
  ASSUME SizesFit
  PROVE  Spec => []ScriptsOfDocument
  <1>1. NodesInv => ScriptsOfDocument
    <2> SUFFICES ASSUME NodesInv, pc = "done" PROVE ScriptsOfDocument
      BY DEF ScriptsOfDocument
    <2>1. ASSUME NEW n \in DOMAIN scrlst
          PROVE  doc = <<>> \/ HasLast(scrlst[n], doc, nodes[n])
      BY DEF NodesInv
    <2>2. \A k \in DOMAIN doc : \E n \in DOMAIN scrlst : k \in NamedBy(scrlst[n], doc)
      BY DEF NodesInv
    <2>3. QED
      BY <2>1, <2>2 DEF ScriptsOfDocument, HasLast, NamedBy
  <1>2. SizesFit /\ ScriptInv /\ NodesInv /\ [Next]_vars => ScriptInv' /\ NodesInv'
    BY ScriptNext, NodesNext
  <1>3. Init => ScriptInv /\ NodesInv
    BY ScriptInit, NodesInit
  <1>4. QED
    BY <1>1, <1>2, <1>3, PTL DEF Spec
==============================================================================
