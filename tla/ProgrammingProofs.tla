-------------------------- MODULE ProgrammingProofs --------------------------
(***************************************************************************)
(* For any network, any ranges of addresses and any length of the queue:   *)
(* only nodes in conflict are programmed, and the programming mode is left *)
(* only when all addresses are unique.                                     *)
(***************************************************************************)
EXTENDS Programming, FiniteSetTheorems, WellFoundedInduction, SequenceTheorems, TLAPS

Decision == DeviceDiscovery(ident, diag)

\* What a command asks for has been done already.
IsDone(c, all) == c # Exit /\ all[c.pos] = c.new

\* During a scan the layer knows the nodes that were reported as they are.
SignaturesAreTrue ==
  scan # {} => \A p \in Pos : /\ signatureValid[p] <=> p \notin scan
                              /\ p \notin scan => nodes[p] = ident[p]

\* The commands of scans that overtook each other: those that have been done come
\* first, and all others are what would be decided for the network as it is.
QueueIsCurrent ==
  \E k \in 0 .. Len(queue) :
    /\ \A i \in 1 .. k : IsDone(queue[i], ident)
    /\ \A i \in k + 1 .. Len(queue) : queue[i] = Decision

IInv == TypeOK /\ SignaturesAreTrue /\ QueueIsCurrent /\ EndsUnique

\* The new address of a node whose address was in conflict is nobody else's.
ConflictIsSolved ==
  [][\A p \in Pos :
       ident'[p].addr # ident[p].addr /\ HasNodeAddressConflict(ident[p].addr, p, ident)
         => ~HasNodeAddressConflict(ident'[p].addr, p, ident')]_vars
-----------------------------------------------------------------------------
(* The decision of the integrator. *)

LEMMA MinimumOfNats ==
  ASSUME NEW T, T \subseteq Nat, T # {}
  PROVE  \E x \in T : \A y \in T : x <= y
  <1> DEFINE R == OpToRel(<, Nat)
  <1>1. IsWellFoundedOn(R, Nat)
    BY NatLessThanWellFounded
  <1>2. PICK x \in T : \A y \in T : <<y, x>> \notin R
    <2> HIDE DEF R
    <2> QED
      BY <1>1, WFMin
  <1>3. ASSUME NEW y \in T PROVE x <= y
    <2>1. ~ (y < x)
      BY <1>2 DEF OpToRel
    <2>2. QED
      BY <2>1
  <1>4. QED
    BY <1>3

\* There are fewer other nodes than candidates.
LEMMA SomeAreFree ==
  ASSUME NEW p \in Pos, NEW taken \in SUBSET (0 .. NodeCount),
         NEW owner \in [taken -> Pos],
         \A j, k \in taken : owner[j] = owner[k] => j = k
  PROVE  \E k \in 0 .. NodeCount : k \notin taken
  <1> DEFINE all == 0 .. NodeCount
  <1>1. /\ IsFiniteSet(Pos) /\ Cardinality(Pos) = NodeCount
        /\ IsFiniteSet(all) /\ Cardinality(all) = NodeCount + 1
    BY FS_Interval, ProgrammingAssumption DEF Pos
  <1> HIDE DEF all
  <1>2. SUFFICES ASSUME taken = all PROVE FALSE
    BY DEF all
  <1>3. Cardinality(Pos) < Cardinality(all)
    BY <1>1, ProgrammingAssumption
  <1>4. owner \in [all -> Pos]
    BY <1>2
  <1>5. \E j, k \in all : j # k /\ owner[j] = owner[k]
    BY <1>1, <1>3, <1>4, FS_PigeonHole
  <1>6. QED
    BY <1>2, <1>5

LEMMA FirstFreeIsFree ==
  ASSUME NEW taken, \E k \in 0 .. NodeCount : k \notin taken
  PROVE  FirstFree(taken) \in 0 .. NodeCount /\ FirstFree(taken) \notin taken
  <1> DEFINE free == {k \in 0 .. NodeCount : k \notin taken}
  <1>1. free \subseteq Nat /\ free # {}
    BY ProgrammingAssumption
  <1>2. PICK x \in free : \A y \in free : x <= y
    <2> HIDE DEF free
    <2> QED
      BY <1>1, MinimumOfNats
  <1>3. x \notin taken /\ 0 .. x - 1 \subseteq taken
    BY <1>2, ProgrammingAssumption
  <1>4. QED
    BY <1>2, <1>3 DEF FirstFree

\* Candidates are different, also if the addresses wrap.
LEMMA CandidatesDiffer ==
  ASSUME NEW start \in 0 .. AddrRange - 1, NEW j \in 0 .. NodeCount, NEW k \in 0 .. NodeCount,
         (start + j) % AddrRange = (start + k) % AddrRange
  PROVE  j = k
  <1>1. ASSUME NEW i \in 0 .. NodeCount
        PROVE  (start + i) % AddrRange
                 = IF start + i < AddrRange THEN start + i ELSE start + i - AddrRange
    BY ProgrammingAssumption
  <1>2. QED
    BY <1>1, ProgrammingAssumption

\* The search of an address ends, with one that no other node has.
LEMMA FreeAddressIsFree ==
  ASSUME NEW all \in [Pos -> Ident], NEW ids \in [Pos -> 0 .. AddrRange - 1], NEW p \in Pos
  PROVE  /\ FreeAddress(p, all, ids) \in 0 .. AddrRange - 1
         /\ ~HasNodeAddressConflict(FreeAddress(p, all, ids), p, all)
  <1> DEFINE start == IF ids[p] # 0 THEN ids[p] ELSE all[p].addr
             candidate(k) == (start + k) % AddrRange
             taken == {k \in 0 .. NodeCount : HasNodeAddressConflict(candidate(k), p, all)}
             owner == [k \in taken |-> CHOOSE q \in Pos \ {p} : all[q].addr = candidate(k)]
  <1>1. start \in 0 .. AddrRange - 1
    BY DEF Ident
  <1>2. ASSUME NEW k \in taken PROVE owner[k] \in Pos /\ all[owner[k]].addr = candidate(k)
    BY DEF HasNodeAddressConflict
  <1> HIDE DEF start
  <1>3. \A j, k \in taken : owner[j] = owner[k] => j = k
    BY <1>1, <1>2, CandidatesDiffer
  <1>4. owner \in [taken -> Pos]
    BY <1>2
  <1> HIDE DEF owner
  <1>5. \E k \in 0 .. NodeCount : k \notin taken
    BY <1>3, <1>4, SomeAreFree
  <1>6. FirstFree(taken) \in 0 .. NodeCount /\ FirstFree(taken) \notin taken
    BY <1>5, FirstFreeIsFree
  <1>7. FreeAddress(p, all, ids) = candidate(FirstFree(taken))
    BY DEF FreeAddress, start
  <1>8. candidate(FirstFree(taken)) \in 0 .. AddrRange - 1
    <2> HIDE DEF taken
    <2> QED
      BY <1>1, <1>6, ProgrammingAssumption
  <1>9. ~HasNodeAddressConflict(candidate(FirstFree(taken)), p, all)
    BY <1>6
  <1>10. QED
    BY <1>7, <1>8, <1>9

\* The search of a MAC address ends as well; the result is cut to its width.
LEMMA FreeMacIsFree ==
  ASSUME NEW all \in [Pos -> Ident], NEW p \in Pos
  PROVE  /\ FreeMacFrom(p, all) \in Nat
         /\ ~HasMacAddressConflict(FreeMacFrom(p, all), p, all)
  <1> DEFINE taken == {k \in 0 .. NodeCount : HasMacAddressConflict(all[p].mac + k, p, all)}
             owner == [k \in taken |-> CHOOSE q \in Pos \ {p} : all[q].mac = all[p].mac + k]
  <1>1. all[p].mac \in Nat
    BY ProgrammingAssumption DEF Ident
  <1>2. ASSUME NEW k \in taken PROVE owner[k] \in Pos /\ all[owner[k]].mac = all[p].mac + k
    BY DEF HasMacAddressConflict
  <1>3. \A j, k \in taken : owner[j] = owner[k] => j = k
    BY <1>1, <1>2
  <1>4. owner \in [taken -> Pos]
    BY <1>2
  <1> HIDE DEF owner
  <1>5. \E k \in 0 .. NodeCount : k \notin taken
    BY <1>3, <1>4, SomeAreFree
  <1>6. FirstFree(taken) \in 0 .. NodeCount /\ FirstFree(taken) \notin taken
    BY <1>5, FirstFreeIsFree
  <1>7. FreeMacFrom(p, all) = all[p].mac + FirstFree(taken)
    BY DEF FreeMacFrom
  <1>8. ~HasMacAddressConflict(all[p].mac + FirstFree(taken), p, all)
    BY <1>6
  <1>9. FirstFree(taken) \in Nat
    BY <1>6, ProgrammingAssumption
  <1> HIDE DEF taken
  <1>10. QED
    BY <1>1, <1>7, <1>8, <1>9

LEMMA NewIdentType ==
  ASSUME NEW all \in [Pos -> Ident], NEW ids \in [Pos -> 0 .. AddrRange - 1], NEW p \in Pos
  PROVE  NewIdent(p, all, ids) \in Ident
  <1>1. FreeAddress(p, all, ids) \in 0 .. AddrRange - 1
    BY FreeAddressIsFree
  <1>2. FreeMac(p, all) \in 0 .. MacRange - 1
    BY FreeMacIsFree, ProgrammingAssumption DEF FreeMac
  <1>3. QED
    BY <1>1, <1>2, ProgrammingAssumption DEF NewIdent, Ident

\* A command to program is for a node in conflict; Exit means that there is none.
LEMMA DecisionIsRight ==
  ASSUME NEW all \in [Pos -> Ident], NEW ids \in [Pos -> 0 .. AddrRange - 1]
  PROVE  LET d == DeviceDiscovery(all, ids) IN
         /\ d \in Command
         /\ d = Exit => \A p \in Pos : ~Conflicts(p, all)
         /\ d # Exit => /\ d.pos \in Pos /\ Conflicts(d.pos, all)
                        /\ d.new = NewIdent(d.pos, all, ids)
  <1> DEFINE d == DeviceDiscovery(all, ids)
             first(p) == Conflicts(p, all) /\ \A q \in 0 .. p - 1 : ~Conflicts(q, all)
  <1>1. CASE NodeCount < 2 \/ \A p \in Pos : ~Conflicts(p, all)
    <2>1. d = Exit
      BY <1>1 DEF DeviceDiscovery
    <2>2. ASSUME NodeCount < 2, NEW p \in Pos PROVE ~Conflicts(p, all)
      <3>1. Pos \ {p} = {}
        BY <2>2, ProgrammingAssumption DEF Pos
      <3>2. QED
        BY <3>1 DEF Conflicts, HasNodeAddressConflict, HasMacAddressConflict
    <2>3. QED
      BY <1>1, <2>1, <2>2 DEF Command
  <1>2. CASE ~(NodeCount < 2 \/ \A p \in Pos : ~Conflicts(p, all))
    <2> DEFINE bad == {p \in Pos : Conflicts(p, all)}
               p == CHOOSE p \in Pos : first(p)
    <2>1. PICK x \in bad : \A y \in bad : x <= y
      <3>1. bad \subseteq Nat /\ bad # {}
        BY <1>2 DEF Pos
      <3> HIDE DEF bad
      <3>2. QED
        BY <3>1, MinimumOfNats
    <2>2. x \in Pos /\ first(x)
      BY <2>1, ProgrammingAssumption DEF Pos
    <2>3. p \in Pos /\ Conflicts(p, all)
      BY <2>2
    <2>4. d = [cmd |-> "ProgramNode", pos |-> p, new |-> NewIdent(p, all, ids)]
      BY <1>2 DEF DeviceDiscovery
    <2> HIDE DEF p, d
    <2>5. d \in Command /\ d # Exit
      BY <2>3, <2>4, NewIdentType DEF Command, Exit
    <2>6. QED
      BY <2>3, <2>4, <2>5 DEF d
  <1>3. QED
    BY <1>1, <1>2

-----------------------------------------------------------------------------
(* The invariant. *)

LEMMA DecisionOfNow ==
  ASSUME TypeOK
  PROVE  /\ Decision \in Command
         /\ Decision = Exit => \A p \in Pos : ~Conflicts(p, ident)
         /\ Decision # Exit => /\ Decision.pos \in Pos /\ Conflicts(Decision.pos, ident)
                               /\ Decision.new = NewIdent(Decision.pos, ident, diag)
  <1>1. ident \in [Pos -> Ident] /\ diag \in [Pos -> 0 .. AddrRange - 1]
    BY ProgrammingAssumption DEF TypeOK
  <1>2. QED
    BY <1>1, DecisionIsRight DEF Decision

LEMMA HeadIsCommand ==
  ASSUME TypeOK, queue # <<>>
  PROVE  /\ Head(queue) \in Command /\ Head(queue) = queue[1]
         /\ Tail(queue) \in Seq(Command) /\ Len(queue) \in Nat \ {0}
         /\ Head(queue).cmd = "ProgramNode" <=> Head(queue) # Exit
         /\ Head(queue) # Exit => Head(queue).pos \in Pos /\ Head(queue).new \in Ident
  BY DEF TypeOK, Command, Exit

\* Without its head the queue stays current as long as the network does.
LEMMA TailIsCurrent ==
  ASSUME TypeOK, QueueIsCurrent, queue # <<>>, queue' = Tail(queue), UNCHANGED network
  PROVE  QueueIsCurrent'
  <1>1. PICK k \in 0 .. Len(queue) :
           /\ \A i \in 1 .. k : IsDone(queue[i], ident)
           /\ \A i \in k + 1 .. Len(queue) : queue[i] = Decision
    BY DEF QueueIsCurrent
  <1>2. /\ Len(queue) \in Nat \ {0} /\ Len(queue') = Len(queue) - 1
        /\ \A i \in 1 .. Len(queue') : queue'[i] = queue[i + 1]
    BY DEF TypeOK
  <1>3. Decision' = Decision /\ ident' = ident
    BY DEF Decision, network
  <1> DEFINE j == IF k = 0 THEN 0 ELSE k - 1
  <1>4. j \in 0 .. Len(queue')
    BY <1>2
  <1>5. \A i \in 1 .. j : IsDone(queue'[i], ident')
    BY <1>1, <1>2, <1>3 DEF IsDone
  <1>6. \A i \in j + 1 .. Len(queue') : queue'[i] = Decision'
    BY <1>1, <1>2, <1>3
  <1>7. QED
    BY <1>4, <1>5, <1>6 DEF QueueIsCurrent

\* A command that is current either programs a node in conflict or ends the mode; one that
\* was done changes nothing.
LEMMA HeadIsCurrentOrDone ==
  ASSUME TypeOK, QueueIsCurrent, queue # <<>>
  PROVE  \/ IsDone(Head(queue), ident)
         \/ \A i \in 1 .. Len(queue) : queue[i] = Decision
  <1>1. PICK k \in 0 .. Len(queue) :
           /\ \A i \in 1 .. k : IsDone(queue[i], ident)
           /\ \A i \in k + 1 .. Len(queue) : queue[i] = Decision
    BY DEF QueueIsCurrent
  <1>2. QED
    BY <1>1, HeadIsCommand

LEMMA SuccessIsCurrent ==
  ASSUME TypeOK, QueueIsCurrent, OnProgramSuccess
  PROVE  QueueIsCurrent'
  <1> DEFINE c == Head(queue)
  <1>1. /\ queue # <<>> /\ queue' = Tail(queue) /\ diag' = diag /\ c # Exit
        /\ ident' = [ident EXCEPT ![c.pos] = c.new] /\ c.pos \in Pos
    BY HeadIsCommand DEF OnProgramSuccess
  <1>2. CASE IsDone(c, ident)
    <2>1. ident' = ident
      BY <1>1, <1>2 DEF IsDone, TypeOK
    <2>2. QED
      BY <1>1, <2>1, TailIsCurrent DEF network
  <1>3. CASE \A i \in 1 .. Len(queue) : queue[i] = Decision
    <2>1. /\ Len(queue') \in Nat /\ \A i \in 1 .. Len(queue') : queue'[i] = c
      BY <1>1, <1>3, HeadIsCommand DEF TypeOK
    <2>2. IsDone(c, ident')
      BY <1>1 DEF IsDone, TypeOK
    <2>3. QED
      BY <2>1, <2>2 DEF QueueIsCurrent
  <1>4. QED
    BY <1>1, <1>2, <1>3, HeadIsCurrentOrDone

LEMMA SignatureIsCurrent ==
  ASSUME IInv, NEW p \in Pos, OnProgramSignature(p)
  PROVE  SignaturesAreTrue' /\ QueueIsCurrent' /\ queue' \in Seq(Command)
  <1>1. /\ p \in scan /\ scan' = scan \ {p} /\ UNCHANGED network
        /\ nodes' = [nodes EXCEPT ![p] = ident[p]]
        /\ signatureValid' = [signatureValid EXCEPT ![p] = TRUE]
    BY DEF OnProgramSignature
  <1>2. \A q \in Pos : /\ signatureValid'[q] <=> q \notin scan'
                       /\ q \notin scan' => nodes'[q] = ident[q]
    BY <1>1 DEF IInv, TypeOK, SignaturesAreTrue
  <1>3. SignaturesAreTrue'
    BY <1>1, <1>2 DEF SignaturesAreTrue, network
  <1>4. Decision' = Decision /\ ident' = ident
    BY <1>1 DEF Decision, network
  <1>5. CASE queue' = queue
    BY <1>3, <1>4, <1>5 DEF QueueIsCurrent, IsDone, IInv, TypeOK
  <1>6. CASE /\ \A q \in Pos : signatureValid'[q]
             /\ queue' = Append(queue, DeviceDiscovery(nodes', diag))
    <2>1. nodes' = ident
      <3>1. \A q \in Pos : nodes'[q] = ident[q]
        BY <1>2, <1>6
      <3>2. nodes' \in [Pos -> Ident] /\ ident \in [Pos -> Ident]
        BY <1>1 DEF IInv, TypeOK
      <3>3. QED
        BY <3>1, <3>2
    <2>2. queue' = Append(queue, Decision) /\ Decision \in Command
      BY <1>6, <2>1, DecisionOfNow DEF Decision, IInv
    <2>3. /\ queue' \in Seq(Command) /\ Len(queue') = Len(queue) + 1 /\ Len(queue) \in Nat
          /\ queue'[Len(queue) + 1] = Decision
          /\ \A i \in 1 .. Len(queue) : queue'[i] = queue[i]
      BY <2>2 DEF IInv, TypeOK
    <2>4. PICK k \in 0 .. Len(queue) :
             /\ \A i \in 1 .. k : IsDone(queue[i], ident)
             /\ \A i \in k + 1 .. Len(queue) : queue[i] = Decision
      BY DEF QueueIsCurrent, IInv
    <2>5. /\ k \in 0 .. Len(queue')
          /\ \A i \in 1 .. k : IsDone(queue'[i], ident')
          /\ \A i \in k + 1 .. Len(queue') : queue'[i] = Decision'
      BY <1>4, <2>3, <2>4
    <2>6. QED
      BY <1>3, <2>3, <2>5 DEF QueueIsCurrent
  <1>7. QED
    BY <1>5, <1>6 DEF OnProgramSignature

LEMMA InitIInv == Init => IInv
  <1> SUFFICES ASSUME Init PROVE IInv
    OBVIOUS
  <1>1. [addr |-> 0, mac |-> 0] \in Ident
    BY ProgrammingAssumption DEF Ident
  <1>2. scans \in 0 .. MaxScans
    BY ProgrammingAssumption DEF Init
  <1>3. TypeOK
    <2>1. nodes \in [Pos -> Ident]
      BY <1>1 DEF Init
    <2>2. queue \in Seq(Command)
      BY DEF Init
    <2>3. QED
      BY <1>2, <2>1, <2>2 DEF Init, TypeOK
  <1>4. QueueIsCurrent
    BY DEF Init, QueueIsCurrent
  <1>5. QED
    BY <1>3, <1>4 DEF Init, IInv, SignaturesAreTrue, EndsUnique

LEMMA NextIInv == IInv /\ [Next]_vars => IInv'
  <1> SUFFICES ASSUME IInv, [Next]_vars PROVE IInv'
    OBVIOUS
  <1> USE DEF IInv
  <1>1. CASE OnProgramScan
    <2>1. scans' \in 0 .. MaxScans
      BY <1>1, ProgrammingAssumption DEF OnProgramScan, TypeOK
    <2>2. TypeOK'
      BY <1>1, <2>1 DEF OnProgramScan, TypeOK, network
    <2>3. SignaturesAreTrue' /\ EndsUnique'
      BY <1>1 DEF OnProgramScan, TypeOK, SignaturesAreTrue, EndsUnique, network
    <2>4. queue' = queue /\ ident' = ident /\ Decision' = Decision
      BY <1>1 DEF OnProgramScan, Decision, network
    <2>5. QED
      BY <2>2, <2>3, <2>4 DEF QueueIsCurrent, IsDone
  <1>2. ASSUME NEW p \in Pos, OnProgramSignature(p) PROVE IInv'
    <2>1. SignaturesAreTrue' /\ QueueIsCurrent' /\ queue' \in Seq(Command)
      BY <1>2, SignatureIsCurrent
    <2>2. TypeOK' /\ EndsUnique'
      BY <1>2, <2>1 DEF OnProgramSignature, TypeOK, EndsUnique, network
    <2>3. QED
      BY <2>1, <2>2
  <1>3. CASE OnProgramSuccess
    <2>1. /\ queue # <<>> /\ ~left /\ left' = left /\ scan' = {}
          /\ ident' = [ident EXCEPT ![Head(queue).pos] = Head(queue).new]
          /\ Head(queue).new \in Ident /\ Tail(queue) \in Seq(Command)
      BY <1>3, HeadIsCommand DEF OnProgramSuccess
    <2>2. TypeOK'
      BY <1>3, <2>1 DEF OnProgramSuccess, TypeOK
    <2>3. SignaturesAreTrue' /\ EndsUnique'
      BY <2>1 DEF SignaturesAreTrue, EndsUnique
    <2>4. QED
      BY <1>3, <2>2, <2>3, SuccessIsCurrent
  <1>4. CASE OnProgramFailure
    <2>1. queue # <<>> /\ queue' = Tail(queue) /\ UNCHANGED network
      BY <1>4 DEF OnProgramFailure
    <2>2. TypeOK' /\ SignaturesAreTrue' /\ EndsUnique'
      BY <1>4, <2>1, HeadIsCommand
      DEF OnProgramFailure, TypeOK, SignaturesAreTrue, EndsUnique, network
    <2>3. QED
      BY <2>1, <2>2, TailIsCurrent
  <1>5. CASE ProgramExit
    <2>1. queue # <<>> /\ queue' = Tail(queue) /\ UNCHANGED network /\ Head(queue) = Exit
      BY <1>5 DEF ProgramExit
    <2>2. \A p \in Pos : ~Conflicts(p, ident)
      <3>1. Decision = Exit
        BY <2>1, HeadIsCommand, HeadIsCurrentOrDone DEF IsDone
      <3>2. QED
        BY <3>1, DecisionOfNow
    <2>3. TypeOK' /\ SignaturesAreTrue' /\ EndsUnique'
      BY <1>5, <2>1, <2>2, HeadIsCommand
      DEF ProgramExit, TypeOK, SignaturesAreTrue, EndsUnique, network
    <2>4. QED
      BY <2>1, <2>3, TailIsCurrent
  <1>6. CASE UNCHANGED vars
    <2>1. Decision' = Decision /\ UNCHANGED <<queue, ident>>
      BY <1>6 DEF vars, Decision, network
    <2>2. QED
      BY <1>6, <2>1
      DEF vars, network, TypeOK, SignaturesAreTrue, QueueIsCurrent, EndsUnique, IsDone
  <1>7. QED
    BY <1>1, <1>2, <1>3, <1>4, <1>5, <1>6 DEF Next

\* What a step may do to the identity of a node.
LEMMA StepOnlySolves ==
  ASSUME IInv, [Next]_vars, NEW p \in Pos, ident'[p] # ident[p]
  PROVE  Conflicts(p, ident) /\ ident'[p] = NewIdent(p, ident, diag)
  <1>1. OnProgramSuccess
    BY DEF Next, vars, network, OnProgramScan, OnProgramSignature, OnProgramFailure, ProgramExit
  <1>2. /\ queue # <<>> /\ Head(queue) # Exit /\ ident \in [Pos -> Ident]
        /\ ident' = [ident EXCEPT ![Head(queue).pos] = Head(queue).new]
    BY <1>1, HeadIsCommand DEF OnProgramSuccess, IInv, TypeOK
  <1>3. p = Head(queue).pos /\ ident'[p] = Head(queue).new /\ ~IsDone(Head(queue), ident)
    BY <1>2 DEF IsDone
  <1>4. Head(queue) = Decision
    BY <1>2, <1>3, HeadIsCommand, HeadIsCurrentOrDone DEF IInv
  <1>5. QED
    BY <1>2, <1>3, <1>4, DecisionOfNow DEF IInv

-----------------------------------------------------------------------------
(* Theorems. *)

LEMMA Invariance == Spec => []IInv
  BY InitIInv, NextIInv, PTL DEF Spec

\* The signatures, the commands and the new addresses stay in their ranges, so
\* every search of an address ends: ProgrammingStoreSignature, ProgramNode.
THEOREM ProgrammingTypeOK == Spec => []TypeOK
  <1>1. IInv => TypeOK
    BY DEF IInv
  <1>2. QED
    BY <1>1, Invariance, PTL

\* UCSI_ProgramExit leaves the mode only when all addresses of the network are unique,
\* whatever scans and commands overtook each other.
THEOREM ProgrammingEndsUnique == Spec => []EndsUnique
  <1>1. IInv => EndsUnique
    BY DEF IInv
  <1>2. QED
    BY <1>1, Invariance, PTL

\* A command of an earlier scan never programs a node that is not in conflict any more.
THEOREM ProgrammingOnlyConflicts == Spec => OnlyConflictsAreSolved
  <1>1. IInv /\ [Next]_vars => [\A p \in Pos : ident'[p] # ident[p] => Conflicts(p, ident)]_vars
    BY StepOnlySolves
  <1>2. QED
    BY <1>1, Invariance, PTL DEF Spec, OnlyConflictsAreSolved

\* The address that custom-programming.c looks for belongs to no other node of the network, also
\* when the node is programmed much later than it was looked for.
THEOREM ProgrammingConflictIsSolved == Spec => ConflictIsSolved
  <1>1. ASSUME IInv, [Next]_vars, NEW p \in Pos, ident'[p].addr # ident[p].addr,
               HasNodeAddressConflict(ident[p].addr, p, ident)
        PROVE  ~HasNodeAddressConflict(ident'[p].addr, p, ident')
    <2>1. ident'[p] = NewIdent(p, ident, diag)
      BY <1>1, StepOnlySolves
    <2>2. ident \in [Pos -> Ident] /\ diag \in [Pos -> 0 .. AddrRange - 1]
      BY <1>1, ProgrammingAssumption DEF IInv, TypeOK
    <2>3. ident'[p].addr = FreeAddress(p, ident, diag)
      BY <1>1, <2>1 DEF NewIdent
    <2>4. ~HasNodeAddressConflict(ident'[p].addr, p, ident)
      BY <2>2, <2>3, FreeAddressIsFree
    <2>5. \A q \in Pos \ {p} : ident'[q] = ident[q]
      BY <1>1
      DEF Next, vars, network, OnProgramScan, OnProgramSignature, OnProgramFailure, ProgramExit,
          OnProgramSuccess, IInv, TypeOK
    <2>6. QED
      BY <2>4, <2>5 DEF HasNodeAddressConflict
  <1>2. IInv /\ [Next]_vars =>
          [\A p \in Pos :
             ident'[p].addr # ident[p].addr /\ HasNodeAddressConflict(ident[p].addr, p, ident)
               => ~HasNodeAddressConflict(ident'[p].addr, p, ident')]_vars
    BY <1>1
  <1>3. QED
    BY <1>2, Invariance, PTL DEF Spec, ConflictIsSolved
==============================================================================
