---------------------------- MODULE Programming ------------------------------
(***************************************************************************)
(* The programming mode: the layer collects the signatures of all nodes    *)
(* (ProgrammingStoreSignature in libraries/ucsi/ucsi_impl.c), the          *)
(* integrator looks for two nodes with the same address                    *)
(* (src/custom-programming.c) and has one of them programmed, until none   *)
(* is left.                                                                *)
(*                                                                         *)
(* The network and the UNICENS library, which scans it, are not part of    *)
(* the repository: ident, diag, scan and rescan stand for them.  A node    *)
(* that was programmed makes the library scan the network again; a scan    *)
(* may also start by itself.  How many nodes have to be there before the   *)
(* signatures are looked at is in module Ucsi.                             *)
(***************************************************************************)
EXTENDS Naturals, Sequences

CONSTANTS
  NodeCount,    \* triggerNodeCount: the nodes of the network without the root
  AddrRange,    \* the values of a node address, 2^16
  MacRange,     \* the values of a MAC address, 2^48
  DefaultAddr,  \* 0xCCCC
  DiagIds,      \* diagnosis ids that nodes have
  QueueLen,     \* CMD_QUEUE_LEN
  MaxScans      \* bound: scans that nobody asked for

ASSUME ProgrammingAssumption ==
  /\ NodeCount \in Nat \ {0}
  /\ AddrRange \in Nat /\ NodeCount < AddrRange
  /\ MacRange \in Nat \ {0}
  /\ DefaultAddr \in 0 .. AddrRange - 1
  /\ DiagIds \subseteq 0 .. AddrRange - 1
  /\ QueueLen \in Nat \ {0}
  /\ MaxScans \in Nat

Pos == 0 .. NodeCount - 1
Ident == [addr : 0 .. AddrRange - 1, mac : 0 .. MacRange - 1]
Exit == [cmd |-> "ProgramExit"]
Command == [cmd : {"ProgramNode"}, pos : Pos, new : Ident] \cup {Exit}

VARIABLES
  (* the layer *)
  nodes,           \* the signatures of program.nodes
  signatureValid,
  queue,           \* the commands of the programming mode
  (* the library and the network *)
  ident,           \* what every node calls itself
  diag,            \* its diagnosis_id
  scan,            \* the nodes the scan has not reported yet
  rescan,          \* a node was programmed, the network is scanned anew
  scans,           \* scans that nobody asked for
  left,            \* the programming mode was left
  failed           \* the library refused a command or failed

network == <<ident, diag>>
vars == <<nodes, signatureValid, queue, network, scan, rescan, scans, left, failed>>

TypeOK ==
  /\ nodes \in [Pos -> Ident]
  /\ signatureValid \in [Pos -> BOOLEAN]
  /\ queue \in Seq(Command)
  /\ ident \in [Pos -> Ident]
  /\ diag \in [Pos -> DiagIds]
  /\ scan \subseteq Pos
  /\ rescan \in BOOLEAN
  /\ scans \in 0 .. MaxScans
  /\ left \in BOOLEAN
  /\ failed \in BOOLEAN

Init ==
  /\ ident \in [Pos -> Ident]
  /\ diag \in [Pos -> DiagIds]
  /\ nodes = [p \in Pos |-> [addr |-> 0, mac |-> 0]]
  /\ signatureValid = [p \in Pos |-> FALSE]
  /\ queue = <<>>
  /\ scan = {}
  /\ rescan = TRUE
  /\ scans = 0
  /\ left = FALSE
  /\ failed = FALSE

------------------------------------------------------------------------------
(***************************************************************************)
(* The decision of the integrator                                          *)
(***************************************************************************)

HasNodeAddressConflict(addr, p, all) == \E q \in Pos \ {p} : all[q].addr = addr

\* A node without a MAC address conflicts with nobody.
HasMacAddressConflict(mac, p, all) ==
  mac # 0 /\ \E q \in Pos \ {p} : all[q].mac = mac

\* The distance to the first candidate that is not taken.
FirstFree(taken) == CHOOSE k \in 0 .. NodeCount : k \notin taken /\ 0 .. k - 1 \subseteq taken

\* The diagnosis id, if there is one, or else the address; then the next one
\* that nobody has.  The address is a uint16_t.
FaultyFreeAddress(p, all, ids) == IF ids[p] # 0 THEN ids[p] ELSE all[p].addr
FreeAddress(p, all, ids) ==
  LET start == IF ids[p] # 0 THEN ids[p] ELSE all[p].addr
      taken == {k \in 0 .. NodeCount :
                  HasNodeAddressConflict((start + k) % AddrRange, p, all)}
  IN (start + FirstFree(taken)) % AddrRange

\* The candidates are 64 bits wide, the address that is written has 48.
FreeMacFrom(p, all) ==
  all[p].mac + FirstFree({k \in 0 .. NodeCount :
                            HasMacAddressConflict(all[p].mac + k, p, all)})
FaultyFreeMac(p, all) == FreeMacFrom(p, all)
FreeMac(p, all) == FreeMacFrom(p, all) % MacRange

Conflicts(p, all) ==
  \/ HasNodeAddressConflict(all[p].addr, p, all)
  \/ HasMacAddressConflict(all[p].mac, p, all)

\* The first node with a conflict is programmed.  Its node address is only
\* looked up if that is in conflict.
NewIdent(p, all, ids) ==
  [addr |-> IF HasNodeAddressConflict(all[p].addr, p, all)
            THEN FreeAddress(p, all, ids)
            ELSE DefaultAddr,
   mac |-> FreeMac(p, all)]

FaultyDeviceDiscovery(all, ids) ==
  IF NodeCount < 2 \/ \A p \in Pos : ~HasNodeAddressConflict(all[p].addr, p, all)
  THEN Exit
  ELSE LET p == CHOOSE p \in Pos :
                  Conflicts(p, all) /\ \A q \in 0 .. p - 1 : ~Conflicts(q, all)
       IN [cmd |-> "ProgramNode", pos |-> p, new |-> NewIdent(p, all, ids)]
DeviceDiscovery(all, ids) ==
  IF NodeCount < 2 \/ \A p \in Pos : ~Conflicts(p, all)
  THEN Exit
  ELSE LET p == CHOOSE p \in Pos :
                  Conflicts(p, all) /\ \A q \in 0 .. p - 1 : ~Conflicts(q, all)
       IN [cmd |-> "ProgramNode", pos |-> p, new |-> NewIdent(p, all, ids)]

------------------------------------------------------------------------------
\* OnProgramEvent with UCS_SUPV_PROG_INFO_SCAN_NEW: the signatures known so far
\* are forgotten.
OnProgramScan ==
  /\ ~left
  /\ rescan \/ scans < MaxScans
  /\ scans' = IF rescan THEN scans ELSE scans + 1
  /\ rescan' = FALSE
  /\ scan' = Pos
  /\ signatureValid' = [p \in Pos |-> FALSE]
  /\ UNCHANGED <<nodes, queue, network, left, failed>>

\* Once all signatures are there the integrator decides; without room in the
\* queue nothing comes of it.
FaultyOnProgramSignature(p) ==
  /\ p \in scan
  /\ scan' = scan \ {p}
  /\ nodes' = [nodes EXCEPT ![p] = ident[p]]
  /\ signatureValid' = [signatureValid EXCEPT ![p] = TRUE]
  /\ queue' = IF Len(queue) < QueueLen
              THEN Append(queue, DeviceDiscovery(nodes', diag))
              ELSE queue
  /\ UNCHANGED <<network, rescan, scans, left, failed>>
OnProgramSignature(p) ==
  /\ p \in scan
  /\ scan' = scan \ {p}
  /\ nodes' = [nodes EXCEPT ![p] = ident[p]]
  /\ signatureValid' = [signatureValid EXCEPT ![p] = TRUE]
  /\ queue' = IF (\A q \in Pos : signatureValid'[q]) /\ Len(queue) < QueueLen
              THEN Append(queue, DeviceDiscovery(nodes', diag))
              ELSE queue
  /\ UNCHANGED <<network, rescan, scans, left, failed>>

\* OnProgramResult: the node that was programmed starts anew, which ends the scan.
OnProgramSuccess ==
  /\ queue # <<>>
  /\ Head(queue).cmd = "ProgramNode"
  /\ ~left
  /\ ident' = [ident EXCEPT ![Head(queue).pos] = Head(queue).new]
  /\ queue' = Tail(queue)
  /\ scan' = {}
  /\ rescan' = TRUE
  /\ UNCHANGED <<nodes, signatureValid, diag, scans, left, failed>>

\* The library refuses or fails.  Nothing is tried again.
OnProgramFailure ==
  /\ queue # <<>>
  /\ Head(queue).cmd = "ProgramNode"
  /\ queue' = Tail(queue)
  /\ failed' = TRUE
  /\ UNCHANGED <<nodes, signatureValid, network, scan, rescan, scans, left>>

\* UCSI_Service with UnicensCmd_ProgramExit: nothing is done if it is refused.
ProgramExit ==
  /\ queue # <<>>
  /\ Head(queue) = Exit
  /\ queue' = Tail(queue)
  /\ \/ left' = TRUE /\ scan' = {} /\ UNCHANGED failed
     \/ failed' = TRUE /\ UNCHANGED <<left, scan>>
  /\ UNCHANGED <<nodes, signatureValid, network, rescan, scans>>

Next ==
  \/ OnProgramScan
  \/ \E p \in Pos : OnProgramSignature(p)
  \/ OnProgramSuccess
  \/ OnProgramFailure
  \/ ProgramExit

Spec == Init /\ [][Next]_vars

\* The library scans the whole network, and executes the commands.
FairSpec ==
  /\ Spec
  /\ WF_vars(rescan /\ OnProgramScan)
  /\ WF_vars(\E p \in Pos : OnProgramSignature(p))
  /\ WF_vars(OnProgramSuccess \/ OnProgramFailure)
  /\ WF_vars(ProgramExit)

------------------------------------------------------------------------------
(***************************************************************************)
(* Properties                                                              *)
(***************************************************************************)

\* When the programming mode was left no two nodes have the same address.  A
\* single node is left alone.
EndsUnique ==
  left => \A p \in Pos : ~Conflicts(p, ident)

\* A node that conflicts with nobody is never programmed, also when a command
\* was decided upon before an earlier one changed the network.
OnlyConflictsAreSolved ==
  [][\A p \in Pos : ident'[p] # ident[p] => Conflicts(p, ident)]_vars

\* If the library refuses nothing and does not fail, all conflicts are solved
\* at some time and the programming mode is left.
ProgrammingEnds == <>(left \/ failed)

\* main.c:246: the node address is changed if there is a node address collision.
AddressesKept ==
  [][\A p \in Pos : ident'[p].addr # ident[p].addr
       => HasNodeAddressConflict(ident[p].addr, p, ident)]_vars
==============================================================================
