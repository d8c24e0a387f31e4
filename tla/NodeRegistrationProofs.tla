------------------------ MODULE NodeRegistrationProofs ------------------------
(***************************************************************************)
(* Proofs about NodeRegistration for any number of processes and nodes:    *)
(* type correctness, and that neither managed keys nor a registration file *)
(* outlive their node; for one registrar at a time, that no node is        *)
(* forgotten and that local state is taken down only after the node was    *)
(* given up.                                                               *)
(***************************************************************************)
EXTENDS NodeRegistration, TLAPS

USE NodeRegistrationConstants

-----------------------------------------------------------------------------
(* The inductive invariant.  A key whose node is gone belongs to a session *)
(* that added it and has not finished, to a deregistration about to clear  *)
(* the keys, or was left.  A session that found the key and did not add it *)
(* will not remove it, so it cannot be the one that accounts for it:       *)
(* KeysOutliveNode alone is not inductive.                                 *)

Working == \A p \in Procs :
  pc[p] \notin {"idle", "install", "add"} => mine[p] \in Ids

Issued ==
  /\ \A n \in nodes : n < nextId
  /\ \A p \in Procs : mine[p] < nextId

Gone == \A p \in Procs : pc[p] \in Cleanup => mine[p] \notin nodes

Adding(n) == \E p \in Procs : mine[p] = n /\ At(p, "grant") /\ keyAdded[p]
KeysAccounted ==
  \A n \in keys \ nodes : n \in leftover \/ Adding(n) \/ Handled(n, {"rmkeys"})

RegIssued  == reg < nextId
KeysIssued == \A n \in keys : n < nextId

IInv == TypeOK /\ Working /\ Issued /\ RegIssued /\ KeysIssued /\ Gone
        /\ KeysAccounted

LEMMA InitIInv == Init => IInv
  BY DEF Init, IInv, TypeOK, Working, Issued, Gone, KeysAccounted, Steps, Ids,
         None, Torn, Cleanup, RegIssued, KeysIssued

LEMMA StutterIInv == IInv /\ UNCHANGED vars => IInv'
  BY DEF IInv, TypeOK, Working, Issued, Gone, KeysAccounted, vars, local, hist,
         Adding, Handled, At, RegIssued, KeysIssued

-----------------------------------------------------------------------------
(* Each part of the invariant, one step of a command at a time.            *)

LEMMA RegisterTypes ==
  ASSUME IInv, NEW p \in Procs, Register(p)
  PROVE  TypeOK' /\ Working' /\ Issued' /\ RegIssued' /\ KeysIssued'
<1> USE DEF IInv, TypeOK, Working, Issued, RegIssued, KeysIssued, At, Goto, End,
            Steps, Ids, None, Torn, local, hist
<1>1. CASE StartRegister(p)
  BY <1>1 DEF StartRegister
<1>2. CASE CheckExisting(p)
  BY <1>2 DEF CheckExisting, Loadable
<1>3. CASE InstallTunnel(p)
  BY <1>3 DEF InstallTunnel
<1>4. CASE AddNode(p)
  <2> USE <1>4 DEF AddNode
  <2>1. nodes' \subseteq nodes \cup {nextId} /\ nextId' \in {nextId, nextId + 1}
        /\ (nextId' = nextId => nodes' = nodes /\ mine' = mine)
        /\ (nextId' # nextId => nextId \in Ids)
    OBVIOUS
  <2>2. mine' \in [Procs -> {None} \cup Ids]
        /\ \A q \in Procs : mine'[q] \in {mine[q], nextId}
    OBVIOUS
  <2>3. pc' \in [Procs -> Steps] /\ Working'
    OBVIOUS
  <2>4. orphans' \subseteq Ids
    OBVIOUS
  <2>5. Issued' /\ RegIssued' /\ KeysIssued'
    BY <2>1, <2>2
  <2> QED
    BY <2>1, <2>2, <2>3, <2>4, <2>5
<1>5. CASE Save(p)
  <2> USE <1>5 DEF Save, Unsaved
  <2>1. mine[p] \in Ids
    OBVIOUS
  <2>2. pc' \in [Procs -> Steps] /\ Working'
    OBVIOUS
  <2>3. reg' \in {reg, Torn, mine[p]} /\ orphans' \in {orphans, orphans \cup {mine[p]}}
    BY Zenon
  <2>4. Torn < nextId /\ mine[p] < nextId
    OBVIOUS
  <2>5. RegIssued'
    BY <2>3, <2>4
  <2> QED
    BY <2>1, <2>2, <2>3, <2>5
<1>6. CASE Setup(p)
  BY <1>6 DEF Setup
<1> QED
  BY <1>1, <1>2, <1>3, <1>4, <1>5, <1>6 DEF Register

LEMMA EnableTypes ==
  ASSUME IInv, NEW p \in Procs, EnableSSH(p)
  PROVE  TypeOK' /\ Working' /\ Issued' /\ RegIssued' /\ KeysIssued'
<1> USE DEF IInv, TypeOK, Working, Issued, RegIssued, KeysIssued, At, Goto, End,
            Steps, Ids, None, Torn, local, hist
<1>1. CASE StartEnable(p)
  BY <1>1 DEF StartEnable, Loadable
<1>2. CASE InstallKey(p)
  BY <1>2 DEF InstallKey
<1>3. CASE GrantAccess(p)
  BY <1>3 DEF GrantAccess, RollBack, Left
<1> QED
  BY <1>1, <1>2, <1>3 DEF EnableSSH

LEMMA DeregisterTypes ==
  ASSUME IInv, NEW p \in Procs, Deregister(p)
  PROVE  TypeOK' /\ Working' /\ Issued' /\ RegIssued' /\ KeysIssued'
<1> USE DEF IInv, TypeOK, Working, Issued, RegIssued, KeysIssued, At, Goto, End,
            Steps, Ids, None, Torn, local, hist
<1>1. CASE StartDeregister(p)
  BY <1>1 DEF StartDeregister, Loadable
<1>2. CASE RemoveNode(p)
  BY <1>2 DEF RemoveNode, StopHere
<1>3. CASE RemoveKeys(p)
  BY <1>3 DEF RemoveKeys, ClearKeys, Left
<1>4. CASE Uninstall(p)
  BY <1>4 DEF Uninstall
<1>5. CASE DeleteReg(p)
  <2> USE <1>5 DEF DeleteReg, DropFile
  <2>1. mine[p] \in Ids
    OBVIOUS
  <2>2. pc' \in [Procs -> Steps] /\ Working'
    OBVIOUS
  <2>3. reg' \in {reg, None} /\ stale' \in {stale, stale \cup {mine[p]}}
    BY Zenon
  <2>4. RegIssued'
    BY <2>3
  <2> QED
    BY <2>1, <2>2, <2>3, <2>4
<1> QED
  BY <1>1, <1>2, <1>3, <1>4, <1>5 DEF Deregister

LEMMA KillTypes ==
  ASSUME IInv, NEW p \in Procs, Kill(p)
  PROVE  TypeOK' /\ Working' /\ Issued' /\ RegIssued' /\ KeysIssued'
<1> USE DEF IInv, TypeOK, Working, Issued, RegIssued, KeysIssued, At, Goto, End,
            Steps, Ids, None, Torn, local, hist
<1>1. reg' \in {reg, Torn} /\ keys' = keys /\ nodes' = nodes
      /\ nextId' = nextId /\ mine' = mine /\ tunnel' = tunnel
      /\ keyAdded' = keyAdded /\ pc' = [pc EXCEPT ![p] = "idle"]
  BY DEF Kill, Left
<1>2. orphans' \subseteq Ids /\ stale' \subseteq Ids
  BY DEF Kill
<1>3. leftover' \subseteq Ids
  <2>1. pc[p] \in {"grant", "rmkeys"} => mine[p] \in Ids
    OBVIOUS
  <2> QED
    BY <2>1 DEF Kill, Left
<1> QED
  BY <1>1, <1>2, <1>3

LEMMA Types ==
  IInv /\ [Next]_vars => TypeOK' /\ Working' /\ Issued' /\ RegIssued' /\ KeysIssued'
<1> SUFFICES ASSUME IInv, Next
             PROVE  TypeOK' /\ Working' /\ Issued' /\ RegIssued' /\ KeysIssued'
  BY StutterIInv DEF IInv
<1> QED
  BY RegisterTypes, EnableTypes, DeregisterTypes, KillTypes DEF Next

(* Identifiers are not reused: a node that was removed does not come back. *)
LEMMA GoneStays == IInv /\ [Next]_vars => Gone'
<1> SUFFICES ASSUME IInv, Next PROVE Gone'
  BY StutterIInv DEF IInv
<1> PICK p \in Procs : Register(p) \/ EnableSSH(p) \/ Deregister(p) \/ Kill(p)
  BY DEF Next
<1> USE DEF IInv, TypeOK, Gone, Cleanup, At, Goto, End, Steps, local, hist
<1>1. CASE Register(p)
  BY <1>1 DEF Register, StartRegister, CheckExisting, InstallTunnel, AddNode,
       Save, Unsaved, Setup, Issued, Ids, None
<1>2. CASE EnableSSH(p)
  BY <1>2 DEF EnableSSH, StartEnable, InstallKey, GrantAccess
<1>3. CASE Deregister(p)
  BY <1>3 DEF Deregister, StartDeregister, RemoveNode, StopHere, RemoveKeys,
       Uninstall, DeleteReg
<1>4. CASE Kill(p)
  BY <1>4 DEF Kill
<1> QED
  BY <1>1, <1>2, <1>3, <1>4

-----------------------------------------------------------------------------
(* A step that leaves the keys of gone nodes alone, and takes nobody out of *)
(* the grant or the clearing, keeps them accounted for.                    *)
LEMMA Bystanding ==
  ASSUME IInv, NEW p \in Procs,
         keys' = keys, nodes \subseteq nodes', leftover \subseteq leftover',
         pc[p] \notin {"grant", "rmkeys"},
         NEW there, pc' = [pc EXCEPT ![p] = there],
         \A q \in Procs \ {p} : mine'[q] = mine[q],
         keyAdded' = keyAdded
  PROVE  KeysAccounted'
  BY DEF IInv, TypeOK, KeysAccounted, Adding, Handled, At

LEMMA RegisterAccounts ==
  ASSUME IInv, NEW p \in Procs, Register(p) PROVE KeysAccounted'
<1> USE DEF IInv, TypeOK, KeysAccounted, Adding, Handled, At, Goto, End, local, hist
<1>1. CASE CheckExisting(p)
  BY <1>1 DEF CheckExisting
<1>2. CASE ~CheckExisting(p)
  <2>1. /\ keys' = keys /\ nodes \subseteq nodes' /\ leftover' = leftover
        /\ pc[p] \notin {"grant", "rmkeys"}
        /\ \A q \in Procs \ {p} : mine'[q] = mine[q]
        /\ keyAdded' = keyAdded
    BY <1>2 DEF Register, StartRegister, InstallTunnel, AddNode, Save, Unsaved, Setup
  <2>2. \E there \in {"idle", "install", "add", "save", "setup", "key"} :
          pc' = [pc EXCEPT ![p] = there]
    BY <1>2 DEF Register, StartRegister, InstallTunnel, AddNode, Save, Unsaved, Setup
  <2> QED
    BY <2>1, <2>2, Bystanding
<1> QED
  BY <1>1, <1>2

LEMMA EnableAccounts ==
  ASSUME IInv, NEW p \in Procs, EnableSSH(p) PROVE KeysAccounted'
<1>1. CASE StartEnable(p)
  <2>1. \A q \in Procs \ {p} : mine'[q] = mine[q]
    BY <1>1 DEF StartEnable, IInv, TypeOK
  <2> QED
    BY <1>1, <2>1, Bystanding DEF StartEnable, At, Goto, local, hist
<1>2. CASE InstallKey(p)
  <2> USE <1>2 DEF InstallKey, IInv, TypeOK, At, Goto, End, hist
  <2>1. CASE keys' = keys /\ keyAdded' = keyAdded
    BY <2>1, Bystanding
  <2>2. CASE keys' = keys \cup {mine[p]}
    <3>1. ASSUME NEW n \in keys' \ nodes', n \notin leftover'
          PROVE  Adding(n)' \/ Handled(n, {"rmkeys"})'
      <4>1. CASE n \notin keys
        <5>1. mine'[p] = n /\ pc'[p] = "grant" /\ keyAdded'[p]
          BY <2>2, <3>1, <4>1
        <5> QED
          BY <5>1 DEF Adding
      <4>2. CASE n \in keys
        <5>1. \A q \in Procs \ {p} : pc'[q] = pc[q] /\ keyAdded'[q] = keyAdded[q]
          OBVIOUS
        <5>2. Adding(n) \/ Handled(n, {"rmkeys"})
          BY <3>1, <4>2 DEF KeysAccounted
        <5> QED
          BY <5>1, <5>2 DEF Adding, Handled
      <4> QED
        BY <4>1, <4>2
    <3> QED
      BY <3>1 DEF KeysAccounted
  <2> QED
    BY <2>1, <2>2
<1>3. CASE GrantAccess(p)
  <2> USE <1>3 DEF GrantAccess, IInv, TypeOK, At, End, Goto
  <2>1. leftover \subseteq leftover' /\ keys' \subseteq keys
    BY DEF RollBack, Left
  <2>2. ASSUME NEW n \in keys' \ nodes', n \notin leftover' 
        PROVE  n # mine[p] \/ ~keyAdded[p]
    BY <2>2 DEF RollBack, Left
  <2>3. ASSUME NEW n \in keys' \ nodes', n \notin leftover'
        PROVE  Adding(n)' \/ Handled(n, {"rmkeys"})'
    <3>1. n \in keys \ nodes /\ n \notin leftover
      BY <2>1, <2>3
    <3>2. CASE Adding(n)
      <4>1. PICK q \in Procs : mine[q] = n /\ pc[q] = "grant" /\ keyAdded[q]
        BY <3>2 DEF Adding
      <4>2. q # p
        BY <4>1, <2>2, <2>3
      <4> QED
        BY <4>1, <4>2 DEF Adding
    <3>3. CASE Handled(n, {"rmkeys"})
      BY <3>3 DEF Handled
    <3> QED
      BY <3>1, <3>2, <3>3 DEF KeysAccounted
  <2> QED
    BY <2>3 DEF KeysAccounted
<1> QED
  BY <1>1, <1>2, <1>3 DEF EnableSSH

LEMMA DeregisterAccounts ==
  ASSUME IInv, NEW p \in Procs, Deregister(p) PROVE KeysAccounted'
<1>1. CASE StartDeregister(p)
  <2>1. \A q \in Procs \ {p} : mine'[q] = mine[q]
    BY <1>1 DEF StartDeregister, IInv, TypeOK
  <2> QED
    BY <1>1, <2>1, Bystanding DEF StartDeregister, At, Goto, local, hist
<1>2. CASE RemoveNode(p)
  BY <1>2 DEF RemoveNode, StopHere, IInv, TypeOK, KeysAccounted, Adding, Handled,
       At, Goto, End, local
<1>3. CASE RemoveKeys(p)
  <2> USE <1>3 DEF RemoveKeys, IInv, TypeOK, At, Goto
  <2>1. \A n \in keys' \ nodes' : n \in leftover'
    BY DEF ClearKeys, Left
  <2> QED
    BY <2>1 DEF KeysAccounted
<1>4. CASE Uninstall(p)
  BY <1>4, Bystanding DEF Uninstall, At, Goto, hist
<1>5. CASE DeleteReg(p)
  BY <1>5, Bystanding DEF DeleteReg, At, Goto, End
<1> QED
  BY <1>1, <1>2, <1>3, <1>4, <1>5 DEF Deregister

LEMMA KillAccounts ==
  ASSUME IInv, NEW p \in Procs, Kill(p) PROVE KeysAccounted'
<1> USE DEF Kill, IInv, TypeOK, At, End, Goto
<1>1. /\ keys' = keys /\ nodes' = nodes /\ mine' = mine /\ keyAdded' = keyAdded
      /\ leftover \subseteq leftover'
  BY DEF Left
<1>2. CASE pc[p] \in {"grant", "rmkeys"}
  <2>1. mine[p] \notin nodes => mine[p] \in leftover'
    BY <1>2 DEF Left
  <2>2. \A q \in Procs \ {p} : pc'[q] = pc[q]
    OBVIOUS
  <2> QED
    BY <1>1, <2>1, <2>2 DEF KeysAccounted, Adding, Handled
<1>3. CASE pc[p] \notin {"grant", "rmkeys"}
  BY <1>1, <1>3, Bystanding
<1> QED
  BY <1>2, <1>3

LEMMA NextIInv == IInv /\ [Next]_vars => IInv'
<1> SUFFICES ASSUME IInv, [Next]_vars PROVE IInv'
  OBVIOUS
<1>1. KeysAccounted'
  BY StutterIInv, RegisterAccounts, EnableAccounts, DeregisterAccounts,
     KillAccounts DEF Next, IInv
<1> QED
  BY <1>1, Types, GoneStays DEF IInv

THEOREM Inductive == Spec => []IInv
  BY InitIInv, NextIInv, PTL DEF Spec

(* NodeRegistration's state stays well typed for any number of processes.  *)
THEOREM TypeCorrect == Spec => []TypeOK
<1>1. IInv => TypeOK
  BY DEF IInv
<1> QED
  BY <1>1, Inductive, PTL

(* Managed keys do not outlive their node unless their removal failed,     *)
(* however many commands run on the machine at once.                       *)
THEOREM KeysCorrect == Spec => []KeysOutliveNode
<1>1. IInv => KeysOutliveNode
  BY DEF IInv, KeysAccounted, KeysOutliveNode, Adding, Handled, At
<1> QED
  BY <1>1, Inductive, PTL

-----------------------------------------------------------------------------
(* A node that is about to be saved is nobody else's yet.  This is what    *)
(* FileOutlivesNode needs to be inductive: no deregistration can remove    *)
(* the node between AddNode and Save.                                      *)
Unshared(p) ==
  /\ mine[p] \in nodes /\ mine[p] # reg /\ mine[p] \notin keys
  /\ \A q \in Procs \ {p} : mine[q] # mine[p]

Fresh == \A p \in Procs : At(p, "save") => Unshared(p)

FInv == IInv /\ Fresh /\ FileOutlivesNode

(* A node whose answer or file was lost is known to nobody.                *)
Lost ==
  /\ reg \notin orphans /\ keys \cap orphans = {}
  /\ \A n \in orphans : n < nextId
  /\ \A p \in Procs : pc[p] \notin {"idle", "install", "add"}
                        => mine[p] \notin orphans

LInv == FInv /\ Lost

LEMMA NoIds == None \notin Ids /\ Torn \notin Ids
  BY DEF None, Torn, Ids

(* One registrar: what it found when it started still holds when it acts.  *)
Sole == \A p, q \in Registrars : p = q

Roles  == \A p \in Procs \ Registrars : pc[p] \in {"idle", "key", "grant"}
Clear  == \A p \in Registrars :
            pc[p] \in {"install", "add", "save"} => reg = None
Loaded == \A p \in Registrars :
            pc[p] \in {"remove"} \cup Cleanup => reg = mine[p]

SInv == Sole /\ LInv /\ Roles /\ Clear /\ Loaded /\ NodeTracked
-----------------------------------------------------------------------------
(* Where the commands may be, one group of steps at a time.                *)

LEMMA RegisterFresh ==
  ASSUME FInv, NEW p \in Procs, Register(p) PROVE Fresh'
<1> USE DEF FInv, IInv, TypeOK, Issued, RegIssued, KeysIssued, Fresh, Unshared,
            At, Goto, End, Ids, local, hist
<1>1. CASE StartRegister(p)
  BY <1>1, NoIds DEF StartRegister
<1>2. CASE CheckExisting(p)
  BY <1>2 DEF CheckExisting
<1>3. CASE InstallTunnel(p)
  BY <1>3 DEF InstallTunnel
<1>4. CASE AddNode(p)
  BY <1>4 DEF AddNode
<1>5. CASE Save(p)
  BY <1>5, NoIds DEF Save, Unsaved
<1>6. CASE Setup(p)
  BY <1>6 DEF Setup
<1> QED
  BY <1>1, <1>2, <1>3, <1>4, <1>5, <1>6 DEF Register

LEMMA EnableFresh ==
  ASSUME FInv, NEW p \in Procs, EnableSSH(p) PROVE Fresh'
<1> USE DEF FInv, IInv, TypeOK, Fresh, Unshared, At, Goto, End, local, hist
<1>1. CASE StartEnable(p)
  BY <1>1 DEF StartEnable
<1>2. CASE InstallKey(p)
  BY <1>2 DEF InstallKey
<1>3. CASE GrantAccess(p)
  BY <1>3 DEF GrantAccess, RollBack, Left
<1> QED
  BY <1>1, <1>2, <1>3 DEF EnableSSH

LEMMA DeregisterFresh ==
  ASSUME FInv, NEW p \in Procs, Deregister(p) PROVE Fresh'
<1> USE DEF FInv, IInv, TypeOK, Fresh, Unshared, At, Goto, End, local, hist
<1>1. CASE StartDeregister(p)
  BY <1>1 DEF StartDeregister
<1>2. CASE RemoveNode(p)
  BY <1>2 DEF RemoveNode, StopHere
<1>3. CASE RemoveKeys(p)
  BY <1>3 DEF RemoveKeys, ClearKeys, Left
<1>4. CASE Uninstall(p)
  BY <1>4 DEF Uninstall
<1>5. CASE DeleteReg(p)
  BY <1>5, NoIds DEF DeleteReg, DropFile
<1> QED
  BY <1>1, <1>2, <1>3, <1>4, <1>5 DEF Deregister

LEMMA KillFresh ==
  ASSUME FInv, NEW p \in Procs, Kill(p) PROVE Fresh'
  BY NoIds DEF FInv, IInv, TypeOK, Fresh, Unshared, At, End, Goto, Kill, Left

LEMMA NextFresh == FInv /\ [Next]_vars => Fresh'
<1> SUFFICES ASSUME FInv, [Next]_vars PROVE Fresh'
  OBVIOUS
<1>1. CASE UNCHANGED vars
  BY <1>1 DEF vars, local, hist, FInv, Fresh, Unshared, At
<1>2. CASE Next
  BY <1>2, RegisterFresh, EnableFresh, DeregisterFresh, KillFresh DEF Next
<1> QED
  BY <1>1, <1>2
-----------------------------------------------------------------------------
(* A step that keeps the file, the nodes and what the others work on, and  *)
(* ends no clean-up, keeps the file accounted for.                         *)
LEMMA FileBystanding ==
  ASSUME FInv, NEW p \in Procs, reg' = reg, nodes \subseteq nodes',
         stale \subseteq stale', pc[p] \notin Cleanup,
         \A q \in Procs \ {p} : pc'[q] = pc[q] /\ mine'[q] = mine[q]
  PROVE  FileOutlivesNode'
  BY NoIds DEF FInv, FileOutlivesNode, Handled

LEMMA RegisterFile ==
  ASSUME FInv, NEW p \in Procs, Register(p) PROVE FileOutlivesNode'
<1> USE DEF FInv, IInv, TypeOK, At, Goto, End, local, hist
<1>1. CASE CheckExisting(p)
  BY <1>1 DEF CheckExisting, FileOutlivesNode, Handled
<1>2. CASE Save(p) /\ reg' # reg
  BY <1>2, NoIds DEF Save, Unsaved, Fresh, Unshared, FileOutlivesNode
<1>3. CASE ~CheckExisting(p) /\ reg' = reg
  <2>1. pc[p] \notin Cleanup /\ nodes \subseteq nodes' /\ stale' = stale
    BY <1>3 DEF Register, StartRegister, InstallTunnel, AddNode, Save, Unsaved,
         Setup, Cleanup
  <2>2. \A q \in Procs \ {p} : pc'[q] = pc[q] /\ mine'[q] = mine[q]
    BY <1>3 DEF Register, StartRegister, InstallTunnel, AddNode, Save, Unsaved,
         Setup
  <2> QED
    BY <1>3, <2>1, <2>2, FileBystanding
<1> QED
  BY <1>1, <1>2, <1>3 DEF Register, StartRegister, InstallTunnel, AddNode, Setup

LEMMA EnableFile ==
  ASSUME FInv, NEW p \in Procs, EnableSSH(p) PROVE FileOutlivesNode'
<1> USE DEF FInv, IInv, TypeOK, At, Goto, End, local, hist
<1>1. reg' = reg /\ nodes' = nodes /\ stale' = stale /\ pc[p] \notin Cleanup
  BY DEF EnableSSH, StartEnable, InstallKey, GrantAccess, Cleanup
<1>2. \A q \in Procs \ {p} : pc'[q] = pc[q] /\ mine'[q] = mine[q]
  BY DEF EnableSSH, StartEnable, InstallKey, GrantAccess
<1> QED
  BY <1>1, <1>2, FileBystanding

LEMMA DeregisterFile ==
  ASSUME FInv, NEW p \in Procs, Deregister(p) PROVE FileOutlivesNode'
<1> USE DEF FInv, IInv, TypeOK, FileOutlivesNode, Handled, At, Goto, End, local,
            hist, Cleanup
<1>1. CASE StartDeregister(p)
  BY <1>1 DEF StartDeregister
<1>2. CASE RemoveNode(p)
  BY <1>2 DEF RemoveNode, StopHere
<1>3. CASE RemoveKeys(p)
  BY <1>3 DEF RemoveKeys
<1>4. CASE Uninstall(p)
  BY <1>4 DEF Uninstall
<1>5. CASE DeleteReg(p)
  BY <1>5, NoIds DEF DeleteReg, DropFile
<1> QED
  BY <1>1, <1>2, <1>3, <1>4, <1>5 DEF Deregister

LEMMA KillFile ==
  ASSUME FInv, NEW p \in Procs, Kill(p) PROVE FileOutlivesNode'
<1>1. /\ nodes' = nodes /\ mine' = mine /\ reg' \in {reg, Torn}
      /\ stale \subseteq stale'
      /\ pc[p] \in Cleanup => mine[p] \in stale'
      /\ \A q \in Procs \ {p} : pc'[q] = pc[q]
  BY DEF Kill, End, Goto, Cleanup, FInv, IInv, TypeOK
<1> QED
  BY <1>1, NoIds DEF FInv, FileOutlivesNode, Handled

LEMMA NextFInv == FInv /\ [Next]_vars => FInv'
<1> SUFFICES ASSUME FInv, [Next]_vars PROVE FInv'
  OBVIOUS
<1>1. FileOutlivesNode'
  <2>1. CASE UNCHANGED vars
    BY <2>1 DEF vars, local, hist, FInv, FileOutlivesNode, Handled
  <2>2. CASE Next
    BY <2>2, RegisterFile, EnableFile, DeregisterFile, KillFile DEF Next
  <2> QED
    BY <2>1, <2>2
<1> QED
  BY <1>1, NextIInv, NextFresh DEF FInv

LEMMA InitFInv == Init => FInv
<1> SUFFICES ASSUME Init PROVE Fresh /\ FileOutlivesNode
  BY InitIInv DEF FInv
<1> QED
  BY NoIds DEF Init, Fresh, FileOutlivesNode, At

THEOREM FileInductive == Spec => []FInv
  BY InitFInv, NextFInv, PTL DEF Spec

(* However many commands run on the machine at once, a registration file   *)
(* does not outlive its node except after a deregistration cut short.      *)
THEOREM FileCorrect == Spec => []FileOutlivesNode
<1>1. FInv => FileOutlivesNode
  BY DEF FInv
<1> QED
  BY <1>1, FileInductive, PTL

-----------------------------------------------------------------------------
(* What was lost stays lost.                                               *)

LEMMA RegisterLost ==
  ASSUME LInv, NEW p \in Procs, Register(p) PROVE Lost'
<1> USE DEF LInv, FInv, IInv, TypeOK, Lost, At, Goto, End, local, hist
<1>1. CASE StartRegister(p)
  BY <1>1 DEF StartRegister
<1>2. CASE CheckExisting(p)
  BY <1>2 DEF CheckExisting
<1>3. CASE InstallTunnel(p)
  BY <1>3 DEF InstallTunnel
<1>4. CASE AddNode(p)
  <2> USE <1>4 DEF AddNode
  <2>1. orphans' \subseteq orphans \cup {nextId} /\ reg' = reg /\ keys' = keys
        /\ nextId' \in {nextId, nextId + 1}
        /\ (nextId' = nextId => orphans' = orphans)
    OBVIOUS
  <2>2. \A q \in Procs : mine[q] # nextId
    BY DEF Issued
  <2>3. nextId \notin orphans /\ nextId \notin keys /\ reg # nextId
    BY DEF RegIssued, KeysIssued
  <2>4. \A n \in orphans' : n < nextId'
    <3>1. CASE nextId' = nextId
      BY <2>1, <3>1
    <3>2. CASE nextId' = nextId + 1
      <4>1. \A n \in orphans : n \in Nat /\ n < nextId + 1
        BY DEF Ids
      <4> QED
        BY <2>1, <3>2, <4>1
    <3> QED
      BY <2>1, <3>1, <3>2
  <2>5. \A q \in Procs : pc'[q] \notin {"idle", "install", "add"}
                          => mine'[q] \notin orphans'
    <3> TAKE q \in Procs
    <3>1. CASE q = p
      BY <3>1, <2>3
    <3>2. CASE q # p
      <4>1. pc'[q] = pc[q] /\ mine'[q] = mine[q]
        BY <3>2
      <4> QED
        BY <4>1, <2>1, <2>2
    <3> QED
      BY <3>1, <3>2
  <2> QED
    BY <2>1, <2>3, <2>4, <2>5
<1>5. CASE Save(p)
  BY <1>5, NoIds DEF Save, Unsaved, Fresh, Unshared, Working, Issued
<1>6. CASE Setup(p)
  BY <1>6 DEF Setup
<1> QED
  BY <1>1, <1>2, <1>3, <1>4, <1>5, <1>6 DEF Register

LEMMA EnableLost ==
  ASSUME LInv, NEW p \in Procs, EnableSSH(p) PROVE Lost'
<1> USE DEF LInv, FInv, IInv, TypeOK, Lost, At, Goto, End, local, hist
<1>1. CASE StartEnable(p)
  BY <1>1 DEF StartEnable
<1>2. CASE InstallKey(p)
  BY <1>2 DEF InstallKey
<1>3. CASE GrantAccess(p)
  BY <1>3 DEF GrantAccess, RollBack, Left
<1> QED
  BY <1>1, <1>2, <1>3 DEF EnableSSH

LEMMA DeregisterLost ==
  ASSUME LInv, NEW p \in Procs, Deregister(p) PROVE Lost'
<1> USE DEF LInv, FInv, IInv, TypeOK, Lost, At, Goto, End, local, hist
<1>1. CASE StartDeregister(p)
  BY <1>1 DEF StartDeregister
<1>2. CASE RemoveNode(p)
  BY <1>2 DEF RemoveNode, StopHere
<1>3. CASE RemoveKeys(p)
  BY <1>3 DEF RemoveKeys, ClearKeys, Left
<1>4. CASE Uninstall(p)
  BY <1>4 DEF Uninstall
<1>5. CASE DeleteReg(p)
  BY <1>5, NoIds DEF DeleteReg, DropFile
<1> QED
  BY <1>1, <1>2, <1>3, <1>4, <1>5 DEF Deregister

LEMMA KillLost ==
  ASSUME LInv, NEW p \in Procs, Kill(p) PROVE Lost'
<1> USE DEF LInv, FInv, IInv, TypeOK, Lost, At, End, Goto
<1>1. /\ keys' = keys /\ mine' = mine /\ nextId' = nextId
      /\ pc' = [pc EXCEPT ![p] = "idle"]
      /\ reg' \in {reg, Torn}
  BY DEF Kill, Left
<1>2. CASE At(p, "save")
  <2>1. orphans' = orphans \cup {mine[p]}
    BY <1>2 DEF Kill
  <2> QED
    BY <1>1, <1>2, <2>1, NoIds DEF Fresh, Unshared, Working, Issued
<1>3. CASE ~At(p, "save")
  BY <1>1, <1>3 DEF Kill
<1> QED
  BY <1>2, <1>3

LEMMA NextLInv == LInv /\ [Next]_vars => LInv'
<1> SUFFICES ASSUME LInv, [Next]_vars PROVE LInv'
  OBVIOUS
<1>1. Lost'
  <2>1. CASE UNCHANGED vars
    BY <2>1 DEF vars, local, hist, LInv, Lost
  <2>2. CASE Next
    BY <2>2, RegisterLost, EnableLost, DeregisterLost, KillLost DEF Next
  <2> QED
    BY <2>1, <2>2
<1> QED
  BY <1>1, NextFInv DEF LInv
-----------------------------------------------------------------------------
(* One registrar at a time.                                                *)

Alone == Roles /\ Clear /\ Loaded /\ NodeTracked

LEMMA RegisterAlone ==
  ASSUME SInv, NEW p \in Registrars, Register(p) PROVE Alone'
<1> USE DEF Sole, SInv, LInv, FInv, IInv, TypeOK, Alone, Roles, Clear, Loaded,
            Cleanup, NodeTracked, Handled, At, Goto, End, local, hist
<1>1. CASE StartRegister(p)
  BY <1>1 DEF StartRegister, NotRegistered
<1>2. CASE CheckExisting(p)
  BY <1>2 DEF CheckExisting
<1>3. CASE InstallTunnel(p)
  BY <1>3 DEF InstallTunnel
<1>4. CASE AddNode(p)
  BY <1>4 DEF AddNode
<1>5. CASE Save(p)
  BY <1>5, NoIds DEF Save, Unsaved
<1>6. CASE Setup(p)
  BY <1>6 DEF Setup
<1> QED
  BY <1>1, <1>2, <1>3, <1>4, <1>5, <1>6 DEF Register

LEMMA EnableAlone ==
  ASSUME SInv, NEW p \in Procs, EnableSSH(p) PROVE Alone'
<1> USE DEF SInv, LInv, FInv, IInv, TypeOK, Alone, Roles, Clear, Loaded,
            Cleanup, NodeTracked, Handled, At, Goto, End, local, hist
<1>1. CASE StartEnable(p)
  BY <1>1 DEF StartEnable
<1>2. CASE InstallKey(p)
  BY <1>2 DEF InstallKey
<1>3. CASE GrantAccess(p)
  BY <1>3 DEF GrantAccess
<1> QED
  BY <1>1, <1>2, <1>3 DEF EnableSSH

LEMMA DeregisterAlone ==
  ASSUME SInv, NEW p \in Registrars, Deregister(p) PROVE Alone'
<1> USE DEF Sole, SInv, LInv, FInv, IInv, TypeOK, Alone, Roles, Clear, Loaded,
            Cleanup, NodeTracked, Handled, At, Goto, End, local, hist
<1>1. CASE StartDeregister(p)
  BY <1>1 DEF StartDeregister
<1>2. CASE RemoveNode(p)
  BY <1>2 DEF RemoveNode, StopHere
<1>3. CASE RemoveKeys(p)
  BY <1>3 DEF RemoveKeys
<1>4. CASE Uninstall(p)
  BY <1>4 DEF Uninstall
<1>5. CASE DeleteReg(p)
  BY <1>5, NoIds DEF DeleteReg, DropFile, Gone
<1> QED
  BY <1>1, <1>2, <1>3, <1>4, <1>5 DEF Deregister

LEMMA KillAlone ==
  ASSUME SInv, NEW p \in Procs, Kill(p) PROVE Alone'
<1> USE DEF Sole, SInv, LInv, FInv, IInv, TypeOK, Alone, Roles, Clear, Loaded,
            Cleanup, NodeTracked, Handled, At, End, Goto
<1>1. /\ nodes' = nodes /\ mine' = mine
      /\ pc' = [pc EXCEPT ![p] = "idle"]
  BY DEF Kill
<1>2. CASE At(p, "save")
  <2>1. orphans' = orphans \cup {mine[p]} /\ reg = None
    BY <1>2 DEF Kill
  <2>2. p \in Registrars /\ \A q \in Registrars : q = p
    BY <1>2
  <2> QED
    BY <1>1, <1>2, <2>1, <2>2, NoIds
<1>3. CASE ~At(p, "save")
  <2>1. orphans' = orphans /\ reg' = reg
    BY <1>3 DEF Kill
  <2> QED
    BY <1>1, <1>3, <2>1
<1> QED
  BY <1>2, <1>3

LEMMA NextSInv == SInv /\ [Next]_vars => SInv'
<1> SUFFICES ASSUME SInv, [Next]_vars PROVE SInv'
  OBVIOUS
<1>1. Alone'
  <2>1. CASE UNCHANGED vars
    BY <2>1 DEF vars, local, hist, SInv, Alone, Roles, Clear, Loaded,
         NodeTracked, Handled
  <2>2. CASE Next
    BY <2>2, RegisterAlone, EnableAlone, DeregisterAlone, KillAlone DEF Next
  <2> QED
    BY <2>1, <2>2
<1>2. Sole'
  BY DEF SInv, Sole
<1> QED
  BY <1>1, <1>2, NextLInv DEF SInv, Alone

LEMMA InitSInv == Sole /\ Init => SInv
<1> SUFFICES ASSUME Init PROVE Lost /\ Roles /\ Clear /\ Loaded /\ NodeTracked
  BY InitFInv DEF SInv, LInv
<1> QED
  BY DEF Init, Lost, Roles, Clear, Loaded, NodeTracked, Cleanup

THEOREM SoleInductive == Sole /\ Spec => []SInv
  BY InitSInv, NextSInv, PTL DEF Spec

(* With one registrar at a time, beside any number of enable-ssh commands, *)
(* a node that devplane lists is in the file or being saved, unless the    *)
(* answer to AddNode or the file was lost.                                 *)
THEOREM TrackedCorrect == Sole /\ Spec => []NodeTracked
<1>1. SInv => NodeTracked
  BY DEF SInv
<1> QED
  BY <1>1, SoleInductive, PTL

(* No clean-up meets a node that devplane still lists: the keys it clears  *)
(* are of nodes that are gone.                                             *)
LEMMA CleanupFindsNone ==
  ASSUME SInv, NEW p \in Registrars, pc[p] \in Cleanup
  PROVE  reg \notin nodes /\ keys \cap nodes = {}
<1>1. reg = mine[p] /\ reg \notin nodes
  BY DEF SInv, Loaded, LInv, FInv, IInv, Gone
<1>2. \A q \in Procs : pc[q] # "save"
  BY DEF Sole, SInv, Roles, Cleanup
<1> QED
  BY <1>1, <1>2 DEF SInv, NodeTracked, Handled, LInv, Lost

LEMMA StepCleansUp ==
  ASSUME SInv, Next, NEW n \in nodes
  PROVE  /\ n = reg => reg' = reg /\ (tunnel' = "absent" => tunnel = "absent")
         /\ n \in keys /\ n \notin keys' => \E p \in Procs : At(p, "grant")
<1> USE DEF SInv, LInv, FInv, IInv, TypeOK, At, Goto, End, local, hist
<1>1. ASSUME NEW p \in Registrars, Register(p)
      PROVE  /\ n = reg => reg' = reg /\ (tunnel' = "absent" => tunnel = "absent")
             /\ keys' = keys
  <2>1. n = reg => reg' = reg
    BY <1>1, NoIds DEF Register, StartRegister, CheckExisting, InstallTunnel,
         AddNode, Save, Unsaved, Setup, Clear
  <2>2. keys' = keys /\ (tunnel' = "absent" => tunnel = "absent")
    BY <1>1 DEF Register, StartRegister, CheckExisting, InstallTunnel, AddNode,
         Save, Unsaved, Setup
  <2> QED
    BY <2>1, <2>2
<1>2. ASSUME NEW p \in Registrars, Deregister(p)
      PROVE  /\ n = reg => reg' = reg /\ (tunnel' = "absent" => tunnel = "absent")
             /\ n \in keys => n \in keys'
  <2>1. CASE pc[p] \in Cleanup
    <3>1. n # reg /\ n \notin keys
      BY <2>1, CleanupFindsNone
    <3> QED
      BY <3>1
  <2>2. CASE pc[p] \notin Cleanup
    BY <1>2, <2>2 DEF Deregister, StartDeregister, RemoveNode, StopHere,
       RemoveKeys, Uninstall, DeleteReg, Cleanup
  <2> QED
    BY <2>1, <2>2
<1>3. ASSUME NEW p \in Procs, EnableSSH(p)
      PROVE  /\ reg' = reg /\ tunnel' = tunnel
             /\ n \in keys /\ n \notin keys' => At(p, "grant")
  BY <1>3 DEF EnableSSH, StartEnable, InstallKey, GrantAccess
<1>4. ASSUME NEW p \in Procs, Kill(p)
      PROVE  (n = reg => reg' = reg) /\ tunnel' = tunnel /\ keys' = keys
  BY <1>4, NoIds DEF Kill, Left, Roles, Clear
<1> QED
  BY <1>1, <1>2, <1>3, <1>4 DEF Next

(* With one registrar at a time, local state is taken down only after      *)
(* devplane gave the node up, and keys of a live node are removed only by  *)
(* the command that is granting access to it.                              *)
THEOREM CleanupCorrect == Sole /\ Spec => CleanupAfterRemoval
<1>1. SInv /\ [Next]_vars =>
        [\A n \in nodes :
           /\ n = reg => reg' = reg /\ (tunnel' = "absent" => tunnel = "absent")
           /\ n \in keys /\ n \notin keys' => \E p \in Procs : At(p, "grant")]_vars
  BY StepCleansUp
<1> QED
  BY <1>1, SoleInductive, PTL DEF Spec, CleanupAfterRemoval

-----------------------------------------------------------------------------
(* With one registrar the machine lives one node after the other: every    *)
(* step is a step of NodeLife or leaves what NodeLife sees alone.  Roles   *)
(* and Clear say that nobody saves while a node is kept, Loaded and Gone   *)
(* that the file DeleteReg removes is of a node that is gone.              *)

\* What a process that leaves "save" alone does to what is held.
LEMMA HeldByOthers ==
  ASSUME TypeOK, NEW p \in Procs, ~At(p, "save"), ~At(p, "save")',
         \A q \in Procs \ {p} : pc'[q] = pc[q] /\ mine'[q] = mine[q]
  PROVE  Held' = Held
<1>1. \A q \in Procs : At(q, "save")' <=> At(q, "save")
  BY DEF At
<1>2. \A q \in Saving : mine'[q] = mine[q]
  BY DEF Saving
<1>3. Saving' = Saving
  BY <1>1 DEF Saving
<1> QED
  BY <1>2, <1>3 DEF Held

\* The one registrar is the only one that can be saving.
LEMMA HeldByOne ==
  ASSUME SInv, NEW p \in Registrars
  PROVE  Held = IF At(p, "save") THEN {mine[p]} ELSE {}
<1>1. \A q \in Procs : At(q, "save") => q = p
  BY DEF SInv, Sole, Roles, At
<1>2. Saving = IF At(p, "save") THEN {p} ELSE {}
  BY <1>1, NodeRegistrationConstants DEF Saving
<1> QED
  BY <1>2 DEF Held

LEMMA RegisterLives ==
  ASSUME SInv, NEW p \in Registrars, Register(p)
  PROVE  Life!LNext \/ UNCHANGED Life!lvars
<1> USE DEF SInv, LInv, FInv, IInv, TypeOK, Life!LNext, Life!lvars
<1>0. p \in Procs /\ Held = IF At(p, "save") THEN {mine[p]} ELSE {}
  BY HeldByOne, NodeRegistrationConstants
<1>1. \A q \in Procs \ {p} : pc'[q] = pc[q] /\ mine'[q] = mine[q]
  BY <1>0 DEF Register, StartRegister, CheckExisting, InstallTunnel, AddNode, Save,
         Unsaved, Setup, Goto, End
<1>2. Held' = IF At(p, "save")' THEN {mine'[p]} ELSE {}
  <2>1. \A q \in Procs : At(q, "save")' => q = p
    BY <1>1 DEF Sole, Roles, At
  <2>2. Saving' = IF At(p, "save")' THEN {p} ELSE {}
    BY <1>0, <2>1 DEF Saving
  <2> QED
    BY <2>2 DEF Held
<1>3. CASE StartRegister(p) \/ CheckExisting(p) \/ InstallTunnel(p) \/ Setup(p)
  <2>1. ~At(p, "save") /\ ~At(p, "save")'
    BY <1>0, <1>3 DEF StartRegister, CheckExisting, InstallTunnel, Setup, At, Goto, End
  <2>2. UNCHANGED <<nextId, nodes, reg>>
    BY <1>3 DEF StartRegister, CheckExisting, InstallTunnel, Setup, local
  <2> QED
    BY <1>0, <1>2, <2>1, <2>2 DEF Kept, Loadable
<1>4. CASE AddNode(p)
  <2>1. Kept = None /\ Kept' = None
    BY <1>4, NoIds DEF AddNode, Clear, At, local, Kept, Loadable
  <2>2. CASE nextId' = nextId
    <3>1. nodes' = nodes /\ ~At(p, "save") /\ ~At(p, "save")'
      BY <1>0, <1>4, <2>2 DEF AddNode, At, Goto, End
    <3> QED
      BY <1>0, <1>2, <2>1, <2>2, <3>1
  <2>3. CASE nextId' = nextId + 1
    <3>1. /\ nodes' = nodes \cup {nextId} /\ ~At(p, "save")
          /\ At(p, "save")' => mine'[p] = nextId
      BY <1>0, <1>4, <2>3 DEF AddNode, At, Goto, End
    <3>2. Held = {} /\ Held' \in {{}, {nextId}}
      BY <1>0, <1>2, <3>1
    <3>3. nextId' - 1 = (nextId - 1) + 1 /\ nextId' - 1 = nextId
      BY <2>3
    <3> QED
      BY <2>1, <3>1, <3>2, <3>3 DEF Life!Add
  <2> QED
    BY <1>4, <2>2, <2>3 DEF AddNode
<1>5. CASE Save(p)
  <2>1. /\ Held = {mine[p]} /\ Held' = {} /\ mine[p] \in Ids /\ reg = None
        /\ UNCHANGED <<nextId, nodes>>
    BY <1>0, <1>2, <1>5 DEF Save, Unsaved, At, Goto, End, Working, Clear
  <2>2. CASE reg' = mine[p]
    <3>1. Kept' = mine[p]
      BY <2>1, <2>2 DEF Kept, Loadable
    <3> QED
      BY <2>1, <3>1 DEF Life!Keep
  <2>3. CASE reg' \in {reg, Torn}
    <3>1. Kept' = Kept
      BY <2>1, <2>3, NoIds DEF Kept, Loadable
    <3> QED
      BY <2>1, <3>1 DEF Life!Lose
  <2> QED
    BY <1>5, <2>2, <2>3 DEF Save, Unsaved
<1> QED
  BY <1>3, <1>4, <1>5 DEF Register

LEMMA DeregisterLives ==
  ASSUME SInv, NEW p \in Registrars, Deregister(p)
  PROVE  Life!LNext \/ UNCHANGED Life!lvars
<1> USE DEF SInv, LInv, FInv, IInv, TypeOK, Life!LNext, Life!lvars
<1>0. p \in Procs
  BY NodeRegistrationConstants
<1>1. ~At(p, "save") /\ ~At(p, "save")' /\ nextId' = nextId
      /\ \A q \in Procs \ {p} : pc'[q] = pc[q] /\ mine'[q] = mine[q]
  BY <1>0 DEF Deregister, StartDeregister, RemoveNode, RemoveKeys, Uninstall,
              DeleteReg, StopHere, At, Goto, End
<1>2. Held' = Held
  BY <1>0, <1>1, HeldByOthers
<1>3. CASE StartDeregister(p) \/ RemoveKeys(p) \/ Uninstall(p)
  <2>1. UNCHANGED <<nodes, reg>>
    BY <1>3 DEF StartDeregister, RemoveKeys, Uninstall, local
  <2> QED
    BY <1>1, <1>2, <2>1 DEF Kept, Loadable
<1>4. CASE RemoveNode(p)
  <2>1. reg = mine[p] /\ mine[p] \in Ids /\ reg' = reg
    BY <1>0, <1>4 DEF RemoveNode, At, Loaded, Working, local
  <2>2. Kept = mine[p] /\ Kept' = Kept
    BY <2>1 DEF Kept, Loadable
  <2>3. nodes' = nodes \/ (mine[p] \in nodes /\ nodes' = nodes \ {mine[p]})
    BY <1>4 DEF RemoveNode
  <2> QED
    BY <1>1, <1>2, <2>2, <2>3 DEF Life!Remove
<1>5. CASE DeleteReg(p)
  <2>1. reg = mine[p] /\ mine[p] \in Ids \ nodes
    BY <1>0, <1>5 DEF DeleteReg, At, Loaded, Working, Gone, Cleanup
  <2>2. nodes' = nodes /\ reg' \in {reg, None}
    BY <1>5 DEF DeleteReg, DropFile
  <2>3. Kept = mine[p] /\ (reg' = None => Kept' = None)
    BY <2>1, NoIds DEF Kept, Loadable
  <2>4. CASE reg' = None
    BY <1>1, <1>2, <2>1, <2>2, <2>3, <2>4, NoIds DEF Life!Forget
  <2>5. CASE reg' = reg
    BY <1>1, <1>2, <2>2, <2>5 DEF Kept, Loadable
  <2> QED
    BY <2>2, <2>4, <2>5
<1> QED
  BY <1>3, <1>4, <1>5 DEF Deregister

LEMMA EnableLives ==
  ASSUME SInv, NEW p \in Procs, EnableSSH(p)
  PROVE  UNCHANGED Life!lvars
<1> USE DEF SInv, LInv, FInv, IInv, TypeOK, Life!lvars
<1>1. ~At(p, "save") /\ ~At(p, "save")' /\ UNCHANGED <<nextId, nodes, reg>>
      /\ \A q \in Procs \ {p} : pc'[q] = pc[q] /\ mine'[q] = mine[q]
  BY DEF EnableSSH, StartEnable, InstallKey, GrantAccess, At, Goto, End, local
<1>2. Held' = Held
  BY <1>1, HeldByOthers
<1> QED
  BY <1>1, <1>2 DEF Kept, Loadable

LEMMA KillLives ==
  ASSUME SInv, NEW p \in Procs, Kill(p)
  PROVE  Life!LNext \/ UNCHANGED Life!lvars
<1> USE DEF SInv, LInv, FInv, IInv, TypeOK, Life!LNext, Life!lvars
<1>1. /\ UNCHANGED <<nextId, nodes, mine>> /\ ~At(p, "save")'
      /\ \A q \in Procs \ {p} : pc'[q] = pc[q] /\ mine'[q] = mine[q]
  BY DEF Kill, At, Goto, End
<1>2. CASE At(p, "save")
  <2>1. p \in Registrars /\ reg = None /\ reg' \in {None, Torn}
    BY <1>2 DEF Kill, Roles, Clear, At
  <2>2. Kept = None /\ Kept' = None
    BY <2>1, NoIds DEF Kept, Loadable
  <2>3. Held = {mine[p]}
    BY <1>2, <2>1, HeldByOne
  <2>4. \A q \in Procs : ~At(q, "save")'
    BY <1>1, <1>2, <2>1 DEF Sole, Roles, At
  <2>5. Held' = {}
    BY <2>4 DEF Held, Saving
  <2> QED
    BY <1>1, <2>2, <2>3, <2>5 DEF Life!Lose
<1>3. CASE ~At(p, "save")
  <2>1. reg' = reg
    BY <1>3 DEF Kill
  <2>2. Held' = Held
    BY <1>1, <1>3, HeldByOthers
  <2> QED
    BY <1>1, <2>1, <2>2 DEF Kept, Loadable
<1> QED
  BY <1>2, <1>3

(* Refinement: with one registrar beside any number of enable-ssh          *)
(* commands, killed and failing anywhere, register and deregister live one *)
(* node after the other, as NodeLife says.                                 *)
THEOREM RegistrationImplementsNodeLife == Sole /\ Spec => ImplementsNodeLife
<1>1. Init => Life!LInit
  BY NoIds DEF Init, Life!LInit, Held, Saving, At, Kept, Loadable
<1>2. SInv /\ [Next]_vars => [Life!LNext]_(Life!lvars)
  <2> SUFFICES ASSUME SInv, [Next]_vars
               PROVE  Life!LNext \/ UNCHANGED Life!lvars
    BY DEF Life!lvars
  <2>1. CASE UNCHANGED vars
    BY <2>1 DEF vars, local, Life!lvars, Held, Saving, At, Kept, Loadable
  <2>2. CASE Next
    BY <2>2, RegisterLives, DeregisterLives, EnableLives, KillLives DEF Next
  <2> QED
    BY <2>1, <2>2
<1> QED
  BY <1>1, <1>2, SoleInductive, PTL DEF Spec, ImplementsNodeLife, Life!LSpec
=============================================================================
