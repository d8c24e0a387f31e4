--------------------------- MODULE NodeRegistration ---------------------------
(***************************************************************************)
(* The life of one machine as a registered node: `brev register`           *)
(* (pkg/cmd/register/register.go), `brev enable-ssh` and `brev deregister` *)
(* (pkg/cmd/deregister/deregister.go), run by processes that may overlap   *)
(* and may be killed between any two steps.                                *)
(*                                                                         *)
(* Three places have to agree: the registration file, the tunnel and the   *)
(* managed keys of the machine, and the list of nodes devplane holds.      *)
(* Edits of authorized_keys are single steps here that succeed or change   *)
(* nothing: NodeSSHAccess has their reads, truncations and writes, and     *)
(* what is lost between them.                                              *)
(***************************************************************************)
EXTENDS Integers

CONSTANTS Procs,       \* CLI processes on the machine
          Registrars,  \* those that register and deregister; all enable SSH
          MaxNodes     \* AddNode calls explored

ASSUME NodeRegistrationConstants == Registrars \subseteq Procs /\ MaxNodes \in Nat

Ids  == 1 .. MaxNodes
None == 0            \* no registration file
Torn == -1           \* a file Load calls malformed

VARIABLES
  reg,       \* device_registration.json
  tunnel,    \* the Brev tunnel on this machine
  keys,      \* nodes with managed lines in authorized_keys
  nodes,     \* devplane: this machine's nodes
  nextId,
  pc, mine,  \* of each process, and the node it works on
  keyAdded,
  orphans,   \* history: nodes whose AddNode answer or file was lost
  stale,     \* history: nodes removed without their file being deleted
  leftover   \* history: nodes whose keys could not be removed

local == <<reg, tunnel, keys>>
hist  == <<orphans, stale, leftover>>
vars  == <<local, nodes, nextId, pc, mine, keyAdded, hist>>

Init ==
  /\ reg = None /\ tunnel \in {"absent", "up"} /\ keys = {}
  /\ nodes = {} /\ nextId = 1
  /\ pc = [p \in Procs |-> "idle"] /\ mine = [p \in Procs |-> None]
  /\ keyAdded = [p \in Procs |-> FALSE]
  /\ orphans = {} /\ stale = {} /\ leftover = {}

At(p, here)    == pc[p] = here
Goto(p, there) == pc' = [pc EXCEPT ![p] = there]
End(p)         == Goto(p, "idle")

\* Keys that stay although their node is gone: somebody's removal failed.
Left(some)     == keys' = keys /\ leftover' = leftover \cup (some \ nodes)
-----------------------------------------------------------------------------
\* registrationStore.Load.
Loadable == reg \in Ids

(* brev register *)

\* registrationStore.Exists decides.  Faulty: the file is never looked at.
NeverRegistered == TRUE
NotRegistered   == reg = None

\* runRegister, up to the registration steps.
StartRegister(p) ==
  /\ At(p, "idle") /\ NotRegistered
  /\ Goto(p, "install")
  /\ mine' = [mine EXCEPT ![p] = None]
  /\ UNCHANGED <<local, nodes, nextId, keyAdded, hist>>

\* checkExistingRegistration: at most it brings an installed tunnel up.
CheckExisting(p) ==
  /\ At(p, "idle") /\ Loadable /\ tunnel = "down"
  /\ tunnel' = "up"
  /\ UNCHANGED <<reg, keys, nodes, nextId, pc, mine, keyAdded, hist>>

\* netbird.Install and hardwareProfiler.Profile; either may fail.
InstallTunnel(p) ==
  /\ At(p, "install")
  /\ tunnel' \in {tunnel, IF tunnel = "absent" THEN "down" ELSE tunnel}
  /\ \/ End(p)
     \/ tunnel' # "absent" /\ Goto(p, "add")
  /\ UNCHANGED <<reg, keys, nodes, nextId, mine, keyAdded, hist>>

\* AddNode: refused, or served; the answer may be lost.
AddNode(p) ==
  /\ At(p, "add")
  /\ \/ End(p) /\ UNCHANGED <<nodes, nextId, mine, orphans>>
     \/ /\ nextId \in Ids
        /\ nodes' = nodes \cup {nextId} /\ nextId' = nextId + 1
        /\ \/ /\ mine' = [mine EXCEPT ![p] = nextId] /\ Goto(p, "save")
              /\ UNCHANGED orphans
           \/ /\ orphans' = orphans \cup {nextId} /\ End(p)
              /\ UNCHANGED mine
  /\ UNCHANGED <<local, keyAdded, stale, leftover>>

\* registrationStore.Save; a write that fails may leave half a file.
Unsaved(p) ==
  /\ reg' \in {reg, Torn} /\ End(p)
  /\ orphans' = orphans \cup {mine[p]}

Save(p) ==
  /\ At(p, "save")
  /\ \/ reg' = mine[p] /\ Goto(p, "setup") /\ UNCHANGED orphans
     \/ Unsaved(p)
  /\ UNCHANGED <<tunnel, keys, nodes, nextId, mine, keyAdded, stale, leftover>>

\* runSetup: `netbird up`, a warning if it fails; then SSH access, if wanted.
Setup(p) ==
  /\ At(p, "setup")
  /\ tunnel' \in {tunnel, IF tunnel = "absent" THEN tunnel ELSE "up"}
  /\ End(p) \/ Goto(p, "key")
  /\ UNCHANGED <<reg, keys, nodes, nextId, mine, keyAdded, hist>>
-----------------------------------------------------------------------------
(* SSH access: brev enable-ssh, and the end of brev register *)

StartEnable(p) ==
  /\ At(p, "idle") /\ Loadable
  /\ mine' = [mine EXCEPT ![p] = reg] /\ Goto(p, "key")
  /\ UNCHANGED <<local, nodes, nextId, keyAdded, hist>>

\* OpenPort, then InstallAuthorizedKey.
InstallKey(p) ==
  /\ At(p, "key")
  /\ \/ End(p) /\ UNCHANGED <<keys, keyAdded>>
     \/ /\ keyAdded' = [keyAdded EXCEPT ![p] = mine[p] \notin keys]
        /\ keys' = keys \cup {mine[p]} /\ Goto(p, "grant")
  /\ UNCHANGED <<reg, tunnel, nodes, nextId, mine, hist>>

\* The grant and its retries: devplane refuses it for a node it does not
\* have.  Faulty: a refused grant keeps the key.
KeepKey(p) == UNCHANGED <<keys, leftover>>
RollBack(p) ==
  IF keyAdded[p]
    THEN \/ keys' = keys \ {mine[p]} /\ UNCHANGED leftover
         \/ Left({mine[p]})
    ELSE UNCHANGED <<keys, leftover>>

GrantAccess(p) ==
  /\ At(p, "grant") /\ End(p)
  /\ \/ mine[p] \in nodes /\ UNCHANGED <<keys, leftover>>
     \/ RollBack(p)
     \/ Left({mine[p]})                                \* out of retries
  /\ UNCHANGED <<reg, tunnel, nodes, nextId, mine, keyAdded, orphans, stale>>
-----------------------------------------------------------------------------
(* brev deregister *)

StartDeregister(p) ==
  /\ At(p, "idle") /\ Loadable
  /\ mine' = [mine EXCEPT ![p] = reg] /\ Goto(p, "remove")
  /\ UNCHANGED <<local, nodes, nextId, keyAdded, hist>>

\* A RemoveNode that fails ends the command.  Faulty: it only warns.
CleanUpAnyway(p) == Goto(p, "rmkeys")
StopHere(p)      == End(p)

\* RemoveNode: served, served with the answer lost, or refused.
RemoveNode(p) ==
  /\ At(p, "remove")
  /\ \/ /\ mine[p] \in nodes
        /\ nodes' = nodes \ {mine[p]}
        /\ \/ Goto(p, "rmkeys") /\ UNCHANGED <<stale, leftover>>
           \/ /\ StopHere(p)
              /\ stale' = stale \cup {mine[p]}
              /\ leftover' = leftover \cup {mine[p]}
     \/ StopHere(p) /\ UNCHANGED <<nodes, stale, leftover>>
  /\ UNCHANGED <<local, nextId, mine, keyAdded, orphans>>

\* sshKeys.RemoveBrevKeys: every managed line; a failure is a warning.
\* Faulty: left out.
SkipKeys(p)  == UNCHANGED <<keys, leftover>>
ClearKeys(p) == \/ keys' = {} /\ UNCHANGED leftover
                \/ Left(keys)

RemoveKeys(p) ==
  /\ At(p, "rmkeys") /\ Goto(p, "untunnel")
  /\ ClearKeys(p)
  /\ UNCHANGED <<reg, tunnel, nodes, nextId, mine, keyAdded, orphans, stale>>

Uninstall(p) ==
  /\ At(p, "untunnel") /\ Goto(p, "delete")
  /\ tunnel' \in {tunnel, "absent"}
  /\ UNCHANGED <<reg, keys, nodes, nextId, mine, keyAdded, hist>>

\* registrationStore.Delete: whatever file is there; a failure is a warning.
\* Faulty: left out.
KeepFile == reg' = reg
DropFile == reg' = None

DeleteReg(p) ==
  /\ At(p, "delete") /\ End(p)
  /\ \/ DropFile /\ UNCHANGED stale
     \/ reg' = reg /\ stale' = stale \cup {mine[p]}
  /\ UNCHANGED <<tunnel, keys, nodes, nextId, mine, keyAdded, orphans, leftover>>
-----------------------------------------------------------------------------
\* A process is killed, in the middle of its current step or before it.
Kill(p) ==
  /\ ~At(p, "idle") /\ End(p)
  /\ reg' \in IF At(p, "save") THEN {reg, Torn} ELSE {reg}
  /\ orphans' = IF At(p, "save") THEN orphans \cup {mine[p]} ELSE orphans
  /\ stale' = IF pc[p] \in {"rmkeys", "untunnel", "delete"}
                THEN stale \cup {mine[p]} ELSE stale
  /\ IF pc[p] \in {"grant", "rmkeys"}
       THEN Left({mine[p]}) ELSE UNCHANGED <<keys, leftover>>
  /\ UNCHANGED <<tunnel, nodes, nextId, mine, keyAdded>>

Register(p)   == \/ StartRegister(p) \/ CheckExisting(p) \/ InstallTunnel(p)
                 \/ AddNode(p) \/ Save(p) \/ Setup(p)
EnableSSH(p)  == StartEnable(p) \/ InstallKey(p) \/ GrantAccess(p)
Deregister(p) == \/ StartDeregister(p) \/ RemoveNode(p) \/ RemoveKeys(p)
                 \/ Uninstall(p) \/ DeleteReg(p)

Next == \/ \E p \in Registrars : Register(p) \/ Deregister(p)
        \/ \E p \in Procs : EnableSSH(p) \/ Kill(p)
Spec == Init /\ [][Next]_vars
-----------------------------------------------------------------------------
Steps == {"idle", "install", "add", "save", "setup", "key", "grant",
          "remove", "rmkeys", "untunnel", "delete"}

TypeOK ==
  /\ reg \in {None, Torn} \cup Ids /\ tunnel \in {"absent", "down", "up"}
  /\ keys \subseteq Ids /\ nodes \subseteq Ids /\ nextId \in 1 .. MaxNodes + 1
  /\ pc \in [Procs -> Steps] /\ mine \in [Procs -> {None} \cup Ids]
  /\ keyAdded \in [Procs -> BOOLEAN]
  /\ orphans \subseteq Ids /\ stale \subseteq Ids /\ leftover \subseteq Ids

Handled(n, stages) == \E p \in Procs : mine[p] = n /\ pc[p] \in stages
Cleanup == {"rmkeys", "untunnel", "delete"}

(* The machine never forgets a node of its own: one that devplane lists is *)
(* in the file or being saved, unless the AddNode answer or the Save was   *)
(* lost.  It needs one registrar at a time: two that both find no file     *)
(* register the machine twice.                                             *)
NodeTracked ==
  \A n \in nodes : n = reg \/ n \in orphans \/ Handled(n, {"save"})

(* A file never outlives its node, except after a deregistration that was  *)
(* cut short: such a file blocks the next registration.                    *)
FileOutlivesNode ==
  reg \in Ids \ nodes => reg \in stale \/ Handled(reg, Cleanup)

(* Managed keys do not outlive their node, unless their removal failed.    *)
KeysOutliveNode ==
  \A n \in keys \ nodes : n \in leftover \/ Handled(n, {"grant", "rmkeys"})

(* Local state is taken down only after devplane gave the node up: a       *)
(* deregistration that failed remotely leaves a working node.              *)
CleanupAfterRemoval ==
  [][\A n \in nodes :
       /\ n = reg => reg' = reg /\ (tunnel' = "absent" => tunnel = "absent")
       /\ n \in keys /\ n \notin keys' => \E p \in Procs : At(p, "grant")]_vars

(* Seen from outside, register and deregister live one node after the      *)
(* other: none is added while one is kept or being saved, the file loses   *)
(* only a node that is gone, and no id comes back.  It needs one registrar *)
(* at a time, as NodeTracked does.                                         *)
Saving == {p \in Procs : At(p, "save")}
Held   == {mine[p] : p \in Saving}
Kept   == IF Loadable THEN reg ELSE None
Life   == INSTANCE NodeLife
  WITH born <- nextId - 1, live <- nodes, held <- Held, kept <- Kept
ImplementsNodeLife == Life!LSpec
=============================================================================
