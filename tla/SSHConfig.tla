------------------------------ MODULE SSHConfig ------------------------------
(***************************************************************************)
(* The SSH client configuration of the user: ~/.brev/ssh_config, which the *)
(* CLI owns and rewrites, the Include line it keeps in the user's own      *)
(* ~/.ssh/config, and the JetBrains list (pkg/ssh/sshconfigurer.go,        *)
(* pkg/cmd/refresh/refresh.go, pkg/ssh/tasks.go, pkg/store/ssh.go).        *)
(*                                                                         *)
(* Three kinds of process refresh it: `brev refresh`, the background       *)
(* daemons, and the commands that connect (shell, exec, copy), which first *)
(* wait for the instance and then run the refresh in a goroutine.  No lock *)
(* is taken.  A file is written by truncating it and then writing it, each *)
(* of which may fail, and a process can be killed between any two steps.   *)
(* The WSL copies, written after the rest and without effect on it, are    *)
(* left out, and the JetBrains list is there and can be written.           *)
(***************************************************************************)
EXTENDS Integers, Sequences, SequencesExt

CONSTANTS
  Clients,     \* processes of connecting commands
  Refreshers,  \* processes of `brev refresh`
  Daemons,     \* `brev run-tasks`, `brev tasks run`
  Workspaces, Nodes,
  UserLines,   \* what the user keeps in ~/.ssh/config
  MaxChanges   \* surprises explored: failures, kills, stops, revocations

Procs   == Clients \cup Refreshers \cup Daemons
Include == "include"
Nothing == [ws |-> {}, nodes |-> {}]

ASSUME SSHConfigConstants ==
  /\ UserLines # {} /\ IsFiniteSet(UserLines) /\ Include \notin UserLines
  /\ Workspaces \cap Nodes = {}
  /\ MaxChanges \in Nat

VARIABLES
  status, granted,  \* the server: instances, nodes open to the user
  changes,
  brev,       \* the entries of ~/.brev/ssh_config
  user,       \* the lines of ~/.ssh/config
  jetbrains,  \* the instances of the JetBrains list
  pc, target, checked,
  got,        \* what the refresh of a process fetched
  conf,       \* ~/.ssh/config as the process read it
  failed,     \* whether one of its configs failed (the multierror)
  steady,     \* history: the target has been up since the process saw it up
  own,        \* history: nobody has touched brev since the process wrote it
  torn        \* history: a truncated ~/.ssh/config was read or left behind, or
              \* a write of it was cut short

server == <<status, granted>>
disk   == <<brev, user, jetbrains>>
refresh == <<got, conf, failed>>
client == <<target, checked, steady, own>>
vars   == <<server, changes, disk, pc, refresh, client, torn>>

HasInclude(lines) == Contains(lines, Include)

Init ==
  /\ status \in [Workspaces -> {"stopped", "running"}]
  /\ granted = Nodes /\ changes = 0
  /\ brev = Nothing /\ jetbrains = {}
  /\ \E mine \in SetToSeqs(UserLines) :
        user \in {mine, <<Include>> \o mine, mine \o <<Include>>}
  /\ pc = [p \in Procs |-> "idle"]
  /\ target \in [Clients -> Workspaces \cup Nodes]
  /\ checked = [p \in Clients |-> FALSE] /\ steady = [p \in Clients |-> FALSE]
  /\ own = [p \in Clients |-> FALSE] /\ torn = FALSE
  /\ got = [p \in Procs |-> Nothing] /\ conf = [p \in Procs |-> <<>>]
  /\ failed = [p \in Procs |-> FALSE]

\* RUNNING, as the server says it: a bare instance has no SSH user yet.
IsUp(w) == status[w] \in {"bare", "running"}
Up == {w \in Workspaces : IsUp(w)}

At(p, here)    == pc[p] = here
Goto(p, there) == pc' = [pc EXCEPT ![p] = there]
\* A failure that nobody asked for.
Fails == changes < MaxChanges /\ changes' = changes + 1

\* The command returns, or the task: nothing of the process is left.
End(p) == /\ Goto(p, "idle")
          /\ got' = [got EXCEPT ![p] = Nothing]
          /\ conf' = [conf EXCEPT ![p] = <<>>]
          /\ failed' = [failed EXCEPT ![p] = FALSE]
          /\ torn' = (torn \/ At(p, "prepend"))
          /\ IF p \in Clients
               THEN /\ checked' = [checked EXCEPT ![p] = FALSE]
                    /\ steady' = [steady EXCEPT ![p] = FALSE]
                    /\ own' = [own EXCEPT ![p] = FALSE]
                    /\ \E t \in Workspaces \cup Nodes :
                          target' = [target EXCEPT ![p] = t]
               ELSE UNCHANGED client

SeenUp(p) == /\ Goto(p, "keys")
             /\ steady' = [steady EXCEPT ![p] = TRUE]
             /\ UNCHANGED <<target, checked, own, refresh, torn>>
\* A signal, at any moment.
Kill(p) ==
  /\ ~At(p, "idle") /\ Fails /\ End(p)
  /\ UNCHANGED <<server, disk>>
-----------------------------------------------------------------------------
(* The commands that connect *)

\* The target is looked up: a node has its access checked, a stopped instance
\* is started, any other is waited for.
StartClient(p) ==
  /\ p \in Clients /\ At(p, "idle")
  /\ LET t == target[p] IN
       \/ t \in granted /\ SeenUp(p)
       \/ /\ t \in Workspaces
          /\ Goto(p, IF status[t] = "stopped" THEN "start" ELSE "poll")
          /\ UNCHANGED <<refresh, client, torn>>
       \/ t \in Nodes \ granted /\ End(p)
  /\ UNCHANGED <<server, changes, disk>>

StartWorkspaceIfStopped(p) ==
  /\ At(p, "start")
  /\ \/ /\ status[target[p]] = "stopped"
        /\ status' = [status EXCEPT ![target[p]] = "starting"]
        /\ Goto(p, "poll")
        /\ UNCHANGED <<refresh, client, torn>>
     \/ UNCHANGED status /\ End(p)
  /\ UNCHANGED <<granted, changes, disk>>

\* PollUntil: an answer "RUNNING" starts the refresh; a failed call or the
\* deadline ends the command.
PollUntil(p) ==
  /\ At(p, "poll")
  /\ (IsUp(target[p]) /\ SeenUp(p)) \/ End(p)
  /\ UNCHANGED <<server, changes, disk>>

Refreshing(p) == pc[p] \in {"keys", "list", "config", "fill", "include",
                            "truncate", "prepend", "jetbrains"}

\* Meanwhile the command looks the instance up again: when it is no longer
\* running the command ends, and the refresh with it wherever it is.
CheckRunning(p) ==
  /\ p \in Clients /\ target[p] \in Workspaces
  /\ ~checked[p]
  /\ Refreshing(p) \/ At(p, "connect")
  /\ IF IsUp(target[p])
       THEN /\ checked' = [checked EXCEPT ![p] = TRUE]
            /\ UNCHANGED <<pc, target, steady, own, refresh, torn>>
       ELSE End(p)
  /\ UNCHANGED <<server, changes, disk>>

\* WaitForSSHToBeAvailable and ssh: an alias without an entry does not resolve.
Resolves(t) == HasInclude(user) /\ t \in brev.ws \cup brev.nodes

Connect(p) ==
  /\ At(p, "connect")
  /\ target[p] \in Workspaces => checked[p]
  /\ End(p)
  /\ UNCHANGED <<server, changes, disk>>
-----------------------------------------------------------------------------
(* The refresh *)

\* `brev refresh`, a tick of the daemon.
StartRefresh(p) ==
  /\ p \in Refreshers \cup Daemons /\ At(p, "idle")
  /\ Goto(p, "keys")
  /\ UNCHANGED <<server, changes, disk, refresh, client, torn>>

\* The nodes are fetched by the commands only.
ExternalNodes(p) == IF p \in Daemons THEN {} ELSE granted

\* GetConfigUpdater: the keys, and the nodes as far as possible: after any
\* failure there are none.  Then the private key is written.
GetKeys(p) ==
  /\ At(p, "keys")
  /\ \/ /\ Goto(p, "list")
        /\ \/ got' = [got EXCEPT ![p].nodes = ExternalNodes(p)] /\ UNCHANGED changes
           \/ Fails /\ UNCHANGED got
        /\ UNCHANGED <<conf, failed, client, torn>>
     \/ Fails /\ End(p)
  /\ UNCHANGED <<server, disk>>

\* Faulty: the instances are not filtered by their status.
AllWorkspaces == Workspaces
RunningWorkspaces == Up

\* GetContextWorkspaces.  An instance without an SSH user has no project folder
\* and spoils the whole SSH config: nothing of it is written.
Spoilt(ws) == \E w \in ws : status[w] = "bare"

ListWorkspaces(p) ==
  /\ At(p, "list")
  /\ \/ /\ got' = [got EXCEPT ![p].ws = RunningWorkspaces]
        /\ failed' = [failed EXCEPT ![p] = Spoilt(RunningWorkspaces)]
        /\ Goto(p, IF Spoilt(RunningWorkspaces) THEN "jetbrains" ELSE "config")
        /\ UNCHANGED <<changes, conf, client, torn>>
     \/ Fails /\ End(p)
  /\ UNCHANGED <<server, disk>>

\* A config that cannot be written is one that failed; the next one is tried.
Aborts(p) ==
  /\ Fails /\ Goto(p, "jetbrains")
  /\ failed' = [failed EXCEPT ![p] = TRUE]

\* WriteBrevSSHConfig
TruncateBrev(p) ==
  /\ At(p, "config")
  /\ \/ /\ Goto(p, "fill")
        /\ brev' = Nothing /\ own' = [q \in Clients |-> FALSE]
        /\ UNCHANGED <<changes, failed>>
     \/ Aborts(p) /\ UNCHANGED <<brev, own>>
  /\ UNCHANGED <<server, user, jetbrains, got, conf, target, checked, steady, torn>>

\* What a write leaves: the entries it got to write, and the tail of what
\* another process wrote since the truncation.
Landed(entries) ==
  {[ws |-> entries.ws \cup w, nodes |-> entries.nodes \cup n] :
     w \in SUBSET brev.ws, n \in SUBSET brev.nodes}

WriteBrev(p) ==
  /\ At(p, "fill")
  /\ \/ /\ Goto(p, "include")
        /\ brev' \in Landed(got[p]) /\ own' = [q \in Clients |-> q = p]
        /\ UNCHANGED <<changes, failed>>
     \/ /\ Aborts(p) /\ own' = [q \in Clients |-> FALSE]
        /\ \E part \in [ws : SUBSET got[p].ws, nodes : SUBSET got[p].nodes] :
              brev' \in Landed(part)
  /\ UNCHANGED <<server, user, jetbrains, got, conf, target, checked, steady, torn>>

Included(lines) == HasInclude(lines)

\* Faulty: a config that cannot be read is taken for an empty one.
TakenAsEmpty == "truncate"
Unreadable == "jetbrains"

\* EnsureConfigHasInclude
ReadUserConfig(p) ==
  /\ At(p, "include")
  /\ \/ /\ Included(user) /\ Goto(p, "jetbrains")
        /\ UNCHANGED <<changes, conf, failed, torn>>
     \/ /\ ~Included(user) /\ Goto(p, "truncate")
        /\ conf' = [conf EXCEPT ![p] = user]
        /\ torn' = (torn \/ \E q \in Procs : At(q, "prepend"))
        /\ UNCHANGED <<changes, failed>>
     \/ /\ Fails /\ Goto(p, Unreadable)
        /\ failed' = [failed EXCEPT ![p] = TRUE]
        /\ UNCHANGED <<conf, torn>>
  /\ UNCHANGED <<server, disk, got, client>>

\* WriteUserSSHConfig: a file that cannot be opened is left as it is.
TruncateUser(p) ==
  /\ At(p, "truncate")
  /\ \/ Goto(p, "prepend") /\ user' = <<>> /\ UNCHANGED <<changes, failed>>
     \/ Aborts(p) /\ UNCHANGED user
  /\ UNCHANGED <<server, brev, jetbrains, got, conf, client, torn>>

\* A write of n lines, over what another process wrote since the truncation.
Over(lines, n) ==
  [k \in 1 .. IF Len(user) > n THEN Len(user) ELSE n |->
     IF k <= n THEN lines[k] ELSE user[k]]

AddInclude(p) ==
  /\ At(p, "prepend")
  /\ LET lines == <<Include>> \o conf[p] IN
       \/ /\ Goto(p, "jetbrains") /\ user' = Over(lines, Len(lines))
          /\ UNCHANGED <<changes, failed, torn>>
       \/ /\ Aborts(p) /\ torn' = TRUE
          /\ \E n \in 0 .. Len(lines) : user' = Over(lines, n)
  /\ UNCHANGED <<server, brev, jetbrains, got, conf, client>>

\* Faulty: the command does not look at the error it awaited.
ConnectsAnyway(p) == p \in Clients
Connects(p) == p \in Clients /\ ~failed[p]

\* The JetBrains list is updated whether or not the SSH config was.
UpdateJetBrains(p) ==
  /\ At(p, "jetbrains")
  /\ jetbrains' = got[p].ws
  /\ IF Connects(p) THEN Goto(p, "connect") /\ UNCHANGED <<refresh, client, torn>>
                    ELSE End(p)
  /\ UNCHANGED <<server, changes, brev, user>>
-----------------------------------------------------------------------------
(* The server *)

Boot(w) ==
  /\ \/ status[w] = "starting" /\ \E s \in {"bare", "running"} : status' = [status EXCEPT ![w] = s]
     \/ status[w] = "bare" /\ status' = [status EXCEPT ![w] = "running"]
  /\ UNCHANGED <<granted, changes, disk, pc, refresh, client, torn>>

Unsteady(t) ==
  /\ steady' = [p \in Clients |-> steady[p] /\ target[p] # t]
  /\ UNCHANGED <<disk, pc, refresh, target, checked, own, torn>>

Stop(w) ==
  /\ Fails
  /\ status[w] = "running" /\ status' = [status EXCEPT ![w] = "stopped"]
  /\ Unsteady(w)
  /\ UNCHANGED granted

Revoke(n) ==
  /\ Fails
  /\ n \in granted /\ granted' = granted \ {n}
  /\ Unsteady(n)
  /\ UNCHANGED status
-----------------------------------------------------------------------------
Refresh(p) ==
  \/ GetKeys(p) \/ ListWorkspaces(p) \/ TruncateBrev(p) \/ WriteBrev(p)
  \/ ReadUserConfig(p) \/ TruncateUser(p) \/ AddInclude(p) \/ UpdateJetBrains(p)

Client(p) ==
  \/ StartClient(p) \/ StartWorkspaceIfStopped(p) \/ PollUntil(p)
  \/ CheckRunning(p) \/ Connect(p)

Server == \/ \E w \in Workspaces : Boot(w) \/ Stop(w)
          \/ \E n \in Nodes : Revoke(n)

Next == \/ \E p \in Procs : StartRefresh(p) \/ Refresh(p) \/ Client(p) \/ Kill(p)
        \/ Server

Spec == Init /\ [][Next]_vars

\* A daemon ticks for ever, started again if it was killed, and a process goes
\* on with a refresh it has begun.
Fairness ==
  /\ \A d \in Daemons : WF_vars(StartRefresh(d))
  /\ \A p \in Procs : WF_vars(Refresh(p))
FairSpec == Spec /\ Fairness
-----------------------------------------------------------------------------
(* Properties *)

States == {"idle", "start", "poll", "keys", "list", "config", "fill", "include",
           "truncate", "prepend", "jetbrains", "connect"}
Lines == UserLines \cup {Include}
Listing == [ws : SUBSET Workspaces, nodes : SUBSET Nodes]

TypeOK ==
  /\ status \in [Workspaces -> {"stopped", "starting", "bare", "running"}]
  /\ granted \subseteq Nodes /\ changes \in 0 .. MaxChanges
  /\ brev \in Listing /\ user \in Seq(Lines) /\ jetbrains \subseteq Workspaces
  /\ pc \in [Procs -> States]
  /\ \A p \in Procs \ Clients : pc[p] \notin {"start", "poll", "connect"}
  /\ got \in [Procs -> Listing] /\ conf \in [Procs -> Seq(Lines)]
  /\ failed \in [Procs -> BOOLEAN]
  /\ checked \in [Clients -> BOOLEAN] /\ steady \in [Clients -> BOOLEAN]
  /\ own \in [Clients -> BOOLEAN] /\ torn \in BOOLEAN
  /\ target \in [Clients -> Workspaces \cup Nodes]

Writing == \E p \in Procs : At(p, "prepend")

\* The refresh only adds to ~/.ssh/config: the user's own lines are all there,
\* but while a process rewrites the file.  They are lost in three ways only: a
\* second refresh read the file at that moment, and writes what it read; the
\* process ended at that moment, by itself or by a signal; its write was cut
\* short.  And however refreshes overlap, and however their writes end, what
\* they add is there at most once
\* (AddIncludeToUserConfig, EnsureConfigHasInclude, WriteUserSSHConfig).
UserLinesKept ==
  /\ ~Writing /\ ~torn => UserLines \subseteq ToSet(user)
  /\ \A j, k \in DOMAIN user : user[j] = Include /\ user[k] = Include => j = k

\* When a command is about to connect to an instance that has been running since
\* the command saw it running, the alias resolves: the refresh it waited for has
\* written the entry, and only a later write of another process can take it away,
\* or what loses lines of ~/.ssh/config (the shell and exec commands).
HostEntryUpToDate ==
  \A p \in Clients :
    At(p, "connect") /\ steady[p] /\ own[p] /\ target[p] \in Workspaces /\ ~Writing /\ ~torn
      => Resolves(target[p])

\* With a daemon at work, both files come to show the running instances and do
\* so from then on, once the server stops changing, whatever refreshes that
\* overlapped with the changes had read: the SSH config but for the moment in
\* which it is rewritten, and unless some instance stays without an SSH user;
\* the JetBrains list also while such an instance fails the SSH config
\* (ConfigUpdater.Run).
ConfigsConverge ==
  /\ <>[](jetbrains = Up)
  /\ \/ []<>(\E w \in Workspaces : status[w] = "bare")
     \/ <>[](brev.ws \in {Up, {}}) /\ []<>(brev.ws = Up)
==============================================================================
