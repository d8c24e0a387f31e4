-------------------------------- MODULE Connect --------------------------------
(***************************************************************************)
(* Commands that reach an instance or a node over SSH: pkg/cmd/{open,      *)
(* exec, copy, shell, portforward, notebook, ollama}, with the lookups and *)
(* waits of pkg/cmd/util.                                                  *)
(*                                                                         *)
(* A command looks its word up, starts what is stopped, polls until it     *)
(* runs, has the SSH config refreshed by a goroutine, waits for SSH and    *)
(* runs something there.  `brev exec` first tries without any of that.     *)
(* The goroutine of a name that failed goes on beside the next name.  The  *)
(* server and the other users go on throughout.  The user is a member of   *)
(* some organization.                                                      *)
(***************************************************************************)
EXTENDS Integers, Sequences, FiniteSets

CONSTANTS
  Instances, Nodes, Nobody,
  NameOf,      \* names of instances and nodes; SSH knows them by name
  Words,       \* what may be typed
  Tries,       \* how often each kind of command tries SSH again
  MaxNames     \* names of an open or exec

Targets == Instances \cup Nodes
Batches == {"open", "exec"}
Kinds   == Batches \cup {"copy", "shell", "forward", "notebook", "ollama"}

ASSUME ConnectConstants ==
  /\ Instances \cap Nodes = {} /\ Nobody \notin Targets
  /\ NameOf \in [Targets -> Words]
  /\ Tries \in [Kinds -> Nat] /\ MaxNames \in Nat

VARIABLES
  status,     \* the server: instances
  granted,    \* nodes the user has SSH access to
  ports,      \* nodes with the forwarded port open
  apikey,     \* whether the command runs under an API key
  config,     \* what ~/.brev/ssh_config has an entry for
  onboarding, \* onboarding_step.json: half written or whole (or made anew)
  kind, names,
  pc, at, ws,
  refresh,    \* the refresh the command waits for
  orphans,    \* refreshes of names that were given up
  tries,
  out,        \* names printed for the next command
  up,         \* history: ws has been running since the command saw it so
  late,       \* history: an orphan wrote the config after the name began
  runs,       \* history: how each run of the user's command ended, for the name at
  reached     \* history: positions with a session that went well

server  == <<status, granted, ports>>
files   == <<config, onboarding>>
cmd     == <<kind, names, apikey>>
vars    == <<server, files, cmd, pc, at, ws, refresh, orphans, tries, out,
             up, late, runs, reached>>

Statuses  == {"absent", "stopped", "starting", "running", "failure"}
Refreshes == [stage : {"none", "list", "write", "done", "failed"},
              seen : SUBSET Targets]
NoRefresh == [stage |-> "none", seen |-> {}]
Fired     == [stage |-> "list", seen |-> {}]

Init ==
  /\ status \in [Instances -> {"absent", "stopped", "running", "failure"}]
  /\ granted \in SUBSET Nodes /\ ports = {}
  /\ apikey \in BOOLEAN
  /\ config = {i \in Instances : status[i] = "running"} \cup granted
  /\ onboarding \in {"half", "whole"}
  /\ kind = "open" /\ names = <<>> /\ pc = "idle" /\ at = 1 /\ ws = Nobody
  /\ refresh = NoRefresh /\ orphans = {} /\ tries = 0 /\ out = <<>>
  /\ up = FALSE /\ late = FALSE /\ runs = <<>> /\ reached = {}

Name == names[at]

\* The instances a word denotes; a user is given the first of them, under an
\* API key it must be the only one, or the only one that has not failed.
Listed(n) == {i \in Instances : status[i] # "absent" /\ n \in {i, NameOf[i]}}
Only(some) ==
  LET left == {i \in some : status[i] # "failure"} IN
  {i \in some : some = {i} \/ left = {i}}
Matches(n) == IF apikey THEN Only(Listed(n)) ELSE Listed(n)

\* FindExternalNode; a word stands for all its upper and lower cases.
NodesNamed(n) == {x \in Nodes : NameOf[x] = n}
-----------------------------------------------------------------------------
(* One name after another *)

\* The order of steps of each command: after the lookup of an instance that is
\* up or down, or of a node; after the poll; after the second lookup; after the
\* refresh was awaited, for an instance and for a node.
OpenPath ==
  [first |-> "lookup", up |-> "poll", down |-> "start", node |-> {"await"},
   polled |-> "relook", relooked |-> "await",
   awaited |-> "onboard", nodeAwaited |-> "ssh"]
CopyPath ==
  [first |-> "lookup", up |-> "poll", down |-> "start", node |-> {"refresh"},
   polled |-> "relook", relooked |-> "refresh",
   awaited |-> "ssh", nodeAwaited |-> "ssh"]
\* shell needs no entry for a node, and refreshes for a missing key only.
ShellPath ==
  [first |-> "lookup", up |-> "poll", down |-> "start",
   node |-> {"refresh", "onboard"}, polled |-> "relook", relooked |-> "await",
   awaited |-> "ssh", nodeAwaited |-> "onboard"]
\* exec does not look nodes up, nor an instance for a second time.
ExecPath ==
  [first |-> "fire", up |-> "refresh", down |-> "start", node |-> {},
   polled |-> "refresh", relooked |-> "idle",
   awaited |-> "ssh", nodeAwaited |-> "idle"]
\* port-forward does not ask whether the instance runs.
ForwardPath ==
  [first |-> "lookup", up |-> "await", down |-> "await", node |-> {"openport"},
   polled |-> "idle", relooked |-> "idle",
   awaited |-> "tunnel", nodeAwaited |-> "tunnel"]
NotebookPath == [ForwardPath EXCEPT !.first = "check"]
OllamaPath ==
  [first |-> "create", up |-> "idle", down |-> "idle", node |-> {},
   polled |-> "build", relooked |-> "idle",
   awaited |-> "publish", nodeAwaited |-> "idle"]

Path == [open |-> OpenPath, copy |-> CopyPath, shell |-> ShellPath,
         exec |-> ExecPath, forward |-> ForwardPath,
         notebook |-> NotebookPath, ollama |-> OllamaPath]

\* open and port-forward start a refresh before they look anything up.
FirstRefresh(k) == IF k \in {"open", "forward"} THEN Fired ELSE NoRefresh

\* A name is printed once its session went well, whatever became of the
\* others.  Faulty: whether or not it did.
PrintedAnyway(success) == Append(out, Name)
Printed(success) == IF success THEN Append(out, Name) ELSE out

\* Faulty: a failure ends the batch.
MoreUnlessFailed(success) == success /\ at < Len(names)
MoreNames(success) == at < Len(names)

Done(success) ==
  /\ out' = IF kind \in Batches THEN Printed(success) ELSE out
  /\ ws' = Nobody /\ tries' = 0 /\ up' = FALSE /\ late' = FALSE
  /\ IF MoreNames(success)
       THEN /\ at' = at + 1 /\ pc' = Path[kind].first
            /\ refresh' = FirstRefresh(kind)
            /\ orphans' = orphans \cup
                 (IF refresh.stage \in {"list", "write"} THEN {refresh} ELSE {})
       ELSE /\ pc' = "idle" /\ refresh' = NoRefresh /\ orphans' = {}
            /\ UNCHANGED at

Over(success) ==
  Done(success) /\ reached' = IF success THEN reached \cup {at} ELSE reached
Failed    == Over(FALSE) /\ UNCHANGED runs
Attempted == \E success \in BOOLEAN : Over(success) /\ UNCHANGED runs

\* The process ends where it is, whatever names are left.
Dies ==
  /\ pc' = "idle" /\ ws' = Nobody /\ refresh' = NoRefresh /\ orphans' = {}
  /\ tries' = 0 /\ up' = FALSE /\ late' = FALSE
  /\ UNCHANGED <<at, out, runs, reached>>

\* From the arguments, the pipe, or both.
NamesFor(k) ==
  UNION {[1 .. n -> Words] : n \in 1 .. IF k \in Batches THEN MaxNames ELSE 1}

StartCommand ==
  /\ pc = "idle" /\ names = <<>>
  /\ kind' \in Kinds /\ names' \in NamesFor(kind')
  /\ pc' = Path[kind'].first /\ at' = 1 /\ refresh' = FirstRefresh(kind')
  /\ out' = <<>> /\ runs' = <<>> /\ reached' = {}
  /\ UNCHANGED <<server, files, apikey, ws, orphans, tries, up, late>>

Stay == UNCHANGED <<at, orphans, out, late, reached>>
Goto(step) ==
  pc' = step /\ Stay /\ UNCHANGED <<ws, refresh, tries, up, runs>>
Here == UNCHANGED <<server, files, cmd>>
-----------------------------------------------------------------------------
(* brev exec: the command first, questions later *)

\* What ssh reaches under a name: an entry of the config that is up.
Answers(n) == {t \in config : NameOf[t] = n
                 /\ (t \in Nodes \/ status[t] = "running")}

\* How a run of the user's command may end: "lost" is one that ended well
\* over a connection that was then lost, as that of `sudo reboot`.
Ends == {"ok", "failed", "lost"}

\* The exit code is ssh's: a command that failed, or whose connection was lost
\* after it ended well, cannot be told from one that never reached the
\* instance.  Faulty: nor can one that ended well and said so.
AlwaysDown(end) == TRUE
LooksDown(end) == end # "ok"

\* The first try takes the word itself for the name.
Fire ==
  /\ pc = "fire" /\ Here
  /\ \E end \in Ends \cup {"none"} :
       /\ end # "none" => Answers(Name) # {}
       /\ runs' = IF end = "none" THEN <<>> ELSE <<end>>
       /\ \/ ~LooksDown(end) /\ Over(TRUE)
          \/ /\ LooksDown(end) /\ pc' = "lookup"
             /\ Stay /\ UNCHANGED <<ws, refresh, tries, up>>

\* Whatever made the first try fail, an instance that is running is taken for
\* one that is still booting.
ExecLookup ==
  /\ pc = "lookup" /\ kind = "exec" /\ Here
  /\ \/ \E i \in Matches(Name) :
          /\ \/ status[i] = "stopped" /\ pc' = ExecPath.down
             \/ status[i] = "running" /\ pc' = ExecPath.up
          /\ ws' = i /\ up' = (status[i] = "running")
          /\ Stay /\ UNCHANGED <<refresh, tries, runs>>
     \/ Failed
-----------------------------------------------------------------------------
(* The lookup *)

Found(t, step) ==
  /\ ws' = t /\ pc' = step
  /\ Stay /\ UNCHANGED <<refresh, tries, up, runs>>

\* A node the user has SSH access to, through a port with a host name.
Reachable(x) == x \in granted

\* ResolveWorkspaceOrNode: an instance, else, and also when looking for
\* instances failed, a node.
Lookup ==
  /\ pc = "lookup" /\ kind # "exec" /\ Here
  /\ \/ \E i \in Matches(Name) :
          Found(i, IF status[i] = "stopped" THEN Path[kind].down
                                            ELSE Path[kind].up)
     \/ \E x \in NodesNamed(Name) :
          Reachable(x) /\ \E step \in Path[kind].node : Found(x, step)
     \/ Failed

\* notebook: a running instance, and then the same as port-forward.
Check ==
  /\ pc = "check" /\ Here
  /\ \/ /\ \E i \in Matches(Name) : status[i] = "running"
        /\ pc' = "lookup" /\ refresh' = Fired
        /\ Stay /\ UNCHANGED <<ws, tries, up, runs>>
     \/ Failed
-----------------------------------------------------------------------------
(* Starting and waiting *)

\* copy goes on with the name of what it found.
Word == IF kind = "copy" THEN NameOf[ws] ELSE Name

\* open starts the instance it found.
OpenStart ==
  /\ pc = "start" /\ kind = "open" /\ UNCHANGED <<granted, ports, files, cmd>>
  /\ \/ /\ status[ws] = "stopped" /\ status' = [status EXCEPT ![ws] = "starting"]
        /\ Goto("poll") \/ Failed
     \/ UNCHANGED status /\ Failed

\* The others look the word up again, start the first of the list, whichever
\* that is, and poll the one they found.
StartFirst ==
  /\ pc = "start" /\ kind # "open" /\ UNCHANGED <<granted, ports, files, cmd>>
  /\ \/ \E i \in Listed(Word) :
          /\ status[i] = "stopped"
          /\ status' = [status EXCEPT ![i] = "starting"]
          /\ Goto("startpoll") \/ Failed
     \/ UNCHANGED status /\ Failed

\* If the instance has gone since the lookup, the first of an empty list is
\* asked for: a panic, which ends the command.
StartGone ==
  /\ pc = "start" /\ kind # "open" /\ Listed(Word) = {}
  /\ Dies /\ Here

Ready ==
  /\ pc \in {"startpoll", "poll"} /\ status[ws] = "running" /\ Here
  /\ pc' = (IF pc = "startpoll" THEN "poll" ELSE Path[kind].polled) /\ up' = TRUE
  /\ refresh' = IF kind = "shell" /\ pc = "poll" THEN Fired ELSE refresh
  /\ Stay /\ UNCHANGED <<ws, tries, runs>>

\* shell, exec and ollama give up after some minutes.  Faulty: they do not.
NoPatience == {"shell"}
Patience   == {"shell", "exec", "ollama"}
GiveUp    == pc \in {"startpoll", "poll"} /\ kind \in Patience /\ Failed /\ Here
PollFails == pc \in {"startpoll", "poll"} /\ Failed /\ Here
PollAgain == /\ pc \in {"startpoll", "poll"} /\ status[ws] # "running"
             /\ UNCHANGED vars

\* The instance is looked up once more, and must still be running.
Relook ==
  /\ pc = "relook" /\ Here
  /\ \/ \E i \in Matches(Word) :
          /\ status[i] = "running"
          /\ pc' = Path[kind].relooked
          /\ ws' = i /\ up' = (up /\ i = ws)
          /\ Stay /\ UNCHANGED <<refresh, tries, runs>>
     \/ Failed
-----------------------------------------------------------------------------
(* The refresh: a goroutine, awaited *)

StartRefresh ==
  /\ pc = "refresh" /\ Here
  /\ refresh' = Fired /\ pc' = IF kind = "open" THEN "await2" ELSE "await"
  /\ Stay /\ UNCHANGED <<ws, tries, up, runs>>

\* ConfigUpdater.Run: the running instances, and the user's nodes.
Listing ==
  [stage |-> "write", seen |-> {i \in Instances : status[i] = "running"} \cup granted]

RefreshList ==
  /\ refresh.stage = "list"
  /\ refresh' \in {Listing, [stage |-> "failed", seen |-> {}]}
  /\ UNCHANGED <<server, files, cmd, pc, at, ws, orphans, tries, out, up, late,
                 runs, reached>>
RefreshWrite ==
  /\ refresh.stage = "write"
  /\ config' = refresh.seen /\ refresh' = [stage |-> "done", seen |-> {}]
  /\ UNCHANGED <<server, onboarding, cmd, pc, at, ws, orphans, tries, out, up,
                 late, runs, reached>>

OrphanStep ==
  \E r \in orphans :
    /\ \/ /\ r.stage = "list" /\ orphans' = (orphans \ {r}) \cup {Listing}
          /\ UNCHANGED <<config, late>>
       \/ /\ r.stage = "write" /\ orphans' = orphans \ {r}
          /\ config' = r.seen /\ late' = TRUE
    /\ UNCHANGED <<server, onboarding, cmd, pc, at, ws, refresh, tries, out, up,
                   runs, reached>>

AfterAwait == CASE pc = "await2"      -> "ssh"
                [] ws \in Instances -> Path[kind].awaited
                [] OTHER            -> Path[kind].nodeAwaited

Await ==
  /\ pc \in {"await", "await2"} /\ Here
  /\ \/ refresh.stage = "done" /\ Goto(AfterAwait)
     \/ refresh.stage = "failed" /\ Failed
-----------------------------------------------------------------------------
(* The session *)

\* open refreshes a second time: its first refresh may have listed the
\* instances before this one ran.  Faulty: it trusts the first.
FirstIsEnough   == IF kind = "open" THEN "ssh" ELSE "session"
AfterOnboarding == IF kind = "open" THEN "refresh" ELSE "session"

\* onboarding_step.json is made, or read, and written in place; a file that a
\* killed process left empty cannot be read again.
ReadOnboarding ==
  /\ pc = "onboard" /\ UNCHANGED <<server, config, cmd>>
  /\ \/ onboarding # "half" /\ onboarding' = "half" /\ Goto("onwrite")
     \/ UNCHANGED onboarding /\ Failed
WriteOnboarding ==
  /\ pc = "onwrite" /\ UNCHANGED <<server, config, cmd>>
  /\ onboarding' = "whole"
  /\ Goto(AfterOnboarding)

TriesLeft == tries < Tries[kind]

\* ssh answers, says something that is worth a retry, or something that is
\* not; a name without an entry is not.  A one-line answer ends brev copy.
WaitForSSH ==
  /\ pc = "ssh" /\ Here
  /\ \/ Answers(NameOf[ws]) # {} /\ Goto("run")
     \/ /\ TriesLeft /\ tries' = tries + 1
        /\ \E t \in config : NameOf[t] = NameOf[ws]
        /\ Stay /\ UNCHANGED <<pc, ws, refresh, up, runs>>
     \/ Failed

\* The session.  A shell has written its onboarding file before.
RunCommand ==
  /\ pc = "run" /\ kind = "exec" /\ Here
  /\ \/ /\ Answers(NameOf[ws]) # {}
        /\ \E end \in Ends :
             runs' = Append(runs, end) /\ Over(end = "ok")
     \/ Failed
RunScp ==
  /\ pc = "run" /\ kind = "copy" /\ Here
  /\ Attempted
RunShell ==
  /\ pc = "run" /\ kind = "shell" /\ Goto("onboard") /\ Here
ShellSession ==
  /\ pc = "session" /\ Here
  /\ Attempted

\* An editor with its extensions, or a terminal with or without tmux: any of
\* them may be missing.  On an instance, brev open reports an error although
\* the editor opened.
OpenEditor ==
  /\ pc = "run" /\ kind = "open" /\ Here
  /\ Attempted
OpenOnInstance ==
  /\ pc = "run" /\ kind = "open" /\ ws \in Instances /\ Here
  /\ Done(FALSE) /\ reached' = reached \cup {at} /\ UNCHANGED runs

\* ssh -N is started and not waited for: whether it connects is not known.
Tunnel ==
  /\ pc = "tunnel" /\ Here
  /\ \E ok \in BOOLEAN : Done(ok)
  /\ UNCHANGED <<runs, reached>>

\* A port that is open already is as good; it stays open after the command.
OpenPort ==
  /\ pc = "openport" /\ UNCHANGED <<status, granted, files, cmd>>
  /\ \/ ports' = ports \cup {ws} /\ (Goto("await") \/ Failed)
     \/ UNCHANGED ports /\ Failed
-----------------------------------------------------------------------------
(* brev ollama *)

CreateServer ==
  /\ pc = "create" /\ UNCHANGED <<granted, ports, files, cmd>>
  /\ \/ \E i \in Instances :
          /\ status[i] = "absent" /\ NameOf[i] = Name
          /\ status' = [status EXCEPT ![i] = "starting"]
          /\ \/ Found(i, "poll")
             \/ Failed
     \/ UNCHANGED status /\ Failed

\* The container is asked for and polled for 20 minutes.
BuildContainer == pc = "build" /\ Here /\ (Goto("verb") \/ Failed)
ContainerReady == pc = "verb" /\ Here /\ (Goto("refresh") \/ Failed)
\* The tunnel is made public and the model pulled over ssh; "ollama run" is
\* started and not waited for.
PublishTunnel ==
  /\ pc = "publish" /\ Here
  /\ Attempted
-----------------------------------------------------------------------------
(* The server, the other users, the operating system *)

Evolve(i, from, to) ==
  /\ status[i] = from /\ status' = [status EXCEPT ![i] = to]
  /\ up' = (up /\ i # ws)
  /\ UNCHANGED <<granted, ports, files, cmd, pc, at, ws, refresh, orphans, tries,
                 out, late, runs, reached>>
Boot(i)   == \E to \in {"running", "failure"} : Evolve(i, "starting", to)
Halt(i)   == Evolve(i, "running", "stopped")
Vanish(i) == \E from \in {"stopped", "failure"} : Evolve(i, from, "absent")

Kill == pc # "idle" /\ Dies /\ Here

Work == \/ Fire \/ ExecLookup \/ Lookup \/ Check \/ OpenStart \/ StartFirst
        \/ StartGone \/ Ready \/ GiveUp \/ Relook \/ StartRefresh \/ Await
        \/ ReadOnboarding \/ WriteOnboarding \/ WaitForSSH \/ RunCommand
        \/ RunScp \/ RunShell \/ ShellSession \/ OpenEditor
        \/ OpenOnInstance \/ Tunnel \/ OpenPort \/ CreateServer
        \/ BuildContainer \/ ContainerReady \/ PublishTunnel

Refreshing == RefreshList \/ RefreshWrite

Next == \/ StartCommand \/ Work \/ Refreshing \/ OrphanStep
        \/ PollFails \/ PollAgain \/ Kill
        \/ \E i \in Instances : Boot(i) \/ Halt(i) \/ Vanish(i)

Spec == Init /\ [][Next]_vars

(* Calls are answered and time passes: a command and the goroutine it      *)
(* waits for go on.  The server owes nothing, no call need fail.           *)
FairSpec == Spec /\ WF_vars(Work) /\ WF_vars(Refreshing)
-----------------------------------------------------------------------------
\* The steps each command goes through.
StepsOf ==
  [open     |-> {"idle", "lookup", "start", "poll", "relook", "refresh", "await",
                 "await2", "onboard", "onwrite", "ssh", "run"},
   copy     |-> {"idle", "lookup", "start", "startpoll", "poll", "relook",
                 "refresh", "await", "ssh", "run"},
   shell    |-> {"idle", "lookup", "start", "startpoll", "poll", "relook",
                 "refresh", "await", "ssh", "run", "onboard", "onwrite", "session"},
   exec     |-> {"idle", "fire", "lookup", "start", "startpoll", "poll",
                 "refresh", "await", "ssh", "run"},
   forward  |-> {"idle", "lookup", "openport", "await", "tunnel"},
   notebook |-> {"idle", "check", "lookup", "openport", "await", "tunnel"},
   ollama   |-> {"idle", "create", "poll", "build", "verb", "refresh", "await",
                 "publish"}]

TypeOK ==
  /\ status \in [Instances -> Statuses] /\ granted \subseteq Nodes
  /\ ports \subseteq Nodes /\ apikey \in BOOLEAN /\ config \subseteq Targets
  /\ onboarding \in {"half", "whole"}
  /\ kind \in Kinds /\ names \in Seq(Words) /\ pc \in StepsOf[kind]
  /\ at \in 1 .. Len(names) \/ (pc = "idle" /\ names = <<>> /\ at = 1)
  /\ ws \in Targets \cup {Nobody}
  /\ ws = Nobody <=> pc \in {"idle", "fire", "lookup", "check", "create"}
  /\ refresh \in Refreshes /\ orphans \subseteq Refreshes
  /\ tries \in 0 .. Tries[kind] /\ (pc = "idle" => tries = 0)
  /\ out \in Seq(Words) /\ reached \subseteq 1 .. Len(names)
  /\ up \in BOOLEAN /\ late \in BOOLEAN

(* What open and exec hand to the next command of a pipe are names with a  *)
(* session that went well, one for each at most.                           *)
PipedNamesReached ==
  /\ \A k \in DOMAIN out : \E p \in reached : names[p] = out[k]
  /\ Len(out) <= Cardinality(reached)

(* When a command starts to wait for SSH, the config has an entry for an   *)
(* instance that kept running since the command saw it running: ssh's      *)
(* answer to a name without one ends the wait.  Only the refresh of an     *)
(* earlier name that failed can take the entry away.                       *)
EntryBeforeSSH == pc = "ssh" /\ up /\ ~late => ws \in config

(* For each name given to exec, the user's command is run twice at most,   *)
(* and never again after a run whose good end ssh could tell.  One that    *)
(* ended well but lost its connection before ssh could (exec.go:189) is    *)
(* run again (exec.go:267), as is one that failed.  A name given twice is  *)
(* two names.                                                              *)
NotRunAgain ==
  /\ Len(runs) <= 2
  /\ \A k \in DOMAIN runs : runs[k] = "ok" => k = Len(runs)

(* "Execute a command on instance(s)": once on each.                       *)
CommandRunOnce == Len(runs) <= 1

(* The command implements what a batch of names promises: every name is    *)
(* tried once and in order, whatever refresh the ones before it left       *)
(* behind, and open and exec hand on the names that went well (of the      *)
(* other commands, with one name, none).  Two things end a batch with      *)
(* names untried, and nothing else: a kill, and the panic of StartGone     *)
(* over an instance that vanished between two lookups (util/ssh.go:93).    *)
Promise == INSTANCE NameBatch
  WITH Word      <- Words,
       Together  <- FALSE,
       given     <- names,
       policy    <- [goesOn |-> TRUE, fragile |-> {}],
       tried     <- IF names = <<>> THEN 0
                    ELSE IF pc = "idle" THEN at ELSE at - 1,
       well      <- out,
       handed    <- out,
       over      <- pc = "idle"
ImplementsNameBatch ==
  Promise!NInit /\ [][Promise!NNext \/ Kill \/ StartGone]_(Promise!nvars)

(* A command ends whatever becomes of the instance; only open and copy,    *)
(* which poll without a deadline, may wait for an instance for ever.       *)
ConnectEnds ==
  LET waits == pc \in {"startpoll", "poll"} /\ kind \in {"open", "copy"}
  IN  pc # "idle" ~> (pc = "idle" \/ waits)
=============================================================================
