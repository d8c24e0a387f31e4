------------------------------- MODULE Lifecycle -------------------------------
(***************************************************************************)
(* Listing, starting, stopping, resetting and deleting instances by name:  *)
(* pkg/cmd/{ls,start,stop,delete,reset}, the lookup of pkg/cmd/util and    *)
(* pkg/store/workspace.go.                                                 *)
(*                                                                         *)
(* A command takes names, typed or piped from `brev ls`, works them off    *)
(* one after another (look the instance up, check it, ask the server) and, *)
(* when its own output is a pipe, prints the names for the next command.   *)
(* Listing, lookup and request are separate calls: the server and the      *)
(* other users go on in between.  Output always is a pipe here.            *)
(***************************************************************************)
EXTENDS Integers, Sequences, SequencesExt

CONSTANTS
  Instances, Nobody,
  NameOf,      \* the name of each instance; a failed one may share it
  Stoppable,   \* the instances whose type supports stop
  Self,        \* the instance `brev` runs on
  Words,       \* what is typed: names, IDs, git URLs, paths
  Urls, Paths, \* words `brev start` makes an instance from
  NoName,      \* `brev start` without a word
  NodeNames,   \* the names of the organization's external nodes
  Line,        \* a line of a table, a header, an organization: nobody's name
  MaxNames     \* names of a command

ASSUME LifecycleConstants ==
  /\ Nobody \notin Instances
  /\ NameOf \in [Instances -> Words]
  /\ Stoppable \subseteq Instances /\ Self \in Instances
  /\ Urls \cup Paths \cup NodeNames \subseteq Words /\ MaxNames \in Nat
  /\ {NoName, Line} \cap (Words \cup Instances) = {}
  /\ IsFiniteSet(Instances)
  \* An ID is nobody's name.
  /\ NodeNames \cap Instances = {} /\ \A i \in Instances : NameOf[i] \notin Instances

Ops      == {"ls", "stop", "stopall", "delete", "reset", "start", "scale", "fu"}
Statuses == {"absent", "starting", "running", "stopping", "stopped",
             "deleting", "failure"}

VARIABLES
  status,   \* the server
  shown,    \* instances of, or shared with, the user
  auth,     \* how the user is logged in
  printed,  \* what the last `brev ls` wrote to the pipe
  own,      \* whether it listed what is the user's only, or its reader runs
  op, names, detached,
  pc, at, target,
  ok,       \* the names that went well
  failed,   \* whether one did not
  out,      \* what the last command printed
  served    \* history: positions the server accepted a request for

cmd  == <<op, names, detached, printed, own>>
vars == <<status, shown, auth, cmd, pc, at, target, ok, failed, out, served>>

Init ==
  /\ status \in [Instances -> {"absent", "running", "stopped", "failure"}]
  /\ shown \in SUBSET Instances
  /\ auth \in {"user", "admin", "apikey"}
  /\ printed = {} /\ own = FALSE
  /\ op = "ls" /\ names = <<>> /\ detached = TRUE
  /\ pc = "idle" /\ at = 1 /\ target = Nobody
  /\ ok = <<>> /\ failed = FALSE /\ out = <<>> /\ served = {}

Name == names[at]

\* An API key is of an organization, not of a user.
Visible(i)  == auth = "apikey" \/ i \in shown
Denotes(n, i) == n = i \/ n = NameOf[i]

\* GetWorkspaceByNameOrID, filtered for the user.  Faulty: not filtered.
Anybodys(n) == {i \in Instances : status[i] # "absent" /\ Denotes(n, i)}
Listed(n)   == {i \in Anybodys(n) : Visible(i)}

NonFailed(some) == {i \in some : status[i] # "failure"}

\* One match counts whatever its status; of several, the one that has not failed.
Only(some) ==
  LET left == NonFailed(some) IN
  {i \in some : some = {i} \/ left = {i}}

\* GetUserWorkspaceByNameOrIDErr: a user gets the first of the list, which is
\* in no particular order.
Matches(n) == IF auth = "apikey" THEN Only(Listed(n)) ELSE Listed(n)
-----------------------------------------------------------------------------
(* One name after another *)

\* reset and stop --all end at the first failure, and fu, which reports it by
\* way of an error that is nil, with a panic.  Faulty: all do.
NoneGoesOn  == FALSE
BatchGoesOn == op \in {"stop", "delete", "start"}

LastName == at = Len(names)

\* Names are printed when all went well.  Faulty: those that went well are.
PrintOk(good, bad)  == good
AllOrNone(good, bad) == IF bad THEN <<>> ELSE good

\* These print no names, nor does a start without a word.
Prints == op \notin {"reset", "scale", "fu"} /\ Name # NoName

\* These look nothing up between two requests.
OfOneListing == op \in {"stopall", "fu"}

Done(success) ==
  /\ ok' = IF success THEN Append(ok, Name) ELSE ok
  /\ failed' = (failed \/ ~success)
  /\ target' = Nobody
  /\ IF LastName \/ (~success /\ ~BatchGoesOn)
       THEN /\ pc' = "done"
            /\ out' = IF Prints THEN AllOrNone(ok', failed') ELSE <<>>
            /\ UNCHANGED at
       ELSE /\ at' = at + 1
            /\ pc' = IF OfOneListing THEN "request" ELSE "lookup"
            /\ UNCHANGED out
  /\ UNCHANGED <<shown, auth, cmd>>

Begin(o, ns, d) ==
  /\ pc = "idle"
  /\ op' = o /\ names' = ns /\ detached' = d /\ printed' = {}
  /\ UNCHANGED <<status, shown, auth, at, target, ok, failed, out, served>>

\* The process ends and its variables with it.
Exit ==
  /\ pc = "done"
  /\ pc' = "idle" /\ op' = "ls" /\ names' = <<>> /\ detached' = TRUE
  /\ own' = FALSE /\ at' = 1
  /\ ok' = <<>> /\ failed' = FALSE /\ out' = <<>> /\ served' = {}
  /\ UNCHANGED <<status, shown, auth, printed, target>>

\* Faulty: a batch waits for each instance.
BatchWaits    == FALSE
BatchDetached == TRUE

\* Names from a pipe: `brev start` starts them all, to wait for none.
Batch(ns) ==
  \/ \E o \in {"stop", "delete", "reset"} : Begin(o, ns, TRUE)
  \/ Begin("start", ns, BatchDetached)

Some(words) == UNION {[1 .. n -> words] : n \in 1 .. MaxNames}

\* Otherwise `brev start` takes its first argument, or none; scale its first.
StartCommand ==
  /\ \/ \E ns \in Some(Words) : Batch(ns)
     \/ \E w \in Words : Begin("scale", <<w>>, TRUE)
     \/ \E w \in Words \cup {NoName}, d \in BOOLEAN : Begin("start", <<w>>, d)
  /\ own' = FALSE /\ pc' = "lookup"

PipedCommand ==
  /\ \E ns \in Some(printed) : Batch(ns)
  /\ pc' = "lookup" /\ UNCHANGED own

\* stop --all: the running instances of one listing; no further lookup.
StopAll ==
  LET running == {i \in Stoppable : Visible(i) /\ status[i] = "running"} IN
  /\ running # {}
  /\ \E ns \in SetToSeqs(running) : Begin("stopall", ns, TRUE)
  /\ own' = FALSE /\ pc' = "request"

\* fu: every instance of the organizations a user is in, of one listing,
\* the confirmation given.  (The ban that follows is of an account.)
FuUser ==
  /\ auth = "admin"
  /\ \E ns \in SetToSeqs({i \in Instances : status[i] # "absent"}) :
       ns # <<>> /\ Begin("fu", ns, TRUE)
  /\ own' = FALSE /\ pc' = "request"
-----------------------------------------------------------------------------
(* brev ls *)

Listing(words, mine) ==
  /\ pc = "idle"
  /\ printed' = words /\ own' = mine
  /\ UNCHANGED <<status, shown, auth, op, names, detached, pc, at, target,
                 ok, failed, out, served>>

\* The rows: a user's own and shared ones, but for --all and an API key.
WorkspacesToShow(all) ==
  {i \in Instances : status[i] # "absent" /\ (all \/ Visible(i))}

TableWords(rows) == {NameOf[i] : i \in rows} \cup {Line}
JSONWords(rows)  == {NameOf[i] : i \in rows} \cup rows

\* With --all the nodes are listed too, if that call succeeds.  A listing
\* that fails prints nothing.
RunWorkspaces ==
  \E all \in BOOLEAN, nodes \in {{}, NodeNames} :
    LET rows == WorkspacesToShow(all) IN
    /\ nodes # {} => all
    /\ \E words \in {TableWords(rows), JSONWords(rows)} :
         Listing(words \cup nodes, ~all)

\* "brev ls nodes"; organizations, users and hosts name no instance, and
\* are not for API keys, the latter two for administrators.
RunNodes == Listing(NodeNames \cup {Line}, TRUE)
RunOrgs  == auth # "apikey" /\ Listing({Line}, TRUE)
RunAdminLsArg == auth = "admin" /\ Listing({Line}, TRUE)

RunLs == RunWorkspaces \/ RunNodes \/ RunOrgs \/ RunAdminLsArg
-----------------------------------------------------------------------------
(* The lookup *)

Resolved(i) ==
  /\ target' = i /\ pc' = "request"
  /\ UNCHANGED <<status, shown, auth, cmd, at, ok, failed, out, served>>

Refused == Done(FALSE) /\ UNCHANGED <<status, served>>

\* "brev stop self" is not looked up; an instance of a type that does not
\* support stop is refused.  The second lookup an administrator gets is
\* filtered for the user like the first, and finds as little.
LookupStop ==
  /\ pc = "lookup" /\ op = "stop"
  /\ \/ Name = "self" /\ Resolved(Self)
     \/ Name # "self" /\ \E i \in Matches(Name) \cap Stoppable : Resolved(i)
     \/ Refused

\* An administrator may delete what the lookup does not find: the word is
\* taken for an ID.
LookupDelete ==
  /\ pc = "lookup" /\ op = "delete"
  /\ \/ \E i \in Matches(Name) : Resolved(i)
     \/ /\ auth = "admin" /\ Listed(Name) = {}
        /\ Name \in Instances /\ Resolved(Name)
     \/ Refused

LookupReset ==
  /\ pc = "lookup" /\ op = "reset"
  /\ \/ \E i \in Matches(Name) : Resolved(i)
     \/ Refused

Runscale ==
  /\ pc = "lookup" /\ op = "scale"
  /\ \/ \E i \in Matches(Name) : Resolved(i)
     \/ Refused

\* runStartWorkspace: no word, a git URL, else a stopped instance, else a
\* local path; what is none of these is reported on the terminal and counts
\* as started.
LookupStart ==
  /\ pc = "lookup" /\ op = "start"
  /\ \/ Name \in Urls \cup {NoName} /\ Resolved(Nobody)
     \/ /\ Name \notin Urls
        /\ \E i \in Only(Listed(Name)) : status[i] = "stopped" /\ Resolved(i)
     \/ /\ Name \in Paths \ Urls /\ Listed(Name) = {}
        /\ pc' = "path"
        /\ UNCHANGED <<status, shown, auth, cmd, at, target, ok, failed, out, served>>
     \/ /\ Name \notin Urls \cup Paths \cup {NoName} /\ Listed(Name) = {}
        /\ Done(TRUE) /\ UNCHANGED <<status, served>>
     \/ Refused

\* The directory's .git/config gives the URL; setup.sh is generated if missing.
StartWorkspaceFromPath ==
  /\ pc = "path"
  /\ Resolved(Nobody) \/ Refused

\* A line "url" without "= ", or a host that is not of .com: an index out of
\* range ends the program.
Panic ==
  /\ \/ pc = "path"
     \/ pc = "request" /\ op = "start" /\ Name \in Urls
  /\ pc' = "done" /\ target' = Nobody /\ failed' = TRUE
  /\ UNCHANGED <<status, shown, auth, cmd, at, ok, out, served>>
-----------------------------------------------------------------------------
(* The request *)

\* What the server accepts of an instance, and what becomes of it.
Accepts == [stop    |-> {"running"}, stopall |-> {"running"},
            delete  |-> Statuses \ {"absent", "deleting"},
            reset   |-> {"running", "stopped", "failure"},
            start   |-> {"stopped"}, scale  |-> {"running"},
            fu      |-> Statuses \ {"absent", "deleting"}]
Becomes == [stop    |-> "stopping", stopall |-> "stopping",
            delete  |-> "deleting", reset   |-> "starting",
            start   |-> "starting", scale   |-> "starting",
            fu      |-> "deleting"]

Asked == IF OfOneListing THEN Name ELSE target

WaitFor(i) ==
  /\ pc' = "poll" /\ target' = i
  /\ UNCHANGED <<shown, auth, cmd, at, ok, failed, out>>

\* An instance that is started is waited for unless detached.
Answered(i) ==
  \/ op = "start" /\ ~detached /\ WaitFor(i)
  \/ (op # "start" \/ detached) /\ Done(TRUE)

\* StopWorkspace, DeleteWorkspace, ResetWorkspace, StartWorkspace and
\* ModifyWorkspace: accepted, accepted with the answer lost, or refused.
Request ==
  /\ pc = "request" /\ Asked # Nobody
  /\ \/ /\ status[Asked] \in Accepts[op]
        /\ op \in {"stop", "stopall"} => Asked \in Stoppable
        /\ status' = [status EXCEPT ![Asked] = Becomes[op]]
        /\ served' = served \cup {at}
        /\ Answered(Asked) \/ Done(FALSE)
     \/ Refused

\* CreateWorkspace; the answer may be lost.
CreateWorkspace(i) ==
  /\ status[i] = "absent"
  /\ status' = [status EXCEPT ![i] = "starting"]
  /\ served' = served \cup {at}

\* For a URL or a path.  What is made is waited for, detached or not.  An
\* organization that cannot be looked up ends it without an error: the wrong
\* variable is returned.
CreateFromGit ==
  /\ pc = "request" /\ Asked = Nobody /\ Name # NoName
  /\ \/ \E i \in Instances : CreateWorkspace(i) /\ (WaitFor(i) \/ Done(FALSE))
     \/ Done(TRUE) /\ UNCHANGED <<status, served>>
     \/ Refused

CreateEmpty ==
  /\ pc = "request" /\ Asked = Nobody /\ Name = NoName
  /\ \/ \E i \in Instances : CreateWorkspace(i) /\ (Answered(i) \/ Done(FALSE))
     \/ Refused

\* pollUntil: RUNNING ends it, and a call that fails; nothing else does.
PollReady ==
  /\ pc = "poll" /\ status[target] = "running"
  /\ Done(TRUE) /\ UNCHANGED <<status, served>>
PollFails ==
  /\ pc = "poll" /\ Refused
PollAgain ==
  /\ pc = "poll" /\ status[target] # "running"
  /\ UNCHANGED vars
-----------------------------------------------------------------------------
(* The server and the other users *)

Evolve(i, from, to) ==
  /\ status[i] = from /\ status' = [status EXCEPT ![i] = to]
  /\ UNCHANGED <<shown, auth, cmd, pc, at, target, ok, failed, out, served>>

Boot(i)   == \E to \in {"running", "failure"} : Evolve(i, "starting", to)
Halt(i)   == Evolve(i, "stopping", "stopped")
Vanish(i) == Evolve(i, "deleting", "absent")
OthersStart(i) == Evolve(i, "stopped", "starting")
OthersStop(i)  == Evolve(i, "running", "stopping")

Server == \E i \in Instances : \/ Boot(i) \/ Halt(i) \/ Vanish(i)
                               \/ OthersStart(i) \/ OthersStop(i)

Work == \/ LookupStop \/ LookupDelete \/ LookupReset \/ Runscale
        \/ LookupStart \/ StartWorkspaceFromPath
        \/ Request \/ CreateFromGit \/ CreateEmpty \/ PollReady

Next == \/ Exit \/ RunLs \/ StartCommand \/ PipedCommand \/ StopAll \/ FuUser
        \/ Work \/ Panic \/ PollFails \/ PollAgain \/ Server

Spec == Init /\ [][Next]_vars

(* Calls are answered, so a command goes on; the server owes nothing, and  *)
(* no call need fail.                                                      *)
FairSpec == Spec /\ WF_vars(Work)
-----------------------------------------------------------------------------
TypeOK ==
  /\ status \in [Instances -> Statuses] /\ shown \subseteq Instances
  /\ auth \in {"user", "admin", "apikey"}
  /\ printed \subseteq Words \cup Instances \cup {Line} /\ own \in BOOLEAN
  /\ op \in Ops /\ detached \in BOOLEAN
  /\ names \in Seq(Words \cup Instances \cup {NoName, Line})
  /\ pc \in {"idle", "lookup", "path", "request", "poll", "done"}
  /\ at \in 1 .. Len(names) \/ (names = <<>> /\ at = 1)
  /\ target \in Instances \cup {Nobody}
  /\ ok \in Seq(Words \cup Instances \cup {NoName, Line})
  /\ Len(ok) <= Len(names) /\ failed \in BOOLEAN
  /\ out \in {<<>>, names} /\ served \subseteq DOMAIN names

(* "Only output names for piping if all succeeded": what stop, stop --all  *)
(* and delete hand to the next command is every name they were given, and  *)
(* the server accepted the request for each.  Not so start (start.go:719): *)
(* a word that denotes nothing counts as started and is printed.           *)
PipedNamesServed ==
  pc = "done" /\ op \in {"stop", "stopall", "delete"} /\ out # <<>> =>
    served = DOMAIN names /\ out = names

(* A request changes nobody else's instance: one that the user was not     *)
(* shown is touched through an API key, as an administrator's delete of a   *)
(* word that was typed or picked from a listing of all, by fu, or because  *)
(* the command runs on it.  What `brev ls` lists as the user's own leads   *)
(* to no other, whatever happened since.                                   *)
OthersUntouched ==
  [][\A i \in Instances \ shown :
       pc = "request" /\ pc' # "request" /\ status[i] # "absent"
         /\ status'[i] # status[i]
       => \/ auth = "apikey"
          \/ auth = "admin" /\ op = "delete" /\ ~own
          \/ op = "fu"
          \/ op = "stop" /\ i = Self]_vars

(* The command implements what a batch of names promises: every name is    *)
(* tried once and in order, whatever state a failure left the ones before  *)
(* it in; of stop, delete and start only a name that is a URL or a path    *)
(* ends it early (a panic); and what is printed is all of them or none.    *)
Promise == INSTANCE NameBatch
  WITH Word      <- Words \cup Instances \cup {NoName, Line},
       Together  <- TRUE,
       given     <- names,
       policy    <- [goesOn  |-> op \in {"stop", "delete", "start"},
                     fragile |-> IF op = "start" THEN Urls \cup Paths ELSE {}],
       tried     <- CASE pc = "idle" -> 0 [] pc = "done" -> at [] OTHER -> at - 1,
       well      <- ok,
       handed    <- out,
       over      <- pc \in {"idle", "done"}
ImplementsNameBatch == Promise!NSpec

(* A command that waits for no instance ends, whatever becomes of the      *)
(* instances: only a single start that was not detached, or one that makes *)
(* an instance of a URL or a path, may poll for ever.                      *)
Unattended ==
  op = "start" => /\ detached \/ Len(names) > 1
                  /\ ToSet(names) \cap (Urls \cup Paths) = {}
BatchEnds == (pc # "idle" /\ Unattended) ~> pc = "done"

(* "Always detached when piping multiple", and -d runs "in the background  *)
(* instead of blocking the shell": no detached start polls.                *)
DetachedNeverPolls == pc = "poll" => ~detached
=============================================================================
