---------------------------- MODULE ConnectProofs ----------------------------
(***************************************************************************)
(* Proofs about Connect for any instances, nodes, names and retries: type  *)
(* correctness, that only names with a session are piped on, that the SSH  *)
(* config has an entry for an instance when a command starts to wait for   *)
(* SSH, how often a user's command is run, and that all of them implement  *)
(* what a batch of names promises.                                         *)
(***************************************************************************)
EXTENDS Connect, FiniteSetTheorems, TLAPS

USE ConnectConstants

-----------------------------------------------------------------------------
(* The strengthening.                                                      *)

(* A command waits for instances only, and has the refresh it waited for.  *)
Polled == {"start", "startpoll", "poll", "relook"}
Placed ==
  /\ up => ws \in Instances /\ status[ws] = "running"
  /\ pc \in Polled => ws \in Instances
  /\ kind \in {"exec", "ollama"} => ws \in Instances \cup {Nobody}
  /\ pc = "openport" => ws \in Nodes
  /\ pc = "ssh" => refresh.stage = "done"

(* From where on the refresh waited for was started with the instance up,  *)
(* so that it lists the instance.                                          *)
Awaited ==
  \/ pc \in {"await2", "ssh"}
  \/ pc = "await" /\ kind \in {"copy", "exec"}
  \/ pc \in {"relook", "await"} /\ kind = "shell"
Fresh ==
  Awaited /\ up /\ ~late =>
    /\ refresh.stage = "write" => ws \in refresh.seen
    /\ refresh.stage = "done" => ws \in config

(* How often the user's command has run by now.                            *)
Once(r) == /\ r \in Seq(Ends) /\ Len(r) <= 2
           /\ \A k \in DOMAIN r : r[k] = "ok" => k = Len(r)
Ran ==
  /\ Once(runs)
  /\ kind # "exec" => runs = <<>>
  /\ pc \notin {"idle", "fire"} =>
       Len(runs) <= 1 /\ \A k \in DOMAIN runs : runs[k] # "ok"

(* A name counts at most once.                                             *)
Counted ==
  /\ pc # "idle" => at \notin reached
  /\ reached \subseteq 1 .. at
  /\ PipedNamesReached

IInv == TypeOK /\ Placed /\ Fresh /\ Ran /\ Counted

-----------------------------------------------------------------------------
(* The commands' orders of steps.                                          *)

LEMMA KindsAre ==
  Kinds = {"open", "exec", "copy", "shell", "forward", "notebook", "ollama"}
  BY DEF Kinds, Batches

(* Where each order of steps leads: to steps of the same command.          *)
Leads(k) ==
  /\ "idle" \in StepsOf[k]
  /\ Path[k].first \in {"fire", "lookup", "check", "create"} \cap StepsOf[k]
  /\ Path[k].first = "fire" <=> k = "exec"
  /\ "lookup" \in StepsOf[k] /\ k # "exec" =>
       /\ Path[k].up \in {"poll", "await"} \cap StepsOf[k]
       /\ Path[k].down \in {"start", "await"} \cap StepsOf[k]
       /\ Path[k].node \subseteq {"refresh", "await", "onboard", "openport"} \cap StepsOf[k]
  /\ "poll" \in StepsOf[k] =>
       Path[k].polled \in {"relook", "refresh", "build"} \cap StepsOf[k]
  /\ "relook" \in StepsOf[k] =>
       /\ Path[k].relooked \in {"refresh", "await"} \cap StepsOf[k]
       /\ k = "copy" => Path[k].relooked = "refresh"
  /\ Path[k].awaited \in {"onboard", "ssh", "tunnel", "publish"} \cap StepsOf[k]
  /\ k \notin {"copy", "shell", "exec"} => Path[k].awaited # "ssh"
  /\ k \notin {"exec", "ollama"} =>
       Path[k].nodeAwaited \in {"onboard", "ssh", "tunnel"} \cap StepsOf[k]

(* What follows a step directly.                                           *)
FollowsFrom(k, s) ==
  /\ s = "fire" => k = "exec" /\ "lookup" \in StepsOf[k]
  /\ s = "lookup" => k # "ollama"
  /\ s = "lookup" /\ k = "exec" => {"start", "refresh"} \subseteq StepsOf[k]
  /\ s = "check" => k = "notebook" /\ "lookup" \in StepsOf[k]
  /\ s = "start" => "poll" \in StepsOf[k]
  /\ s = "start" /\ k # "open" => "startpoll" \in StepsOf[k]
  /\ s = "startpoll" => "poll" \in StepsOf[k]
  /\ s = "refresh" => "await" \in StepsOf[k]
  /\ s = "refresh" /\ k = "open" => "await2" \in StepsOf[k]
  /\ s = "await2" => k = "open" /\ "ssh" \in StepsOf[k]
  /\ s = "onboard" => "onwrite" \in StepsOf[k]
  /\ s = "onwrite" => (IF k = "open" THEN "refresh" ELSE "session") \in StepsOf[k]
  /\ s = "ssh" => "run" \in StepsOf[k]
  /\ k = "shell" => "onboard" \in StepsOf[k]
  /\ s = "openport" => k \in {"forward", "notebook"} /\ "await" \in StepsOf[k]
  /\ s = "tunnel" => k \in {"forward", "notebook"}
  /\ s = "create" => k = "ollama" /\ "poll" \in StepsOf[k]
  /\ s \in {"build", "verb", "publish"} => k = "ollama"
  /\ s = "build" => "verb" \in StepsOf[k]
  /\ s = "verb" => "refresh" \in StepsOf[k]
  /\ s = "relook" => k # "exec"

LEMMA Ways ==
  ASSUME NEW k \in Kinds
  PROVE  Leads(k)
<1>1. CASE k = "open"
  <2>1. Path["open"] = OpenPath
    BY DEF Path
  <2>2. StepsOf["open"] = {"idle", "lookup", "start", "poll", "relook", "refresh",
                           "await", "await2", "onboard", "onwrite", "ssh", "run"}
    BY DEF StepsOf
  <2> QED
    BY <1>1, <2>1, <2>2 DEF Leads, OpenPath
<1>2. CASE k = "exec"
  <2>1. Path["exec"] = ExecPath
    BY DEF Path
  <2>2. StepsOf["exec"] = {"idle", "fire", "lookup", "start", "startpoll", "poll",
                           "refresh", "await", "ssh", "run"}
    BY DEF StepsOf
  <2> QED
    BY <1>2, <2>1, <2>2 DEF Leads, ExecPath
<1>3. CASE k = "copy"
  <2>1. Path["copy"] = CopyPath
    BY DEF Path
  <2>2. StepsOf["copy"] = {"idle", "lookup", "start", "startpoll", "poll",
                           "relook", "refresh", "await", "ssh", "run"}
    BY DEF StepsOf
  <2> QED
    BY <1>3, <2>1, <2>2 DEF Leads, CopyPath
<1>4. CASE k = "shell"
  <2>1. Path["shell"] = ShellPath
    BY DEF Path
  <2>2. StepsOf["shell"] = {"idle", "lookup", "start", "startpoll", "poll",
                            "relook", "refresh", "await", "ssh", "run", "onboard",
                            "onwrite", "session"}
    BY DEF StepsOf
  <2> QED
    BY <1>4, <2>1, <2>2 DEF Leads, ShellPath
<1>5. CASE k = "forward"
  <2>1. Path["forward"] = ForwardPath
    BY DEF Path
  <2>2. StepsOf["forward"] = {"idle", "lookup", "openport", "await", "tunnel"}
    BY DEF StepsOf
  <2> QED
    BY <1>5, <2>1, <2>2 DEF Leads, ForwardPath
<1>6. CASE k = "notebook"
  <2>1. Path["notebook"] = NotebookPath
    BY DEF Path
  <2>2. StepsOf["notebook"] = {"idle", "check", "lookup", "openport", "await", "tunnel"}
    BY DEF StepsOf
  <2> QED
    BY <1>6, <2>1, <2>2 DEF Leads, NotebookPath, ForwardPath
<1>7. CASE k = "ollama"
  <2>1. Path["ollama"] = OllamaPath
    BY DEF Path
  <2>2. StepsOf["ollama"] = {"idle", "create", "poll", "build", "verb", "refresh",
                             "await", "publish"}
    BY DEF StepsOf
  <2> QED
    BY <1>7, <2>1, <2>2 DEF Leads, OllamaPath
<1> QED
  BY KindsAre, <1>1, <1>2, <1>3, <1>4, <1>5, <1>6, <1>7

LEMMA Follows ==
  ASSUME NEW k \in Kinds, NEW s \in StepsOf[k]
  PROVE  FollowsFrom(k, s)
<1>1. CASE k = "open"
  <2>1. StepsOf["open"] = {"idle", "lookup", "start", "poll", "relook", "refresh",
                           "await", "await2", "onboard", "onwrite", "ssh", "run"}
    BY DEF StepsOf
  <2> QED
    BY <1>1, <2>1 DEF FollowsFrom
<1>2. CASE k = "exec"
  <2>1. StepsOf["exec"] = {"idle", "fire", "lookup", "start", "startpoll", "poll",
                           "refresh", "await", "ssh", "run"}
    BY DEF StepsOf
  <2> QED
    BY <1>2, <2>1 DEF FollowsFrom
<1>3. CASE k = "copy"
  <2>1. StepsOf["copy"] = {"idle", "lookup", "start", "startpoll", "poll",
                           "relook", "refresh", "await", "ssh", "run"}
    BY DEF StepsOf
  <2> QED
    BY <1>3, <2>1 DEF FollowsFrom
<1>4. CASE k = "shell"
  <2>1. StepsOf["shell"] = {"idle", "lookup", "start", "startpoll", "poll",
                            "relook", "refresh", "await", "ssh", "run", "onboard",
                            "onwrite", "session"}
    BY DEF StepsOf
  <2> QED
    BY <1>4, <2>1 DEF FollowsFrom
<1>5. CASE k = "forward"
  <2>1. StepsOf["forward"] = {"idle", "lookup", "openport", "await", "tunnel"}
    BY DEF StepsOf
  <2> QED
    BY <1>5, <2>1 DEF FollowsFrom
<1>6. CASE k = "notebook"
  <2>1. StepsOf["notebook"] = {"idle", "check", "lookup", "openport", "await", "tunnel"}
    BY DEF StepsOf
  <2> QED
    BY <1>6, <2>1 DEF FollowsFrom
<1>7. CASE k = "ollama"
  <2>1. StepsOf["ollama"] = {"idle", "create", "poll", "build", "verb", "refresh",
                             "await", "publish"}
    BY DEF StepsOf
  <2> QED
    BY <1>7, <2>1 DEF FollowsFrom
<1> QED
  BY KindsAre, <1>1, <1>2, <1>3, <1>4, <1>5, <1>6, <1>7

-----------------------------------------------------------------------------
(* How a name ends, and what goes on leaves alone.                         *)

(* What the other users, the server and the files are.                     *)
Outside ==
  /\ status \in [Instances -> Statuses] /\ granted \subseteq Nodes
  /\ ports \subseteq Nodes /\ config \subseteq Targets
  /\ onboarding \in {"half", "whole"}

LEMMA FirstRefreshType ==
  /\ NoRefresh \in Refreshes /\ Fired \in Refreshes
  /\ \A k : FirstRefresh(k) \in Refreshes
BY DEF NoRefresh, Fired, Refreshes, FirstRefresh

(* The same of the command at hand.                                        *)
LEMMA WaysHere == ASSUME TypeOK PROVE Leads(kind) /\ FollowsFrom(kind, pc)
  BY Ways, Follows DEF TypeOK

LEMMA Those ==
  ASSUME NEW n
  PROVE  /\ Listed(n) \subseteq Instances /\ Matches(n) \subseteq Instances
         /\ NodesNamed(n) \subseteq Nodes
BY DEF Listed, Matches, Only, NodesNamed

(* The end of a name: of the command, or of its turn.                      *)
LEMMA DoneIs ==
  ASSUME TypeOK, pc # "idle", NEW success \in BOOLEAN, Done(success)
  PROVE  /\ pc' \in {"idle", "fire", "lookup", "check", "create"} \cap StepsOf[kind]
         /\ pc' # "idle" => (pc' = "fire" <=> kind = "exec")
         /\ ws' = Nobody /\ tries' = 0 /\ up' = FALSE /\ late' = FALSE
         /\ at' \in 1 .. Len(names) /\ at <= at' /\ (pc' # "idle" => at' = at + 1)
         /\ pc' = "idle" => at = Len(names)
         /\ refresh' \in Refreshes /\ orphans' \subseteq Refreshes
         /\ \/ out' = out
            \/ success /\ kind \in Batches /\ out' = Append(out, names[at])
<1>1. at \in 1 .. Len(names) /\ Len(names) \in Nat /\ kind \in Kinds
  BY DEF TypeOK
<1>2. CASE at < Len(names)
  <2>1. at' = at + 1 /\ pc' = Path[kind].first
    BY <1>2 DEF Done, MoreNames
  <2>2. refresh' \in Refreshes
    BY <1>2, FirstRefreshType DEF Done, MoreNames
  <2>3. orphans' \subseteq Refreshes
    BY <1>2 DEF Done, MoreNames, TypeOK
  <2>4. ws' = Nobody /\ tries' = 0 /\ up' = FALSE /\ late' = FALSE
    BY DEF Done
  <2> QED
    BY <1>1, <1>2, <2>1, <2>2, <2>3, <2>4, Ways
       DEF Leads, FollowsFrom, Done, Printed, Name
<1>3. CASE ~(at < Len(names))
  <2>1. at' = at /\ pc' = "idle" /\ at = Len(names)
    BY <1>1, <1>3 DEF Done, MoreNames
  <2>2. refresh' \in Refreshes /\ orphans' \subseteq Refreshes
    BY <1>3, FirstRefreshType DEF Done, MoreNames
  <2>3. ws' = Nobody /\ tries' = 0 /\ up' = FALSE /\ late' = FALSE
    BY DEF Done
  <2> QED
    BY <1>1, <2>1, <2>2, <2>3, Ways DEF Leads, FollowsFrom, Done, Printed, Name
<1> QED
  BY <1>2, <1>3

LEMMA DoneKeeps ==
  ASSUME IInv, pc # "idle", NEW success \in BOOLEAN, Done(success),
         UNCHANGED cmd, Outside', Once(runs'), kind # "exec" => runs' = <<>>,
         reached' \in {reached, reached \cup {at}},
         success /\ kind \in Batches => reached' = reached \cup {at}
  PROVE  IInv'
<1> USE DEF IInv, cmd
<1>0. /\ pc' \in {"idle", "fire", "lookup", "check", "create"} \cap StepsOf[kind]
      /\ pc' # "idle" => (pc' = "fire" <=> kind = "exec")
      /\ ws' = Nobody /\ tries' = 0 /\ up' = FALSE /\ late' = FALSE
      /\ at' \in 1 .. Len(names) /\ at <= at' /\ (pc' # "idle" => at' = at + 1)
      /\ pc' = "idle" => at = Len(names)
      /\ refresh' \in Refreshes /\ orphans' \subseteq Refreshes
      /\ \/ out' = out
         \/ success /\ kind \in Batches /\ out' = Append(out, names[at])
  BY DoneIs
<1> USE <1>0
<1>1. at \in 1 .. Len(names) /\ Len(names) \in Nat /\ names \in Seq(Words)
  BY DEF TypeOK
<1>2. out' \in Seq(Words)
  <2>1. out \in Seq(Words) /\ names[at] \in Words
    BY <1>1 DEF TypeOK
  <2>2. Append(out, names[at]) \in Seq(Words)
    BY <2>1
  <2> QED
    BY <2>1, <2>2
<1>3. /\ reached' \subseteq 1 .. at /\ reached' \subseteq 1 .. at'
      /\ reached' \subseteq 1 .. Len(names)
  BY <1>1 DEF Counted
<1>4. TypeOK'
  <2>1. /\ status' \in [Instances -> Statuses] /\ granted' \subseteq Nodes
        /\ ports' \subseteq Nodes /\ config' \subseteq Targets
        /\ onboarding' \in {"half", "whole"} /\ apikey' \in BOOLEAN
    BY DEF TypeOK, Outside
  <2>2. /\ kind' \in Kinds /\ names' \in Seq(Words) /\ pc' \in StepsOf[kind']
        /\ at' \in 1 .. Len(names')
    BY <1>1 DEF TypeOK
  <2>3. ws' \in Targets \cup {Nobody}
        /\ (ws' = Nobody <=> pc' \in {"idle", "fire", "lookup", "check", "create"})
    OBVIOUS
  <2>4. tries' \in 0 .. Tries[kind'] /\ (pc' = "idle" => tries' = 0)
    BY <2>2
  <2>5. reached' \subseteq 1 .. Len(names')
    BY <1>3
  <2>6. up' \in BOOLEAN /\ late' \in BOOLEAN
    OBVIOUS
  <2> QED
    BY ONLY <1>0, <1>2, <2>1, <2>2, <2>3, <2>4, <2>5, <2>6 DEF TypeOK
<1>5. Placed' /\ Fresh'
  BY DEF Placed, Polled, Fresh
<1>6. Ran'
  BY DEF Ran
<1>7. PipedNamesReached'
  <2>1. IsFiniteSet(reached) /\ Cardinality(reached) \in Nat
    <3>1. IsFiniteSet(1 .. Len(names)) /\ reached \subseteq 1 .. Len(names)
      BY <1>1, FS_Interval DEF TypeOK
    <3> QED
      BY <3>1, FS_Subset, FS_CardinalityType
  <2>2. at \notin reached /\ Cardinality(reached \cup {at}) = Cardinality(reached) + 1
    BY <2>1, FS_AddElement DEF Counted
  <2>3. Len(out) \in Nat /\ Len(out) <= Cardinality(reached)
    BY DEF Counted, PipedNamesReached, TypeOK
  <2>4. CASE out' = out
    <3>1. reached \subseteq reached' /\ Cardinality(reached) <= Cardinality(reached')
          /\ Cardinality(reached') \in Nat
      <4>1. CASE reached' = reached
        BY <2>1, <4>1
      <4>2. CASE reached' = reached \cup {at}
        BY <2>1, <2>2, <4>2
      <4> QED
        BY <4>1, <4>2
    <3>3. \A k \in DOMAIN out : \E p \in reached' : names[p] = out[k]
      BY <3>1 DEF Counted, PipedNamesReached
    <3> QED
      BY <2>1, <2>3, <2>4, <3>1, <3>3 DEF PipedNamesReached
  <2>5. CASE success /\ kind \in Batches /\ out' = Append(out, names[at])
    <3>1. reached' = reached \cup {at}
      BY <2>5
    <3>2. Len(out') = Len(out) + 1 /\ DOMAIN out' = 1 .. Len(out) + 1
          /\ out'[Len(out) + 1] = names[at]
          /\ \A k \in 1 .. Len(out) : out'[k] = out[k]
      BY <1>1, <2>5 DEF TypeOK
    <3>3. DOMAIN out = 1 .. Len(out)
      BY DEF TypeOK
    <3>4. ASSUME NEW k \in DOMAIN out' PROVE \E p \in reached' : names[p] = out'[k]
      <4>1. CASE k = Len(out) + 1
        BY <3>1, <3>2, <4>1
      <4>2. CASE k # Len(out) + 1
        <5>1. k \in DOMAIN out /\ out'[k] = out[k]
          BY <2>3, <3>2, <3>3, <4>2
        <5> QED
          BY <3>1, <5>1 DEF Counted, PipedNamesReached
      <4> QED
        BY <4>1, <4>2
    <3> QED
      BY <2>1, <2>2, <2>3, <3>1, <3>2, <3>4 DEF PipedNamesReached
  <2> QED
    BY <2>4, <2>5
<1>8. Counted'
  BY <1>1, <1>3, <1>7 DEF Counted
<1> QED
  BY <1>4, <1>5, <1>6, <1>8 DEF IInv

LEMMA AttemptedKeeps ==
  ASSUME IInv, pc # "idle", Attempted, UNCHANGED cmd, Outside'
  PROVE  IInv'
<1>1. PICK success \in BOOLEAN : Over(success) /\ UNCHANGED runs
  BY DEF Attempted
<1>2. Once(runs') /\ (kind # "exec" => runs' = <<>>)
  BY <1>1 DEF IInv, Ran
<1> QED
  BY <1>1, <1>2, DoneKeeps DEF Over

LEMMA FailedKeeps ==
  ASSUME IInv, pc # "idle", Failed, UNCHANGED cmd, Outside'
  PROVE  IInv'
  BY AttemptedKeeps DEF Failed, Attempted

(* A step that stays with its name leaves what was counted.                *)
LEMMA NameStays ==
  ASSUME IInv, pc \notin {"idle", "fire"}, pc' \notin {"idle", "fire"},
         UNCHANGED <<kind, names, at, out, runs, reached>>
  PROVE  Ran' /\ Counted'
  BY DEF IInv, Ran, Counted, PipedNamesReached

-----------------------------------------------------------------------------
(* The steps, action by action.                                            *)

LEMMA LookupStep == ASSUME IInv, Lookup PROVE IInv'
<1> USE DEF IInv
<1>1. CASE Failed
  <2>1. pc # "idle" /\ UNCHANGED cmd /\ Outside'
    BY <1>1, Those, FirstRefreshType DEF Lookup, Here, server, files, cmd, Outside,
       TypeOK
  <2> QED
    BY <1>1, <2>1, FailedKeeps
<1>2. CASE \E i \in Matches(Name) :
          Found(i, IF status[i] = "stopped" THEN Path[kind].down
                                            ELSE Path[kind].up)
  <2>1. /\ pc' \in {"poll", "await", "start"} \cap StepsOf[kind]
        /\ UNCHANGED <<status, granted, ports, config, onboarding, kind, names,
                       apikey, at, refresh, orphans, tries, out, up, late, runs,
                       reached>>
        /\ ws' \in Instances
        /\ ws = Nobody
        /\ pc = "lookup"
    BY <1>2, WaysHere, FirstRefreshType, KindsAre, Those
       DEF Leads, FollowsFrom, TypeOK, Here, server, files, cmd, Found, Stay, Goto,
           Lookup
  <2>2. TypeOK'
    BY <2>1 DEF TypeOK, Targets
  <2>3. Placed' /\ Fresh'
    BY WaysHere, <2>1 DEF Leads, FollowsFrom, Placed, Polled, Fresh, Awaited,
       TypeOK, Targets
  <2> QED
    BY <2>1, <2>2, <2>3, NameStays
<1>3. CASE \E x \in NodesNamed(Name) :
          Reachable(x) /\ \E step \in Path[kind].node : Found(x, step)
  <2>1. /\ pc' \in {"refresh", "await", "onboard", "openport"} \cap StepsOf[kind]
        /\ UNCHANGED <<status, granted, ports, config, onboarding, kind, names,
                       apikey, at, refresh, orphans, tries, out, up, late, runs,
                       reached>>
        /\ ws' \in Nodes
        /\ ws = Nobody
        /\ kind \notin {"exec", "ollama"}
        /\ pc = "lookup"
    BY <1>3, WaysHere, FirstRefreshType, KindsAre, Those
       DEF Leads, FollowsFrom, TypeOK, Here, server, files, cmd, Found, Stay, Goto,
           Lookup
  <2>2. TypeOK'
    BY <2>1 DEF TypeOK, Targets
  <2>3. Placed' /\ Fresh'
    BY WaysHere, <2>1 DEF Leads, FollowsFrom, Placed, Polled, Fresh, Awaited,
       TypeOK, Targets
  <2> QED
    BY <2>1, <2>2, <2>3, NameStays
<1> QED
  BY <1>1, <1>2, <1>3 DEF Lookup

LEMMA CheckStep == ASSUME IInv, Check PROVE IInv'
<1> USE DEF IInv
<1>1. CASE Failed
  <2>1. pc # "idle" /\ UNCHANGED cmd /\ Outside'
    BY <1>1, Those, FirstRefreshType DEF Check, Here, server, files, cmd, Outside,
       TypeOK
  <2> QED
    BY <1>1, <2>1, FailedKeeps
<1>2. CASE pc' = "lookup" /\ refresh' = Fired
        /\ Stay /\ UNCHANGED <<ws, tries, up, runs>>
  <2>1. /\ pc' \in {"lookup"} \cap StepsOf[kind]
        /\ UNCHANGED <<status, granted, ports, config, onboarding, kind, names,
                       apikey, at, ws, orphans, tries, out, up, late, runs,
                       reached>>
        /\ refresh' \in Refreshes
        /\ ws = Nobody
        /\ pc = "check"
    BY <1>2, WaysHere, FirstRefreshType, KindsAre
       DEF Leads, FollowsFrom, TypeOK, Here, server, files, cmd, Found, Stay, Goto,
           Check
  <2>2. TypeOK'
    BY <2>1 DEF TypeOK, Targets
  <2>3. Placed' /\ Fresh'
    BY WaysHere, <2>1 DEF Leads, FollowsFrom, Placed, Polled, Fresh, Awaited,
       TypeOK, Targets
  <2> QED
    BY <2>1, <2>2, <2>3, NameStays
<1> QED
  BY <1>1, <1>2 DEF Check

LEMMA OpenStartStep == ASSUME IInv, OpenStart PROVE IInv'
<1> USE DEF IInv
<1>1. CASE UNCHANGED status /\ Failed
  <2>1. pc # "idle" /\ UNCHANGED cmd /\ Outside'
    BY <1>1, Those, FirstRefreshType DEF OpenStart, Here, server, files, cmd,
       Outside, TypeOK
  <2> QED
    BY <1>1, <2>1, FailedKeeps
<1>2. CASE /\ status[ws] = "stopped" /\ status' = [status EXCEPT ![ws] = "starting"]
             /\ Failed
  <2>1. pc # "idle" /\ UNCHANGED cmd /\ Outside'
    BY <1>2, Those, FirstRefreshType DEF OpenStart, Here, server, files, cmd,
       Outside, TypeOK, Statuses
  <2> QED
    BY <1>2, <2>1, FailedKeeps
<1>3. CASE /\ status[ws] = "stopped" /\ status' = [status EXCEPT ![ws] = "starting"]
             /\ Goto("poll")
  <2>1. /\ pc' \in {"poll"} \cap StepsOf[kind]
        /\ UNCHANGED <<granted, ports, config, onboarding, kind, names, apikey, at,
                       ws, refresh, orphans, tries, out, up, late, runs, reached>>
        /\ status' \in [Instances -> Statuses]
        /\ ws \in Instances
        /\ up = FALSE
        /\ pc = "start"
    BY <1>3, WaysHere, FirstRefreshType, KindsAre
       DEF Leads, FollowsFrom, TypeOK, Here, server, files, cmd, Found, Stay, Goto,
           OpenStart, Statuses, Placed, Polled
  <2>2. TypeOK'
    BY <2>1 DEF TypeOK, Targets
  <2>3. Placed' /\ Fresh'
    BY WaysHere, <2>1 DEF Leads, FollowsFrom, Placed, Polled, Fresh, Awaited,
       TypeOK, Targets
  <2> QED
    BY <2>1, <2>2, <2>3, NameStays
<1> QED
  BY <1>1, <1>2, <1>3 DEF OpenStart

LEMMA StartFirstStep == ASSUME IInv, StartFirst PROVE IInv'
<1> USE DEF IInv
<1>1. CASE UNCHANGED status /\ Failed
  <2>1. pc # "idle" /\ UNCHANGED cmd /\ Outside'
    BY <1>1, Those, FirstRefreshType DEF StartFirst, Here, server, files, cmd,
       Outside, TypeOK
  <2> QED
    BY <1>1, <2>1, FailedKeeps
<1>2. CASE \E i \in Listed(Word) :
             /\ status[i] = "stopped"
             /\ status' = [status EXCEPT ![i] = "starting"] /\ Failed
  <2>1. pc # "idle" /\ UNCHANGED cmd /\ Outside'
    BY <1>2, Those, FirstRefreshType DEF StartFirst, Here, server, files, cmd,
       Outside, TypeOK, Statuses
  <2> QED
    BY <1>2, <2>1, FailedKeeps
<1>3. CASE \E i \in Listed(Word) :
             /\ status[i] = "stopped"
             /\ status' = [status EXCEPT ![i] = "starting"] /\ Goto("startpoll")
  <2>1. /\ pc' \in {"startpoll"} \cap StepsOf[kind]
        /\ UNCHANGED <<granted, ports, config, onboarding, kind, names, apikey, at,
                       ws, refresh, orphans, tries, out, up, late, runs, reached>>
        /\ status' \in [Instances -> Statuses]
        /\ ws \in Instances
        /\ up => status'[ws] = "running"
        /\ pc = "start"
    BY <1>3, WaysHere, FirstRefreshType, KindsAre, Those
       DEF Leads, FollowsFrom, TypeOK, Here, server, files, cmd, Found, Stay, Goto,
           StartFirst, Statuses, Placed, Polled
  <2>2. TypeOK'
    BY <2>1 DEF TypeOK, Targets
  <2>3. Placed' /\ Fresh'
    BY WaysHere, <2>1 DEF Leads, FollowsFrom, Placed, Polled, Fresh, Awaited,
       TypeOK, Targets
  <2> QED
    BY <2>1, <2>2, <2>3, NameStays
<1> QED
  BY <1>1, <1>2, <1>3 DEF StartFirst

LEMMA ReadyStep == ASSUME IInv, Ready PROVE IInv'
<1> USE DEF IInv
<1>1. /\ pc' \in {"poll", "relook", "refresh", "build"} \cap StepsOf[kind]
      /\ UNCHANGED <<status, granted, ports, config, onboarding, kind, names,
                     apikey, at, ws, orphans, tries, out, late, runs, reached>>
      /\ up' = TRUE
      /\ refresh' \in Refreshes
      /\ ws \in Instances /\ status[ws] = "running"
      /\ pc' = "relook" /\ kind = "shell" => refresh'.stage = "list"
      /\ pc \in {"startpoll", "poll"}
  BY WaysHere, FirstRefreshType, KindsAre
     DEF Leads, FollowsFrom, TypeOK, Here, server, files, cmd, Found, Stay, Goto,
         Ready, Placed, Polled, Fired
<1>2. TypeOK'
  BY <1>1 DEF TypeOK, Targets
<1>3. Placed' /\ Fresh'
  BY WaysHere, <1>1 DEF Leads, FollowsFrom, Placed, Polled, Fresh, Awaited, TypeOK,
     Targets
<1> QED
  BY <1>1, <1>2, <1>3, NameStays

LEMMA GiveUpStep == ASSUME IInv, GiveUp PROVE IInv'
<1> USE DEF IInv
<1>1. CASE Failed
  <2>1. pc # "idle" /\ UNCHANGED cmd /\ Outside'
    BY <1>1, Those, FirstRefreshType DEF GiveUp, Here, server, files, cmd, Outside,
       TypeOK
  <2> QED
    BY <1>1, <2>1, FailedKeeps
<1> QED
  BY <1>1 DEF GiveUp

LEMMA PollFailsStep == ASSUME IInv, PollFails PROVE IInv'
<1> USE DEF IInv
<1>1. CASE Failed
  <2>1. pc # "idle" /\ UNCHANGED cmd /\ Outside'
    BY <1>1, Those, FirstRefreshType DEF PollFails, Here, server, files, cmd,
       Outside, TypeOK
  <2> QED
    BY <1>1, <2>1, FailedKeeps
<1> QED
  BY <1>1 DEF PollFails

LEMMA RelookStep == ASSUME IInv, Relook PROVE IInv'
<1> USE DEF IInv
<1>1. CASE Failed
  <2>1. pc # "idle" /\ UNCHANGED cmd /\ Outside'
    BY <1>1, Those, FirstRefreshType DEF Relook, Here, server, files, cmd, Outside,
       TypeOK
  <2> QED
    BY <1>1, <2>1, FailedKeeps
<1>2. CASE \E i \in Matches(Word) :
          /\ status[i] = "running"
          /\ pc' = Path[kind].relooked
          /\ ws' = i /\ up' = (up /\ i = ws)
          /\ Stay /\ UNCHANGED <<refresh, tries, runs>>
  <2>1. /\ pc' \in {"refresh", "await"} \cap StepsOf[kind]
        /\ UNCHANGED <<status, granted, ports, config, onboarding, kind, names,
                       apikey, at, refresh, orphans, tries, out, late, runs,
                       reached>>
        /\ ws' \in Instances
        /\ up' \in BOOLEAN
        /\ up' => up /\ ws' = ws
        /\ kind = "copy" => pc' = "refresh"
        /\ pc = "relook" /\ kind # "exec"
    <3>1. pc = "relook" /\ kind # "exec" /\ "relook" \in StepsOf[kind]
      BY WaysHere DEF FollowsFrom, TypeOK, Relook
    <3>2. /\ Path[kind].relooked \in {"refresh", "await"} \cap StepsOf[kind]
          /\ kind = "copy" => Path[kind].relooked = "refresh"
      BY <3>1, WaysHere DEF Leads
    <3>3. PICK i \in Matches(Word) :
            /\ pc' = Path[kind].relooked /\ ws' = i /\ up' = (up /\ i = ws)
            /\ Stay /\ UNCHANGED <<refresh, tries, runs>>
      BY <1>2
    <3>4. i \in Instances
      BY <3>3, Those
    <3>5. up' \in BOOLEAN /\ (up' => up /\ ws' = ws)
      BY <3>3
    <3> QED
      BY <3>1, <3>2, <3>3, <3>4, <3>5 DEF Relook, Here, server, files, cmd, Stay
  <2>2. TypeOK'
    BY <2>1 DEF TypeOK, Targets
  <2>3. Placed' /\ Fresh'
    BY WaysHere, <2>1 DEF Leads, FollowsFrom, Placed, Polled, Fresh, Awaited,
       TypeOK, Targets
  <2> QED
    BY <2>1, <2>2, <2>3, NameStays
<1> QED
  BY <1>1, <1>2 DEF Relook

LEMMA StartRefreshStep == ASSUME IInv, StartRefresh PROVE IInv'
<1> USE DEF IInv
<1>1. /\ pc' \in {"await", "await2"} \cap StepsOf[kind]
      /\ UNCHANGED <<status, granted, ports, config, onboarding, kind, names,
                     apikey, at, ws, orphans, tries, out, up, late, runs,
                     reached>>
      /\ refresh' \in Refreshes
      /\ refresh'.stage = "list"
      /\ pc = "refresh"
  BY WaysHere, FirstRefreshType, KindsAre
     DEF Leads, FollowsFrom, TypeOK, Here, server, files, cmd, Found, Stay, Goto,
         StartRefresh, Fired
<1>2. TypeOK'
  BY <1>1 DEF TypeOK, Targets
<1>3. Placed' /\ Fresh'
  BY WaysHere, <1>1 DEF Leads, FollowsFrom, Placed, Polled, Fresh, Awaited, TypeOK,
     Targets
<1> QED
  BY <1>1, <1>2, <1>3, NameStays

LEMMA AwaitStep == ASSUME IInv, Await PROVE IInv'
<1> USE DEF IInv
<1>1. CASE refresh.stage = "failed" /\ Failed
  <2>1. pc # "idle" /\ UNCHANGED cmd /\ Outside'
    BY <1>1, Those, FirstRefreshType DEF Await, Here, server, files, cmd, Outside,
       TypeOK
  <2> QED
    BY <1>1, <2>1, FailedKeeps
<1>2. CASE refresh.stage = "done" /\ Goto(AfterAwait)
  <2>1. /\ pc' \in {"onboard", "ssh", "tunnel", "publish"} \cap StepsOf[kind]
        /\ UNCHANGED <<status, granted, ports, config, onboarding, kind, names,
                       apikey, at, ws, refresh, orphans, tries, out, up, late,
                       runs, reached>>
        /\ refresh.stage = "done"
        /\ pc' = "ssh" /\ ws \in Instances => Awaited
        /\ pc \in {"await", "await2"}
    BY <1>2, WaysHere, FirstRefreshType, KindsAre
       DEF Leads, FollowsFrom, TypeOK, Here, server, files, cmd, Found, Stay, Goto,
           Await, AfterAwait, Awaited, Placed, Targets
  <2>2. TypeOK'
    BY <2>1 DEF TypeOK, Targets
  <2>3. Placed' /\ Fresh'
    BY WaysHere, <2>1 DEF Leads, FollowsFrom, Placed, Polled, Fresh, Awaited,
       TypeOK, Targets
  <2> QED
    BY <2>1, <2>2, <2>3, NameStays
<1> QED
  BY <1>1, <1>2 DEF Await

LEMMA ReadOnboardingStep == ASSUME IInv, ReadOnboarding PROVE IInv'
<1> USE DEF IInv
<1>1. CASE UNCHANGED onboarding /\ Failed
  <2>1. pc # "idle" /\ UNCHANGED cmd /\ Outside'
    BY <1>1, Those, FirstRefreshType DEF ReadOnboarding, Here, server, files, cmd,
       Outside, TypeOK
  <2> QED
    BY <1>1, <2>1, FailedKeeps
<1>2. CASE onboarding' = "half" /\ Goto("onwrite")
  <2>1. /\ pc' \in {"onwrite"} \cap StepsOf[kind]
        /\ UNCHANGED <<status, granted, ports, config, kind, names, apikey, at, ws,
                       refresh, orphans, tries, out, up, late, runs, reached>>
        /\ onboarding' \in {"half", "whole"}
        /\ pc = "onboard"
    BY <1>2, WaysHere, FirstRefreshType, KindsAre
       DEF Leads, FollowsFrom, TypeOK, Here, server, files, cmd, Found, Stay, Goto,
           ReadOnboarding
  <2>2. TypeOK'
    BY <2>1 DEF TypeOK, Targets
  <2>3. Placed' /\ Fresh'
    BY WaysHere, <2>1 DEF Leads, FollowsFrom, Placed, Polled, Fresh, Awaited,
       TypeOK, Targets
  <2> QED
    BY <2>1, <2>2, <2>3, NameStays
<1> QED
  BY <1>1, <1>2 DEF ReadOnboarding

LEMMA WriteOnboardingStep == ASSUME IInv, WriteOnboarding PROVE IInv'
<1> USE DEF IInv
<1>1. /\ pc' \in {"refresh", "session"} \cap StepsOf[kind]
      /\ UNCHANGED <<status, granted, ports, config, kind, names, apikey, at, ws,
                     refresh, orphans, tries, out, up, late, runs, reached>>
      /\ onboarding' \in {"half", "whole"}
      /\ pc = "onwrite"
  BY WaysHere, FirstRefreshType, KindsAre
     DEF Leads, FollowsFrom, TypeOK, Here, server, files, cmd, Found, Stay, Goto,
         WriteOnboarding, AfterOnboarding
<1>2. TypeOK'
  BY <1>1 DEF TypeOK, Targets
<1>3. Placed' /\ Fresh'
  BY WaysHere, <1>1 DEF Leads, FollowsFrom, Placed, Polled, Fresh, Awaited, TypeOK,
     Targets
<1> QED
  BY <1>1, <1>2, <1>3, NameStays

LEMMA WaitForSSHStep == ASSUME IInv, WaitForSSH PROVE IInv'
<1> USE DEF IInv
<1>1. CASE Failed
  <2>1. pc # "idle" /\ UNCHANGED cmd /\ Outside'
    BY <1>1, Those, FirstRefreshType DEF WaitForSSH, Here, server, files, cmd,
       Outside, TypeOK
  <2> QED
    BY <1>1, <2>1, FailedKeeps
<1>2. CASE Goto("run")
  <2>1. /\ pc' \in {"run"} \cap StepsOf[kind]
        /\ UNCHANGED <<status, granted, ports, config, onboarding, kind, names,
                       apikey, at, ws, refresh, orphans, tries, out, up, late,
                       runs, reached>>
        /\ pc = "ssh"
    BY <1>2, WaysHere, FirstRefreshType, KindsAre
       DEF Leads, FollowsFrom, TypeOK, Here, server, files, cmd, Found, Stay, Goto,
           WaitForSSH
  <2>2. TypeOK'
    BY <2>1 DEF TypeOK, Targets
  <2>3. Placed' /\ Fresh'
    BY WaysHere, <2>1 DEF Leads, FollowsFrom, Placed, Polled, Fresh, Awaited,
       TypeOK, Targets
  <2> QED
    BY <2>1, <2>2, <2>3, NameStays
<1>3. CASE TriesLeft /\ tries' = tries + 1 /\ Stay /\ UNCHANGED <<pc, ws, refresh,
                                                                  up, runs>>
  <2>1. /\ pc' \in {"ssh"} \cap StepsOf[kind]
        /\ UNCHANGED <<status, granted, ports, config, onboarding, kind, names,
                       apikey, at, ws, refresh, orphans, out, up, late, runs,
                       reached>>
        /\ tries' \in 0 .. Tries[kind]
        /\ refresh.stage = "done"
        /\ pc = "ssh"
    <3>1. pc = "ssh" /\ pc \in StepsOf[kind] /\ refresh.stage = "done"
      BY DEF WaitForSSH, TypeOK, Placed
    <3>2. tries \in Nat /\ kind \in Kinds /\ Tries[kind] \in Nat
      BY DEF TypeOK
    <3>3. tries' \in 0 .. Tries[kind]
      BY <1>3, <3>2 DEF TriesLeft
    <3> QED
      BY <1>3, <3>1, <3>3 DEF WaitForSSH, Here, server, files, cmd, Stay
  <2>2. TypeOK'
    BY <2>1 DEF TypeOK, Targets
  <2>3. Placed' /\ Fresh'
    BY WaysHere, <2>1 DEF Leads, FollowsFrom, Placed, Polled, Fresh, Awaited,
       TypeOK, Targets
  <2> QED
    BY <2>1, <2>2, <2>3, NameStays
<1> QED
  BY <1>1, <1>2, <1>3 DEF WaitForSSH

LEMMA RunScpStep == ASSUME IInv, RunScp PROVE IInv'
<1> USE DEF IInv
<1>1. CASE Attempted
  <2>1. pc # "idle" /\ UNCHANGED cmd /\ Outside'
    BY <1>1, Those, FirstRefreshType DEF RunScp, Here, server, files, cmd, Outside,
       TypeOK
  <2> QED
    BY <1>1, <2>1, AttemptedKeeps
<1> QED
  BY <1>1 DEF RunScp

LEMMA RunShellStep == ASSUME IInv, RunShell PROVE IInv'
<1> USE DEF IInv
<1>1. /\ pc' \in {"onboard"} \cap StepsOf[kind]
      /\ UNCHANGED <<status, granted, ports, config, onboarding, kind, names,
                     apikey, at, ws, refresh, orphans, tries, out, up, late, runs,
                     reached>>
      /\ pc = "run"
  BY WaysHere, FirstRefreshType, KindsAre
     DEF Leads, FollowsFrom, TypeOK, Here, server, files, cmd, Found, Stay, Goto,
         RunShell
<1>2. TypeOK'
  BY <1>1 DEF TypeOK, Targets
<1>3. Placed' /\ Fresh'
  BY WaysHere, <1>1 DEF Leads, FollowsFrom, Placed, Polled, Fresh, Awaited, TypeOK,
     Targets
<1> QED
  BY <1>1, <1>2, <1>3, NameStays

LEMMA ShellSessionStep == ASSUME IInv, ShellSession PROVE IInv'
<1> USE DEF IInv
<1>1. CASE Attempted
  <2>1. pc # "idle" /\ UNCHANGED cmd /\ Outside'
    BY <1>1, Those, FirstRefreshType DEF ShellSession, Here, server, files, cmd,
       Outside, TypeOK
  <2> QED
    BY <1>1, <2>1, AttemptedKeeps
<1> QED
  BY <1>1 DEF ShellSession

LEMMA OpenEditorStep == ASSUME IInv, OpenEditor PROVE IInv'
<1> USE DEF IInv
<1>1. CASE Attempted
  <2>1. pc # "idle" /\ UNCHANGED cmd /\ Outside'
    BY <1>1, Those, FirstRefreshType DEF OpenEditor, Here, server, files, cmd,
       Outside, TypeOK
  <2> QED
    BY <1>1, <2>1, AttemptedKeeps
<1> QED
  BY <1>1 DEF OpenEditor

LEMMA OpenPortStep == ASSUME IInv, OpenPort PROVE IInv'
<1> USE DEF IInv
<1>1. CASE ports' = ports \cup {ws} /\ Failed
  <2>1. pc # "idle" /\ UNCHANGED cmd /\ Outside'
    BY <1>1, Those, FirstRefreshType DEF OpenPort, Here, server, files, cmd,
       Outside, TypeOK, Placed
  <2> QED
    BY <1>1, <2>1, FailedKeeps
<1>2. CASE UNCHANGED ports /\ Failed
  <2>1. pc # "idle" /\ UNCHANGED cmd /\ Outside'
    BY <1>2, Those, FirstRefreshType DEF OpenPort, Here, server, files, cmd,
       Outside, TypeOK
  <2> QED
    BY <1>2, <2>1, FailedKeeps
<1>3. CASE ports' = ports \cup {ws} /\ Goto("await")
  <2>1. /\ pc' \in {"await"} \cap StepsOf[kind]
        /\ UNCHANGED <<status, granted, config, onboarding, kind, names, apikey,
                       at, ws, refresh, orphans, tries, out, up, late, runs,
                       reached>>
        /\ ports' \subseteq Nodes
        /\ pc = "openport" /\ kind \in {"forward", "notebook"}
    BY <1>3, WaysHere, FirstRefreshType, KindsAre
       DEF Leads, FollowsFrom, TypeOK, Here, server, files, cmd, Found, Stay, Goto,
           OpenPort, Placed
  <2>2. TypeOK'
    BY <2>1 DEF TypeOK, Targets
  <2>3. Placed' /\ Fresh'
    BY WaysHere, <2>1 DEF Leads, FollowsFrom, Placed, Polled, Fresh, Awaited,
       TypeOK, Targets
  <2> QED
    BY <2>1, <2>2, <2>3, NameStays
<1> QED
  BY <1>1, <1>2, <1>3 DEF OpenPort

LEMMA CreateServerStep == ASSUME IInv, CreateServer PROVE IInv'
<1> USE DEF IInv
<1>1. CASE UNCHANGED status /\ Failed
  <2>1. pc # "idle" /\ UNCHANGED cmd /\ Outside'
    BY <1>1, Those, FirstRefreshType DEF CreateServer, Here, server, files, cmd,
       Outside, TypeOK
  <2> QED
    BY <1>1, <2>1, FailedKeeps
<1>2. CASE \E i \in Instances : status' = [status EXCEPT ![i] = "starting"] /\ Failed
  <2>1. pc # "idle" /\ UNCHANGED cmd /\ Outside'
    BY <1>2, Those, FirstRefreshType DEF CreateServer, Here, server, files, cmd,
       Outside, TypeOK, Statuses
  <2> QED
    BY <1>2, <2>1, FailedKeeps
<1>3. CASE \E i \in Instances : status' = [status EXCEPT ![i] = "starting"] /\ Found(i, "poll")
  <2>1. /\ pc' \in {"poll"} \cap StepsOf[kind]
        /\ UNCHANGED <<granted, ports, config, onboarding, kind, names, apikey, at,
                       refresh, orphans, tries, out, up, late, runs, reached>>
        /\ status' \in [Instances -> Statuses]
        /\ ws' \in Instances
        /\ up = FALSE
        /\ pc = "create"
    BY <1>3, WaysHere, FirstRefreshType, KindsAre
       DEF Leads, FollowsFrom, TypeOK, Here, server, files, cmd, Found, Stay, Goto,
           CreateServer, Statuses, Placed, Targets
  <2>2. TypeOK'
    BY <2>1 DEF TypeOK, Targets
  <2>3. Placed' /\ Fresh'
    BY WaysHere, <2>1 DEF Leads, FollowsFrom, Placed, Polled, Fresh, Awaited,
       TypeOK, Targets
  <2> QED
    BY <2>1, <2>2, <2>3, NameStays
<1> QED
  BY <1>1, <1>2, <1>3 DEF CreateServer

LEMMA BuildContainerStep == ASSUME IInv, BuildContainer PROVE IInv'
<1> USE DEF IInv
<1>1. CASE Failed
  <2>1. pc # "idle" /\ UNCHANGED cmd /\ Outside'
    BY <1>1, Those, FirstRefreshType DEF BuildContainer, Here, server, files, cmd,
       Outside, TypeOK
  <2> QED
    BY <1>1, <2>1, FailedKeeps
<1>2. CASE Goto("verb")
  <2>1. /\ pc' \in {"verb"} \cap StepsOf[kind]
        /\ UNCHANGED <<status, granted, ports, config, onboarding, kind, names,
                       apikey, at, ws, refresh, orphans, tries, out, up, late,
                       runs, reached>>
        /\ pc = "build"
    BY <1>2, WaysHere, FirstRefreshType, KindsAre
       DEF Leads, FollowsFrom, TypeOK, Here, server, files, cmd, Found, Stay, Goto,
           BuildContainer
  <2>2. TypeOK'
    BY <2>1 DEF TypeOK, Targets
  <2>3. Placed' /\ Fresh'
    BY WaysHere, <2>1 DEF Leads, FollowsFrom, Placed, Polled, Fresh, Awaited,
       TypeOK, Targets
  <2> QED
    BY <2>1, <2>2, <2>3, NameStays
<1> QED
  BY <1>1, <1>2 DEF BuildContainer

LEMMA ContainerReadyStep == ASSUME IInv, ContainerReady PROVE IInv'
<1> USE DEF IInv
<1>1. CASE Failed
  <2>1. pc # "idle" /\ UNCHANGED cmd /\ Outside'
    BY <1>1, Those, FirstRefreshType DEF ContainerReady, Here, server, files, cmd,
       Outside, TypeOK
  <2> QED
    BY <1>1, <2>1, FailedKeeps
<1>2. CASE Goto("refresh")
  <2>1. /\ pc' \in {"refresh"} \cap StepsOf[kind]
        /\ UNCHANGED <<status, granted, ports, config, onboarding, kind, names,
                       apikey, at, ws, refresh, orphans, tries, out, up, late,
                       runs, reached>>
        /\ pc = "verb"
    BY <1>2, WaysHere, FirstRefreshType, KindsAre
       DEF Leads, FollowsFrom, TypeOK, Here, server, files, cmd, Found, Stay, Goto,
           ContainerReady
  <2>2. TypeOK'
    BY <2>1 DEF TypeOK, Targets
  <2>3. Placed' /\ Fresh'
    BY WaysHere, <2>1 DEF Leads, FollowsFrom, Placed, Polled, Fresh, Awaited,
       TypeOK, Targets
  <2> QED
    BY <2>1, <2>2, <2>3, NameStays
<1> QED
  BY <1>1, <1>2 DEF ContainerReady

LEMMA PublishTunnelStep == ASSUME IInv, PublishTunnel PROVE IInv'
<1> USE DEF IInv
<1>1. CASE Attempted
  <2>1. pc # "idle" /\ UNCHANGED cmd /\ Outside'
    BY <1>1, Those, FirstRefreshType DEF PublishTunnel, Here, server, files, cmd,
       Outside, TypeOK
  <2> QED
    BY <1>1, <2>1, AttemptedKeeps
<1> QED
  BY <1>1 DEF PublishTunnel

LEMMA ExecLookupStep == ASSUME IInv, ExecLookup PROVE IInv'
<1> USE DEF IInv
<1>1. pc = "lookup" /\ kind = "exec" /\ UNCHANGED <<server, files, cmd>> /\ ws = Nobody
  BY DEF ExecLookup, Here, TypeOK
<1>2. Outside'
  BY <1>1 DEF Outside, TypeOK, server, files
<1>3. CASE Failed
  BY <1>1, <1>2, <1>3, FailedKeeps
<1>4. ASSUME NEW i \in Matches(Name),
             \/ status[i] = "stopped" /\ pc' = ExecPath.down
             \/ status[i] = "running" /\ pc' = ExecPath.up,
             ws' = i, up' = (status[i] = "running"),
             Stay, UNCHANGED <<refresh, tries, runs>>
      PROVE  IInv'
  <2>1. pc' \in {"start", "refresh"} \cap StepsOf[kind]
    BY <1>1, <1>4, WaysHere DEF Leads, FollowsFrom, ExecPath
  <2>2. /\ ws' \in Instances
        /\ UNCHANGED <<status, granted, ports, config, onboarding, kind, names, apikey, at,
                       refresh, orphans, tries, out, late, runs, reached>>
    BY <1>1, <1>4, Those DEF Stay, server, files, cmd
  <2>3. up' \in BOOLEAN /\ (up' => status[ws'] = "running")
    BY <1>4
  <2>4. TypeOK'
    BY <1>1, <2>1, <2>2, <2>3 DEF TypeOK, Targets
  <2>5. Placed'
    BY <2>1, <2>2, <2>3 DEF Placed, Polled
  <2>6. Fresh'
    BY <2>1 DEF Fresh, Awaited
  <2> QED
    BY <1>1, <2>1, <2>2, <2>4, <2>5, <2>6, NameStays
<1> QED
  BY <1>3, <1>4 DEF ExecLookup

(* The user's command and the sessions that end otherwise.                 *)
LEMMA FireStep == ASSUME IInv, Fire PROVE IInv'
<1> USE DEF IInv
<1>1. pc = "fire" /\ kind = "exec" /\ UNCHANGED <<server, files, cmd>>
  BY WaysHere DEF Leads, FollowsFrom, Fire, Here
<1>2. Outside'
  BY <1>1 DEF Outside, TypeOK, server, files
<1>3. CASE Over(TRUE) /\ runs' = <<"ok">>
  <2>1. Once(runs')
    BY <1>3 DEF Once, Ends
  <2> QED
    BY <1>1, <1>2, <1>3, <2>1, DoneKeeps DEF Over
<1>4. CASE /\ pc' = "lookup" /\ runs' \in {<<>>, <<"failed">>, <<"lost">>}
           /\ Stay /\ UNCHANGED <<ws, refresh, tries, up>>
  <2>1. /\ pc' = "lookup" /\ pc' \in StepsOf[kind] /\ ws = Nobody
        /\ UNCHANGED <<status, granted, ports, config, onboarding, kind, names, apikey, at,
                       ws, refresh, orphans, tries, out, up, late, reached>>
    BY <1>1, <1>4, WaysHere DEF Leads, FollowsFrom, Stay, server, files, cmd, TypeOK
  <2>2. TypeOK'
    BY <1>1, <2>1 DEF TypeOK
  <2>3. Placed' /\ Fresh'
    BY <1>1, <2>1 DEF Placed, Polled, Fresh, Awaited, TypeOK
  <2>4. Ran'
    <3>1. CASE runs' = <<>>
      BY <1>1, <2>1, <3>1 DEF Ran, Once, Ends
    <3>2. CASE runs' \in {<<"failed">>, <<"lost">>}
      <4>1. /\ runs' \in Seq(Ends) /\ Len(runs') = 1
            /\ DOMAIN runs' = {1} /\ runs'[1] # "ok"
        BY <3>2 DEF Ends
      <4> QED
        BY <1>1, <2>1, <4>1 DEF Ran, Once
    <3> QED
      BY <1>4, <3>1, <3>2
  <2>5. Counted'
    BY <1>1, <2>1 DEF Counted, PipedNamesReached
  <2> QED
    BY <2>1, <2>2, <2>3, <2>4, <2>5 DEF IInv
<1> QED
  BY <1>3, <1>4 DEF Fire, LooksDown, Ends

LEMMA RunCommandStep == ASSUME IInv, RunCommand PROVE IInv'
<1> USE DEF IInv
<1>1. pc = "run" /\ kind = "exec" /\ UNCHANGED <<server, files, cmd>>
  BY DEF RunCommand, Here
<1>2. Outside'
  BY <1>1 DEF Outside, TypeOK, server, files
<1>3. CASE Failed
  BY <1>1, <1>2, <1>3, FailedKeeps
<1>4. ASSUME NEW end \in Ends, runs' = Append(runs, end), Over(end = "ok")
      PROVE  IInv'
  <2>1. /\ runs \in Seq(Ends) /\ Len(runs) <= 1
        /\ \A k \in DOMAIN runs : runs[k] # "ok"
    BY <1>1 DEF Ran, Once
  <2>2. /\ Len(runs') = Len(runs) + 1 /\ runs' \in Seq(Ends)
        /\ DOMAIN runs' = 1 .. Len(runs) + 1
        /\ \A k \in 1 .. Len(runs) : runs'[k] = runs[k]
    BY <1>4, <2>1 DEF Ends
  <2>3. Once(runs')
    BY <2>1, <2>2 DEF Once
  <2>4. (end = "ok") \in BOOLEAN
    OBVIOUS
  <2> QED
    BY <1>1, <1>2, <1>4, <2>3, <2>4, DoneKeeps DEF Over
<1> QED
  BY <1>3, <1>4 DEF RunCommand

LEMMA OpenOnInstanceStep == ASSUME IInv, OpenOnInstance PROVE IInv'
<1> USE DEF IInv
<1>1. pc # "idle" /\ UNCHANGED cmd /\ Outside' /\ Done(FALSE) /\ reached' = reached \cup {at}
  BY DEF OpenOnInstance, Here, server, files, Outside, TypeOK
<1>2. Once(runs') /\ (kind # "exec" => runs' = <<>>)
  BY DEF OpenOnInstance, Ran
<1> QED
  BY <1>1, <1>2, DoneKeeps

LEMMA TunnelStep == ASSUME IInv, Tunnel PROVE IInv'
<1> USE DEF IInv
<1>1. pc # "idle" /\ UNCHANGED cmd /\ Outside' /\ UNCHANGED <<runs, reached>>
  BY DEF Tunnel, Here, server, files, Outside, TypeOK
<1>2. kind \in {"forward", "notebook"} /\ kind \notin Batches
  BY WaysHere DEF Leads, FollowsFrom, Tunnel, Batches
<1>3. Once(runs') /\ (kind # "exec" => runs' = <<>>)
  BY <1>1 DEF Ran
<1>4. PICK ok \in BOOLEAN : Done(ok)
  BY DEF Tunnel
<1> QED
  BY <1>1, <1>2, <1>3, <1>4, DoneKeeps

(* The refreshes, and what goes on beside the command.                     *)
LEMMA ListingType == ASSUME TypeOK PROVE Listing \in Refreshes
  BY DEF Listing, Refreshes, TypeOK, Targets

LEMMA RefreshListStep == ASSUME IInv, RefreshList PROVE IInv'
<1> USE DEF IInv
<1>1. /\ UNCHANGED <<status, granted, ports, config, onboarding, kind, names, apikey, pc, at,
                     ws, orphans, tries, out, up, late, runs, reached>>
      /\ refresh.stage = "list"
  BY DEF RefreshList, server, files, cmd
<1>2. \/ refresh' = [stage |-> "failed", seen |-> {}]
      \/ refresh' = Listing
  BY DEF RefreshList
<1>3. /\ refresh' \in Refreshes /\ refresh'.stage \in {"write", "failed"}
      /\ refresh'.stage = "write" =>
           {i \in Instances : status[i] = "running"} \subseteq refresh'.seen
  <2>1. CASE refresh' = [stage |-> "failed", seen |-> {}]
    BY <2>1 DEF Refreshes
  <2>2. CASE refresh' = Listing
    <3>1. Listing.stage = "write"
          /\ {i \in Instances : status[i] = "running"} \subseteq Listing.seen
      BY DEF Listing
    <3> QED
      BY <2>2, <3>1, ListingType
  <2> QED
    BY <1>2, <2>1, <2>2
<1>4. TypeOK'
  BY <1>1, <1>3 DEF TypeOK
<1>5. Placed'
  BY <1>1 DEF Placed, Polled
<1>6. Fresh'
  BY <1>1, <1>3 DEF Fresh, Awaited, Placed
<1>7. Ran' /\ Counted'
  BY <1>1 DEF Ran, Counted, PipedNamesReached
<1> QED
  BY <1>1, <1>4, <1>5, <1>6, <1>7 DEF IInv

LEMMA RefreshWriteStep == ASSUME IInv, RefreshWrite PROVE IInv'
<1> USE DEF IInv
<1>1. /\ UNCHANGED <<status, granted, ports, onboarding, kind, names, apikey, pc, at,
                     ws, orphans, tries, out, up, late, runs, reached>>
      /\ refresh.stage = "write" /\ config' = refresh.seen
      /\ refresh' = [stage |-> "done", seen |-> {}]
  BY DEF RefreshWrite, server, cmd
<1>2. config' \subseteq Targets /\ refresh' \in Refreshes
  BY <1>1 DEF TypeOK, Refreshes
<1>3. TypeOK'
  BY <1>1, <1>2 DEF TypeOK
<1>4. Placed'
  BY <1>1 DEF Placed, Polled
<1>5. Fresh'
  BY <1>1 DEF Fresh, Awaited
<1>6. Ran' /\ Counted'
  BY <1>1 DEF Ran, Counted, PipedNamesReached
<1> QED
  BY <1>1, <1>3, <1>4, <1>5, <1>6 DEF IInv

LEMMA OrphanStepStep == ASSUME IInv, OrphanStep PROVE IInv'
<1> USE DEF IInv
<1>1. /\ UNCHANGED <<status, granted, ports, onboarding, kind, names, apikey, pc, at,
                     ws, refresh, tries, out, up, runs, reached>>
      /\ UNCHANGED <<config, late>> \/ late' = TRUE
  BY DEF OrphanStep, server, cmd
<1>2. orphans' \subseteq Refreshes /\ config' \subseteq Targets
  BY ListingType DEF OrphanStep, TypeOK, Refreshes
<1>3. TypeOK'
  BY <1>1, <1>2 DEF TypeOK
<1>4. Placed'
  BY <1>1 DEF Placed, Polled
<1>5. Fresh'
  BY <1>1 DEF Fresh, Awaited
<1>6. Ran' /\ Counted'
  BY <1>1 DEF Ran, Counted, PipedNamesReached
<1> QED
  BY <1>1, <1>3, <1>4, <1>5, <1>6 DEF IInv

LEMMA EvolveStep ==
  ASSUME IInv, NEW i \in Instances, NEW from \in Statuses \ {"running"}, NEW to \in Statuses,
         Evolve(i, from, to) \/ Evolve(i, "running", "stopped")
  PROVE  IInv'
<1> USE DEF IInv
<1>1. /\ UNCHANGED <<granted, ports, config, onboarding, kind, names, apikey, pc, at,
                     ws, refresh, orphans, tries, out, late, runs, reached>>
      /\ up' = (up /\ i # ws)
  BY DEF Evolve, files, cmd
<1>2. status' \in [Instances -> Statuses] /\ \A j \in Instances \ {i} : status'[j] = status[j]
  BY DEF Evolve, Statuses, TypeOK
<1>3. up' \in BOOLEAN /\ (up' => up /\ i # ws)
  BY <1>1 DEF TypeOK
<1>4. TypeOK'
  BY <1>1, <1>2, <1>3 DEF TypeOK
<1>5. Placed'
  BY <1>1, <1>2, <1>3 DEF Placed, Polled
<1>6. Fresh'
  BY <1>1, <1>3 DEF Fresh, Awaited
<1>7. Ran' /\ Counted'
  BY <1>1 DEF Ran, Counted, PipedNamesReached
<1> QED
  BY <1>1, <1>4, <1>5, <1>6, <1>7 DEF IInv

LEMMA ServerStep ==
  ASSUME IInv, NEW i \in Instances, Boot(i) \/ Halt(i) \/ Vanish(i)
  PROVE  IInv'
  BY EvolveStep DEF Boot, Halt, Vanish, Statuses

LEMMA DiesStep == ASSUME IInv, pc # "idle", Dies, Here PROVE IInv'
<1> USE DEF IInv
<1>1. /\ UNCHANGED <<status, granted, ports, config, onboarding, kind, names, apikey, at,
                     out, runs, reached>>
      /\ pc # "idle" /\ pc' = "idle" /\ ws' = Nobody /\ refresh' = NoRefresh /\ orphans' = {}
      /\ tries' = 0 /\ up' = FALSE /\ late' = FALSE
  BY DEF Dies, Here, server, files, cmd
<1>2. kind \in Kinds /\ "idle" \in StepsOf[kind]
  BY WaysHere DEF Leads, FollowsFrom, TypeOK
<1>3. refresh' \in Refreshes
  BY <1>1, FirstRefreshType
<1>4. tries' \in 0 .. Tries[kind']
  BY <1>1, <1>2
<1>5. TypeOK'
  BY <1>1, <1>2, <1>3, <1>4 DEF TypeOK
<1>6. Placed' /\ Fresh' /\ Ran' /\ Counted'
  BY <1>1 DEF Placed, Polled, Fresh, Awaited, Ran, Counted, PipedNamesReached
<1> QED
  BY <1>5, <1>6

LEMMA KillStep == ASSUME IInv, Kill \/ StartGone PROVE IInv'
  BY DiesStep DEF Kill, StartGone

LEMMA StartCommandStep == ASSUME IInv, StartCommand PROVE IInv'
<1> USE DEF IInv
<1>1. /\ UNCHANGED <<status, granted, ports, config, onboarding, apikey, ws, orphans,
                     tries, up, late>>
      /\ pc = "idle" /\ at' = 1 /\ out' = <<>> /\ runs' = <<>> /\ reached' = {}
      /\ kind' \in Kinds /\ pc' = Path[kind'].first /\ refresh' = FirstRefresh(kind')
      /\ names' \in NamesFor(kind')
  BY DEF StartCommand, server, files
<1>2. PICK n \in Nat \ {0} : names' \in [1 .. n -> Words]
  BY <1>1 DEF NamesFor
<1>3. names' \in Seq(Words) /\ Len(names') = n /\ at' \in 1 .. Len(names')
  BY <1>1, <1>2
<1>4. /\ pc' \in {"fire", "lookup", "check", "create"} \cap StepsOf[kind']
      /\ pc' = "fire" <=> kind' = "exec"
      /\ refresh' \in Refreshes
  BY <1>1, Ways, FirstRefreshType DEF Leads, FollowsFrom
<1>5. ws = Nobody /\ tries = 0 /\ ~up
  BY <1>1 DEF TypeOK, Placed, Targets
<1>6. TypeOK'
  <2>1. tries' \in 0 .. Tries[kind']
    BY <1>1, <1>5
  <2> QED
    BY <1>1, <1>3, <1>4, <1>5, <2>1 DEF TypeOK
<1>7. Placed' /\ Fresh'
  BY <1>1, <1>4, <1>5 DEF Placed, Polled, Fresh, Awaited
<1>8. Ran'
  BY <1>1 DEF Ran, Once, Ends
<1>9. Counted'
  BY <1>1, <1>3, FS_EmptySet DEF Counted, PipedNamesReached
<1> QED
  BY <1>1, <1>6, <1>7, <1>8, <1>9 DEF IInv

LEMMA StutterStep == ASSUME IInv, UNCHANGED vars PROVE IInv'
  BY DEF IInv, vars, server, files, cmd, TypeOK, Placed, Polled, Fresh, Awaited,
     Ran,
         Counted, PipedNamesReached

-----------------------------------------------------------------------------
(* The theorems.                                                           *)

LEMMA InitIInv == Init => IInv
<1> SUFFICES ASSUME Init PROVE IInv
  OBVIOUS
<1>1. kind \in Kinds /\ "idle" \in StepsOf[kind]
  BY KindsAre, Ways DEF Leads, FollowsFrom, Init
<1>2. TypeOK
  <2>1. status \in [Instances -> Statuses] /\ config \subseteq Targets
    BY DEF Init, Statuses, Targets
  <2>2. names \in Seq(Words) /\ out \in Seq(Words) /\ refresh \in Refreshes
    BY FirstRefreshType DEF Init
  <2>3. tries \in 0 .. Tries[kind]
    BY <1>1 DEF Init
  <2> QED
    BY <1>1, <2>1, <2>2, <2>3 DEF Init, TypeOK
<1>3. Placed /\ Fresh /\ Ran
  BY DEF Init, Placed, Polled, Fresh, Ran, Once, Ends
<1>4. Counted
  BY FS_EmptySet DEF Init, Counted, PipedNamesReached
<1> QED
  BY <1>2, <1>3, <1>4 DEF IInv

LEMMA NextIInv == IInv /\ [Next]_vars => IInv'
<1> SUFFICES ASSUME IInv, [Next]_vars PROVE IInv'
  OBVIOUS
<1>1. CASE Work
  BY <1>1, FireStep, ExecLookupStep, LookupStep, CheckStep, OpenStartStep,
     StartFirstStep, KillStep, ReadyStep, GiveUpStep, RelookStep, StartRefreshStep,
     AwaitStep, ReadOnboardingStep, WriteOnboardingStep, WaitForSSHStep,
     RunCommandStep, RunScpStep, RunShellStep, ShellSessionStep, OpenEditorStep,
     OpenOnInstanceStep, TunnelStep, OpenPortStep, CreateServerStep,
     BuildContainerStep, ContainerReadyStep, PublishTunnelStep DEF Work
<1>2. CASE Refreshing \/ OrphanStep
  BY <1>2, RefreshListStep, RefreshWriteStep, OrphanStepStep DEF Refreshing
<1>3. CASE StartCommand \/ PollFails \/ Kill
  BY <1>3, StartCommandStep, PollFailsStep, KillStep
<1>4. CASE PollAgain \/ UNCHANGED vars
  BY <1>4, StutterStep DEF PollAgain
<1>5. CASE \E i \in Instances : Boot(i) \/ Halt(i) \/ Vanish(i)
  BY <1>5, ServerStep
<1> QED
  BY <1>1, <1>2, <1>3, <1>4, <1>5 DEF Next

(* The invariant the others follow from, of every behaviour.               *)
THEOREM InvariantCorrect == Spec => []IInv
<1>1. IInv /\ [Next]_vars => IInv'
  BY NextIInv
<1> QED
  BY <1>1, InitIInv, PTL DEF Spec

(* Every variable keeps its type, and every command to its own steps.      *)
THEOREM TypeCorrect == Spec => []TypeOK
<1>1. IInv => TypeOK
  BY DEF IInv
<1> QED
  BY <1>1, InvariantCorrect, PTL

(* open and exec print a name for the next command of a pipe only after a  *)
(* session with it that went well.                                         *)
THEOREM PipeCorrect == Spec => []PipedNamesReached
<1>1. IInv => PipedNamesReached
  BY DEF IInv, Counted
<1> QED
  BY <1>1, InvariantCorrect, PTL

(* The refresh a command awaited has written the entry of an instance that *)
(* kept running, before the command waits for SSH.                         *)
THEOREM EntryCorrect == Spec => []EntryBeforeSSH
<1>1. IInv => EntryBeforeSSH
  BY DEF IInv, Fresh, Awaited, Placed, EntryBeforeSSH
<1> QED
  BY <1>1, InvariantCorrect, PTL

(* For each name it is given, brev exec runs the user's command twice at   *)
(* most, and not after a run whose good end ssh reported; a run that ended *)
(* well over a connection then lost is not such a one (exec.go:189, 267).  *)
THEOREM ExecCorrect == Spec => []NotRunAgain
<1>1. IInv => NotRunAgain
  BY DEF IInv, Ran, Once, NotRunAgain
<1> QED
  BY <1>1, InvariantCorrect, PTL

-----------------------------------------------------------------------------
(* The refinement: what an action does to the batch.                       *)

(* Most actions are about one name: the batch stands still.                *)
Still == UNCHANGED <<names, at, out>> /\ (pc = "idle" <=> pc' = "idle")

LEMMA StillStutters == ASSUME Still PROVE UNCHANGED Promise!nvars
  BY DEF Still, Promise!nvars

LEMMA DoneTries ==
  ASSUME IInv, pc # "idle", NEW success \in BOOLEAN, Done(success), UNCHANGED cmd
  PROVE  \E good \in BOOLEAN : Promise!Try(good)
<1>1. /\ at \in 1 .. Len(names) /\ Len(names) \in Nat /\ at \in Nat
      /\ names # <<>> /\ names' = names /\ (at - 1) + 1 = at
  BY DEF IInv, TypeOK, cmd
<1>2. \/ at = Len(names) /\ pc' = "idle" /\ at' = at
      \/ at # Len(names) /\ pc' # "idle" /\ at' - 1 = at
  <2>1. kind \in Kinds /\ Leads(kind)
    BY WaysHere DEF IInv, TypeOK
  <2> QED
    BY <1>1, <2>1 DEF Done, MoreNames, Leads
<1>3. PICK good \in BOOLEAN : out' = IF good THEN Append(out, names[at]) ELSE out
  BY DEF Done, Printed, Name
<1>4. (IF names' = <<>> THEN 0 ELSE IF pc' = "idle" THEN at' ELSE at' - 1) = at
  BY <1>1, <1>2
<1>5. (IF names = <<>> THEN 0 ELSE IF pc = "idle" THEN at ELSE at - 1) = at - 1
  BY <1>1
<1>6. /\ Promise!MustEnd(at, good) <=> at = Len(names)
      /\ Promise!MustEnd(at, good) => Promise!MayEnd(at, good)
      /\ Promise!Handing
  BY DEF Promise!MustEnd, Promise!MayEnd, Promise!Handing
<1>7. Promise!Try(good)
  BY <1>1, <1>2, <1>3, <1>4, <1>5, <1>6 DEF Promise!Try
<1> QED
  BY <1>7

LEMMA StartTakes == ASSUME IInv', StartCommand PROVE Promise!Take
<1>1. names' \in Seq(Words) /\ at' \in 1 .. Len(names') /\ at' = 1 /\ pc' # "idle"
  <2>1. kind' \in Kinds /\ Leads(kind')
    BY Ways DEF IInv, TypeOK
  <2> QED
    BY <2>1 DEF StartCommand, IInv, TypeOK, Leads
<1>2. names' # <<>> /\ at' - 1 = 0
  BY <1>1
<1>3. [goesOn |-> TRUE, fragile |-> {}] \in Promise!Policies
  BY DEF Promise!Policies
<1> QED
  BY <1>1, <1>2, <1>3 DEF StartCommand, Promise!Take

(* A command at work has an instance or a node, or has yet to look for it. *)
LEMMA WorkBatch ==
  ASSUME IInv, IInv', Work \/ PollFails, ~StartGone
  PROVE  /\ pc # "idle" /\ UNCHANGED cmd
         /\ Still \/ \E success \in BOOLEAN : Done(success)
<1> DEFINE Given == \E success \in BOOLEAN : Done(success)
<1>1. TypeOK /\ TypeOK'
  BY DEF IInv
<1>2. ws' # Nobody => pc' # "idle"
  BY <1>1 DEF TypeOK
<1>3. pc \notin {"idle", "fire", "lookup", "check", "create"} => ws # Nobody
  BY <1>1 DEF TypeOK
<1> USE <1>2, <1>3 DEF Still, Stay, Here, cmd, Failed, Attempted, Over, Goto
<1>4. CASE Fire
  <2>1. Over(TRUE) \/ (pc' = "lookup" /\ Stay)
    BY <1>4 DEF Fire
  <2>2. pc # "idle" /\ UNCHANGED cmd
    BY <1>4 DEF Fire
  <2> QED
    BY <2>1, <2>2
<1>14. CASE Check
  BY <1>14 DEF Check
<1>13. CASE ExecLookup
  <2>1. pc = "lookup" /\ UNCHANGED cmd
    BY <1>13 DEF ExecLookup
  <2>2. Failed \/ (ws' \in Instances /\ Stay)
    BY <1>13, Those DEF ExecLookup
  <2> QED
    BY <2>1, <2>2 DEF Targets
<1>5. CASE Lookup \/ CreateServer
  BY <1>5, Those DEF Lookup, CreateServer, Found, Targets
<1>6. CASE OpenStart \/ StartFirst
  BY <1>6 DEF OpenStart, StartFirst
<1>7. CASE Ready \/ GiveUp \/ PollFails
  BY <1>7 DEF Ready, GiveUp, PollFails
<1>8. CASE Relook
  BY <1>8, Those DEF Relook, Targets
<1>9. CASE StartRefresh \/ Await \/ ReadOnboarding \/ WriteOnboarding
  BY <1>9 DEF StartRefresh, Await, ReadOnboarding, WriteOnboarding
<1>10. CASE WaitForSSH \/ RunCommand \/ RunScp \/ RunShell \/ ShellSession
  BY <1>10 DEF WaitForSSH, RunCommand, RunScp, RunShell, ShellSession
<1>11. CASE OpenEditor \/ OpenOnInstance \/ Tunnel \/ OpenPort
  BY <1>11 DEF OpenEditor, OpenOnInstance, Tunnel, OpenPort
<1>12. CASE BuildContainer \/ ContainerReady \/ PublishTunnel
  BY <1>12 DEF BuildContainer, ContainerReady, PublishTunnel
<1> QED
  BY <1>4, <1>5, <1>6, <1>7, <1>8, <1>9, <1>10, <1>11, <1>12, <1>13,
     <1>14 DEF Work

LEMMA NextBatch ==
  IInv /\ IInv' /\ [Next]_vars => [Promise!NNext \/ Kill \/ StartGone]_(Promise!nvars)
<1> SUFFICES ASSUME IInv, IInv', [Next]_vars, ~Kill, ~StartGone
             PROVE  Promise!NNext \/ UNCHANGED Promise!nvars
  OBVIOUS
<1>1. CASE \/ UNCHANGED vars \/ PollAgain \/ Refreshing \/ OrphanStep
           \/ \E i \in Instances : Boot(i) \/ Halt(i) \/ Vanish(i)
  <2>1. Still
    BY <1>1 DEF vars, PollAgain, Refreshing, RefreshList, RefreshWrite, OrphanStep,
       Boot, Halt, Vanish, Evolve, cmd, Still
  <2> QED
    BY <2>1, StillStutters
<1>2. CASE StartCommand
  BY <1>2, StartTakes DEF Promise!NNext
<1>3. CASE Work \/ PollFails
  BY <1>3, WorkBatch, StillStutters, DoneTries DEF Promise!NNext
<1> QED
  BY <1>1, <1>2, <1>3 DEF Next

(* The connecting commands are batches: open and exec come to the last of  *)
(* their names whatever failed, try each once and in order, and hand on    *)
(* those that went well (pkg/cmd/open/open.go, exec/exec.go), but for a    *)
(* kill and for the panic over an instance that has gone between two       *)
(* lookups (pkg/cmd/util/ssh.go:93), which leave names untried.            *)
THEOREM ConnectImplementsNameBatch == Spec => ImplementsNameBatch
<1>1. ASSUME Init PROVE Promise!NInit
  <2>1. names = <<>> /\ out = <<>> /\ pc = "idle"
    BY <1>1 DEF Init
  <2>2. [goesOn |-> TRUE, fragile |-> {}] \in Promise!Policies
    BY DEF Promise!Policies
  <2> QED
    BY <2>1, <2>2 DEF Promise!NInit
<1>2. IInv /\ IInv' /\ [Next]_vars => [Promise!NNext \/ Kill \/ StartGone]_(Promise!nvars)
  BY NextBatch
<1> QED
  BY <1>1, <1>2, InvariantCorrect, PTL DEF Spec, ImplementsNameBatch
=============================================================================
