---------------------------- MODULE WorkspaceSetup ----------------------------
(***************************************************************************)
(* What runs on an instance each time it starts: `brev setupworkspace`     *)
(* (pkg/setupworkspace/setupworkspace.go) prepares the home directory,     *)
(* sets up SSH and git, clones the repositories and runs the scripts,      *)
(* while a goroutine configures code-server.  The home directory outlives  *)
(* the instance's stops; a stop may come in the middle of a set-up.        *)
(*                                                                         *)
(* The goroutine and Setup assign and then test one variable err, without  *)
(* synchronisation: each may read what the other wrote.  A second one      *)
(* installs VS Code's server and its extensions.  The contents of scripts, *)
(* keys and files are left out.  Setup is not disabled.                    *)
(***************************************************************************)
EXTENDS Integers

CONSTANTS
  Repos, Execs,
  Extensions, \* of VS Code
  Blank,      \* the repositories without a URL: an empty one is made
  Urls,       \* how many forms the URL of each repository has
  Plans       \* what the server may ask for

Nil   == "nil"      \* no item
Steps == {"off", "prepare", "ssh", "git", "repos", "dotbrev", "execs", "verb",
          "await", "closing", "ended"}

ASSUME WorkspaceSetupConstants ==
  /\ Repos \cap Execs = {} /\ Extensions \cap (Repos \cup Execs) = {}
  /\ (Steps \cup {Nil, "code", "vscode"}) \cap (Repos \cup Execs) = {}
  /\ Blank \subseteq Repos /\ Urls \in [Repos -> Nat \ {0}]

\* Repositories and scripts come in two versions, in two lists; only those of
\* version 1 may be of an unknown type, disabled, or say where logs go.
Plan == {p \in [v1 : SUBSET (Repos \cup Execs), unknown : SUBSET Repos,
                disabled : SUBSET Execs, archived : SUBSET Execs] :
           p.unknown \cup p.disabled \cup p.archived \subseteq p.v1}
ASSUME PlansAssumption == Plans \subseteq Plan

VARIABLES
  plan,
  disk,      \* each repository's directory
  vscode,    \* the server of VS Code is in the home directory
  pc,        \* the step of Setup
  err,       \* the err of Setup: whether it holds an error
  testing,   \* err was assigned and has not been tested
  setupErr,  \* Setup's
  todo,      \* what the current loop has left
  item, url, itemErr,  \* the one it is at, its URL form, its own err
  loopErr,   \* setupErr of SetupRepos, execErr of RunExecs
  code,      \* the code-server goroutine
  ext,       \* the extensions goroutine
  result,    \* what the set-up reported
  broke,     \* history: what failed in this set-up
  tried,     \* history: repositories and scripts tried in it
  raced      \* history: one side assigned err before the other's test

loop == <<todo, item, url, itemErr, loopErr>>
past == <<broke, tried, raced>>
home == <<plan, disk, vscode>>
go   == <<code, ext>>
vars == <<home, pc, err, testing, setupErr, loop, go, result, past>>

Init ==
  /\ plan \in Plans
  /\ disk = [r \in Repos |-> "absent"] /\ vscode = FALSE
  /\ pc = "off" /\ err = FALSE /\ testing = FALSE /\ setupErr = FALSE
  /\ todo = {} /\ item = Nil /\ url = 0 /\ itemErr = FALSE /\ loopErr = FALSE
  /\ code = "off" /\ ext = "off" /\ result = "none"
  /\ broke = {} /\ tried = {} /\ raced = FALSE

Report(r) == result' = r /\ pc' = "closing"
-----------------------------------------------------------------------------
\* The instance starts.
Boot ==
  /\ pc = "off"
  /\ pc' = "prepare"
  /\ UNCHANGED <<home, err, testing, setupErr, loop, go, result, past>>

\* PrepareWorkspace; then the goroutines are started.
Prepare ==
  /\ pc = "prepare"
  /\ \/ /\ pc' = "ssh" /\ code' = "running" /\ ext' = "running"
        /\ UNCHANGED <<result, broke>>
     \/ /\ Report("failure") /\ broke' = {"prepare"}
        /\ UNCHANGED go
  /\ UNCHANGED <<home, err, testing, setupErr, loop, tried, raced>>

\* err = w.Step(): it may come between the goroutine's assignment and its test.
Assign(failed) ==
  /\ err' = failed /\ testing' = TRUE
  /\ broke' = IF failed THEN broke \cup {pc} ELSE broke
  /\ raced' = (raced \/ code = "assigned")

RunStep(step) ==
  /\ pc = step /\ ~testing
  /\ \E failed \in BOOLEAN : Assign(failed)
  /\ UNCHANGED <<home, pc, setupErr, loop, go, result, tried>>

SetupSSH == RunStep("ssh")
\* A key that the git provider does not know is only a warning.
SetupGit == RunStep("git")
CreateVerbYamlFile == RunStep("verb")

Begin(what) ==
  /\ todo' = what /\ item' = Nil /\ url' = 0
  /\ itemErr' = FALSE /\ loopErr' = FALSE

\* if err != nil { return } after SSH and git.
TestStep ==
  /\ testing /\ testing' = FALSE
  /\ \/ pc \in {"ssh", "git"} /\ err /\ Report("failure") /\ UNCHANGED loop
     \/ pc = "ssh" /\ ~err /\ pc' = "git" /\ UNCHANGED <<loop, result>>
     \/ pc = "git" /\ ~err /\ pc' = "repos" /\ Begin(Repos) /\ UNCHANGED result
  /\ UNCHANGED <<home, err, setupErr, go, past>>

\* if err != nil { setupErr = ... } after the others.
TestLate ==
  /\ testing /\ testing' = FALSE
  /\ setupErr' = (setupErr \/ err)
  /\ \/ pc = "repos" /\ pc' = "dotbrev" /\ UNCHANGED result
     \/ pc = "execs" /\ pc' = "verb" /\ UNCHANGED result
     \/ pc = "verb" /\ setupErr' /\ Report("failure")
     \/ pc = "verb" /\ ~setupErr' /\ pc' = "await" /\ UNCHANGED result
  /\ UNCHANGED <<home, err, loop, go, past>>
-----------------------------------------------------------------------------
(* The repositories, those of version 1 first, in no particular order      *)

Versioned(what, v1) == IF v1 THEN what \cap plan.v1 ELSE what \ plan.v1

NextRepo ==
  /\ pc = "repos" /\ ~testing /\ item = Nil
  /\ \E r \in Versioned(todo, todo \cap plan.v1 # {}) :
       /\ item' = r /\ todo' = todo \ {r}
       /\ url' = IF r \in plan.unknown THEN Urls[r] + 1 ELSE 1
       /\ itemErr' = (r \in plan.unknown)
       /\ tried' = tried \cup {r}
  /\ UNCHANGED <<home, pc, err, testing, setupErr, loopErr, go, result,
                 broke, raced>>

\* What `git clone` and `git checkout`, or mkdir and `git init`, may leave:
\* a clone that fails leaves nothing, a failed submodule, checkout or init
\* leaves the directory.
Outcome(ok, left) ==
  /\ disk' = [disk EXCEPT ![item] = left]
  /\ itemErr' = ~ok

\* The loop over the forms of a URL.
MoreForms(r) == url <= Urls[r]

\* GitCloneIfDNE for one form of the URL; whatever it returned before is
\* forgotten.
Clone ==
  /\ pc = "repos" /\ item \in Repos /\ MoreForms(item)
  /\ \/ disk[item] # "absent" /\ Outcome(TRUE, disk[item])
     \/ /\ disk[item] = "absent"
        /\ \/ Outcome(TRUE, "cloned")
           \/ Outcome(FALSE, "broken")
           \/ Outcome(FALSE, "absent")
  /\ url' = IF item \in Blank THEN Urls[item] + 1 ELSE url + 1
  /\ UNCHANGED <<plan, vscode, pc, err, testing, setupErr, todo, item, loopErr,
                 go, result, past>>

\* Faulty: a loop ends at the first failure; the failure of one is forgotten
\* when a later one succeeds.
StopAtFirst(failed) == IF failed THEN {} ELSE todo
GoOn(failed)        == todo
LastOnly(failed)    == failed
AnyOf(failed)       == loopErr \/ failed

ItemDone(failed) ==
  /\ loopErr' = AnyOf(failed) /\ todo' = GoOn(failed) /\ item' = Nil
  /\ UNCHANGED <<url, itemErr>>
  /\ broke' = IF failed THEN broke \cup {item} ELSE broke

\* setupDotBrev and, in version 0, the repository's own script, unless the
\* clone failed.
FinishRepo(v1) ==
  /\ pc = "repos" /\ item \in Versioned(Repos, v1) /\ ~MoreForms(item)
  /\ \E failed \in {TRUE, itemErr} : ItemDone(failed)
  /\ UNCHANGED <<home, pc, err, testing, setupErr, go, result, tried, raced>>
setupRepoV0 == FinishRepo(FALSE)
setupRepoV1 == FinishRepo(TRUE)

\* SetupRepos and RunExecs return.
LoopEnds ==
  /\ pc \in {"repos", "execs"} /\ ~testing /\ todo = {} /\ item = Nil
  /\ Assign(loopErr)
  /\ UNCHANGED <<home, pc, setupErr, loop, go, result, tried>>
-----------------------------------------------------------------------------
(* The scripts                                                             *)

\* setupDotBrev of the workspace: RunExecs returns if it fails.
StartExecs ==
  /\ pc = "dotbrev" /\ pc' = "execs"
  /\ \/ /\ Begin(Execs)
        /\ UNCHANGED <<err, testing, broke, raced>>
     \/ Assign(TRUE) /\ UNCHANGED loop
  /\ UNCHANGED <<home, setupErr, go, result, tried>>

\* Those of version 0 first.
RunExec ==
  /\ pc = "execs" /\ ~testing /\ item = Nil
  /\ \E e \in Versioned(todo, todo \subseteq plan.v1) :
       /\ tried' = tried \cup {e} /\ item' = e /\ todo' = todo \ {e}
  /\ UNCHANGED <<home, pc, err, testing, setupErr, url, itemErr, loopErr,
                 go, result, broke, raced>>

RunSetupScript == \E failed \in BOOLEAN : ItemDone(failed)

runExecV0 ==
  /\ pc = "execs" /\ item \in Versioned(Execs, FALSE) /\ RunSetupScript
  /\ UNCHANGED <<home, pc, err, testing, setupErr, go, result, tried, raced>>

\* A directory for old logs without one for logs: GetLogArchivePath
\* dereferences nil, and the process ends without a report.
Panics(e) == e \in plan.archived
Panicked  == \E e \in (Execs \cap tried) \ plan.disabled : Panics(e)
runExecV1 ==
  /\ pc = "execs" /\ item \in Versioned(Execs, TRUE)
  /\ \/ item \in plan.disabled /\ ItemDone(FALSE) /\ UNCHANGED pc
     \/ /\ item \notin plan.disabled /\ ~Panics(item)
        /\ RunSetupScript /\ UNCHANGED pc
     \/ /\ item \notin plan.disabled /\ Panics(item) /\ pc' = "closing"
        /\ UNCHANGED <<loop, broke>>
  /\ UNCHANGED <<home, err, testing, setupErr, go, result, tried, raced>>
-----------------------------------------------------------------------------
(* The goroutines, and the end                                             *)

\* err = w.SetupCodeServer()
CodeServer ==
  /\ code = "running" /\ pc \notin {"off", "closing", "ended"}
  /\ code' = "assigned"
  /\ \E failed \in BOOLEAN :
       /\ err' = failed
       /\ broke' = IF failed THEN broke \cup {"code"} ELSE broke
  /\ raced' = (raced \/ testing)
  /\ UNCHANGED <<home, pc, testing, setupErr, loop, ext, result, tried>>

\* if err != nil { return err }: what Await gets.
CodeReturns ==
  /\ code = "assigned" /\ pc \notin {"off", "ended"}
  /\ code' = IF err THEN "bad" ELSE "good"
  /\ UNCHANGED <<home, pc, err, testing, setupErr, loop, ext, result, past>>

\* The server of VS Code is looked for, and else installed: its archive may
\* be unpacked in part.  Whatever fails is printed and no error.
InstallVscode ==
  /\ ext = "running" /\ pc \notin {"off", "ended"}
  /\ \E ok, there \in BOOLEAN :
       /\ vscode => ok /\ there
       /\ vscode' = there
       /\ ext' = IF ok /\ there THEN "server" ELSE "done"
       /\ broke' = IF ok /\ there THEN broke ELSE broke \cup {"vscode"}
  /\ UNCHANGED <<plan, disk, pc, err, testing, setupErr, loop, code, result,
                 tried, raced>>

\* An extension that fails does not keep the next from being tried.
SetupVsCodeExtensions ==
  /\ ext = "server" /\ pc \notin {"off", "ended"}
  /\ IF Extensions \subseteq tried
       THEN ext' = "done" /\ UNCHANGED tried
       ELSE /\ \E e \in Extensions \ tried : tried' = tried \cup {e}
            /\ UNCHANGED ext
  /\ UNCHANGED <<home, pc, err, testing, setupErr, loop, code, result, broke,
                 raced>>

\* Every goroutine sends its answer.  Faulty: not if it failed.
SuccessSent == code = "good" /\ ext = "done"
Sent        == code \in {"good", "bad"} /\ ext = "done"

Await ==
  /\ pc = "await" /\ Sent
  /\ Report(IF code = "bad" THEN "failure" ELSE "success")
  /\ UNCHANGED <<home, err, testing, setupErr, loop, go, past>>

\* The log is closed and the process exits; what the goroutine had not done
\* is not done.
Exit ==
  /\ pc = "closing" /\ pc' = "ended"
  /\ UNCHANGED <<home, err, testing, setupErr, loop, go, result, past>>

\* The instance is stopped, and what the process knew is lost; a clone may be
\* cut short.
Stop ==
  /\ pc # "off" /\ pc' = "off"
  /\ disk' \in {disk, IF pc = "repos" /\ item \in Repos /\ MoreForms(item)
                           /\ disk[item] = "absent"
                        THEN [disk EXCEPT ![item] = "broken"] ELSE disk}
  /\ err' = FALSE /\ testing' = FALSE /\ setupErr' = FALSE /\ Begin({})
  /\ code' = "off" /\ ext' = "off" /\ result' = "none"
  /\ broke' = {} /\ tried' = {} /\ raced' = FALSE
  /\ UNCHANGED <<plan, vscode>>

Main == \/ Prepare \/ SetupSSH \/ SetupGit \/ CreateVerbYamlFile \/ TestStep
        \/ TestLate \/ NextRepo \/ Clone \/ setupRepoV0 \/ setupRepoV1 \/ LoopEnds
        \/ StartExecs \/ RunExec \/ runExecV0 \/ runExecV1 \/ Await \/ Exit

ConfigureCode == CodeServer \/ CodeReturns
ConfigureExts == InstallVscode \/ SetupVsCodeExtensions

Next == Boot \/ Main \/ ConfigureCode \/ ConfigureExts \/ Stop

Spec == Init /\ [][Next]_vars
(* Commands and scripts end; instances need not start again.               *)
FairSpec == Spec /\ WF_vars(Main) /\ WF_vars(ConfigureCode) /\ WF_vars(ConfigureExts)
-----------------------------------------------------------------------------
TypeOK ==
  /\ plan \in Plans /\ vscode \in BOOLEAN
  /\ disk \in [Repos -> {"absent", "broken", "cloned"}]
  /\ pc \in Steps
  /\ err \in BOOLEAN /\ testing \in BOOLEAN /\ setupErr \in BOOLEAN
  /\ itemErr \in BOOLEAN /\ loopErr \in BOOLEAN /\ raced \in BOOLEAN
  /\ todo \subseteq Repos \cup Execs
  /\ tried \subseteq Repos \cup Execs \cup Extensions
  /\ item \in Repos \cup Execs \cup {Nil}
  /\ item \in Repos => url \in 1 .. Urls[item] + 1
  /\ code \in {"off", "running", "assigned", "good", "bad"}
  /\ ext \in {"off", "running", "server", "done"}
  /\ result \in {"none", "success", "failure"}
  /\ broke \subseteq Steps \cup {"code", "vscode"} \cup Repos \cup Execs

(* "------ Success ------" is printed only if nothing failed, code-server  *)
(* is configured and every repository has its directory; only VS Code's    *)
(* failures are forgotten, and those the race for err can lose.            *)
SuccessIsTrue ==
  result = "success" /\ ~raced =>
    broke \subseteq {"vscode"} /\ code = "good" /\ \A r \in Repos : disk[r] # "absent"

(* When a set-up is over, no failure of a repository, a script or an       *)
(* extension kept another from being tried.  Only the preparation, SSH and *)
(* git end a set-up early, the workspace's own .brev the scripts and VS    *)
(* Code's server the extensions, for which a failure reported does not     *)
(* wait; and a script of version 1 that panics (setupworkspace.go:606)     *)
(* ends the process: the others of version 1, what follows them and any    *)
(* report are lost, but all of version 0 and the repositories were tried.  *)
(* Nothing else ends a set-up without a report.                            *)
EveryoneTried ==
  pc \in {"closing", "ended"} =>
    \/ result = "failure" /\ (broke \cap {"prepare", "ssh", "git"} # {} \/ raced)
    \/ /\ Repos \subseteq tried
       /\ \/ result # "none" /\ (Execs \subseteq tried \/ "dotbrev" \in broke)
          \/ result = "none" /\ Panicked /\ Execs \ plan.v1 \subseteq tried
       /\ result = "success" => Extensions \subseteq tried \/ "vscode" \in broke

(* A set-up ends, and does not wait for a goroutine that has failed.       *)
SetupEnds == pc \notin {"off", "ended"} ~> pc \in {"off", "ended"}
=============================================================================
