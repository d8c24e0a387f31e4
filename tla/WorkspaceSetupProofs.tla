------------------------ MODULE WorkspaceSetupProofs ------------------------
(***************************************************************************)
(* Proofs about WorkspaceSetup for any repositories, scripts, extensions   *)
(* and URLs: type correctness, that a set-up that prints "Success" was     *)
(* one, and what a failure, or a panic, keeps from being tried.            *)
(***************************************************************************)
EXTENDS WorkspaceSetup, TLAPS

USE WorkspaceSetupConstants, PlansAssumption

-----------------------------------------------------------------------------
(* The strengthening.                                                      *)

Late == {"dotbrev", "execs", "verb", "await"}

(* Where err waits for its test, and a loop for nothing more.              *)
Control ==
  /\ testing => pc \in {"ssh", "git", "repos", "execs", "verb"}
  /\ testing /\ pc \in {"repos", "execs"} => todo = {} /\ item = Nil
  /\ pc \in {"repos", "dotbrev"} => todo \subseteq Repos /\ item \in Repos \cup {Nil}
  /\ pc = "dotbrev" => todo = {} /\ item = Nil
  /\ pc = "execs" => todo \subseteq Execs /\ item \in Execs \cup {Nil}
  /\ pc = "execs" /\ item \in Execs \cap plan.v1 => todo \subseteq plan.v1
  /\ pc = "await" => ~setupErr
  /\ pc \in {"off", "prepare"} =>
       broke = {} /\ result = "none" /\ code = "off" /\ ext = "off"
  /\ result # "none" => pc \in {"closing", "ended"}

(* A failure is in an error that is still looked at, unless the race for   *)
(* err lost it.                                                            *)
Noted ==
  ~raced /\ (pc \in Late \cup {"ssh", "git", "repos"} \/ result = "success") =>
    \/ broke \subseteq {"code", "vscode"}
    \/ setupErr /\ result # "success"
    \/ testing /\ err
    \/ pc \in {"repos", "execs"} /\ ~testing /\ loopErr

(* What the test after SSH and git finds was broken there.                 *)
Blamed == ~raced /\ testing /\ err /\ pc \in {"ssh", "git"} => pc \in broke

CodeNoted ==
  ~raced => /\ code \in {"off", "running", "good"} => "code" \notin broke
            /\ code = "assigned" => ("code" \in broke => err)

(* What became of each repository.                                         *)
There(r) == disk[r] # "absent" \/ r \in broke
Cloned ==
  /\ pc = "repos" => /\ \A r \in Repos : r \in todo \/ r = item \/ There(r)
                     /\ item \in Repos /\ url > 1 => disk[item] # "absent" \/ itemErr
  /\ pc \in Late => \A r \in Repos : There(r)

Attempts ==
  /\ pc = "repos" => Repos \subseteq todo \cup tried
  /\ pc \in Late => Repos \subseteq tried
  /\ pc = "execs" => Execs \subseteq todo \cup tried \/ (testing /\ "dotbrev" \in broke)
  /\ pc = "execs" => item \in tried \cup {Nil}
  /\ pc \in {"verb", "await"} => Execs \subseteq tried \/ "dotbrev" \in broke
  /\ ext = "done" => Extensions \subseteq tried \/ "vscode" \in broke

IInv == TypeOK /\ Control /\ Noted /\ Blamed /\ CodeNoted /\ Cloned /\ Attempts
        /\ SuccessIsTrue /\ EveryoneTried

-----------------------------------------------------------------------------
(* The steps, action by action.                                            *)

LEMMA BootStep == ASSUME IInv, Boot PROVE IInv'
<1> USE DEF IInv, Boot, home, loop, go, past
<1>1. TypeOK'
  BY DEF TypeOK, Steps
<1>2. Control'
  BY DEF Control, TypeOK
<1>3. Noted'
  BY DEF Noted, Control, Late, TypeOK, SuccessIsTrue
<1>4. Blamed'
  BY DEF Blamed, Control, TypeOK
<1>5. CodeNoted'
  BY DEF CodeNoted, Control, TypeOK, Steps
<1>6. Cloned'
  BY DEF Cloned, There, Late, Control, TypeOK
<1>7. Attempts'
  BY DEF Attempts, Late, Control, TypeOK
<1>8. SuccessIsTrue'
  BY DEF SuccessIsTrue, Control, Noted, CodeNoted, Cloned, There, Late, TypeOK,
     Steps
<1>9. EveryoneTried'
  BY DEF EveryoneTried, Panicked, Panics, Control, Attempts, Blamed, Late, TypeOK
<1> QED
  BY <1>1, <1>2, <1>3, <1>4, <1>5, <1>6, <1>7, <1>8, <1>9

LEMMA PrepareStep == ASSUME IInv, Prepare PROVE IInv'
<1> USE DEF IInv, Prepare, Report, home, loop, go, past
<1>1. TypeOK'
  <2>1. plan' \in Plans /\ vscode' \in BOOLEAN
        /\ disk' \in [Repos -> {"absent", "broken", "cloned"}]
    BY DEF TypeOK
  <2>2. pc' \in Steps
    BY DEF TypeOK, Steps
  <2>3. /\ err' \in BOOLEAN /\ testing' \in BOOLEAN /\ setupErr' \in BOOLEAN
        /\ itemErr' \in BOOLEAN /\ loopErr' \in BOOLEAN /\ raced' \in BOOLEAN
    BY DEF TypeOK
  <2>4. /\ todo' \subseteq Repos \cup Execs
        /\ tried' \subseteq Repos \cup Execs \cup Extensions
    BY DEF TypeOK
  <2>5. /\ item' \in Repos \cup Execs \cup {Nil}
        /\ item' \in Repos => url' \in 1 .. Urls[item'] + 1
    BY DEF TypeOK
  <2>6. /\ code' \in {"off", "running", "assigned", "good", "bad"}
        /\ ext' \in {"off", "running", "server", "done"}
        /\ result' \in {"none", "success", "failure"}
    BY DEF TypeOK
  <2>7. broke' \subseteq Steps \cup {"code", "vscode"} \cup Repos \cup Execs
    BY DEF TypeOK, Steps
  <2> QED
    BY ONLY <2>1, <2>2, <2>3, <2>4, <2>5, <2>6, <2>7 DEF TypeOK
<1>2. Control'
  BY DEF Control, TypeOK
<1>3. Noted'
  BY DEF Noted, Control, Late, TypeOK, SuccessIsTrue
<1>4. Blamed'
  BY DEF Blamed, Control, TypeOK
<1>5. CodeNoted'
  BY DEF CodeNoted, Control, TypeOK, Steps
<1>6. Cloned'
  BY DEF Cloned, There, Late, Control, TypeOK
<1>7. Attempts'
  BY DEF Attempts, Late, Control, TypeOK
<1>8. SuccessIsTrue'
  BY DEF SuccessIsTrue, Control, Noted, CodeNoted, Cloned, There, Late, TypeOK,
     Steps
<1>9. EveryoneTried'
  BY DEF EveryoneTried, Panicked, Panics, Control, Attempts, Blamed, Late, TypeOK
<1> QED
  BY <1>1, <1>2, <1>3, <1>4, <1>5, <1>6, <1>7, <1>8, <1>9

LEMMA SetupSSHStep == ASSUME IInv, SetupSSH PROVE IInv'
<1> USE DEF IInv, SetupSSH, RunStep, Assign, home, loop, go, past
<1>1. TypeOK'
  BY DEF TypeOK, Steps
<1>2. Control'
  BY DEF Control, TypeOK
<1>3. Noted'
  BY DEF Noted, Control, Late, TypeOK, SuccessIsTrue
<1>4. Blamed'
  BY DEF Blamed, Control, TypeOK
<1>5. CodeNoted'
  BY DEF CodeNoted, Control, TypeOK, Steps
<1>6. Cloned'
  BY DEF Cloned, There, Late, Control, TypeOK
<1>7. Attempts'
  BY DEF Attempts, Late, Control, TypeOK
<1>8. SuccessIsTrue'
  BY DEF SuccessIsTrue, Control, Noted, CodeNoted, Cloned, There, Late, TypeOK,
     Steps
<1>9. EveryoneTried'
  BY DEF EveryoneTried, Panicked, Panics, Control, Attempts, Blamed, Late, TypeOK
<1> QED
  BY <1>1, <1>2, <1>3, <1>4, <1>5, <1>6, <1>7, <1>8, <1>9

LEMMA SetupGitStep == ASSUME IInv, SetupGit PROVE IInv'
<1> USE DEF IInv, SetupGit, RunStep, Assign, home, loop, go, past
<1>1. TypeOK'
  BY DEF TypeOK, Steps
<1>2. Control'
  BY DEF Control, TypeOK
<1>3. Noted'
  BY DEF Noted, Control, Late, TypeOK, SuccessIsTrue
<1>4. Blamed'
  BY DEF Blamed, Control, TypeOK
<1>5. CodeNoted'
  BY DEF CodeNoted, Control, TypeOK, Steps
<1>6. Cloned'
  BY DEF Cloned, There, Late, Control, TypeOK
<1>7. Attempts'
  BY DEF Attempts, Late, Control, TypeOK
<1>8. SuccessIsTrue'
  BY DEF SuccessIsTrue, Control, Noted, CodeNoted, Cloned, There, Late, TypeOK,
     Steps
<1>9. EveryoneTried'
  BY DEF EveryoneTried, Panicked, Panics, Control, Attempts, Blamed, Late, TypeOK
<1> QED
  BY <1>1, <1>2, <1>3, <1>4, <1>5, <1>6, <1>7, <1>8, <1>9

LEMMA CreateVerbYamlFileStep == ASSUME IInv, CreateVerbYamlFile PROVE IInv'
<1> USE DEF IInv, CreateVerbYamlFile, RunStep, Assign, home, loop, go, past
<1>1. TypeOK'
  BY DEF TypeOK, Steps
<1>2. Control'
  BY DEF Control, TypeOK
<1>3. Noted'
  BY DEF Noted, Control, Late, TypeOK, SuccessIsTrue
<1>4. Blamed'
  BY DEF Blamed, Control, TypeOK
<1>5. CodeNoted'
  BY DEF CodeNoted, Control, TypeOK, Steps
<1>6. Cloned'
  BY DEF Cloned, There, Late, Control, TypeOK
<1>7. Attempts'
  BY DEF Attempts, Late, Control, TypeOK
<1>8. SuccessIsTrue'
  BY DEF SuccessIsTrue, Control, Noted, CodeNoted, Cloned, There, Late, TypeOK,
     Steps
<1>9. EveryoneTried'
  BY DEF EveryoneTried, Panicked, Panics, Control, Attempts, Blamed, Late, TypeOK
<1> QED
  BY <1>1, <1>2, <1>3, <1>4, <1>5, <1>6, <1>7, <1>8, <1>9

LEMMA TestStepStep == ASSUME IInv, TestStep PROVE IInv'
<1> USE DEF IInv, TestStep, Report, Begin, home, loop, go, past
<1>1. TypeOK'
  <2>1. plan' \in Plans /\ vscode' \in BOOLEAN
        /\ disk' \in [Repos -> {"absent", "broken", "cloned"}]
    BY DEF TypeOK
  <2>2. pc' \in Steps
    BY DEF TypeOK, Steps
  <2>3. /\ err' \in BOOLEAN /\ testing' \in BOOLEAN /\ setupErr' \in BOOLEAN
        /\ itemErr' \in BOOLEAN /\ loopErr' \in BOOLEAN /\ raced' \in BOOLEAN
    BY DEF TypeOK
  <2>4. /\ todo' \subseteq Repos \cup Execs
        /\ tried' \subseteq Repos \cup Execs \cup Extensions
    BY DEF TypeOK
  <2>5. /\ item' \in Repos \cup Execs \cup {Nil}
        /\ item' \in Repos => url' \in 1 .. Urls[item'] + 1
    BY DEF TypeOK
  <2>6. /\ code' \in {"off", "running", "assigned", "good", "bad"}
        /\ ext' \in {"off", "running", "server", "done"}
        /\ result' \in {"none", "success", "failure"}
    BY DEF TypeOK
  <2>7. broke' \subseteq Steps \cup {"code", "vscode"} \cup Repos \cup Execs
    BY DEF TypeOK, Steps
  <2> QED
    BY ONLY <2>1, <2>2, <2>3, <2>4, <2>5, <2>6, <2>7 DEF TypeOK
<1>2. Control'
  BY DEF Control, TypeOK
<1>3. Noted'
  BY DEF Noted, Control, Late, TypeOK, SuccessIsTrue
<1>4. Blamed'
  BY DEF Blamed, Control, TypeOK
<1>5. CodeNoted'
  BY DEF CodeNoted, Control, TypeOK, Steps
<1>6. Cloned'
  BY DEF Cloned, There, Late, Control, TypeOK
<1>7. Attempts'
  BY DEF Attempts, Late, Control, TypeOK
<1>8. SuccessIsTrue'
  BY DEF SuccessIsTrue, Control, Noted, CodeNoted, Cloned, There, Late, TypeOK,
     Steps
<1>9. EveryoneTried'
  BY DEF EveryoneTried, Panicked, Panics, Control, Attempts, Blamed, Late, TypeOK
<1> QED
  BY <1>1, <1>2, <1>3, <1>4, <1>5, <1>6, <1>7, <1>8, <1>9

LEMMA TestLateStep == ASSUME IInv, TestLate PROVE IInv'
<1> USE DEF IInv, TestLate, Report, home, loop, go, past
<1>1. TypeOK'
  <2>1. plan' \in Plans /\ vscode' \in BOOLEAN
        /\ disk' \in [Repos -> {"absent", "broken", "cloned"}]
    BY DEF TypeOK
  <2>2. pc' \in Steps
    BY DEF TypeOK, Steps
  <2>3. /\ err' \in BOOLEAN /\ testing' \in BOOLEAN /\ setupErr' \in BOOLEAN
        /\ itemErr' \in BOOLEAN /\ loopErr' \in BOOLEAN /\ raced' \in BOOLEAN
    BY DEF TypeOK
  <2>4. /\ todo' \subseteq Repos \cup Execs
        /\ tried' \subseteq Repos \cup Execs \cup Extensions
    BY DEF TypeOK
  <2>5. /\ item' \in Repos \cup Execs \cup {Nil}
        /\ item' \in Repos => url' \in 1 .. Urls[item'] + 1
    BY DEF TypeOK
  <2>6. /\ code' \in {"off", "running", "assigned", "good", "bad"}
        /\ ext' \in {"off", "running", "server", "done"}
        /\ result' \in {"none", "success", "failure"}
    BY DEF TypeOK
  <2>7. broke' \subseteq Steps \cup {"code", "vscode"} \cup Repos \cup Execs
    BY DEF TypeOK, Steps
  <2> QED
    BY ONLY <2>1, <2>2, <2>3, <2>4, <2>5, <2>6, <2>7 DEF TypeOK
<1>2. Control'
  BY DEF Control, TypeOK
<1>3. Noted'
  BY DEF Noted, Control, Late, TypeOK, SuccessIsTrue
<1>4. Blamed'
  BY DEF Blamed, Control, TypeOK
<1>5. CodeNoted'
  BY DEF CodeNoted, Control, TypeOK, Steps
<1>6. Cloned'
  BY DEF Cloned, There, Late, Control, TypeOK
<1>7. Attempts'
  BY DEF Attempts, Late, Control, TypeOK
<1>8. SuccessIsTrue'
  BY DEF SuccessIsTrue, Control, Noted, CodeNoted, Cloned, There, Late, TypeOK,
     Steps
<1>9. EveryoneTried'
  BY DEF EveryoneTried, Panicked, Panics, Control, Attempts, Blamed, Late, TypeOK
<1> QED
  BY <1>1, <1>2, <1>3, <1>4, <1>5, <1>6, <1>7, <1>8, <1>9

LEMMA NextRepoStep == ASSUME IInv, NextRepo PROVE IInv'
<1> USE DEF IInv, NextRepo, Versioned, home, loop, go, past
<1>1. TypeOK'
  BY DEF TypeOK, Steps
<1>2. Control'
  BY DEF Control, TypeOK
<1>3. Noted'
  BY DEF Noted, Control, Late, TypeOK, SuccessIsTrue
<1>4. Blamed'
  BY DEF Blamed, Control, TypeOK
<1>5. CodeNoted'
  BY DEF CodeNoted, Control, TypeOK, Steps
<1>6. Cloned'
  <2>0. todo \subseteq Repos
    BY DEF Control
  <2>1. PICK n \in todo \cap Repos :
                 /\ item' = n /\ todo' = todo \ {n}
                 /\ url' = IF n \in plan.unknown THEN Urls[n] + 1 ELSE 1
                 /\ itemErr' = (n \in plan.unknown)
    BY <2>0
  <2>2. ASSUME NEW r \in Repos PROVE r \in todo' \/ r = item' \/ There(r)'
    BY <2>1 DEF Cloned, There
  <2>3. url' > 1 => itemErr'
    <3>1. CASE n \in plan.unknown
      BY <2>1, <3>1
    <3>2. CASE n \notin plan.unknown
      <4>1. url' = 1
        BY <2>1, <3>2
      <4> QED
        BY <4>1
    <3> QED
      BY <3>1, <3>2
  <2> QED
    BY <2>2, <2>3 DEF Cloned, Late
<1>7. Attempts'
  BY DEF Attempts, Late, Control, TypeOK
<1>8. SuccessIsTrue'
  BY DEF SuccessIsTrue, Control, Noted, CodeNoted, Cloned, There, Late, TypeOK,
     Steps
<1>9. EveryoneTried'
  BY DEF EveryoneTried, Panicked, Panics, Control, Attempts, Blamed, Late, TypeOK
<1> QED
  BY <1>1, <1>2, <1>3, <1>4, <1>5, <1>6, <1>7, <1>8, <1>9

LEMMA CloneStep == ASSUME IInv, Clone PROVE IInv'
<1> USE DEF IInv, Clone, Outcome, MoreForms, home, loop, go, past
<1>1. TypeOK'
  <2>1. plan' \in Plans /\ vscode' \in BOOLEAN
        /\ disk' \in [Repos -> {"absent", "broken", "cloned"}]
    BY DEF TypeOK
  <2>2. pc' \in Steps
    BY DEF TypeOK, Steps
  <2>3. /\ err' \in BOOLEAN /\ testing' \in BOOLEAN /\ setupErr' \in BOOLEAN
        /\ itemErr' \in BOOLEAN /\ loopErr' \in BOOLEAN /\ raced' \in BOOLEAN
    BY DEF TypeOK
  <2>4. /\ todo' \subseteq Repos \cup Execs
        /\ tried' \subseteq Repos \cup Execs \cup Extensions
    BY DEF TypeOK
  <2>5. /\ item' \in Repos \cup Execs \cup {Nil}
        /\ item' \in Repos => url' \in 1 .. Urls[item'] + 1
    BY DEF TypeOK
  <2>6. /\ code' \in {"off", "running", "assigned", "good", "bad"}
        /\ ext' \in {"off", "running", "server", "done"}
        /\ result' \in {"none", "success", "failure"}
    BY DEF TypeOK
  <2>7. broke' \subseteq Steps \cup {"code", "vscode"} \cup Repos \cup Execs
    BY DEF TypeOK, Steps
  <2> QED
    BY ONLY <2>1, <2>2, <2>3, <2>4, <2>5, <2>6, <2>7 DEF TypeOK
<1>2. Control'
  BY DEF Control, TypeOK
<1>3. Noted'
  BY DEF Noted, Control, Late, TypeOK, SuccessIsTrue
<1>4. Blamed'
  BY DEF Blamed, Control, TypeOK
<1>5. CodeNoted'
  BY DEF CodeNoted, Control, TypeOK, Steps
<1>6. Cloned'
  <2>1. /\ pc = "repos" /\ item \in Repos /\ pc' = pc /\ item' = item
        /\ todo' = todo /\ broke' = broke /\ disk \in [Repos -> {"absent", "broken", "cloned"}]
    BY DEF TypeOK
  <2>2. PICK ok \in BOOLEAN, left \in {"absent", "broken", "cloned"} :
          /\ disk' = [disk EXCEPT ![item] = left] /\ itemErr' = ~ok
          /\ left = "absent" => disk[item] = "absent" /\ ~ok
    BY <2>1
  <2>3. ASSUME NEW r \in Repos PROVE r \in todo' \/ r = item' \/ There(r)'
    BY <2>1, <2>2 DEF Cloned, There
  <2>4. disk'[item'] # "absent" \/ itemErr'
    BY <2>1, <2>2
  <2> QED
    BY <2>1, <2>3, <2>4 DEF Cloned, Late
<1>7. Attempts'
  BY DEF Attempts, Late, Control, TypeOK
<1>8. SuccessIsTrue'
  BY DEF SuccessIsTrue, Control, Noted, CodeNoted, Cloned, There, Late, TypeOK,
     Steps
<1>9. EveryoneTried'
  BY DEF EveryoneTried, Panicked, Panics, Control, Attempts, Blamed, Late, TypeOK
<1> QED
  BY <1>1, <1>2, <1>3, <1>4, <1>5, <1>6, <1>7, <1>8, <1>9

LEMMA setupRepoV0Step == ASSUME IInv, setupRepoV0 PROVE IInv'
<1> USE DEF IInv, setupRepoV0, FinishRepo, Versioned, MoreForms, ItemDone, AnyOf,
            GoOn, home, loop, go, past
<1>1. TypeOK'
  <2>1. plan' \in Plans /\ vscode' \in BOOLEAN
        /\ disk' \in [Repos -> {"absent", "broken", "cloned"}]
    BY DEF TypeOK
  <2>2. pc' \in Steps
    BY DEF TypeOK, Steps
  <2>3. /\ err' \in BOOLEAN /\ testing' \in BOOLEAN /\ setupErr' \in BOOLEAN
        /\ itemErr' \in BOOLEAN /\ loopErr' \in BOOLEAN /\ raced' \in BOOLEAN
    BY DEF TypeOK
  <2>4. /\ todo' \subseteq Repos \cup Execs
        /\ tried' \subseteq Repos \cup Execs \cup Extensions
    BY DEF TypeOK
  <2>5. /\ item' \in Repos \cup Execs \cup {Nil}
        /\ item' \in Repos => url' \in 1 .. Urls[item'] + 1
    BY DEF TypeOK
  <2>6. /\ code' \in {"off", "running", "assigned", "good", "bad"}
        /\ ext' \in {"off", "running", "server", "done"}
        /\ result' \in {"none", "success", "failure"}
    BY DEF TypeOK
  <2>7. broke' \subseteq Steps \cup {"code", "vscode"} \cup Repos \cup Execs
    <3>1. broke' = broke \/ broke' = broke \cup {item}
      OBVIOUS
    <3>2. item \in Repos /\ broke \subseteq Steps \cup {"code", "vscode"} \cup Repos \cup Execs
      BY DEF TypeOK
    <3> QED
      BY ONLY <3>1, <3>2
  <2> QED
    BY ONLY <2>1, <2>2, <2>3, <2>4, <2>5, <2>6, <2>7 DEF TypeOK
<1>2. Control'
  BY DEF Control, TypeOK
<1>3. Noted'
  BY DEF Noted, Control, Late, TypeOK, SuccessIsTrue
<1>4. Blamed'
  BY DEF Blamed, Control, TypeOK
<1>5. CodeNoted'
  BY DEF CodeNoted, Control, TypeOK, Steps
<1>6. Cloned'
  <2>1. item \in Repos
    BY DEF Control
  <2>2. PICK failed \in {TRUE, itemErr} : broke' = IF failed THEN broke \cup {item} ELSE broke
    OBVIOUS
  <2>3. disk'[item] # "absent" \/ item \in broke'
    <3>1. Urls[item] \in Nat \ {0} /\ url \in Nat /\ ~(url <= Urls[item])
      BY <2>1 DEF TypeOK
    <3>2. url > 1
      BY <3>1
    <3>3. disk[item] # "absent" \/ itemErr
      BY <2>1, <3>2 DEF Cloned
    <3>4. itemErr => item \in broke'
      <4>1. itemErr => failed
        BY <2>2
      <4> QED
        BY <2>2, <4>1
    <3> QED
      BY <3>3, <3>4
  <2>4. ASSUME NEW r \in Repos PROVE r \in todo' \/ There(r)'
    <3>1. r \in todo \/ r = item \/ There(r)
      BY DEF Cloned
    <3>2. There(r) => There(r)'
      BY <2>2 DEF There
    <3> QED
      BY <2>3, <3>1, <3>2 DEF There
  <2> QED
    BY <2>4 DEF Cloned, Late, TypeOK
<1>7. Attempts'
  BY DEF Attempts, Late, Control, TypeOK
<1>8. SuccessIsTrue'
  BY DEF SuccessIsTrue, Control, Noted, CodeNoted, Cloned, There, Late, TypeOK,
     Steps
<1>9. EveryoneTried'
  BY DEF EveryoneTried, Panicked, Panics, Control, Attempts, Blamed, Late, TypeOK
<1> QED
  BY <1>1, <1>2, <1>3, <1>4, <1>5, <1>6, <1>7, <1>8, <1>9

LEMMA setupRepoV1Step == ASSUME IInv, setupRepoV1 PROVE IInv'
<1> USE DEF IInv, setupRepoV1, FinishRepo, Versioned, MoreForms, ItemDone, AnyOf,
            GoOn, home, loop, go, past
<1>1. TypeOK'
  <2>1. plan' \in Plans /\ vscode' \in BOOLEAN
        /\ disk' \in [Repos -> {"absent", "broken", "cloned"}]
    BY DEF TypeOK
  <2>2. pc' \in Steps
    BY DEF TypeOK, Steps
  <2>3. /\ err' \in BOOLEAN /\ testing' \in BOOLEAN /\ setupErr' \in BOOLEAN
        /\ itemErr' \in BOOLEAN /\ loopErr' \in BOOLEAN /\ raced' \in BOOLEAN
    BY DEF TypeOK
  <2>4. /\ todo' \subseteq Repos \cup Execs
        /\ tried' \subseteq Repos \cup Execs \cup Extensions
    BY DEF TypeOK
  <2>5. /\ item' \in Repos \cup Execs \cup {Nil}
        /\ item' \in Repos => url' \in 1 .. Urls[item'] + 1
    BY DEF TypeOK
  <2>6. /\ code' \in {"off", "running", "assigned", "good", "bad"}
        /\ ext' \in {"off", "running", "server", "done"}
        /\ result' \in {"none", "success", "failure"}
    BY DEF TypeOK
  <2>7. broke' \subseteq Steps \cup {"code", "vscode"} \cup Repos \cup Execs
    <3>1. broke' = broke \/ broke' = broke \cup {item}
      OBVIOUS
    <3>2. item \in Repos /\ broke \subseteq Steps \cup {"code", "vscode"} \cup Repos \cup Execs
      BY DEF TypeOK
    <3> QED
      BY ONLY <3>1, <3>2
  <2> QED
    BY ONLY <2>1, <2>2, <2>3, <2>4, <2>5, <2>6, <2>7 DEF TypeOK
<1>2. Control'
  BY DEF Control, TypeOK
<1>3. Noted'
  BY DEF Noted, Control, Late, TypeOK, SuccessIsTrue
<1>4. Blamed'
  BY DEF Blamed, Control, TypeOK
<1>5. CodeNoted'
  BY DEF CodeNoted, Control, TypeOK, Steps
<1>6. Cloned'
  <2>1. item \in Repos
    BY DEF Control
  <2>2. PICK failed \in {TRUE, itemErr} : broke' = IF failed THEN broke \cup {item} ELSE broke
    OBVIOUS
  <2>3. disk'[item] # "absent" \/ item \in broke'
    <3>1. Urls[item] \in Nat \ {0} /\ url \in Nat /\ ~(url <= Urls[item])
      BY <2>1 DEF TypeOK
    <3>2. url > 1
      BY <3>1
    <3>3. disk[item] # "absent" \/ itemErr
      BY <2>1, <3>2 DEF Cloned
    <3>4. itemErr => item \in broke'
      <4>1. itemErr => failed
        BY <2>2
      <4> QED
        BY <2>2, <4>1
    <3> QED
      BY <3>3, <3>4
  <2>4. ASSUME NEW r \in Repos PROVE r \in todo' \/ There(r)'
    <3>1. r \in todo \/ r = item \/ There(r)
      BY DEF Cloned
    <3>2. There(r) => There(r)'
      BY <2>2 DEF There
    <3> QED
      BY <2>3, <3>1, <3>2 DEF There
  <2> QED
    BY <2>4 DEF Cloned, Late, TypeOK
<1>7. Attempts'
  BY DEF Attempts, Late, Control, TypeOK
<1>8. SuccessIsTrue'
  BY DEF SuccessIsTrue, Control, Noted, CodeNoted, Cloned, There, Late, TypeOK,
     Steps
<1>9. EveryoneTried'
  BY DEF EveryoneTried, Panicked, Panics, Control, Attempts, Blamed, Late, TypeOK
<1> QED
  BY <1>1, <1>2, <1>3, <1>4, <1>5, <1>6, <1>7, <1>8, <1>9

LEMMA LoopEndsStep == ASSUME IInv, LoopEnds PROVE IInv'
<1> USE DEF IInv, LoopEnds, Assign, home, loop, go, past
<1>1. TypeOK'
  BY DEF TypeOK, Steps
<1>2. Control'
  BY DEF Control, TypeOK
<1>3. Noted'
  BY DEF Noted, Control, Late, TypeOK, SuccessIsTrue
<1>4. Blamed'
  BY DEF Blamed, Control, TypeOK
<1>5. CodeNoted'
  BY DEF CodeNoted, Control, TypeOK, Steps
<1>6. Cloned'
  BY DEF Cloned, There, Late, Control, TypeOK
<1>7. Attempts'
  BY DEF Attempts, Late, Control, TypeOK
<1>8. SuccessIsTrue'
  BY DEF SuccessIsTrue, Control, Noted, CodeNoted, Cloned, There, Late, TypeOK,
     Steps
<1>9. EveryoneTried'
  BY DEF EveryoneTried, Panicked, Panics, Control, Attempts, Blamed, Late, TypeOK
<1> QED
  BY <1>1, <1>2, <1>3, <1>4, <1>5, <1>6, <1>7, <1>8, <1>9

LEMMA StartExecsStep == ASSUME IInv, StartExecs PROVE IInv'
<1> USE DEF IInv, StartExecs, Begin, Assign, home, loop, go, past
<1>1. TypeOK'
  <2>1. plan' \in Plans /\ vscode' \in BOOLEAN
        /\ disk' \in [Repos -> {"absent", "broken", "cloned"}]
    BY DEF TypeOK
  <2>2. pc' \in Steps
    BY DEF TypeOK, Steps
  <2>3. /\ err' \in BOOLEAN /\ testing' \in BOOLEAN /\ setupErr' \in BOOLEAN
        /\ itemErr' \in BOOLEAN /\ loopErr' \in BOOLEAN /\ raced' \in BOOLEAN
    BY DEF TypeOK
  <2>4. /\ todo' \subseteq Repos \cup Execs
        /\ tried' \subseteq Repos \cup Execs \cup Extensions
    BY DEF TypeOK
  <2>5. /\ item' \in Repos \cup Execs \cup {Nil}
        /\ item' \in Repos => url' \in 1 .. Urls[item'] + 1
    BY DEF TypeOK
  <2>6. /\ code' \in {"off", "running", "assigned", "good", "bad"}
        /\ ext' \in {"off", "running", "server", "done"}
        /\ result' \in {"none", "success", "failure"}
    BY DEF TypeOK
  <2>7. broke' \subseteq Steps \cup {"code", "vscode"} \cup Repos \cup Execs
    BY DEF TypeOK, Steps
  <2> QED
    BY ONLY <2>1, <2>2, <2>3, <2>4, <2>5, <2>6, <2>7 DEF TypeOK
<1>2. Control'
  BY DEF Control, TypeOK
<1>3. Noted'
  BY DEF Noted, Control, Late, TypeOK, SuccessIsTrue
<1>4. Blamed'
  BY DEF Blamed, Control, TypeOK
<1>5. CodeNoted'
  BY DEF CodeNoted, Control, TypeOK, Steps
<1>6. Cloned'
  BY DEF Cloned, There, Late, Control, TypeOK
<1>7. Attempts'
  BY DEF Attempts, Late, Control, TypeOK
<1>8. SuccessIsTrue'
  BY DEF SuccessIsTrue, Control, Noted, CodeNoted, Cloned, There, Late, TypeOK,
     Steps
<1>9. EveryoneTried'
  BY DEF EveryoneTried, Panicked, Panics, Control, Attempts, Blamed, Late, TypeOK
<1> QED
  BY <1>1, <1>2, <1>3, <1>4, <1>5, <1>6, <1>7, <1>8, <1>9

LEMMA RunExecStep == ASSUME IInv, RunExec PROVE IInv'
<1> USE DEF IInv, RunExec, Versioned, home, loop, go, past
<1>1. TypeOK'
  <2>1. plan' \in Plans /\ vscode' \in BOOLEAN
        /\ disk' \in [Repos -> {"absent", "broken", "cloned"}]
    BY DEF TypeOK
  <2>2. pc' \in Steps
    BY DEF TypeOK, Steps
  <2>3. /\ err' \in BOOLEAN /\ testing' \in BOOLEAN /\ setupErr' \in BOOLEAN
        /\ itemErr' \in BOOLEAN /\ loopErr' \in BOOLEAN /\ raced' \in BOOLEAN
    BY DEF TypeOK
  <2>4. /\ todo' \subseteq Repos \cup Execs
        /\ tried' \subseteq Repos \cup Execs \cup Extensions
    BY DEF TypeOK
  <2>5. /\ item' \in Repos \cup Execs \cup {Nil}
        /\ item' \in Repos => url' \in 1 .. Urls[item'] + 1
    BY DEF TypeOK, Control
  <2>6. /\ code' \in {"off", "running", "assigned", "good", "bad"}
        /\ ext' \in {"off", "running", "server", "done"}
        /\ result' \in {"none", "success", "failure"}
    BY DEF TypeOK
  <2>7. broke' \subseteq Steps \cup {"code", "vscode"} \cup Repos \cup Execs
    BY DEF TypeOK, Steps
  <2> QED
    BY ONLY <2>1, <2>2, <2>3, <2>4, <2>5, <2>6, <2>7 DEF TypeOK
<1>2. Control'
  <2>1. PICK e \in Versioned(todo, todo \subseteq plan.v1) :
                 item' = e /\ todo' = todo \ {e}
    BY DEF Versioned
  <2>2. e \in plan.v1 => todo \subseteq plan.v1
    BY <2>1 DEF Versioned
  <2>3. e \in todo
    BY <2>1 DEF Versioned
  <2> QED
    BY <2>1, <2>2, <2>3 DEF Control, TypeOK
<1>3. Noted'
  BY DEF Noted, Control, Late, TypeOK, SuccessIsTrue
<1>4. Blamed'
  BY DEF Blamed, Control, TypeOK
<1>5. CodeNoted'
  BY DEF CodeNoted, Control, TypeOK, Steps
<1>6. Cloned'
  BY DEF Cloned, There, Late, Control, TypeOK
<1>7. Attempts'
  BY DEF Attempts, Late, Control, TypeOK
<1>8. SuccessIsTrue'
  BY DEF SuccessIsTrue, Control, Noted, CodeNoted, Cloned, There, Late, TypeOK,
     Steps
<1>9. EveryoneTried'
  BY DEF EveryoneTried, Panicked, Panics, Control, Attempts, Blamed, Late, TypeOK
<1> QED
  BY <1>1, <1>2, <1>3, <1>4, <1>5, <1>6, <1>7, <1>8, <1>9

LEMMA runExecV0Step == ASSUME IInv, runExecV0 PROVE IInv'
<1> USE DEF IInv, runExecV0, RunSetupScript, Versioned, ItemDone, AnyOf, GoOn,
            home, loop, go, past
<1>1. TypeOK'
  <2>1. plan' \in Plans /\ vscode' \in BOOLEAN
        /\ disk' \in [Repos -> {"absent", "broken", "cloned"}]
    BY DEF TypeOK
  <2>2. pc' \in Steps
    BY DEF TypeOK, Steps
  <2>3. /\ err' \in BOOLEAN /\ testing' \in BOOLEAN /\ setupErr' \in BOOLEAN
        /\ itemErr' \in BOOLEAN /\ loopErr' \in BOOLEAN /\ raced' \in BOOLEAN
    BY DEF TypeOK
  <2>4. /\ todo' \subseteq Repos \cup Execs
        /\ tried' \subseteq Repos \cup Execs \cup Extensions
    BY DEF TypeOK
  <2>5. /\ item' \in Repos \cup Execs \cup {Nil}
        /\ item' \in Repos => url' \in 1 .. Urls[item'] + 1
    BY DEF TypeOK
  <2>6. /\ code' \in {"off", "running", "assigned", "good", "bad"}
        /\ ext' \in {"off", "running", "server", "done"}
        /\ result' \in {"none", "success", "failure"}
    BY DEF TypeOK
  <2>7. broke' \subseteq Steps \cup {"code", "vscode"} \cup Repos \cup Execs
    <3>1. broke' = broke \/ broke' = broke \cup {item}
      OBVIOUS
    <3>2. item \in Execs /\ broke \subseteq Steps \cup {"code", "vscode"} \cup Repos \cup Execs
      BY DEF TypeOK
    <3> QED
      BY ONLY <3>1, <3>2
  <2> QED
    BY ONLY <2>1, <2>2, <2>3, <2>4, <2>5, <2>6, <2>7 DEF TypeOK
<1>2. Control'
  BY DEF Control, TypeOK
<1>3. Noted'
  BY DEF Noted, Control, Late, TypeOK, SuccessIsTrue
<1>4. Blamed'
  BY DEF Blamed, Control, TypeOK
<1>5. CodeNoted'
  BY DEF CodeNoted, Control, TypeOK, Steps
<1>6. Cloned'
  BY DEF Cloned, There, Late, Control, TypeOK
<1>7. Attempts'
  BY DEF Attempts, Late, Control, TypeOK
<1>8. SuccessIsTrue'
  BY DEF SuccessIsTrue, Control, Noted, CodeNoted, Cloned, There, Late, TypeOK,
     Steps
<1>9. EveryoneTried'
  BY DEF EveryoneTried, Panicked, Panics, Control, Attempts, Blamed, Late, TypeOK
<1> QED
  BY <1>1, <1>2, <1>3, <1>4, <1>5, <1>6, <1>7, <1>8, <1>9

LEMMA runExecV1Step == ASSUME IInv, runExecV1 PROVE IInv'
<1> USE DEF IInv, runExecV1, RunSetupScript, Versioned, ItemDone, AnyOf, GoOn,
            Panics, home, loop, go, past
<1>1. TypeOK'
  <2>1. plan' \in Plans /\ vscode' \in BOOLEAN
        /\ disk' \in [Repos -> {"absent", "broken", "cloned"}]
    BY DEF TypeOK
  <2>2. pc' \in Steps
    BY DEF TypeOK, Steps
  <2>3. /\ err' \in BOOLEAN /\ testing' \in BOOLEAN /\ setupErr' \in BOOLEAN
        /\ itemErr' \in BOOLEAN /\ loopErr' \in BOOLEAN /\ raced' \in BOOLEAN
    BY DEF TypeOK
  <2>4. /\ todo' \subseteq Repos \cup Execs
        /\ tried' \subseteq Repos \cup Execs \cup Extensions
    BY DEF TypeOK
  <2>5. /\ item' \in Repos \cup Execs \cup {Nil}
        /\ item' \in Repos => url' \in 1 .. Urls[item'] + 1
    BY DEF TypeOK
  <2>6. /\ code' \in {"off", "running", "assigned", "good", "bad"}
        /\ ext' \in {"off", "running", "server", "done"}
        /\ result' \in {"none", "success", "failure"}
    BY DEF TypeOK
  <2>7. broke' \subseteq Steps \cup {"code", "vscode"} \cup Repos \cup Execs
    <3>1. broke' = broke \/ broke' = broke \cup {item}
      OBVIOUS
    <3>2. item \in Execs /\ broke \subseteq Steps \cup {"code", "vscode"} \cup Repos \cup Execs
      BY DEF TypeOK
    <3> QED
      BY ONLY <3>1, <3>2
  <2> QED
    BY ONLY <2>1, <2>2, <2>3, <2>4, <2>5, <2>6, <2>7 DEF TypeOK
<1>2. Control'
  BY DEF Control, TypeOK
<1>3. Noted'
  BY DEF Noted, Control, Late, TypeOK, SuccessIsTrue
<1>4. Blamed'
  BY DEF Blamed, Control, TypeOK
<1>5. CodeNoted'
  BY DEF CodeNoted, Control, TypeOK, Steps
<1>6. Cloned'
  BY DEF Cloned, There, Late, Control, TypeOK
<1>7. Attempts'
  BY DEF Attempts, Late, Control, TypeOK
<1>8. SuccessIsTrue'
  BY DEF SuccessIsTrue, Control, Noted, CodeNoted, Cloned, There, Late, TypeOK,
     Steps
<1>9. EveryoneTried'
  BY DEF EveryoneTried, Panicked, Panics, Control, Attempts, Blamed, Late, TypeOK
<1> QED
  BY <1>1, <1>2, <1>3, <1>4, <1>5, <1>6, <1>7, <1>8, <1>9

LEMMA CodeServerStep == ASSUME IInv, CodeServer PROVE IInv'
<1> USE DEF IInv, CodeServer, home, loop, go, past
<1>1. TypeOK'
  BY DEF TypeOK, Steps
<1>2. Control'
  BY DEF Control, TypeOK
<1>3. Noted'
  BY DEF Noted, Control, Late, TypeOK, SuccessIsTrue
<1>4. Blamed'
  BY DEF Blamed, Control, TypeOK
<1>5. CodeNoted'
  BY DEF CodeNoted, Control, TypeOK, Steps
<1>6. Cloned'
  BY DEF Cloned, There, Late, Control, TypeOK
<1>7. Attempts'
  BY DEF Attempts, Late, Control, TypeOK
<1>8. SuccessIsTrue'
  BY DEF SuccessIsTrue, Control, Noted, CodeNoted, Cloned, There, Late, TypeOK,
     Steps
<1>9. EveryoneTried'
  BY DEF EveryoneTried, Panicked, Panics, Control, Attempts, Blamed, Late, TypeOK
<1> QED
  BY <1>1, <1>2, <1>3, <1>4, <1>5, <1>6, <1>7, <1>8, <1>9

LEMMA CodeReturnsStep == ASSUME IInv, CodeReturns PROVE IInv'
<1> USE DEF IInv, CodeReturns, home, loop, go, past
<1>1. TypeOK'
  BY DEF TypeOK, Steps
<1>2. Control'
  BY DEF Control, TypeOK
<1>3. Noted'
  BY DEF Noted, Control, Late, TypeOK, SuccessIsTrue
<1>4. Blamed'
  BY DEF Blamed, Control, TypeOK
<1>5. CodeNoted'
  BY DEF CodeNoted, Control, TypeOK, Steps
<1>6. Cloned'
  BY DEF Cloned, There, Late, Control, TypeOK
<1>7. Attempts'
  BY DEF Attempts, Late, Control, TypeOK
<1>8. SuccessIsTrue'
  BY DEF SuccessIsTrue, Control, Noted, CodeNoted, Cloned, There, Late, TypeOK,
     Steps
<1>9. EveryoneTried'
  BY DEF EveryoneTried, Panicked, Panics, Control, Attempts, Blamed, Late, TypeOK
<1> QED
  BY <1>1, <1>2, <1>3, <1>4, <1>5, <1>6, <1>7, <1>8, <1>9

LEMMA InstallVscodeStep == ASSUME IInv, InstallVscode PROVE IInv'
<1> USE DEF IInv, InstallVscode, home, loop, go, past
<1>1. TypeOK'
  BY DEF TypeOK, Steps
<1>2. Control'
  BY DEF Control, TypeOK
<1>3. Noted'
  BY DEF Noted, Control, Late, TypeOK, SuccessIsTrue
<1>4. Blamed'
  BY DEF Blamed, Control, TypeOK
<1>5. CodeNoted'
  BY DEF CodeNoted, Control, TypeOK, Steps
<1>6. Cloned'
  BY DEF Cloned, There, Late, Control, TypeOK
<1>7. Attempts'
  BY DEF Attempts, Late, Control, TypeOK
<1>8. SuccessIsTrue'
  BY DEF SuccessIsTrue, Control, Noted, CodeNoted, Cloned, There, Late, TypeOK,
     Steps
<1>9. EveryoneTried'
  BY DEF EveryoneTried, Panicked, Panics, Control, Attempts, Blamed, Late, TypeOK
<1> QED
  BY <1>1, <1>2, <1>3, <1>4, <1>5, <1>6, <1>7, <1>8, <1>9

LEMMA SetupVsCodeExtensionsStep == ASSUME IInv, SetupVsCodeExtensions PROVE IInv'
<1> USE DEF IInv, SetupVsCodeExtensions, home, loop, go, past
<1>1. TypeOK'
  BY DEF TypeOK, Steps
<1>2. Control'
  BY DEF Control, TypeOK
<1>3. Noted'
  BY DEF Noted, Control, Late, TypeOK, SuccessIsTrue
<1>4. Blamed'
  BY DEF Blamed, Control, TypeOK
<1>5. CodeNoted'
  BY DEF CodeNoted, Control, TypeOK, Steps
<1>6. Cloned'
  BY DEF Cloned, There, Late, Control, TypeOK
<1>7. Attempts'
  BY DEF Attempts, Late, Control, TypeOK
<1>8. SuccessIsTrue'
  BY DEF SuccessIsTrue, Control, Noted, CodeNoted, Cloned, There, Late, TypeOK,
     Steps
<1>9. EveryoneTried'
  BY DEF EveryoneTried, Panicked, Panics, Control, Attempts, Blamed, Late, TypeOK
<1> QED
  BY <1>1, <1>2, <1>3, <1>4, <1>5, <1>6, <1>7, <1>8, <1>9

LEMMA AwaitStep == ASSUME IInv, Await PROVE IInv'
<1> USE DEF IInv, Await, Report, Sent, home, loop, go, past
<1>1. TypeOK'
  BY DEF TypeOK, Steps
<1>2. Control'
  BY DEF Control, TypeOK
<1>3. Noted'
  BY DEF Noted, Control, Late, TypeOK, SuccessIsTrue
<1>4. Blamed'
  BY DEF Blamed, Control, TypeOK
<1>5. CodeNoted'
  BY DEF CodeNoted, Control, TypeOK, Steps
<1>6. Cloned'
  BY DEF Cloned, There, Late, Control, TypeOK
<1>7. Attempts'
  BY DEF Attempts, Late, Control, TypeOK
<1>8. SuccessIsTrue'
  BY DEF SuccessIsTrue, Control, Noted, CodeNoted, Cloned, There, Late, TypeOK,
     Steps
<1>9. EveryoneTried'
  BY DEF EveryoneTried, Panicked, Panics, Control, Attempts, Blamed, Late, TypeOK
<1> QED
  BY <1>1, <1>2, <1>3, <1>4, <1>5, <1>6, <1>7, <1>8, <1>9

LEMMA ExitStep == ASSUME IInv, Exit PROVE IInv'
<1> USE DEF IInv, Exit, home, loop, go, past
<1>1. TypeOK'
  BY DEF TypeOK, Steps
<1>2. Control'
  BY DEF Control, TypeOK
<1>3. Noted'
  BY DEF Noted, Control, Late, TypeOK, SuccessIsTrue
<1>4. Blamed'
  BY DEF Blamed, Control, TypeOK
<1>5. CodeNoted'
  BY DEF CodeNoted, Control, TypeOK, Steps
<1>6. Cloned'
  BY DEF Cloned, There, Late, Control, TypeOK
<1>7. Attempts'
  BY DEF Attempts, Late, Control, TypeOK
<1>8. SuccessIsTrue'
  BY DEF SuccessIsTrue, Control, Noted, CodeNoted, Cloned, There, Late, TypeOK,
     Steps
<1>9. EveryoneTried'
  <2>1. /\ EveryoneTried /\ pc = "closing" /\ pc' = "ended"
        /\ UNCHANGED <<plan, result, broke, tried, raced>>
    OBVIOUS
  <2> QED
    BY ONLY <2>1 DEF EveryoneTried, Panicked, Panics
<1> QED
  BY <1>1, <1>2, <1>3, <1>4, <1>5, <1>6, <1>7, <1>8, <1>9

LEMMA StopStep == ASSUME IInv, Stop PROVE IInv'
<1> USE DEF IInv, Stop, Begin, home, loop, go, past
<1>1. TypeOK'
  BY DEF TypeOK, Steps
<1>2. Control'
  BY DEF Control, TypeOK
<1>3. Noted'
  BY DEF Noted, Control, Late, TypeOK, SuccessIsTrue
<1>4. Blamed'
  BY DEF Blamed, Control, TypeOK
<1>5. CodeNoted'
  BY DEF CodeNoted, Control, TypeOK, Steps
<1>6. Cloned'
  BY DEF Cloned, There, Late, Control, TypeOK
<1>7. Attempts'
  BY DEF Attempts, Late, Control, TypeOK
<1>8. SuccessIsTrue'
  BY DEF SuccessIsTrue, Control, Noted, CodeNoted, Cloned, There, Late, TypeOK,
     Steps
<1>9. EveryoneTried'
  BY DEF EveryoneTried, Panicked, Panics, Control, Attempts, Blamed, Late, TypeOK
<1> QED
  BY <1>1, <1>2, <1>3, <1>4, <1>5, <1>6, <1>7, <1>8, <1>9

LEMMA StutterStep == ASSUME IInv, UNCHANGED vars PROVE IInv'
  BY DEF IInv, vars, home, loop, go, past, TypeOK, Control, Noted, Late, Blamed,
     CodeNoted,
         Cloned, There, Attempts, SuccessIsTrue, EveryoneTried, Panicked, Panics,
         Steps

-----------------------------------------------------------------------------
(* The theorems.                                                           *)

LEMMA InitIInv == Init => IInv
<1> SUFFICES ASSUME Init PROVE IInv
  OBVIOUS
<1> USE DEF Init
<1>1. TypeOK
  BY DEF TypeOK, Steps
<1>2. Control /\ Noted /\ Blamed /\ CodeNoted /\ Cloned /\ Attempts
  BY DEF Control, Noted, Late, Blamed, CodeNoted, Cloned, Attempts
<1>3. SuccessIsTrue /\ EveryoneTried
  BY DEF SuccessIsTrue, EveryoneTried
<1> QED
  BY <1>1, <1>2, <1>3 DEF IInv

LEMMA NextIInv == IInv /\ [Next]_vars => IInv'
<1> SUFFICES ASSUME IInv, [Next]_vars PROVE IInv'
  OBVIOUS
<1>1. CASE Main
  BY <1>1, PrepareStep, SetupSSHStep, SetupGitStep, CreateVerbYamlFileStep,
     TestStepStep, TestLateStep, NextRepoStep, CloneStep, setupRepoV0Step,
     setupRepoV1Step, LoopEndsStep, StartExecsStep, RunExecStep, runExecV0Step,
     runExecV1Step, AwaitStep, ExitStep DEF Main
<1>2. CASE ConfigureCode \/ ConfigureExts
  BY <1>2, CodeServerStep, CodeReturnsStep, InstallVscodeStep,
     SetupVsCodeExtensionsStep
     DEF ConfigureCode, ConfigureExts
<1>3. CASE Boot \/ Stop
  BY <1>3, BootStep, StopStep
<1> QED
  BY <1>1, <1>2, <1>3, StutterStep DEF Next

(* The invariant the others follow from, of every behaviour.               *)
THEOREM InvariantCorrect == Spec => []IInv
  BY InitIInv, NextIInv, PTL DEF Spec

(* Every variable keeps its type.                                          *)
THEOREM TypeCorrect == Spec => []TypeOK
<1>1. IInv => TypeOK
  BY DEF IInv
<1> QED
  BY <1>1, InvariantCorrect, PTL

(* Setup reports a success only if nothing failed, the race for err and    *)
(* VS Code's server set aside.                                             *)
THEOREM SuccessCorrect == Spec => []SuccessIsTrue
<1>1. IInv => SuccessIsTrue
  BY DEF IInv
<1> QED
  BY <1>1, InvariantCorrect, PTL

(* Once a set-up is over, everything was tried that no failure of SSH, git,*)
(* the preparation or the workspace's own .brev excuses; a panic of a      *)
(* version-1 script excuses only the other scripts of version 1.           *)
THEOREM TriedCorrect == Spec => []EveryoneTried
<1>1. IInv => EveryoneTried
  BY DEF IInv
<1> QED
  BY <1>1, InvariantCorrect, PTL
=============================================================================
