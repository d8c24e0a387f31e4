--------------------------- MODULE SSHConfigProofs ---------------------------
(***************************************************************************)
(* Proofs about SSHConfig for any number of commands, refreshes, daemons,  *)
(* instances, nodes and lines: type correctness, that the user's lines are *)
(* kept, and that the entry of the instance is there when a command is     *)
(* about to connect.                                                       *)
(***************************************************************************)
EXTENDS SSHConfig, FiniteSetTheorems, TLAPS

USE SSHConfigConstants

-----------------------------------------------------------------------------
(* The strengthening.                                                      *)

Listed  == {"config", "fill", "include", "truncate", "prepend", "jetbrains", "connect"}
Written == {"include", "truncate", "prepend", "jetbrains", "connect"}

(* What a command that saw its instance up has listed and written.         *)
EntryOf(p) ==
  /\ steady[p] /\ target[p] \in Workspaces => IsUp(target[p])
  /\ steady[p] /\ target[p] \in Workspaces /\ pc[p] \in Listed => target[p] \in got[p].ws
  /\ own[p] => pc[p] \in Written /\ got[p].ws \subseteq brev.ws
  /\ pc[p] \in {"idle", "start", "poll"} => ~steady[p]
Entry == \A p \in Clients : EntryOf(p)

(* A refresh that got through has seen, or made, the Include.              *)
Through(p) == pc[p] = "connect" \/ (pc[p] = "jetbrains" /\ ~failed[p])
Inclusion == (\E p \in Procs : Through(p)) => HasInclude(user) \/ Writing \/ torn

(* What a process is about to write back.                                  *)
Rewriting(p) == pc[p] \in {"truncate", "prepend"}
WritesBack(p) ==
  Rewriting(p) => ~HasInclude(conf[p]) /\ (~torn => UserLines \subseteq ToSet(conf[p]))

(* While a process rewrites the file, the Include is its first line if it  *)
(* is there at all.                                                        *)
Headed(lines) == \A j \in DOMAIN lines : lines[j] = Include => j = 1

Kept ==
  (\A p \in Procs : WritesBack(p)) /\ (Writing => Headed(user)) /\ UserLinesKept

IInv == TypeOK /\ Entry /\ Inclusion /\ Kept

-----------------------------------------------------------------------------
(* What steps have in common.                                              *)

LEMMA Clientele == Clients \subseteq Procs
  BY DEF Procs

LEMMA NothingType == Nothing \in Listing
  BY DEF Nothing, Listing

LEMMA WritingStays ==
  ASSUME NEW p \in Procs, NEW x, pc \in [Procs -> States],
         pc' = [pc EXCEPT ![p] = x], pc[p] # "prepend", x # "prepend"
  PROVE  Writing' <=> Writing
  BY DEF Writing, At

(* A step that leaves ~/.ssh/config and what is written back to it alone.  *)
LEMMA Aside ==
  ASSUME IInv, NEW p \in Procs, NEW x \in States,
         pc[p] # "prepend", x \notin {"truncate", "prepend"},
         x = "connect" \/ (x = "jetbrains" /\ ~failed'[p]) => Through(p),
         pc' = [pc EXCEPT ![p] = x], UNCHANGED <<user, torn>>,
         \A q \in Procs \ {p} : conf'[q] = conf[q] /\ failed'[q] = failed[q]
  PROVE  Inclusion' /\ Kept'
<1>1. Writing' <=> Writing
  BY WritingStays DEF IInv, TypeOK
<1>2. ASSUME NEW q \in Procs PROVE (Through(q)' => Through(q)) /\ WritesBack(q)'
  <2>1. CASE q = p
    BY <2>1 DEF IInv, TypeOK, Through, WritesBack, Rewriting
  <2>2. CASE q # p
    BY <2>2 DEF IInv, TypeOK, Kept, Through, WritesBack, Rewriting
  <2> QED
    BY <2>1, <2>2
<1>3. Inclusion'
  BY <1>1, <1>2 DEF IInv, Inclusion
<1>4. UserLinesKept' /\ (Writing => Headed(user))'
  BY <1>1 DEF IInv, Kept, UserLinesKept, Headed
<1> QED
  BY <1>2, <1>3, <1>4 DEF Kept

(* A client's step that changes no listing, no entry and no other command. *)
LEMMA EntryStays ==
  ASSUME IInv, NEW p \in Procs, NEW x \in States, pc' = [pc EXCEPT ![p] = x],
         UNCHANGED <<status, brev, got, target, steady, own>>,
         x \in Listed => pc[p] \in Listed,
         p \in Clients /\ own[p] => x \in Written,
         x \in {"idle", "start", "poll"} => pc[p] \in {"idle", "start", "poll"}
  PROVE  Entry'
<1> SUFFICES ASSUME NEW q \in Clients PROVE EntryOf(q)'
  BY DEF Entry
<1>1. EntryOf(q) /\ q \in Procs
  BY Clientele DEF IInv, Entry
<1>2. CASE q = p
  BY <1>1, <1>2 DEF IInv, TypeOK, EntryOf, IsUp
<1>3. CASE q # p
  BY <1>1, <1>3 DEF IInv, TypeOK, EntryOf, IsUp
<1> QED
  BY <1>2, <1>3

(* A process that ends leaves nothing of its refresh, but perhaps a        *)
(* truncated file.                                                         *)
LEMMA EndKeeps ==
  ASSUME IInv, NEW p \in Procs, End(p), UNCHANGED <<status, granted, brev, user>>,
         changes' \in 0 .. MaxChanges, jetbrains' \subseteq Workspaces
  PROVE  IInv'
<1> USE DEF IInv
<1>1. /\ pc' = [pc EXCEPT ![p] = "idle"] /\ got' = [got EXCEPT ![p] = Nothing]
      /\ conf' = [conf EXCEPT ![p] = <<>>] /\ failed' = [failed EXCEPT ![p] = FALSE]
      /\ torn' = (torn \/ At(p, "prepend"))
  BY DEF End, Goto
<1>2. /\ target' \in [Clients -> Workspaces \cup Nodes]
      /\ checked' \in [Clients -> BOOLEAN] /\ steady' \in [Clients -> BOOLEAN]
      /\ own' \in [Clients -> BOOLEAN]
      /\ \A q \in Clients : q = p => ~steady'[q] /\ ~own'[q]
      /\ \A q \in Clients : q # p => /\ steady'[q] = steady[q] /\ own'[q] = own[q]
                                     /\ target'[q] = target[q]
  <2>1. CASE p \in Clients
    <3>1. /\ checked' = [checked EXCEPT ![p] = FALSE] /\ steady' = [steady EXCEPT ![p] = FALSE]
          /\ own' = [own EXCEPT ![p] = FALSE]
          /\ \E t \in Workspaces \cup Nodes : target' = [target EXCEPT ![p] = t]
      BY <2>1 DEF End
    <3>2. /\ target' \in [Clients -> Workspaces \cup Nodes]
          /\ \A q \in Clients \ {p} : target'[q] = target[q]
      <4>1. PICK t \in Workspaces \cup Nodes : target' = [target EXCEPT ![p] = t]
        BY <3>1
      <4>2. target \in [Clients -> Workspaces \cup Nodes]
        BY DEF TypeOK
      <4> HIDE DEF IInv
      <4> QED
        BY <4>1, <4>2
    <3>3. /\ checked' \in [Clients -> BOOLEAN] /\ steady' \in [Clients -> BOOLEAN]
          /\ own' \in [Clients -> BOOLEAN] /\ ~steady'[p] /\ ~own'[p]
      BY <2>1, <3>1 DEF TypeOK
    <3>4. \A q \in Clients \ {p} : steady'[q] = steady[q] /\ own'[q] = own[q]
      BY <3>1 DEF TypeOK
    <3> QED
      BY <3>2, <3>3, <3>4
  <2>2. CASE p \notin Clients
    BY <2>2 DEF End, TypeOK, client
  <2> QED
    BY <2>1, <2>2
<1>3. torn' \in BOOLEAN /\ (torn' <=> torn \/ pc[p] = "prepend")
  BY <1>1 DEF At, TypeOK
<1>4. TypeOK'
  <2>1. /\ pc' \in [Procs -> States]
        /\ \A q \in Procs \ Clients : pc'[q] \notin {"start", "poll", "connect"}
    BY <1>1 DEF TypeOK, States
  <2>2. got' \in [Procs -> Listing] /\ failed' \in [Procs -> BOOLEAN]
    BY <1>1, NothingType DEF TypeOK
  <2>3. conf' \in [Procs -> Seq(Lines)]
    <3>1. <<>> \in Seq(Lines)
      OBVIOUS
    <3> QED
      BY <1>1, <3>1 DEF TypeOK
  <2> QED
    BY <1>2, <1>3, <2>1, <2>2, <2>3 DEF TypeOK
<1>5. Entry'
  <2> SUFFICES ASSUME NEW q \in Clients PROVE EntryOf(q)'
    BY DEF Entry
  <2>1. EntryOf(q) /\ q \in Procs
    BY Clientele DEF Entry
  <2>2. CASE q = p
    BY <1>1, <1>2, <2>1, <2>2 DEF EntryOf, TypeOK, Listed, Written
  <2>3. CASE q # p
    BY <1>1, <1>2, <2>1, <2>3 DEF EntryOf, TypeOK, IsUp
  <2> QED
    BY <2>2, <2>3
<1>6. ASSUME NEW q \in Procs PROVE (Through(q)' => Through(q)) /\ WritesBack(q)'
  <2>1. CASE q = p
    BY <1>1, <2>1 DEF TypeOK, Through, WritesBack, Rewriting
  <2>2. CASE q # p
    BY <1>1, <1>3, <2>2 DEF TypeOK, Through, Kept, WritesBack, Rewriting
  <2> QED
    BY <2>1, <2>2
<1>7. /\ ~torn' => (Writing' <=> Writing) /\ ~torn
      /\ Writing' => Writing
  <2>1. ~torn' => (Writing' <=> Writing) /\ ~torn
    BY <1>1, <1>3, WritingStays DEF TypeOK
  <2>2. Writing' => Writing
    BY <1>1 DEF Writing, At, TypeOK
  <2> QED
    BY <2>1, <2>2
<1>8. Inclusion' /\ UserLinesKept' /\ (Writing => Headed(user))'
  BY <1>6, <1>7 DEF Inclusion, Kept, UserLinesKept, Headed
<1> QED
  BY <1>4, <1>5, <1>6, <1>8 DEF Kept

(* A command that sees its target up starts its refresh.                   *)
LEMMA SeenUpKeeps ==
  ASSUME IInv, NEW p \in Clients, SeenUp(p), UNCHANGED <<server, changes, disk>>,
         target[p] \in Workspaces => IsUp(target[p]), pc[p] \in {"idle", "poll"}
  PROVE  IInv'
<1> USE DEF IInv
<1>1. /\ p \in Procs /\ pc' = [pc EXCEPT ![p] = "keys"] /\ steady' = [steady EXCEPT ![p] = TRUE]
      /\ UNCHANGED <<status, granted, changes, brev, user, jetbrains, target, checked, own,
                     got, conf, failed, torn>>
  BY Clientele DEF SeenUp, Goto, server, disk, refresh
<1>2. TypeOK'
  BY <1>1 DEF TypeOK, States
<1>3. Entry'
  <2> SUFFICES ASSUME NEW q \in Clients PROVE EntryOf(q)'
    BY DEF Entry
  <2>1. EntryOf(q) /\ q \in Procs
    BY Clientele DEF Entry
  <2>2. CASE q = p
    BY <1>1, <2>1, <2>2 DEF EntryOf, TypeOK, IsUp, Listed, Written
  <2>3. CASE q # p
    BY <1>1, <2>1, <2>3 DEF EntryOf, TypeOK, IsUp
  <2> QED
    BY <2>2, <2>3
<1>4. Inclusion' /\ Kept'
  BY <1>1, Aside DEF States
<1> QED
  BY <1>2, <1>3, <1>4

-----------------------------------------------------------------------------
(* The steps, action by action.                                            *)

LEMMA StartClientStep ==
  ASSUME IInv, NEW p \in Procs, StartClient(p) PROVE IInv'
<1> USE DEF IInv
<1>1. p \in Clients /\ pc[p] = "idle" /\ UNCHANGED <<server, changes, disk>>
  BY DEF StartClient, At
<1>2. CASE target[p] \in granted /\ SeenUp(p)
  BY <1>1, <1>2, SeenUpKeeps DEF TypeOK
<1>3. CASE End(p)
  BY <1>1, <1>3, EndKeeps DEF server, disk, TypeOK
<1>4. ASSUME NEW x \in {"start", "poll"}, Goto(p, x), UNCHANGED <<refresh, client, torn>>
      PROVE  IInv'
  <2>1. /\ pc' = [pc EXCEPT ![p] = x]
        /\ UNCHANGED <<status, granted, changes, brev, user, jetbrains, target, checked,
                       steady, own, got, conf, failed, torn>>
    BY <1>1, <1>4 DEF Goto, server, disk, refresh, client
  <2>2. TypeOK'
    BY <1>1, <2>1 DEF TypeOK, States
  <2>3. Entry'
    <3>1. ~own[p]
      BY <1>1 DEF Entry, EntryOf, Written
    <3> QED
      BY <1>1, <2>1, <3>1, EntryStays DEF States, Listed
  <2>4. Inclusion' /\ Kept'
    BY <1>1, <2>1, Aside DEF States
  <2> QED
    BY <2>2, <2>3, <2>4
<1> QED
  BY <1>2, <1>3, <1>4 DEF StartClient

LEMMA StartWorkspaceIfStoppedStep ==
  ASSUME IInv, NEW p \in Procs, StartWorkspaceIfStopped(p) PROVE IInv'
<1> USE DEF IInv
<1>1. pc[p] = "start" /\ p \in Clients /\ UNCHANGED <<granted, changes, disk>>
  BY DEF StartWorkspaceIfStopped, At, TypeOK
<1>2. CASE UNCHANGED status /\ End(p)
  BY <1>1, <1>2, EndKeeps DEF disk, TypeOK
<1>3. CASE /\ status[target[p]] = "stopped"
           /\ status' = [status EXCEPT ![target[p]] = "starting"]
           /\ Goto(p, "poll") /\ UNCHANGED <<refresh, client, torn>>
  <2>1. /\ pc' = [pc EXCEPT ![p] = "poll"]
        /\ UNCHANGED <<granted, changes, brev, user, jetbrains, target, checked,
                       steady, own, got, conf, failed, torn>>
    BY <1>1, <1>3 DEF Goto, disk, refresh, client
  <2>2. /\ status' \in [Workspaces -> {"stopped", "starting", "bare", "running"}]
        /\ \A w \in Workspaces : IsUp(w) => IsUp(w)'
    BY <1>3 DEF TypeOK, IsUp
  <2>3. TypeOK'
    BY <1>1, <2>1, <2>2 DEF TypeOK, States
  <2>4. Entry'
    <3> SUFFICES ASSUME NEW q \in Clients PROVE EntryOf(q)'
      BY DEF Entry
    <3>1. EntryOf(q) /\ q \in Procs
      BY Clientele DEF Entry
    <3>2. CASE q = p
      BY <1>1, <2>1, <2>2, <3>1, <3>2 DEF EntryOf, TypeOK, Listed, Written
    <3>3. CASE q # p
      BY <2>1, <2>2, <3>1, <3>3 DEF EntryOf, TypeOK
    <3> QED
      BY <3>2, <3>3
  <2>5. Inclusion' /\ Kept'
    BY <1>1, <2>1, Aside DEF States
  <2> QED
    BY <2>3, <2>4, <2>5
<1> QED
  BY <1>2, <1>3 DEF StartWorkspaceIfStopped

LEMMA PollUntilStep ==
  ASSUME IInv, NEW p \in Procs, PollUntil(p) PROVE IInv'
<1> USE DEF IInv
<1>1. pc[p] = "poll" /\ p \in Clients /\ UNCHANGED <<server, changes, disk>>
  BY DEF PollUntil, At, TypeOK
<1>2. CASE IsUp(target[p]) /\ SeenUp(p)
  BY <1>1, <1>2, SeenUpKeeps
<1>3. CASE End(p)
  BY <1>1, <1>3, EndKeeps DEF server, disk, TypeOK
<1> QED
  BY <1>2, <1>3 DEF PollUntil

LEMMA CheckRunningStep ==
  ASSUME IInv, NEW p \in Procs, CheckRunning(p) PROVE IInv'
<1> USE DEF IInv
<1>1. p \in Clients /\ UNCHANGED <<server, changes, disk>>
  BY DEF CheckRunning
<1>2. CASE End(p)
  BY <1>1, <1>2, EndKeeps DEF server, disk, TypeOK
<1>3. CASE /\ checked' = [checked EXCEPT ![p] = TRUE]
           /\ UNCHANGED <<pc, target, steady, own, refresh, torn>>
  BY <1>1, <1>3 DEF server, disk, refresh, TypeOK, Entry, EntryOf, IsUp, Inclusion,
     Through,
     Writing, At, Kept, WritesBack, Rewriting, UserLinesKept, Headed
<1> QED
  BY <1>2, <1>3 DEF CheckRunning

LEMMA ConnectStep ==
  ASSUME IInv, NEW p \in Procs, Connect(p) PROVE IInv'
  BY EndKeeps DEF IInv, Connect, server, disk, TypeOK

LEMMA StartRefreshStep ==
  ASSUME IInv, NEW p \in Procs, StartRefresh(p) PROVE IInv'
<1> USE DEF IInv
<1>1. /\ pc[p] = "idle" /\ pc' = [pc EXCEPT ![p] = "keys"]
      /\ UNCHANGED <<status, granted, changes, brev, user, jetbrains, target, checked,
                     steady, own, got, conf, failed, torn>>
  BY DEF StartRefresh, At, Goto, server, disk, refresh, client
<1>2. TypeOK'
  BY <1>1 DEF TypeOK, States
<1>3. Entry'
  <2>1. p \in Clients => ~own[p]
    BY <1>1 DEF Entry, EntryOf, Written
  <2> QED
    BY <1>1, <2>1, EntryStays DEF States, Listed
<1>4. Inclusion' /\ Kept'
  BY <1>1, Aside DEF States
<1> QED
  BY <1>2, <1>3, <1>4

LEMMA FailsKeeps ==
  ASSUME TypeOK, Fails PROVE changes' \in 0 .. MaxChanges
  BY DEF TypeOK, Fails

LEMMA GetKeysStep ==
  ASSUME IInv, NEW p \in Procs, GetKeys(p) PROVE IInv'
<1> USE DEF IInv
<1>1. pc[p] = "keys" /\ UNCHANGED <<server, disk>>
  BY DEF GetKeys, At
<1>2. CASE Fails /\ End(p)
  BY <1>1, <1>2, EndKeeps, FailsKeeps DEF server, disk, TypeOK
<1>3. CASE /\ Goto(p, "list") /\ UNCHANGED <<conf, failed, client, torn>>
           /\ \/ got' = [got EXCEPT ![p].nodes = ExternalNodes(p)] /\ UNCHANGED changes
              \/ Fails /\ UNCHANGED got
  <2>1. /\ pc' = [pc EXCEPT ![p] = "list"]
        /\ UNCHANGED <<status, granted, brev, user, jetbrains, target, checked,
                       steady, own, conf, failed, torn>>
        /\ changes' \in 0 .. MaxChanges
    BY <1>1, <1>3, FailsKeeps DEF Goto, server, disk, client, TypeOK
  <2>2. got' \in [Procs -> Listing] /\ \A q \in Procs \ {p} : got'[q] = got[q]
    <3>1. CASE got' = [got EXCEPT ![p].nodes = ExternalNodes(p)]
      <4>1. ExternalNodes(p) \subseteq Nodes /\ got[p] \in Listing
        BY DEF ExternalNodes, TypeOK
      <4>2. [got[p] EXCEPT !.nodes = ExternalNodes(p)] \in Listing
        BY <4>1 DEF Listing
      <4> QED
        BY <3>1, <4>2 DEF TypeOK
    <3>2. CASE UNCHANGED got
      BY <3>2 DEF TypeOK
    <3> QED
      BY <1>3, <3>1, <3>2
  <2>3. TypeOK'
    BY <2>1, <2>2 DEF TypeOK, States
  <2>4. Entry'
    <3> SUFFICES ASSUME NEW q \in Clients PROVE EntryOf(q)'
      BY DEF Entry
    <3>1. EntryOf(q) /\ q \in Procs
      BY Clientele DEF Entry
    <3>2. CASE q = p
      BY <1>1, <2>1, <3>1, <3>2 DEF EntryOf, TypeOK, IsUp, Listed, Written
    <3>3. CASE q # p
      BY <2>1, <2>2, <3>1, <3>3 DEF EntryOf, TypeOK, IsUp
    <3> QED
      BY <3>2, <3>3
  <2>5. Inclusion' /\ Kept'
    BY <1>1, <2>1, Aside DEF States
  <2> QED
    BY <2>3, <2>4, <2>5
<1> QED
  BY <1>2, <1>3 DEF GetKeys

LEMMA ListWorkspacesStep ==
  ASSUME IInv, NEW p \in Procs, ListWorkspaces(p) PROVE IInv'
<1> USE DEF IInv
<1>1. pc[p] = "list" /\ UNCHANGED <<server, disk>>
  BY DEF ListWorkspaces, At
<1>2. CASE Fails /\ End(p)
  BY <1>1, <1>2, EndKeeps, FailsKeeps DEF server, disk, TypeOK
<1>3. CASE /\ got' = [got EXCEPT ![p].ws = RunningWorkspaces]
           /\ failed' = [failed EXCEPT ![p] = Spoilt(RunningWorkspaces)]
           /\ Goto(p, IF Spoilt(RunningWorkspaces) THEN "jetbrains" ELSE "config")
           /\ UNCHANGED <<changes, conf, client, torn>>
  <2>1. PICK x \in {"jetbrains", "config"} :
             /\ pc' = [pc EXCEPT ![p] = x]
             /\ x = "jetbrains" <=> Spoilt(RunningWorkspaces)
    BY <1>3 DEF Goto
  <2>2. UNCHANGED <<status, granted, changes, brev, user, jetbrains, target, checked,
                    steady, own, conf, torn>>
    BY <1>1, <1>3 DEF server, disk, client
  <2>3. got' \in [Procs -> Listing] /\ \A q \in Procs \ {p} : got'[q] = got[q]
    BY <1>3 DEF TypeOK, Listing, RunningWorkspaces, Up
  <2>4. got'[p].ws = {w \in Workspaces : IsUp(w)}
    BY <1>3 DEF TypeOK, Listing, RunningWorkspaces, Up
  <2>5. Spoilt(RunningWorkspaces) \in BOOLEAN
    BY DEF Spoilt
  <2>6. failed' \in [Procs -> BOOLEAN] /\ (failed'[p] <=> x = "jetbrains")
        /\ \A q \in Procs \ {p} : failed'[q] = failed[q]
    BY <1>3, <2>1, <2>5 DEF TypeOK
  <2>7. TypeOK'
    BY <2>1, <2>2, <2>3, <2>6 DEF TypeOK, States
  <2>8. Entry'
    <3> SUFFICES ASSUME NEW q \in Clients PROVE EntryOf(q)'
      BY DEF Entry
    <3>1. EntryOf(q) /\ q \in Procs
      BY Clientele DEF Entry
    <3>2. CASE q = p
      BY <1>1, <2>1, <2>2, <2>4, <3>1, <3>2 DEF EntryOf, TypeOK, IsUp, Written
    <3>3. CASE q # p
      BY <2>1, <2>2, <2>3, <3>1, <3>3 DEF EntryOf, TypeOK, IsUp
    <3> QED
      BY <3>2, <3>3
  <2>9. Inclusion' /\ Kept'
    <3>1. x \in States /\ x \notin {"truncate", "prepend", "connect"}
      BY DEF States
    <3> QED
      BY <1>1, <2>1, <2>2, <2>6, <3>1, Aside
  <2> QED
    BY <2>7, <2>8, <2>9
<1> QED
  BY <1>2, <1>3 DEF ListWorkspaces

LEMMA KillStep ==
  ASSUME IInv, NEW p \in Procs, Kill(p) PROVE IInv'
  BY EndKeeps, FailsKeeps DEF IInv, Kill, server, disk, TypeOK

(* A config that cannot be opened changes nothing but that it failed.      *)
LEMMA AbortsKeeps ==
  ASSUME IInv, NEW p \in Procs, Aborts(p), pc[p] \in {"config", "truncate"},
         UNCHANGED <<server, disk, got, conf, client, torn>>
  PROVE  IInv'
<1> USE DEF IInv
<1>1. /\ pc' = [pc EXCEPT ![p] = "jetbrains"] /\ changes' \in 0 .. MaxChanges
      /\ failed' \in [Procs -> BOOLEAN] /\ failed'[p]
      /\ \A q \in Procs \ {p} : failed'[q] = failed[q]
  BY FailsKeeps DEF Aborts, Goto, TypeOK
<1>2. UNCHANGED <<status, granted, brev, user, jetbrains, target, checked, steady, own,
                  got, conf, torn>>
  BY DEF server, disk, client
<1>3. TypeOK'
  BY <1>1, <1>2 DEF TypeOK, States
<1>4. Entry'
  BY <1>1, <1>2, EntryStays DEF States, Listed, Written
<1>5. Inclusion' /\ Kept'
  BY <1>1, <1>2, Aside DEF States
<1> QED
  BY <1>3, <1>4, <1>5

LEMMA TruncateBrevStep ==
  ASSUME IInv, NEW p \in Procs, TruncateBrev(p) PROVE IInv'
<1> USE DEF IInv
<1>1. CASE Aborts(p) /\ UNCHANGED <<brev, own>>
  BY <1>1, AbortsKeeps DEF TruncateBrev, At, server, disk, client
<1>2. CASE /\ Goto(p, "fill")
           /\ brev' = Nothing /\ own' = [q \in Clients |-> FALSE]
           /\ UNCHANGED <<changes, failed>>
  <2>1. /\ pc[p] = "config" /\ pc' = [pc EXCEPT ![p] = "fill"]
        /\ brev' = Nothing /\ own' = [q \in Clients |-> FALSE]
        /\ UNCHANGED <<status, granted, changes, user, jetbrains, target, checked,
                       steady, got, conf, failed, torn>>
    BY <1>2 DEF TruncateBrev, At, Goto, server
  <2>2. TypeOK'
    BY <2>1, NothingType DEF TypeOK, States
  <2>3. Entry'
    <3> SUFFICES ASSUME NEW q \in Clients PROVE EntryOf(q)'
      BY DEF Entry
    <3>1. EntryOf(q) /\ q \in Procs
      BY Clientele DEF Entry
    <3>2. CASE q = p
      BY <2>1, <3>1, <3>2 DEF EntryOf, TypeOK, IsUp, Listed
    <3>3. CASE q # p
      BY <2>1, <3>1, <3>3 DEF EntryOf, TypeOK, IsUp
    <3> QED
      BY <3>2, <3>3
  <2>4. Inclusion' /\ Kept'
    BY <2>1, Aside DEF States
  <2> QED
    BY <2>2, <2>3, <2>4
<1> QED
  BY <1>1, <1>2 DEF TruncateBrev

LEMMA LandedType ==
  ASSUME brev \in Listing, NEW entries \in Listing, NEW file \in Landed(entries)
  PROVE  file \in Listing /\ entries.ws \subseteq file.ws
<1>1. PICK w \in SUBSET brev.ws, n \in SUBSET brev.nodes :
        file = [ws |-> entries.ws \cup w, nodes |-> entries.nodes \cup n]
  BY DEF Landed
<1> QED
  BY <1>1 DEF Listing

LEMMA WriteBrevStep ==
  ASSUME IInv, NEW p \in Procs, WriteBrev(p) PROVE IInv'
<1> USE DEF IInv
<1>1. /\ pc[p] = "fill"
      /\ UNCHANGED <<status, granted, user, jetbrains, target, checked,
                     steady, got, conf, torn>>
  BY DEF WriteBrev, At, server
<1>2. got[p] \in Listing /\ brev \in Listing
  BY DEF TypeOK
<1>3. CASE /\ Goto(p, "include")
           /\ brev' \in Landed(got[p]) /\ own' = [q \in Clients |-> q = p]
           /\ UNCHANGED <<changes, failed>>
  <2>1. pc' = [pc EXCEPT ![p] = "include"] /\ UNCHANGED <<changes, failed>>
    BY <1>3 DEF Goto
  <2>2. brev' \in Listing /\ got[p].ws \subseteq brev'.ws
    BY <1>2, <1>3, LandedType
  <2>3. own' \in [Clients -> BOOLEAN] /\ \A q \in Clients : own'[q] <=> q = p
    BY <1>3
  <2>4. TypeOK'
    BY <1>1, <2>1, <2>2, <2>3 DEF TypeOK, States
  <2>5. Entry'
    <3> SUFFICES ASSUME NEW q \in Clients PROVE EntryOf(q)'
      BY DEF Entry
    <3>1. EntryOf(q) /\ q \in Procs
      BY Clientele DEF Entry
    <3>2. CASE q = p
      BY <1>1, <2>1, <2>2, <2>3, <3>1, <3>2 DEF EntryOf, TypeOK, IsUp, Listed, Written
    <3>3. CASE q # p
      BY <1>1, <2>1, <2>3, <3>1, <3>3 DEF EntryOf, TypeOK, IsUp
    <3> QED
      BY <3>2, <3>3
  <2>6. Inclusion' /\ Kept'
    BY <1>1, <2>1, Aside DEF States
  <2> QED
    BY <2>4, <2>5, <2>6
<1>4. CASE /\ Aborts(p) /\ own' = [q \in Clients |-> FALSE]
           /\ \E part \in [ws : SUBSET got[p].ws, nodes : SUBSET got[p].nodes] :
                 brev' \in Landed(part)
  <2>1. /\ pc' = [pc EXCEPT ![p] = "jetbrains"] /\ changes' \in 0 .. MaxChanges
        /\ failed' \in [Procs -> BOOLEAN] /\ failed'[p]
        /\ \A q \in Procs \ {p} : failed'[q] = failed[q]
    BY <1>4, FailsKeeps DEF Aborts, Goto, TypeOK
  <2>2. brev' \in Listing
    <3>1. PICK part \in [ws : SUBSET got[p].ws, nodes : SUBSET got[p].nodes] :
            brev' \in Landed(part)
      BY <1>4
    <3>2. part \in Listing
      BY <1>2 DEF Listing
    <3> QED
      BY <1>2, <3>1, <3>2, LandedType
  <2>3. own' \in [Clients -> BOOLEAN] /\ \A q \in Clients : ~own'[q]
    BY <1>4
  <2>4. TypeOK'
    BY <1>1, <2>1, <2>2, <2>3 DEF TypeOK, States
  <2>5. Entry'
    <3> SUFFICES ASSUME NEW q \in Clients PROVE EntryOf(q)'
      BY DEF Entry
    <3>1. EntryOf(q) /\ q \in Procs
      BY Clientele DEF Entry
    <3>2. CASE q = p
      BY <1>1, <2>1, <2>3, <3>1, <3>2 DEF EntryOf, TypeOK, IsUp, Listed
    <3>3. CASE q # p
      BY <1>1, <2>1, <2>3, <3>1, <3>3 DEF EntryOf, TypeOK, IsUp
    <3> QED
      BY <3>2, <3>3
  <2>6. Inclusion' /\ Kept'
    BY <1>1, <2>1, Aside DEF States
  <2> QED
    BY <2>4, <2>5, <2>6
<1> QED
  BY <1>3, <1>4 DEF WriteBrev

LEMMA ReadUserConfigStep ==
  ASSUME IInv, NEW p \in Procs, ReadUserConfig(p) PROVE IInv'
<1> USE DEF IInv
<1>1. /\ pc[p] = "include"
      /\ UNCHANGED <<status, granted, brev, user, jetbrains, target, checked, steady, own, got>>
  BY DEF ReadUserConfig, At, server, disk, client
<1>2. CASE Included(user) /\ Goto(p, "jetbrains") /\ UNCHANGED <<changes, conf, failed, torn>>
  <2>1. /\ HasInclude(user) /\ pc' = [pc EXCEPT ![p] = "jetbrains"]
        /\ UNCHANGED <<changes, conf, failed, torn>>
    BY <1>2 DEF Included, Goto
  <2>2. TypeOK'
    BY <1>1, <2>1 DEF TypeOK, States
  <2>3. Entry'
    BY <1>1, <2>1, EntryStays DEF States, Listed, Written
  <2>4. Inclusion'
    BY <1>1, <2>1 DEF Inclusion, HasInclude
  <2>5. Writing' <=> Writing
    BY <1>1, <2>1, WritingStays DEF TypeOK
  <2>6. Kept'
    BY <1>1, <2>1, <2>5 DEF Kept, WritesBack, Rewriting, UserLinesKept, Headed, TypeOK
  <2> QED
    BY <2>2, <2>3, <2>4, <2>6
<1>3. CASE /\ Fails /\ Goto(p, Unreadable) /\ failed' = [failed EXCEPT ![p] = TRUE]
           /\ UNCHANGED <<conf, torn>>
  <2>1. /\ pc' = [pc EXCEPT ![p] = "jetbrains"] /\ UNCHANGED <<conf, torn>>
        /\ failed' \in [Procs -> BOOLEAN] /\ failed'[p]
        /\ \A q \in Procs \ {p} : failed'[q] = failed[q]
    BY <1>3 DEF Goto, Unreadable, TypeOK
  <2>2. TypeOK'
    BY <1>1, <1>3, <2>1, FailsKeeps DEF TypeOK, States
  <2>3. Entry'
    BY <1>1, <2>1, EntryStays DEF States, Listed, Written
  <2>4. Inclusion' /\ Kept'
    BY <1>1, <2>1, Aside DEF States
  <2> QED
    BY <2>2, <2>3, <2>4
<1>4. CASE /\ ~Included(user) /\ Goto(p, "truncate") /\ conf' = [conf EXCEPT ![p] = user]
           /\ torn' = (torn \/ \E q \in Procs : At(q, "prepend"))
           /\ UNCHANGED <<changes, failed>>
  <2>1. /\ pc' = [pc EXCEPT ![p] = "truncate"] /\ conf' = [conf EXCEPT ![p] = user]
        /\ torn' \in BOOLEAN /\ (torn' <=> torn \/ Writing) /\ ~HasInclude(user)
        /\ UNCHANGED <<changes, failed>>
    BY <1>4 DEF Included, Goto, Writing, TypeOK
  <2>2. TypeOK'
    BY <1>1, <2>1 DEF TypeOK, States
  <2>3. Entry'
    BY <1>1, <2>1, EntryStays DEF States, Listed, Written
  <2>4. Writing' <=> Writing
    BY <1>1, <2>1, WritingStays DEF TypeOK
  <2>5. ASSUME NEW q \in Procs PROVE (Through(q)' => Through(q)) /\ WritesBack(q)'
    <3>1. CASE q = p
      BY <1>1, <2>1, <3>1 DEF TypeOK, Through, WritesBack, Rewriting, Kept,
         UserLinesKept
    <3>2. CASE q # p
      BY <1>1, <2>1, <3>2 DEF TypeOK, Through, WritesBack, Rewriting, Kept
    <3> QED
      BY <3>1, <3>2
  <2>6. Inclusion' /\ UserLinesKept' /\ (Writing => Headed(user))'
    BY <1>1, <2>1, <2>4, <2>5 DEF Inclusion, Kept, UserLinesKept, Headed
  <2> QED
    BY <2>2, <2>3, <2>5, <2>6 DEF Kept
<1> QED
  BY <1>2, <1>3, <1>4 DEF ReadUserConfig

LEMMA TruncateUserStep ==
  ASSUME IInv, NEW p \in Procs, TruncateUser(p) PROVE IInv'
<1> USE DEF IInv
<1>1. CASE Aborts(p) /\ UNCHANGED user
  BY <1>1, AbortsKeeps DEF TruncateUser, At, server, disk, client
<1>2. CASE Goto(p, "prepend") /\ user' = <<>> /\ UNCHANGED <<changes, failed>>
  <2>1. /\ pc[p] = "truncate" /\ pc' = [pc EXCEPT ![p] = "prepend"] /\ user' = <<>>
        /\ UNCHANGED <<status, granted, changes, brev, jetbrains, target, checked, steady,
                       own, got, conf, failed, torn>>
    BY <1>2 DEF TruncateUser, At, Goto, server, client
  <2>2. TypeOK'
    BY <2>1 DEF TypeOK, States
  <2>3. Entry'
    BY <2>1, EntryStays DEF States, Listed, Written
  <2>4. Writing'
    BY <2>1 DEF Writing, At, TypeOK
  <2>5. Inclusion' /\ UserLinesKept' /\ Headed(user')
    BY <2>1, <2>4 DEF Inclusion, UserLinesKept, Headed
  <2>6. ASSUME NEW q \in Procs PROVE WritesBack(q)'
    BY <2>1 DEF Kept, WritesBack, Rewriting, TypeOK
  <2> QED
    BY <2>2, <2>3, <2>5, <2>6 DEF Kept
<1> QED
  BY <1>1, <1>2 DEF TruncateUser

(* What a write leaves of lines that begin with the only Include.          *)
LEMMA OverLines ==
  ASSUME user \in Seq(Lines), Headed(user), NEW lines \in Seq(Lines), Headed(lines),
         NEW n \in 0 .. Len(lines)
  PROVE  /\ Over(lines, n) \in Seq(Lines) /\ Headed(Over(lines, n))
         /\ n = Len(lines) => ToSet(lines) \subseteq ToSet(Over(lines, n))
<1> DEFINE m == IF Len(user) > n THEN Len(user) ELSE n
           over == Over(lines, n)
<1>1. m \in Nat /\ n \in Nat /\ n <= m
  OBVIOUS
<1>2. over = [k \in 1 .. m |-> IF k <= n THEN lines[k] ELSE user[k]]
  BY DEF Over
<1>3. ASSUME NEW k \in 1 .. m
      PROVE  /\ k <= n => k \in DOMAIN lines /\ over[k] = lines[k]
             /\ ~(k <= n) => k \in DOMAIN user /\ over[k] = user[k]
  BY <1>2
<1>4. \A k \in 1 .. m : over[k] \in Lines /\ (over[k] = Include => k = 1)
  BY <1>3 DEF Headed
<1>5. DOMAIN over = 1 .. m
  BY <1>2
<1>6. over \in Seq(Lines)
  <2> HIDE DEF m
  <2>1. over \in [1 .. m -> Lines]
    BY <1>2, <1>4
  <2> QED
    BY <1>1, <2>1
<1>7. n = Len(lines) => ToSet(lines) \subseteq ToSet(over)
  <2> SUFFICES ASSUME n = Len(lines), NEW k \in DOMAIN lines PROVE lines[k] \in ToSet(over)
    BY DEF ToSet
  <2>1. k \in 1 .. m /\ k <= n
    BY <1>1
  <2> QED
    BY <1>3, <1>5, <2>1 DEF ToSet
<1> QED
  BY <1>4, <1>5, <1>6, <1>7 DEF Headed

LEMMA AddIncludeStep ==
  ASSUME IInv, NEW p \in Procs, AddInclude(p) PROVE IInv'
<1> USE DEF IInv
<1> DEFINE lines == <<Include>> \o conf[p]
<1>1. /\ pc[p] = "prepend" /\ pc' = [pc EXCEPT ![p] = "jetbrains"]
      /\ UNCHANGED <<status, granted, brev, jetbrains, target, checked, steady, own, got, conf>>
  BY DEF AddInclude, At, Goto, Aborts, server, client
<1>2. PICK n \in 0 .. Len(lines) :
        /\ user' = Over(lines, n)
        /\ \/ n = Len(lines) /\ UNCHANGED <<changes, failed, torn>>
           \/ Aborts(p) /\ torn' = TRUE
  <2>1. conf[p] \in Seq(Lines) /\ Include \in Lines
    BY DEF TypeOK, Lines
  <2>2. lines \in Seq(Lines)
    BY <2>1
  <2>3. Len(lines) \in 0 .. Len(lines)
    BY <2>2
  <2> HIDE DEF lines
  <2> QED
    BY <2>3 DEF AddInclude, lines
<1>3. /\ conf[p] \in Seq(Lines) /\ ~HasInclude(conf[p])
      /\ ~torn => UserLines \subseteq ToSet(conf[p])
      /\ Writing /\ Headed(user) /\ user \in Seq(Lines)
  BY <1>1 DEF TypeOK, Kept, WritesBack, Rewriting, Writing, At
<1>4. /\ lines \in Seq(Lines) /\ Len(lines) = Len(conf[p]) + 1 /\ lines[1] = Include
      /\ DOMAIN lines = 1 .. Len(conf[p]) + 1 /\ Len(conf[p]) \in Nat
      /\ \A k \in 1 .. Len(conf[p]) : lines[k + 1] = conf[p][k]
  BY <1>3 DEF Lines
<1> HIDE DEF lines
<1>5. Headed(lines)
  <2> SUFFICES ASSUME NEW j \in DOMAIN lines, lines[j] = Include, j # 1 PROVE FALSE
    BY DEF Headed
  <2>0. j \in 1 .. Len(conf[p]) + 1 /\ Len(conf[p]) \in Nat
    BY <1>4
  <2>1. j - 1 \in 1 .. Len(conf[p]) /\ (j - 1) + 1 = j
    BY <2>0
  <2>2. conf[p][j - 1] = Include
    BY <1>4, <2>1
  <2> QED
    BY <1>3, <2>1, <2>2 DEF HasInclude, Contains
<1>6. UserLines \subseteq ToSet(conf[p]) => UserLines \subseteq ToSet(lines)
  <2> SUFFICES ASSUME NEW k \in DOMAIN conf[p] PROVE conf[p][k] \in ToSet(lines)
    BY DEF ToSet
  <2>1. k \in 1 .. Len(conf[p])
    BY <1>3
  <2>2. k + 1 \in DOMAIN lines
    BY <1>4, <2>1
  <2>3. lines[k + 1] = conf[p][k]
    BY <1>4, <2>1
  <2> QED
    BY <2>2, <2>3 DEF ToSet
<1>7. /\ user' \in Seq(Lines) /\ Headed(user')
      /\ n = Len(lines) => ToSet(lines) \subseteq ToSet(user')
  BY <1>2, <1>3, <1>4, <1>5, OverLines
<1>8. /\ changes' \in 0 .. MaxChanges /\ failed' \in [Procs -> BOOLEAN]
      /\ torn' \in BOOLEAN /\ (torn => torn')
  BY <1>2, FailsKeeps DEF Aborts, TypeOK
<1>9. ~torn' => n = Len(lines) /\ ~torn
  BY <1>2, <1>8
<1>10. TypeOK'
  BY <1>1, <1>7, <1>8 DEF TypeOK, States
<1>11. Entry'
  BY <1>1, EntryStays DEF States, Listed, Written
<1>12. ~torn' => HasInclude(user')
  <2>1. 1 \in DOMAIN lines
    BY <1>4
  <2>2. Include \in ToSet(lines)
    BY <1>4, <2>1 DEF ToSet
  <2>3. n = Len(lines) => \E k \in DOMAIN user' : user'[k] = Include
    BY <1>7, <2>2 DEF ToSet
  <2> QED
    BY <1>7, <1>9, <2>3 DEF HasInclude, Contains
<1>13. Inclusion'
  BY <1>12 DEF Inclusion, HasInclude
<1>14. UserLinesKept'
  <2>1. ~torn' => UserLines \subseteq ToSet(user')
    BY <1>3, <1>6, <1>7, <1>9
  <2> QED
    BY <1>7, <2>1 DEF UserLinesKept, Headed
<1>15. ASSUME NEW q \in Procs PROVE WritesBack(q)'
  BY <1>1, <1>8 DEF Kept, WritesBack, Rewriting, TypeOK
<1> QED
  BY <1>7, <1>10, <1>11, <1>13, <1>14, <1>15 DEF Kept

LEMMA UpdateJetBrainsStep ==
  ASSUME IInv, NEW p \in Procs, UpdateJetBrains(p) PROVE IInv'
<1> USE DEF IInv
<1>1. /\ pc[p] = "jetbrains" /\ UNCHANGED <<status, granted, changes, brev, user>>
      /\ jetbrains' \subseteq Workspaces
  BY DEF UpdateJetBrains, At, server, TypeOK, Listing
<1>2. CASE End(p)
  BY <1>1, <1>2, EndKeeps DEF TypeOK
<1>3. CASE Connects(p) /\ Goto(p, "connect") /\ UNCHANGED <<refresh, client, torn>>
  <2>1. /\ p \in Clients /\ ~failed[p] /\ pc' = [pc EXCEPT ![p] = "connect"]
        /\ UNCHANGED <<target, checked, steady, own, got, conf, failed, torn>>
    BY <1>3 DEF Connects, Goto, refresh, client
  <2>2. TypeOK'
    BY <1>1, <2>1 DEF TypeOK, States
  <2>3. Entry'
    BY <1>1, <2>1, EntryStays DEF States, Listed, Written
  <2>4. Inclusion' /\ Kept'
    <3>1. Through(p)
      BY <1>1, <2>1 DEF Through
    <3> QED
      BY <1>1, <2>1, <3>1, Aside DEF States
  <2> QED
    BY <2>2, <2>3, <2>4
<1> QED
  BY <1>2, <1>3 DEF UpdateJetBrains

LEMMA BootStep == ASSUME IInv, NEW w \in Workspaces, Boot(w) PROVE IInv'
<1> USE DEF IInv
<1>1. UNCHANGED <<granted, changes, brev, user, jetbrains, pc, target, checked, steady, own,
                  got, conf, failed, torn>>
  BY DEF Boot, disk, refresh, client
<1>2. /\ status' \in [Workspaces -> {"stopped", "starting", "bare", "running"}]
      /\ \A v \in Workspaces : IsUp(v) => IsUp(v)'
  <2>1. PICK s \in {"bare", "running"} : status' = [status EXCEPT ![w] = s]
    BY DEF Boot
  <2>2. status'[w] \in {"bare", "running"} /\ \A v \in Workspaces \ {w} : status'[v] = status[v]
    BY <2>1 DEF TypeOK
  <2>3. status' \in [Workspaces -> {"stopped", "starting", "bare", "running"}]
    BY <2>1 DEF TypeOK
  <2> QED
    BY <2>2, <2>3 DEF IsUp
<1>3. TypeOK'
  BY <1>1, <1>2 DEF TypeOK
<1>4. Entry'
  BY <1>1, <1>2 DEF Entry, EntryOf
<1>5. Inclusion' /\ Kept'
  BY <1>1 DEF Inclusion, Through, Writing, At, Kept, WritesBack, Rewriting,
     UserLinesKept, Headed
<1> QED
  BY <1>3, <1>4, <1>5

LEMMA UnsteadyKeeps ==
  ASSUME IInv, NEW t, Unsteady(t), changes' \in 0 .. MaxChanges, granted' \subseteq Nodes,
         status' \in [Workspaces -> {"stopped", "starting", "bare", "running"}],
         \A w \in Workspaces \ {t} : status'[w] = status[w]
  PROVE  IInv'
<1> USE DEF IInv
<1>1. UNCHANGED <<brev, user, jetbrains, pc, target, checked, own, got, conf, failed, torn>>
  BY DEF Unsteady, disk, refresh
<1>2. /\ steady' \in [Clients -> BOOLEAN]
      /\ \A p \in Clients : steady'[p] => steady[p] /\ target[p] # t
  BY DEF Unsteady, TypeOK
<1>3. TypeOK'
  BY <1>1, <1>2 DEF TypeOK
<1>4. Entry'
  <2> SUFFICES ASSUME NEW q \in Clients PROVE EntryOf(q)'
    BY DEF Entry
  <2>1. EntryOf(q)
    BY DEF Entry
  <2> QED
    BY <1>1, <1>2, <2>1 DEF EntryOf, IsUp
<1>5. Inclusion' /\ Kept'
  BY <1>1 DEF Inclusion, Through, Writing, At, Kept, WritesBack, Rewriting,
     UserLinesKept, Headed
<1> QED
  BY <1>3, <1>4, <1>5

LEMMA StopStep == ASSUME IInv, NEW w \in Workspaces, Stop(w) PROVE IInv'
  BY UnsteadyKeeps, FailsKeeps DEF IInv, Stop, TypeOK

LEMMA RevokeStep == ASSUME IInv, NEW n \in Nodes, Revoke(n) PROVE IInv'
  BY UnsteadyKeeps, FailsKeeps DEF IInv, Revoke, TypeOK

LEMMA StutterStep == ASSUME IInv, UNCHANGED vars PROVE IInv'
  BY DEF IInv, vars, server, disk, refresh, client, TypeOK, Entry, EntryOf, IsUp,
     Inclusion,
     Through, Writing, At, Kept, WritesBack, Rewriting, UserLinesKept, Headed

-----------------------------------------------------------------------------
(* The theorems.                                                           *)

(* Lines in any order are the lines.                                       *)
LEMMA MineAreAll ==
  ASSUME NEW mine \in SetToSeqs(UserLines)
  PROVE  mine \in Seq(UserLines) /\ ToSet(mine) = UserLines
<1>1. /\ Cardinality(UserLines) \in Nat
      /\ mine \in [1 .. Cardinality(UserLines) -> UserLines]
      /\ \A i, j \in 1 .. Cardinality(UserLines) : i # j => mine[i] # mine[j]
  BY FS_CardinalityType DEF SetToSeqs
<1>2. mine \in Injection(1 .. Cardinality(UserLines), UserLines)
  BY <1>1 DEF Injection, IsInjective
<1>3. Cardinality(1 .. Cardinality(UserLines)) = Cardinality(UserLines)
  BY <1>1, FS_Interval
<1>4. mine \in Surjection(1 .. Cardinality(UserLines), UserLines)
  BY <1>2, <1>3, FS_Injection
<1> QED
  BY <1>1, <1>4 DEF Surjection, ToSet

LEMMA InitIInv == Init => IInv
<1> SUFFICES ASSUME Init PROVE IInv
  OBVIOUS
<1>1. PICK mine \in SetToSeqs(UserLines) :
           user \in {mine, <<Include>> \o mine, mine \o <<Include>>}
  BY DEF Init
<1>2. mine \in Seq(UserLines) /\ ToSet(mine) = UserLines
  BY MineAreAll
<1>3. user \in Seq(Lines)
  <2>1. mine \in Seq(Lines) /\ <<Include>> \in Seq(Lines)
    BY <1>2 DEF Lines
  <2>2. <<Include>> \o mine \in Seq(Lines) /\ mine \o <<Include>> \in Seq(Lines)
    BY <2>1
  <2> QED
    BY <1>1, <2>1, <2>2
<1>4. Len(mine) \in Nat /\ \A k \in 1 .. Len(mine) : mine[k] \in UserLines
  BY <1>2
<1>5. \A l \in UserLines : \E k \in 1 .. Len(mine) : mine[k] = l
  BY <1>2 DEF ToSet
<1>6. UserLinesKept
  <2>1. CASE user = mine
    BY <1>2, <2>1 DEF UserLinesKept
  <2>2. CASE user = <<Include>> \o mine
    <3>1. /\ user[1] = Include /\ DOMAIN user = 1 .. Len(mine) + 1
          /\ \A k \in 1 .. Len(mine) : user[k + 1] = mine[k]
      BY <1>2, <2>2
    <3>2. UserLines \subseteq ToSet(user)
      <4> SUFFICES ASSUME NEW l \in UserLines PROVE \E k \in DOMAIN user : user[k] = l
        BY DEF ToSet
      <4>1. PICK k \in 1 .. Len(mine) : mine[k] = l
        BY <1>5
      <4> QED
        BY <1>4, <3>1, <4>1
    <3>3. ASSUME NEW j \in DOMAIN user, user[j] = Include PROVE j = 1
      <4> SUFFICES ASSUME j # 1 PROVE FALSE
        OBVIOUS
      <4>1. j - 1 \in 1 .. Len(mine) /\ user[(j - 1) + 1] = mine[j - 1]
        BY <1>4, <3>1
      <4>2. mine[j - 1] = Include
        BY <3>1, <3>3, <4>1
      <4> QED
        BY <1>4, <4>1, <4>2
    <3> QED
      BY <3>2, <3>3 DEF UserLinesKept
  <2>3. CASE user = mine \o <<Include>>
    <3>1. /\ user[Len(mine) + 1] = Include /\ DOMAIN user = 1 .. Len(mine) + 1
          /\ \A k \in 1 .. Len(mine) : user[k] = mine[k]
      BY <1>2, <2>3
    <3>2. UserLines \subseteq ToSet(user)
      <4> SUFFICES ASSUME NEW l \in UserLines PROVE \E k \in DOMAIN user : user[k] = l
        BY DEF ToSet
      <4>1. PICK k \in 1 .. Len(mine) : mine[k] = l
        BY <1>5
      <4> QED
        BY <1>4, <3>1, <4>1
    <3>3. ASSUME NEW j \in DOMAIN user, user[j] = Include PROVE j = Len(mine) + 1
      BY <1>4, <3>1, <3>3
    <3> QED
      BY <3>2, <3>3 DEF UserLinesKept
  <2> QED
    BY <1>1, <2>1, <2>2, <2>3
<1>7. TypeOK
  <2>1. status \in [Workspaces -> {"stopped", "starting", "bare", "running"}]
    BY DEF Init
  <2>2. pc \in [Procs -> States] /\ \A p \in Procs : pc[p] = "idle"
    BY DEF Init, States
  <2>3. got \in [Procs -> Listing] /\ brev \in Listing /\ failed \in [Procs -> BOOLEAN]
    BY NothingType DEF Init
  <2>4. conf \in [Procs -> Seq(Lines)]
    <3>1. <<>> \in Seq(Lines)
      OBVIOUS
    <3> QED
      BY <3>1 DEF Init
  <2>5. /\ target \in [Clients -> Workspaces \cup Nodes] /\ checked \in [Clients -> BOOLEAN]
        /\ steady \in [Clients -> BOOLEAN] /\ own \in [Clients -> BOOLEAN]
    BY DEF Init
  <2>6. granted \subseteq Nodes /\ changes \in 0 .. MaxChanges /\ jetbrains \subseteq Workspaces
    <3>1. granted = Nodes /\ changes = 0 /\ jetbrains = {}
      BY DEF Init
    <3> QED
      BY ONLY <3>1, SSHConfigConstants
  <2>7. torn \in BOOLEAN
    BY DEF Init
  <2> QED
    BY <1>3, <2>1, <2>2, <2>3, <2>4, <2>5, <2>6, <2>7 DEF TypeOK
<1>8. Entry /\ Inclusion
  BY Clientele DEF Init, Entry, EntryOf, Inclusion, Through, Listed, Written
<1>9. Kept
  BY <1>6 DEF Init, Kept, WritesBack, Rewriting, Writing, At
<1> QED
  BY <1>7, <1>8, <1>9 DEF IInv

LEMMA NextIInv == IInv /\ [Next]_vars => IInv'
<1> SUFFICES ASSUME IInv, [Next]_vars PROVE IInv'
  OBVIOUS
<1>1. ASSUME NEW p \in Procs, Client(p) PROVE IInv'
  BY <1>1, StartClientStep, StartWorkspaceIfStoppedStep, PollUntilStep,
     CheckRunningStep,
     ConnectStep DEF Client
<1>2. ASSUME NEW p \in Procs, StartRefresh(p) \/ Refresh(p) \/ Kill(p) PROVE IInv'
  BY <1>2, KillStep, StartRefreshStep, GetKeysStep, ListWorkspacesStep, TruncateBrevStep,
     WriteBrevStep,
     ReadUserConfigStep, TruncateUserStep, AddIncludeStep, UpdateJetBrainsStep
     DEF Refresh
<1>3. CASE Server
  BY <1>3, BootStep, StopStep, RevokeStep DEF Server
<1>4. CASE UNCHANGED vars
  BY <1>4, StutterStep
<1> QED
  BY <1>1, <1>2, <1>3, <1>4 DEF Next

(* The invariant the others follow from, of every behaviour.               *)
THEOREM InvariantCorrect == Spec => []IInv
  BY InitIInv, NextIInv, PTL DEF Spec

(* Every variable keeps its type.                                          *)
THEOREM TypeCorrect == Spec => []TypeOK
<1>1. IInv => TypeOK
  BY DEF IInv
<1> QED
  BY <1>1, InvariantCorrect, PTL

(* However many refreshes overlap, the user's lines stay and the Include   *)
(* is there at most once, but for the ways to lose them: a read or an end  *)
(* between truncation and write, and a write cut short.                    *)
THEOREM LinesCorrect == Spec => []UserLinesKept
<1>1. IInv => UserLinesKept
  BY DEF IInv, Kept
<1> QED
  BY <1>1, InvariantCorrect, PTL

(* The alias of an instance that stayed up resolves when the command       *)
(* connects, unless another process wrote the file since.                  *)
THEOREM HostCorrect == Spec => []HostEntryUpToDate
<1>1. IInv => HostEntryUpToDate
  <2> SUFFICES ASSUME IInv, NEW p \in Clients, pc[p] = "connect", steady[p], own[p],
                      target[p] \in Workspaces, ~Writing, ~torn
               PROVE  Resolves(target[p])
    BY DEF HostEntryUpToDate, At
  <2>1. HasInclude(user)
    BY Clientele DEF IInv, Inclusion, Through
  <2>2. target[p] \in brev.ws
    BY DEF IInv, Entry, EntryOf, Listed
  <2> QED
    BY <2>1, <2>2 DEF Resolves
<1> QED
  BY <1>1, InvariantCorrect, PTL
=============================================================================
