--------------------------- MODULE LifecycleProofs ---------------------------
(***************************************************************************)
(* Proofs about Lifecycle for any instances, names and lengths of a batch: *)
(* type correctness, that the names printed for a pipe are those that were *)
(* served, that nobody else's instance is touched, and that every command  *)
(* implements what a batch of names promises.                              *)
(***************************************************************************)
EXTENDS Lifecycle, TLAPS, FiniteSetTheorems, SequenceTheorems

USE LifecycleConstants

-----------------------------------------------------------------------------
(* The strengthening: what holds where in a command.                       *)

Anything == Words \cup Instances \cup {NoName, Line}
Working  == {"lookup", "path", "request", "poll"}
Stops    == {"stop", "stopall", "delete"}

Control ==
  /\ pc = "idle" => /\ op = "ls" /\ names = <<>> /\ at = 1 /\ ok = <<>>
                    /\ ~failed /\ served = {}
  /\ pc # "idle" => at \in 1 .. Len(names) /\ op # "ls"
  /\ pc \in {"idle", "done"} => target = Nobody
  /\ pc # "done" => out = <<>>
  /\ pc = "path" => op = "start" /\ Name \in Paths
  /\ pc = "poll" => op = "start"
  /\ pc = "request" /\ op \notin {"start", "stopall", "fu"} => target \in Instances
  /\ op \in {"stopall", "fu"} => \A k \in DOMAIN names : names[k] \in Instances

(* As long as nothing failed, the names before this one went well, and the *)
(* server accepted a request for each.                                     *)
Progress ==
  pc \in Working =>
    /\ Len(ok) <= at - 1 /\ served \subseteq 1 .. at
    /\ ~failed => /\ Len(ok) = at - 1
                  /\ \A k \in 1 .. at - 1 : ok[k] = names[k]
    /\ ~failed /\ op \in Stops => 1 .. at - 1 \subseteq served

(* Where the instances a command asks for come from.                       *)
Owned ==
  /\ own => \A i \in printed \cap Instances : Visible(i)
  /\ own /\ pc # "idle" =>
       \A k \in DOMAIN names : names[k] \in Instances => Visible(names[k])
  /\ op = "stopall" => \A k \in DOMAIN names : Visible(names[k])
  /\ pc = "request" /\ target # Nobody =>
       \/ Visible(target)
       \/ op = "stop" /\ target = Self
       \/ auth = "admin" /\ op = "delete" /\ ~own

IInv == TypeOK /\ Control /\ Progress /\ Owned /\ PipedNamesServed

-----------------------------------------------------------------------------
(* A name is done with.                                                    *)

LEMMA Here ==
  ASSUME IInv, pc # "idle"
  PROVE  /\ at \in Nat /\ Len(names) \in Nat /\ at \in 1 .. Len(names)
         /\ names \in Seq(Anything) /\ DOMAIN names = 1 .. Len(names)
         /\ Name \in Anything
<1>1. names \in Seq(Anything) /\ at \in 1 .. Len(names)
  BY DEF IInv, TypeOK, Control, Anything
<1> QED
  BY <1>1 DEF Name

LEMMA SameSequence ==
  ASSUME NEW S, NEW s \in Seq(S), NEW t \in Seq(S), Len(s) = Len(t),
         \A k \in 1 .. Len(s) : s[k] = t[k]
  PROVE  s = t
  BY SeqEqual

(* What is printed after name number `at`.                                 *)
Output(good, bad) ==
  /\ good \in Seq(Anything) /\ bad \in BOOLEAN /\ Len(good) <= at
  /\ ~bad => Len(good) = at /\ \A k \in 1 .. at : good[k] = names[k]

LEMMA GoodOutput ==
  ASSUME IInv, pc \in Working PROVE Output(Append(ok, Name), failed)
<1>1. ok \in Seq(Anything) /\ failed \in BOOLEAN
  BY DEF IInv, TypeOK, Anything
<1>2. Append(ok, Name) \in Seq(Anything) /\ Len(Append(ok, Name)) = Len(ok) + 1
  BY <1>1, Here DEF Working
<1>3. Len(ok) \in Nat /\ at \in Nat
  BY <1>1, Here DEF Working
<1>4. ASSUME ~failed, NEW k \in 1 .. at PROVE Append(ok, Name)[k] = names[k]
  BY <1>1, <1>3, <1>4 DEF IInv, Progress, Name
<1> QED
  BY <1>1, <1>2, <1>3, <1>4 DEF Output, IInv, Progress

LEMMA BadOutput ==
  ASSUME IInv, pc \in Working PROVE Output(ok, TRUE)
<1>1. ok \in Seq(Anything) /\ Len(ok) \in Nat /\ at \in Nat
  BY Here DEF IInv, TypeOK, Anything, Working
<1> QED
  BY <1>1 DEF Output, IInv, Progress

LEMMA DoneStep ==
  ASSUME IInv, pc \in Working, Output(ok', failed'),
         \/ Done(TRUE) /\ (op \in Stops => served' = served \cup {at})
         \/ Done(FALSE) /\ failed',
         status' \in [Instances -> Statuses], served' \in {served, served \cup {at}}
  PROVE  IInv'
<1>1. /\ at \in Nat /\ Len(names) \in Nat /\ at \in 1 .. Len(names)
      /\ names \in Seq(Anything) /\ DOMAIN names = 1 .. Len(names)
  BY Here DEF Working
<1>2. target' = Nobody /\ UNCHANGED <<shown, auth, cmd>>
  BY DEF Done
<1>3. served' \subseteq 1 .. at
  BY <1>1 DEF IInv, Progress
<1>4. ASSUME ~failed', op \in Stops PROVE 1 .. at \subseteq served'
  <2>1. ~failed /\ served' = served \cup {at}
    BY <1>4 DEF Done
  <2>2. 1 .. at - 1 \subseteq served
    BY <1>4, <2>1 DEF IInv, Progress
  <2> QED
    BY <1>1, <2>1, <2>2
<1>5. CASE pc' = "done" /\ out' = (IF Prints THEN AllOrNone(ok', failed') ELSE <<>>)
           /\ UNCHANGED at /\ (LastName \/ failed')
  <2>1. out' # <<>> => ~failed' /\ out' = names /\ at = Len(names)
    <3> SUFFICES ASSUME out' # <<>> PROVE ~failed' /\ out' = names /\ at = Len(names)
      OBVIOUS
    <3>1. ~failed' /\ out' = ok'
      BY <1>5 DEF AllOrNone
    <3>2. at = Len(names)
      BY <1>5, <3>1 DEF LastName
    <3> QED
      BY <1>1, <3>1, <3>2, SameSequence DEF Output
  <2>2. TypeOK'
    <3>1. /\ Len(ok') <= Len(names') /\ served' \subseteq DOMAIN names'
          /\ ok' \in Seq(Anything) /\ failed' \in BOOLEAN
      BY <1>1, <1>2, <1>3, LenProperties DEF Output, cmd
    <3> QED
      BY <1>1, <1>2, <1>5, <2>1, <3>1 DEF IInv, TypeOK, cmd, Anything
  <2>3. Control'
    BY <1>1, <1>2, <1>5 DEF IInv, Control, cmd, Working
  <2>4. Progress' /\ Owned'
    BY <1>2, <1>5 DEF IInv, Progress, Owned, Visible, cmd, Working
  <2>5. PipedNamesServed'
    BY <1>1, <1>2, <1>3, <1>4, <2>1 DEF PipedNamesServed, Stops, cmd
  <2> QED
    BY <2>2, <2>3, <2>4, <2>5 DEF IInv
<1>6. CASE /\ at' = at + 1 /\ pc' = (IF OfOneListing THEN "request" ELSE "lookup")
           /\ UNCHANGED out /\ ~LastName
  <2>1. at' \in 1 .. Len(names)
    <3>1. at # Len(names) /\ at' = at + 1
      BY <1>6 DEF LastName
    <3>2. at \in Nat /\ Len(names) \in Nat /\ 1 <= at /\ at <= Len(names)
      BY <1>1
    <3>3. at < Len(names)
      BY <3>1, <3>2
    <3> QED
      BY <3>1, <3>2, <3>3
  <2>2. out = <<>> /\ pc' \in {"request", "lookup"}
    BY <1>6 DEF IInv, Control, Working
  <2>3. TypeOK'
    BY <1>1, <1>2, <1>3, <1>6, <2>1, <2>2 DEF IInv, TypeOK, cmd, Output, Anything
  <2>4. Control'
    BY <1>1, <1>2, <1>6, <2>1, <2>2 DEF IInv, Control, cmd, OfOneListing
  <2>5. Progress'
    <3>1. at' - 1 = at
      BY <1>1, <1>6
    <3> QED
      BY <1>1, <1>2, <1>3, <1>4, <1>6, <2>2, <3>1 DEF IInv, Progress, Output, cmd
  <2>6. Owned'
    BY <1>2, <2>2 DEF IInv, Owned, Visible, cmd, Working
  <2>7. PipedNamesServed'
    BY <2>2 DEF PipedNamesServed
  <2> QED
    BY <2>3, <2>4, <2>5, <2>6, <2>7 DEF IInv
<1> QED
  BY <1>5, <1>6 DEF Done

LEMMA RefusedStep == ASSUME IInv, pc \in Working, Refused PROVE IInv'
<1>1. Done(FALSE) /\ failed' /\ ok' = ok /\ failed' = TRUE
  BY DEF Refused, Done
<1> QED
  BY <1>1, BadOutput, DoneStep DEF Refused, Output, IInv, TypeOK, Done, cmd

-----------------------------------------------------------------------------
(* A command begins and ends.                                              *)

LEMMA BeginStep ==
  ASSUME IInv, NEW o \in Ops \ {"ls"}, NEW ns \in Seq(Anything), Len(ns) >= 1,
         \E d \in BOOLEAN : Begin(o, ns, d), own' \in BOOLEAN,
         pc' = IF o \in {"stopall", "fu"} THEN "request" ELSE "lookup",
         o \in {"stopall", "fu"} => \A k \in DOMAIN ns : ns[k] \in Instances,
         o = "stopall" => \A k \in DOMAIN ns : Visible(ns[k]),
         own' => \A k \in DOMAIN ns : ns[k] \in Instances => Visible(ns[k])
  PROVE  IInv'
<1> USE DEF IInv, Begin
<1>1. /\ pc = "idle" /\ at = 1 /\ ok = <<>> /\ ~failed /\ served = {} /\ out = <<>>
      /\ at' = 1 /\ ok' = <<>> /\ ~failed' /\ served' = {} /\ out' = <<>>
      /\ pc' \in {"lookup", "request"} /\ printed' = {}
      /\ op' = o /\ names' = ns /\ target' = target
  BY DEF Control
<1>2. Len(ns) \in Nat /\ DOMAIN ns = 1 .. Len(ns)
  OBVIOUS
<1>3. TypeOK'
  BY <1>1, <1>2 DEF TypeOK, Anything
<1>4. Control'
  BY <1>1, <1>2 DEF Control
<1>5. Progress'
  BY <1>1, <1>2 DEF Progress
<1>6. Owned'
  BY <1>1, <1>2 DEF Owned, Visible, Control
<1>7. PipedNamesServed'
  BY <1>1 DEF PipedNamesServed
<1> QED
  BY <1>3, <1>4, <1>5, <1>6, <1>7

LEMMA SomeSequence ==
  ASSUME NEW words, NEW ns \in Some(words)
  PROVE  ns \in Seq(words) /\ Len(ns) >= 1
<1>1. PICK n \in 1 .. MaxNames : ns \in [1 .. n -> words]
  BY DEF Some
<1> QED
  BY <1>1

LEMMA SetSequence ==
  ASSUME NEW some \in SUBSET Instances, NEW ns \in SetToSeqs(some)
  PROVE  ns \in Seq(some) /\ Len(ns) = Cardinality(some)
<1>1. Cardinality(some) \in Nat
  BY FS_Subset, FS_CardinalityType
<1>2. ns \in [1 .. Cardinality(some) -> some]
  BY DEF SetToSeqs
<1> QED
  BY <1>1, <1>2

LEMMA StartCommandStep == ASSUME IInv, StartCommand PROVE IInv'
<1> USE DEF StartCommand, Ops
<1>1. ASSUME NEW ns \in Some(Words), Batch(ns) PROVE IInv'
  <2>1. ns \in Seq(Words) /\ Len(ns) >= 1
    BY <1>1, SomeSequence
  <2>2. ns \in Seq(Anything)
    BY <2>1 DEF Anything
  <2>3. PICK o \in {"stop", "delete", "reset", "start"} : Begin(o, ns, TRUE)
    BY <1>1 DEF Batch, BatchDetached
  <2> QED
    BY <2>1, <2>2, <2>3, BeginStep
<1>2. ASSUME NEW w \in Words \cup {NoName}, NEW o \in {"scale", "start"},
             \E d \in BOOLEAN : Begin(o, <<w>>, d)
      PROVE  IInv'
  <2>1. <<w>> \in Seq(Anything) /\ Len(<<w>>) >= 1
    BY DEF Anything
  <2> QED
    BY <1>2, <2>1, BeginStep
<1> QED
  BY <1>1, <1>2

LEMMA PipedCommandStep == ASSUME IInv, PipedCommand PROVE IInv'
<1>1. PICK ns \in Some(printed) : Batch(ns)
  BY DEF PipedCommand
<1>2. ns \in Seq(printed) /\ Len(ns) >= 1
  BY SomeSequence
<1>3. ns \in Seq(Anything) /\ own \in BOOLEAN /\ printed \subseteq Anything
  <2>1. printed \subseteq Anything /\ own \in BOOLEAN
    BY DEF IInv, TypeOK, Anything
  <2> QED
    BY <1>2, <2>1
<1>4. PICK o \in {"stop", "delete", "reset", "start"} : Begin(o, ns, TRUE)
  BY <1>1 DEF Batch, BatchDetached
<1>5. own => \A k \in DOMAIN ns : ns[k] \in Instances => Visible(ns[k])
  BY <1>2 DEF IInv, Owned
<1> QED
  BY <1>2, <1>3, <1>4, <1>5, BeginStep DEF PipedCommand, Ops

LEMMA StopAllStep == ASSUME IInv, StopAll PROVE IInv'
<1> DEFINE running == {i \in Stoppable : Visible(i) /\ status[i] = "running"}
<1>1. PICK ns \in SetToSeqs(running) : Begin("stopall", ns, TRUE)
  BY DEF StopAll
<1>2. ns \in Seq(running) /\ Len(ns) = Cardinality(running)
  BY SetSequence
<1>3. Len(ns) >= 1
  BY <1>2, FS_Subset, FS_CardinalityType, FS_EmptySet DEF StopAll
<1>4. ns \in Seq(Anything)
  BY <1>2 DEF Anything
<1>5. \A k \in DOMAIN ns : ns[k] \in Instances /\ Visible(ns[k])
  BY <1>2
<1> QED
  BY <1>1, <1>3, <1>4, <1>5, BeginStep DEF StopAll, Ops

LEMMA FuUserStep == ASSUME IInv, FuUser PROVE IInv'
<1> DEFINE all == {i \in Instances : status[i] # "absent"}
<1>1. PICK ns \in SetToSeqs(all) : ns # <<>> /\ Begin("fu", ns, TRUE)
  BY DEF FuUser
<1>2. ns \in Seq(all)
  BY SetSequence
<1>3. Len(ns) >= 1
  BY <1>1, <1>2, EmptySeq
<1>4. ns \in Seq(Anything)
  BY <1>2 DEF Anything
<1>5. \A k \in DOMAIN ns : ns[k] \in Instances
  BY <1>2
<1> QED
  BY <1>1, <1>3, <1>4, <1>5, BeginStep DEF FuUser, Ops

LEMMA ExitStep == ASSUME IInv, Exit PROVE IInv'
<1> USE DEF IInv, Exit, Ops
<1>1. TypeOK'
  <2>1. <<>> \in Seq(Words \cup Instances \cup {NoName, Line}) /\ Len(<<>>) = 0
    OBVIOUS
  <2>2. names' = <<>> /\ ok' = <<>> /\ at' = 1 /\ out' = <<>> /\ served' = {}
    OBVIOUS
  <2>3. /\ status' \in [Instances -> Statuses] /\ shown' \subseteq Instances
        /\ auth' \in {"user", "admin", "apikey"} /\ own' = FALSE /\ failed' = FALSE
        /\ printed' \subseteq Words \cup Instances \cup {Line}
        /\ op' = "ls" /\ detached' = TRUE /\ pc' = "idle"
        /\ target' \in Instances \cup {Nobody}
    BY DEF TypeOK
  <2>4. /\ names' \in Seq(Words \cup Instances \cup {NoName, Line})
        /\ ok' \in Seq(Words \cup Instances \cup {NoName, Line})
        /\ Len(ok') <= Len(names')
    BY <2>1, <2>2
  <2> HIDE DEF Exit, IInv
  <2> QED
    BY <2>2, <2>3, <2>4 DEF TypeOK, Ops
<1>2. Control' /\ Progress'
  BY DEF Control, Progress, Working
<1>3. Owned' /\ PipedNamesServed'
  BY DEF Owned, PipedNamesServed
<1> QED
  BY <1>1, <1>2, <1>3

LEMMA RunLsStep == ASSUME IInv, RunLs PROVE IInv'
<1>1. ASSUME NEW words, NEW mine \in BOOLEAN, Listing(words, mine),
             words \subseteq Words \cup Instances \cup {Line},
             mine => \A i \in words \cap Instances : Visible(i)
      PROVE  IInv'
  <2> USE <1>1 DEF IInv, Listing
  <2>1. TypeOK'
    BY DEF TypeOK
  <2>2. Control' /\ Progress' /\ PipedNamesServed'
    BY DEF Control, Progress, PipedNamesServed, Name
  <2>3. Owned'
    BY DEF Owned, Visible
  <2> QED
    BY <2>1, <2>2, <2>3
<1>2. ASSUME NEW all \in BOOLEAN, NEW nodes \in {{}, NodeNames}, nodes # {} => all,
             NEW words \in {TableWords(WorkspacesToShow(all)),
                            JSONWords(WorkspacesToShow(all))},
             Listing(words \cup nodes, ~all)
      PROVE  IInv'
  <2>1. words \cup nodes \subseteq Words \cup Instances \cup {Line}
    BY DEF TableWords, JSONWords, WorkspacesToShow
  <2>2. ~all => \A i \in (words \cup nodes) \cap Instances : Visible(i)
    BY <1>2 DEF TableWords, JSONWords, WorkspacesToShow
  <2> QED
    BY <1>1, <1>2, <2>1, <2>2
<1>3. ASSUME NEW words \in {NodeNames \cup {Line}, {Line}}, Listing(words, TRUE)
      PROVE  IInv'
  BY <1>1, <1>3
<1> QED
  BY <1>2, <1>3 DEF RunLs, RunWorkspaces, RunNodes, RunOrgs, RunAdminLsArg

-----------------------------------------------------------------------------
(* The lookup.                                                             *)

LEMMA ResolvedStep ==
  ASSUME IInv, pc \in {"lookup", "path"}, NEW i \in Instances \cup {Nobody},
         Resolved(i), op # "start" => i \in Instances,
         i # Nobody => \/ Visible(i)
                       \/ op = "stop" /\ i = Self
                       \/ auth = "admin" /\ op = "delete" /\ ~own
  PROVE  IInv'
<1> USE DEF IInv, Resolved, cmd
<1>1. TypeOK'
  BY DEF TypeOK
<1>2. Control' /\ Progress' /\ PipedNamesServed'
  BY DEF Control, Progress, PipedNamesServed, Working, Name
<1>3. Owned'
  BY DEF Owned, Visible
<1> QED
  BY <1>1, <1>2, <1>3

(* What the lookup matches, the user sees.                                 *)
LEMMA MatchesVisible ==
  ASSUME NEW n, NEW i \in Matches(n) \cup Only(Listed(n))
  PROVE  i \in Instances /\ Visible(i)
  BY DEF Matches, Only, Listed, Anybodys

LEMMA LookupStopStep == ASSUME IInv, LookupStop PROVE IInv'
<1> USE DEF LookupStop, Working
<1>1. CASE Resolved(Self)
  BY <1>1, ResolvedStep
<1>2. CASE \E i \in Matches(Name) \cap Stoppable : Resolved(i)
  BY <1>2, MatchesVisible, ResolvedStep
<1>3. CASE Refused
  BY <1>3, RefusedStep
<1> QED
  BY <1>1, <1>2, <1>3

(* An administrator's deletion of what the lookup did not find is of an ID *)
(* that came from no listing of the user's own.                            *)
LEMMA LookupDeleteStep == ASSUME IInv, LookupDelete PROVE IInv'
<1> USE DEF LookupDelete, Working
<1>1. CASE \E i \in Matches(Name) : Resolved(i)
  BY <1>1, MatchesVisible, ResolvedStep
<1>2. CASE auth = "admin" /\ Name \in Instances /\ Resolved(Name)
  <2>1. own => Visible(Name)
    <3>1. at \in DOMAIN names
      BY Here
    <3> QED
      BY <1>2, <3>1 DEF IInv, Owned, Name
  <2> QED
    BY <1>2, <2>1, ResolvedStep DEF IInv, TypeOK
<1>3. CASE Refused
  BY <1>3, RefusedStep
<1> QED
  BY <1>1, <1>2, <1>3

LEMMA LookupOneStep == ASSUME IInv, LookupReset \/ Runscale PROVE IInv'
<1> USE DEF LookupReset, Runscale, Working
<1>1. CASE \E i \in Matches(Name) : Resolved(i)
  BY <1>1, MatchesVisible, ResolvedStep
<1>2. CASE Refused
  BY <1>2, RefusedStep
<1> QED
  BY <1>1, <1>2

LEMMA LookupStartStep == ASSUME IInv, LookupStart PROVE IInv'
<1> USE DEF LookupStart, Working
<1>1. CASE Resolved(Nobody)
  BY <1>1, ResolvedStep
<1>2. CASE \E i \in Only(Listed(Name)) : Resolved(i)
  BY <1>2, MatchesVisible, ResolvedStep
<1>3. CASE /\ Name \in Paths /\ pc' = "path"
           /\ UNCHANGED <<status, shown, auth, cmd, at, target, ok, failed, out, served>>
  <2> USE <1>3 DEF IInv, cmd
  <2>1. TypeOK'
    BY DEF TypeOK
  <2>2. Control' /\ Progress' /\ Owned' /\ PipedNamesServed'
    BY DEF Control, Progress, Owned, Visible, PipedNamesServed, Name
  <2> QED
    BY <2>1, <2>2
<1>4. CASE Done(TRUE) /\ UNCHANGED <<status, served>>
  <2>1. ok' = Append(ok, Name) /\ failed' = failed /\ UNCHANGED <<cmd, names>>
    BY <1>4 DEF Done, IInv, TypeOK, cmd
  <2> QED
    BY <1>4, <2>1, GoodOutput, DoneStep DEF Output, IInv, TypeOK, Stops
<1>5. CASE Refused
  BY <1>5, RefusedStep
<1> QED
  BY <1>1, <1>2, <1>3, <1>4, <1>5

LEMMA StartWorkspaceFromPathStep == ASSUME IInv, StartWorkspaceFromPath PROVE IInv'
<1>1. CASE Resolved(Nobody)
  BY <1>1, ResolvedStep DEF StartWorkspaceFromPath, IInv, Control
<1>2. CASE Refused
  BY <1>2, RefusedStep DEF StartWorkspaceFromPath, Working
<1> QED
  BY <1>1, <1>2 DEF StartWorkspaceFromPath

LEMMA PanicStep == ASSUME IInv, Panic PROVE IInv'
<1> USE DEF IInv, Panic, cmd
<1>1. TypeOK'
  BY DEF TypeOK
<1>2. Control' /\ Progress' /\ PipedNamesServed'
  BY DEF Control, Progress, PipedNamesServed, Working
<1>3. Owned'
  BY DEF Owned, Visible
<1> QED
  BY <1>1, <1>2, <1>3

-----------------------------------------------------------------------------
(* The request.                                                            *)

LEMMA GoodStep ==
  ASSUME IInv, pc \in Working, Done(TRUE), status' \in [Instances -> Statuses],
         \/ served' = served \cup {at}
         \/ served' = served /\ op \notin Stops
  PROVE  IInv'
<1>1. ok' = Append(ok, Name) /\ failed' = failed /\ UNCHANGED names
  BY DEF Done, IInv, TypeOK, cmd
<1> QED
  BY <1>1, GoodOutput, DoneStep DEF Output

LEMMA BadStep ==
  ASSUME IInv, pc \in Working, Done(FALSE), status' \in [Instances -> Statuses],
         served' \in {served, served \cup {at}}
  PROVE  IInv'
<1>1. ok' = ok /\ failed' = TRUE /\ UNCHANGED names
  BY DEF Done, cmd
<1> QED
  BY <1>1, BadOutput, DoneStep DEF Output

LEMMA WaitForStep ==
  ASSUME IInv, pc = "request", op = "start", NEW i \in Instances, WaitFor(i),
         status' \in [Instances -> Statuses], served' = served \cup {at}
  PROVE  IInv'
<1> USE DEF IInv, WaitFor, cmd
<1>1. at \in 1 .. Len(names) /\ DOMAIN names = 1 .. Len(names)
  BY Here
<1>2. TypeOK'
  BY <1>1 DEF TypeOK
<1>3. Control' /\ PipedNamesServed'
  BY DEF Control, PipedNamesServed
<1>4. Progress'
  <2>1. at \in 1 .. at
    BY <1>1
  <2> QED
    BY <2>1 DEF Progress, Working, Stops
<1>5. Owned'
  BY DEF Owned, Visible
<1> QED
  BY <1>2, <1>3, <1>4, <1>5

LEMMA BecomesStatus ==
  ASSUME NEW i \in Instances, NEW o \in Ops \ {"ls"}, status \in [Instances -> Statuses]
  PROVE  [status EXCEPT ![i] = Becomes[o]] \in [Instances -> Statuses]
<1>1. Becomes[o] \in Statuses
  BY DEF Becomes, Ops, Statuses
<1> QED
  BY <1>1

LEMMA AskedInstance ==
  ASSUME IInv, pc = "request", Asked # Nobody PROVE Asked \in Instances
<1>1. CASE OfOneListing
  BY <1>1, Here DEF Asked, OfOneListing, IInv, Control, Name
<1>2. CASE ~OfOneListing
  BY <1>2 DEF Asked, IInv, TypeOK
<1> QED
  BY <1>1, <1>2

LEMMA RequestStep == ASSUME IInv, Request PROVE IInv'
<1>1. CASE Refused
  BY <1>1, RefusedStep DEF Request, Working
<1>2. CASE ~Refused
  <2>1. /\ pc = "request" /\ Asked # Nobody /\ status[Asked] \in Accepts[op]
        /\ status' = [status EXCEPT ![Asked] = Becomes[op]]
        /\ served' = served \cup {at}
        /\ Answered(Asked) \/ Done(FALSE)
    BY <1>2 DEF Request
  <2>2. op \in Ops \ {"ls"}
    BY <2>1 DEF IInv, TypeOK, Control
  <2>3. status' \in [Instances -> Statuses]
    BY <2>1, <2>2, AskedInstance, BecomesStatus DEF IInv, TypeOK
  <2>4. CASE op = "start" /\ WaitFor(Asked)
    BY <2>1, <2>3, <2>4, AskedInstance, WaitForStep
  <2>5. CASE Done(TRUE)
    BY <2>1, <2>3, <2>5, GoodStep DEF Working
  <2>6. CASE Done(FALSE)
    BY <2>1, <2>3, <2>6, BadStep DEF Working
  <2> QED
    BY <2>1, <2>4, <2>5, <2>6 DEF Answered
<1> QED
  BY <1>1, <1>2

LEMMA CreatedStatus ==
  ASSUME IInv, NEW i \in Instances, CreateWorkspace(i)
  PROVE  status' \in [Instances -> Statuses] /\ served' = served \cup {at}
  BY DEF CreateWorkspace, IInv, TypeOK, Statuses

LEMMA NobodyAsked ==
  ASSUME IInv, pc = "request", Asked = Nobody PROVE op = "start"
  BY Here DEF Asked, OfOneListing, IInv, Control, Name

LEMMA CreateStep == ASSUME IInv, CreateFromGit \/ CreateEmpty PROVE IInv'
<1>1. pc = "request" /\ op = "start" /\ pc \in Working
  BY NobodyAsked DEF CreateFromGit, CreateEmpty, Working
<1>2. ASSUME NEW i \in Instances, CreateWorkspace(i), WaitFor(i) PROVE IInv'
  BY <1>1, <1>2, CreatedStatus, WaitForStep
<1>3. ASSUME NEW i \in Instances, CreateWorkspace(i), Done(TRUE) PROVE IInv'
  BY <1>1, <1>3, CreatedStatus, GoodStep
<1>4. ASSUME NEW i \in Instances, CreateWorkspace(i), Done(FALSE) PROVE IInv'
  BY <1>1, <1>4, CreatedStatus, BadStep
<1>5. CASE Done(TRUE) /\ UNCHANGED <<status, served>>
  BY <1>1, <1>5, GoodStep DEF Stops, IInv, TypeOK
<1>6. CASE Refused
  BY <1>1, <1>6, RefusedStep
<1> QED
  BY <1>2, <1>3, <1>4, <1>5, <1>6 DEF CreateFromGit, CreateEmpty, Answered

LEMMA PollStep == ASSUME IInv, PollReady \/ PollFails PROVE IInv'
<1>1. pc = "poll" /\ op = "start" /\ pc \in Working
  BY DEF PollReady, PollFails, IInv, Control, Working
<1>2. CASE PollReady
  BY <1>1, <1>2, GoodStep DEF PollReady, Stops, IInv, TypeOK
<1>3. CASE PollFails
  BY <1>1, <1>3, RefusedStep DEF PollFails
<1> QED
  BY <1>2, <1>3

LEMMA ServerStep == ASSUME IInv, Server PROVE IInv'
<1>1. ASSUME NEW i \in Instances, NEW from, NEW to \in Statuses, Evolve(i, from, to)
      PROVE  IInv'
  <2> USE <1>1 DEF IInv, Evolve, cmd
  <2>1. TypeOK'
    BY DEF TypeOK
  <2>2. Control' /\ Progress' /\ Owned' /\ PipedNamesServed'
    BY DEF Control, Progress, Owned, Visible, PipedNamesServed, Name
  <2> QED
    BY <2>1, <2>2
<1> QED
  BY <1>1 DEF Server, Boot, Halt, Vanish, OthersStart, OthersStop, Statuses

LEMMA StutterStep == ASSUME IInv, UNCHANGED vars PROVE IInv'
<1> USE DEF IInv, vars, cmd
<1>1. TypeOK'
  BY DEF TypeOK
<1>2. Control' /\ Progress' /\ Owned' /\ PipedNamesServed'
  BY DEF Control, Progress, Owned, Visible, PipedNamesServed, Name
<1> QED
  BY <1>1, <1>2

LEMMA InitIInv == Init => IInv
<1> SUFFICES ASSUME Init PROVE IInv
  OBVIOUS
<1> USE DEF Init
<1>1. TypeOK
  <2>1. <<>> \in Seq(Words \cup Instances \cup {NoName, Line}) /\ Len(<<>>) = 0
    OBVIOUS
  <2>2. status \in [Instances -> Statuses]
    BY DEF Statuses
  <2>3. /\ names = <<>> /\ ok = <<>> /\ at = 1 /\ out = <<>> /\ served = {}
        /\ printed = {} /\ own = FALSE /\ failed = FALSE /\ detached = TRUE
        /\ op = "ls" /\ pc = "idle" /\ target = Nobody /\ shown \subseteq Instances
        /\ auth \in {"user", "admin", "apikey"}
    OBVIOUS
  <2>4. /\ names \in Seq(Words \cup Instances \cup {NoName, Line})
        /\ ok \in Seq(Words \cup Instances \cup {NoName, Line})
        /\ Len(ok) <= Len(names)
    BY <2>1, <2>3
  <2> HIDE DEF Init
  <2> QED
    BY <2>2, <2>3, <2>4 DEF TypeOK, Ops
<1>2. Control /\ Progress /\ Owned /\ PipedNamesServed
  BY DEF Control, Progress, Owned, PipedNamesServed, Working
<1> QED
  BY <1>1, <1>2 DEF IInv

LEMMA NextIInv == IInv /\ [Next]_vars => IInv'
<1> SUFFICES ASSUME IInv, [Next]_vars PROVE IInv'
  OBVIOUS
<1>1. CASE UNCHANGED vars \/ PollAgain
  BY <1>1, StutterStep DEF PollAgain
<1>2. CASE Exit \/ RunLs \/ StartCommand \/ PipedCommand \/ StopAll \/ FuUser
  BY <1>2, ExitStep, RunLsStep, StartCommandStep, PipedCommandStep, StopAllStep,
     FuUserStep
<1>3. CASE Work
  BY <1>3, LookupStopStep, LookupDeleteStep, LookupOneStep, LookupStartStep,
     StartWorkspaceFromPathStep, RequestStep, CreateStep, PollStep DEF Work
<1>4. CASE Panic \/ PollFails \/ Server
  BY <1>4, PanicStep, PollStep, ServerStep
<1> QED
  BY <1>1, <1>2, <1>3, <1>4 DEF Next

THEOREM InvariantCorrect == Spec => []IInv
  BY InitIInv, NextIInv, PTL DEF Spec

-----------------------------------------------------------------------------
(* The properties                                                          *)

(* Every state of the command, the pipe and the server is well typed.      *)
THEOREM TypeCorrect == Spec => []TypeOK
<1>1. IInv => TypeOK
  BY DEF IInv
<1> QED
  BY <1>1, InvariantCorrect, PTL

(* stop, stop --all and delete hand the next command of a pipe every name  *)
(* they were given, each with a request the server accepted, or none       *)
(* (pkg/cmd/stop/stop.go, delete/delete.go).  Nothing of the kind is said  *)
(* of start, which prints names it did nothing for (start/start.go, 719).  *)
THEOREM PipeCorrect == Spec => []PipedNamesServed
<1>1. IInv => PipedNamesServed
  BY DEF IInv
<1> QED
  BY <1>1, InvariantCorrect, PTL

LEMMA RequestTouches ==
  ASSUME IInv, [Next]_vars, NEW i \in Instances \ shown,
         pc = "request", pc' # "request", status[i] # "absent", status'[i] # status[i]
  PROVE  \/ auth = "apikey"
         \/ auth = "admin" /\ op = "delete" /\ ~own
         \/ op = "fu"
         \/ op = "stop" /\ i = Self
<1>1. Request
  <2>1. ~(UNCHANGED vars \/ PollAgain \/ Exit \/ RunLs \/ StartCommand \/ PipedCommand
          \/ StopAll \/ FuUser \/ Panic \/ PollFails \/ Server)
    BY DEF vars, PollAgain, Exit, RunLs, RunWorkspaces, RunNodes, RunOrgs,
       RunAdminLsArg, Listing, StartCommand, PipedCommand, StopAll, FuUser, Batch,
       Begin, Panic, PollFails, Refused, Server, Boot, Halt, Vanish, OthersStart,
       OthersStop, Evolve
  <2>2. ~(LookupStop \/ LookupDelete \/ LookupReset \/ Runscale \/ LookupStart
          \/ StartWorkspaceFromPath \/ PollReady)
    BY DEF LookupStop, LookupDelete, LookupReset, Runscale, LookupStart,
       StartWorkspaceFromPath, PollReady
  <2>3. ~(CreateFromGit \/ CreateEmpty)
    BY DEF CreateFromGit, CreateEmpty, CreateWorkspace, Refused, IInv, TypeOK
  <2> QED
    BY <2>1, <2>2, <2>3 DEF Next, Work
<1>2. Asked = i
  BY <1>1 DEF Request, Refused, IInv, TypeOK
<1>3. CASE OfOneListing
  <2>1. op = "stopall" => Visible(Name)
    BY Here DEF IInv, Owned, Name
  <2> QED
    BY <1>2, <1>3, <2>1 DEF OfOneListing, Asked, Visible
<1>4. CASE ~OfOneListing
  BY <1>2, <1>4 DEF Asked, IInv, Owned, Visible
<1> QED
  BY <1>3, <1>4

(* No request changes an instance that neither is nor is shared with the   *)
(* user's own, but through an API key, by an administrator's delete of a   *)
(* word not from a listing of the user's own, by fu, or by a stop of this  *)
(* machine itself.                                                         *)
THEOREM OthersCorrect == Spec => OthersUntouched
<1>1. IInv /\ [Next]_vars =>
        [\A i \in Instances \ shown :
           pc = "request" /\ pc' # "request" /\ status[i] # "absent"
             /\ status'[i] # status[i]
           => \/ auth = "apikey"
              \/ auth = "admin" /\ op = "delete" /\ ~own
              \/ op = "fu"
              \/ op = "stop" /\ i = Self]_vars
  BY RequestTouches
<1> QED
  BY <1>1, InvariantCorrect, PTL DEF Spec, OthersUntouched

-----------------------------------------------------------------------------
(* The refinement: what an action does to the batch.                       *)

Policy(o) == [goesOn  |-> o \in {"stop", "delete", "start"},
              fragile |-> IF o = "start" THEN Urls \cup Paths ELSE {}]

LEMMA PolicyType == ASSUME NEW o PROVE Policy(o) \in Promise!Policies
  BY DEF Policy, Promise!Policies

(* Most actions are about one name: the batch stands still.                *)
Still == /\ UNCHANGED <<names, op, at, ok, out>>
         /\ pc' = pc \/ (pc \in Working /\ pc' \in Working)

LEMMA StillStutters == ASSUME Still PROVE UNCHANGED Promise!nvars
  BY DEF Still, Working, Promise!nvars

LEMMA DoneTries ==
  ASSUME IInv, IInv', pc \in Working, NEW good \in BOOLEAN, Done(good)
  PROVE  Promise!Try(good)
<1>1. /\ at \in Nat /\ Len(names) \in Nat /\ at \in 1 .. Len(names)
      /\ UNCHANGED <<names, op>> /\ (at - 1) + 1 = at
  BY Here DEF Working, Done, cmd
<1>2. ok' = IF good THEN Append(ok, names[at]) ELSE ok
  BY DEF Done, Name
<1>3. \/ /\ pc' = "done" /\ at' = at
         /\ LastName \/ (~good /\ ~BatchGoesOn)
         /\ out' = IF Prints THEN AllOrNone(ok', failed') ELSE <<>>
      \/ /\ pc' \in {"lookup", "request"} /\ at' - 1 = at /\ out' = out
         /\ ~(LastName \/ (~good /\ ~BatchGoesOn))
  BY <1>1 DEF Done
<1>4. out' # <<>> => pc' = "done" /\ ok' = names /\ out' = names
  BY <1>1, <1>3 DEF AllOrNone, IInv, TypeOK, Control, Working
<1>5. /\ Promise!MustEnd(at, good) <=> LastName \/ (~good /\ ~BatchGoesOn)
      /\ Promise!MustEnd(at, good) => Promise!MayEnd(at, good)
  BY DEF Promise!MustEnd, Promise!MayEnd, LastName, BatchGoesOn
<1>6. (pc' \in {"idle", "done"}) <=> Promise!MustEnd(at, good)
  BY <1>3, <1>5
<1>7. Promise!Handing
  BY <1>4 DEF Promise!Handing
<1>8. (CASE pc' = "idle" -> 0 [] pc' = "done" -> at' [] OTHER -> at' - 1) = at
  BY <1>3
<1>9. /\ pc \notin {"idle", "done"}
      /\ (CASE pc = "idle" -> 0 [] pc = "done" -> at [] OTHER -> at - 1) = at - 1
  BY DEF Working
<1> QED
  BY <1>1, <1>2, <1>5, <1>6, <1>7, <1>8, <1>9 DEF Promise!Try

LEMMA PanicTries == ASSUME IInv, Panic PROVE Promise!Try(FALSE)
<1>1. /\ at \in Nat /\ (at - 1) + 1 = at /\ pc \in Working /\ pc' = "done"
      /\ UNCHANGED <<names, op, at, ok, out>> /\ out = <<>>
  BY Here DEF Panic, Working, IInv, Control, cmd
<1>2. op = "start" /\ names[at] \in Urls \cup Paths
  BY DEF Panic, IInv, Control, Name
<1> QED
  BY <1>1, <1>2 DEF Promise!Try, Promise!MustEnd, Promise!MayEnd, Promise!Handing,
     Working

LEMMA BeginTakes ==
  ASSUME IInv, IInv', NEW o, NEW ns, NEW d, Begin(o, ns, d), pc' \in Working
  PROVE  Promise!Take
<1>1. /\ pc = "idle" /\ at' = 1 /\ ok' = <<>> /\ out' = <<>>
  BY DEF Begin, IInv, Control
<1>2. names' \in Seq(Anything) \ {<<>>}
  BY DEF IInv, TypeOK, Control, Anything, Working
<1>3. Policy(op') \in Promise!Policies
  BY PolicyType
<1> QED
  BY <1>1, <1>2, <1>3 DEF Promise!Take, Anything, Policy, Working

LEMMA ExitLeaves == ASSUME IInv, Exit PROVE Promise!Leave
<1>1. Policy(op') \in Promise!Policies
  BY PolicyType
<1> QED
  BY <1>1 DEF Exit, Promise!Leave, Policy, IInv, Control

LEMMA WorkBatch ==
  ASSUME IInv, Work \/ PollFails
  PROVE  pc \in Working /\ (Still \/ \E good \in BOOLEAN : Done(good))
<1> USE DEF Working, Still, cmd
<1>1. CASE LookupStop \/ LookupDelete \/ LookupReset \/ Runscale
  BY <1>1 DEF LookupStop, LookupDelete, LookupReset, Runscale, Resolved, Refused
<1>2. CASE LookupStart \/ StartWorkspaceFromPath
  BY <1>2 DEF LookupStart, StartWorkspaceFromPath, Resolved, Refused
<1>3. CASE Request
  BY <1>3 DEF Request, Answered, WaitFor, Refused
<1>4. CASE CreateFromGit \/ CreateEmpty
  BY <1>4 DEF CreateFromGit, CreateEmpty, Answered, WaitFor, Refused
<1>5. CASE PollReady \/ PollFails
  BY <1>5 DEF PollReady, PollFails, Refused
<1> QED
  BY <1>1, <1>2, <1>3, <1>4, <1>5 DEF Work

LEMMA NextBatch ==
  IInv /\ IInv' /\ [Next]_vars => [Promise!NNext]_(Promise!nvars)
<1> SUFFICES ASSUME IInv, IInv', [Next]_vars
             PROVE  Promise!NNext \/ UNCHANGED Promise!nvars
  OBVIOUS
<1>1. CASE UNCHANGED vars \/ PollAgain \/ Server \/ RunLs
  <2>1. Still
    BY <1>1 DEF vars, PollAgain, Server, Boot, Halt, Vanish, OthersStart, OthersStop,
       Evolve, RunLs, RunWorkspaces, RunNodes, RunOrgs, RunAdminLsArg, Listing, cmd, Still
  <2> QED
    BY <2>1, StillStutters
<1>2. CASE StartCommand \/ PipedCommand \/ StopAll \/ FuUser
  <2>1. pc' \in Working /\ \E o, ns, d : Begin(o, ns, d)
    BY <1>2 DEF StartCommand, PipedCommand, StopAll, FuUser, Batch, Working
  <2> QED
    BY <2>1, BeginTakes DEF Promise!NNext
<1>3. CASE Exit
  BY <1>3, ExitLeaves DEF Promise!NNext
<1>4. CASE Work \/ PollFails
  BY <1>4, WorkBatch, StillStutters, DoneTries DEF Promise!NNext
<1>5. CASE Panic
  BY <1>5, PanicTries DEF Promise!NNext
<1> QED
  BY <1>1, <1>2, <1>3, <1>4, <1>5 DEF Next

(* Starts, stops, deletes, resets and scales are batches: each name is     *)
(* tried once and in order, a failure leaves the next ones to be tried     *)
(* where the command is to go on, only a URL or a path may end it          *)
(* (pkg/cmd/start/start.go, 268 and 571), and all names are printed or     *)
(* none.                                                                   *)
THEOREM LifecycleImplementsNameBatch == Spec => ImplementsNameBatch
<1>1. Init => Promise!NInit
  <2>1. Policy("ls") \in Promise!Policies
    BY PolicyType
  <2> QED
    BY <2>1 DEF Init, Promise!NInit, Policy
<1>2. IInv /\ IInv' /\ [Next]_vars => [Promise!NNext]_(Promise!nvars)
  BY NextBatch
<1> QED
  BY <1>1, <1>2, InvariantCorrect, PTL DEF Spec, ImplementsNameBatch, Promise!NSpec
=============================================================================
