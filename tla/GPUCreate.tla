------------------------------ MODULE GPUCreate ------------------------------
(***************************************************************************)
(* `brev create`: provisioning Count instances from a chain of instance    *)
(* types with a pool of workers (pkg/cmd/gpucreate/gpucreate.go).          *)
(*                                                                         *)
(* RunGPUCreate tries the types in order.  For each it fills a channel     *)
(* with the indices still to create, starts min(Parallel, remaining)       *)
(* workers and waits for them; a worker takes an index, calls              *)
(* CreateWorkspace outside the lock and records the answer under it.  Then *)
(* the command trims what is beyond Count and polls each instance until it *)
(* is ready, failed or late.                                               *)
(*                                                                         *)
(* Index i stands for the instance name: "<name>-(i+1)", or "<name>" when  *)
(* Count = 1, so two requests carry the same name exactly when they carry  *)
(* the same index.  The server refuses a name that is in use.              *)
(***************************************************************************)
EXTENDS Integers, Sequences, FiniteSets

CONSTANTS
  Count,        \* --count
  Parallel,     \* --parallel, already raised to at least 1
  NTypes,       \* length of the chain of instance types
  PollBudget,   \* polls that fit between the start of a wait and its deadline
  Scenarios     \* the options and listings the command is run with

Slots   == 0 .. Count - 1
Workers == 1 .. Parallel

Offers   == {"available", "full", "unknown"}
Launches == {"none", "with_group", "no_group"}
Own      == {"deploying", "running", "failure"}
Names    == Own \cup {"free", "foreign", "lost"}
Answers  == {"none", "ok", "error", "duplicate"}

(* A listing was fetched or was unavailable (then the command goes on with *)
(* none); a launchable may carry a workspace group of its own.             *)
Inputs == [listed     : BOOLEAN,
           offer      : [1 .. NTypes -> Offers],
           launchable : Launches,
           detached   : BOOLEAN]

ASSUME GPUCreateConstants ==
  /\ Count \in Nat \ {0}
  /\ Parallel \in Nat \ {0}
  /\ NTypes \in Nat \ {0}
  /\ PollBudget \in Nat
  /\ Scenarios \subseteq Inputs

VARIABLES
  input,        \* the options and the listing newCreateContext read
  server,       \* what the control plane holds under each name
  pc,           \* control of RunGPUCreate
  tried,        \* types taken from the chain so far
  next, limit,  \* the channel holds the indices next .. limit - 1
  wpc, slot, answer,              \* each worker's control, index and answer
  successes, hadFailure, fatal,   \* typeCreateResult of the current type
  all,          \* successfulWorkspaces
  polled,       \* position in `all` of the instance being waited for
  waited        \* polls made while waiting for it

inputVars  == <<input>>
chainVars  == <<pc, tried>>
workerVars == <<wpc, slot, answer>>
resultVars == <<successes, hadFailure, fatal>>
waitVars   == <<polled, waited>>
vars == <<input, server, pc, tried, next, limit, wpc, slot, answer,
          successes, hadFailure, fatal, all, polled, waited>>

Seen(s) == {s[i] : i \in DOMAIN s}

Init ==
  /\ input \in Scenarios
  /\ server \in [Slots -> {"free", "foreign"}]
  /\ pc = "next"
  /\ tried = 0
  /\ next = 0 /\ limit = 0
  /\ wpc = [w \in Workers |-> "done"]
  /\ slot = [w \in Workers |-> 0]
  /\ answer = [w \in Workers |-> "none"]
  /\ successes = <<>> /\ hadFailure = FALSE /\ fatal = FALSE
  /\ all = <<>>
  /\ polled = 1 /\ waited = 0

-----------------------------------------------------------------------------
(* The chain of types: the loop of RunGPUCreate.                           *)

\* len(successfulWorkspaces) >= opts.Count.
Enough(total) == Len(total) >= Count

\* The instances still to create.
Remaining(total) == Count - Len(total)

\* validateInstanceTypeAvailability: no listing means no objection.
TypeAvailable(t) == ~input.listed \/ input.offer[t] = "available"

\* createInstancesWithType returns at once with hadFailure.
SkipType ==
  /\ pc = "next"
  /\ ~Enough(all) /\ tried < NTypes
  /\ input.launchable = "none" /\ ~TypeAvailable(tried + 1)
  /\ tried' = tried + 1
  /\ hadFailure' = TRUE
  /\ successes' = <<>> /\ fatal' = FALSE
  /\ UNCHANGED <<input, server, pc, next, limit, workerVars, all, waitVars>>

\* The channel is filled from startIdx = len(successfulWorkspaces).
StartType ==
  LET remaining   == Remaining(all)
      workerCount == IF Parallel > remaining THEN remaining ELSE Parallel
  IN
  /\ pc = "next"
  /\ ~Enough(all) /\ tried < NTypes
  /\ input.launchable # "none" \/ TypeAvailable(tried + 1)
  /\ pc' = "create"
  /\ tried' = tried + 1
  /\ next' = Len(all)
  /\ limit' = Len(all) + remaining
  /\ wpc' = [w \in Workers |-> IF w <= workerCount THEN "recv" ELSE "done"]
  /\ successes' = <<>> /\ hadFailure' = FALSE /\ fatal' = FALSE
  /\ UNCHANGED <<input, server, slot, answer, all, waitVars>>

\* A fatal error, or enough instances, ends the chain; faulty: any failure
\* ends it.
AnyFailureEnds(total) == fatal \/ hadFailure \/ Enough(total)
ChainOver(total)      == fatal \/ (~hadFailure /\ Enough(total))

\* Faulty: the successes beside a fatal error are not collected.
CollectedUnlessFatal == IF fatal THEN all ELSE all \o successes
Collected == all \o successes

\* wg.Wait returns.
JoinType ==
  /\ pc = "create"
  /\ \A w \in Workers : wpc[w] = "done"
  /\ all' = Collected
  /\ successes' = <<>>
  /\ pc' = IF ChainOver(all')
             THEN "verify" ELSE "next"
  /\ UNCHANGED <<input, server, tried, next, limit, workerVars,
                 hadFailure, fatal, waitVars>>

LeaveChain ==
  /\ pc = "next"
  /\ Enough(all) \/ tried = NTypes
  /\ pc' = "verify"
  /\ UNCHANGED <<input, server, tried, next, limit, workerVars, resultVars,
                 all, waitVars>>

-----------------------------------------------------------------------------
(* The workers: runWorker.                                                 *)

\* What a receive leaves in the channel; faulty: it does not consume.
Peeked   == next
Consumed == next + 1

\* Receive an index, or leave when the closed channel is empty.
Receive(w) ==
  /\ wpc[w] = "recv"
  /\ \/ /\ next < limit
        /\ slot' = [slot EXCEPT ![w] = next]
        /\ next' = Consumed
        /\ wpc' = [wpc EXCEPT ![w] = "check"]
     \/ /\ next = limit
        /\ wpc' = [wpc EXCEPT ![w] = "done"]
        /\ UNCHANGED <<slot, next>>
  /\ UNCHANGED <<input, server, chainVars, limit, answer, resultVars, all,
                 waitVars>>

\* Under the lock: leave, dropping the index, if enough already succeeded.
CheckEnough(w) ==
  /\ wpc[w] = "check"
  /\ wpc' = [wpc EXCEPT ![w] = IF Len(successes) >= Count
                                 THEN "done" ELSE "call"]
  /\ UNCHANGED <<input, server, chainVars, next, limit, slot, answer,
                 resultVars, all, waitVars>>

\* applyLaunchableConfig fills a group the listing did not give.
LaunchableGroup == input.launchable = "with_group"

\* The workspace group createWorkspace needs is known.
GroupResolved(t) ==
  \/ input.listed /\ input.offer[t] = "available"
  \/ LaunchableGroup

Answered(w, a) ==
  /\ wpc' = [wpc EXCEPT ![w] = "record"]
  /\ answer' = [answer EXCEPT ![w] = a]
  /\ UNCHANGED <<input, chainVars, next, limit, slot, resultVars, all,
                 waitVars>>

\* createWorkspace and the control plane's answer.  A refused or failed
\* request changes nothing; a lost answer leaves an instance behind.
CreateWorkspace(w) ==
  /\ wpc[w] = "call"
  /\ \/ /\ GroupResolved(tried)
        /\ server[slot[w]] = "free"
        /\ server' = [server EXCEPT ![slot[w]] = "deploying"]
        /\ Answered(w, "ok")
     \/ /\ GroupResolved(tried)
        /\ server[slot[w]] = "free"
        /\ server' = [server EXCEPT ![slot[w]] = "lost"]
        /\ Answered(w, "error")
     \/ /\ GroupResolved(tried)
        /\ server[slot[w]] # "free"
        /\ UNCHANGED server
        /\ Answered(w, "duplicate")
     \/ /\ UNCHANGED server
        /\ Answered(w, "error")

\* Under the lock: handleCreateError or handleCreateSuccess.
HandleCreateError(w) ==
  /\ wpc[w] = "record" /\ answer[w] # "ok"
  /\ hadFailure' = TRUE
  /\ fatal' = (fatal \/ answer[w] = "duplicate")
  /\ wpc' = [wpc EXCEPT ![w] = "recv"]
  /\ UNCHANGED <<input, server, chainVars, next, limit, slot, answer,
                 successes, all, waitVars>>

HandleCreateSuccess(w) ==
  /\ wpc[w] = "record" /\ answer[w] = "ok"
  /\ successes' = Append(successes, slot[w])
  /\ wpc' = [wpc EXCEPT ![w] = "recv"]
  /\ UNCHANGED <<input, server, chainVars, next, limit, slot, answer,
                 hadFailure, fatal, all, waitVars>>

-----------------------------------------------------------------------------
(* After the chain.                                                        *)

ReportShort ==
  /\ pc = "verify" /\ ~Enough(all)
  /\ pc' = "failed"
  /\ UNCHANGED <<input, server, tried, next, limit, workerVars, resultVars,
                 all, waitVars>>

\* cleanupExtraInstances, then waitForInstances unless --detached.
CleanupExtra ==
  LET extras == {all[i] : i \in {j \in DOMAIN all : j > Count}} IN
  /\ pc = "verify" /\ Enough(all)
  /\ all' = SubSeq(all, 1, Count)
  /\ server' = [n \in Slots |-> IF n \in extras THEN "free" ELSE server[n]]
  /\ pc' = IF input.detached THEN "done" ELSE "wait"
  /\ polled' = 1 /\ waited' = 0
  /\ UNCHANGED <<input, tried, next, limit, workerVars, resultVars>>

\* The wait for one instance is over: success, failure, error and timeout
\* are only logged.
NextWait ==
  /\ polled' = polled + 1
  /\ waited' = 0
  /\ pc' = IF polled = Len(all) THEN "done" ELSE "wait"

\* The loop condition of pollUntilReady; faulty: no deadline (and the count
\* below wraps).
NoDeadline     == TRUE
BeforeDeadline == waited < PollBudget

PollUntilReady ==
  /\ pc = "wait"
  /\ \/ /\ ~BeforeDeadline
        /\ NextWait
     \/ /\ BeforeDeadline                      \* GetWorkspace failed
        /\ NextWait
     \/ /\ BeforeDeadline
        /\ server[all[polled]] \in {"running", "failure"}
        /\ NextWait
     \/ /\ BeforeDeadline
        /\ server[all[polled]] = "deploying"
        /\ waited' = IF waited < PollBudget THEN waited + 1 ELSE 0
        /\ UNCHANGED <<pc, polled>>
  /\ UNCHANGED <<input, server, tried, next, limit, workerVars, resultVars,
                 all>>

-----------------------------------------------------------------------------
(* The control plane on its own: instances come up or fail, other users    *)
(* take and release names.                                                 *)

ServerStep(n, from, to) ==
  /\ server[n] = from
  /\ server' = [server EXCEPT ![n] = to]
  /\ UNCHANGED <<input, chainVars, next, limit, workerVars, resultVars, all,
                 waitVars>>

Boot(n)         == \E to \in {"running", "failure"} : ServerStep(n, "deploying", to)
OthersCreate(n) == ServerStep(n, "free", "foreign")
OthersDelete(n) == ServerStep(n, "foreign", "free")

-----------------------------------------------------------------------------
Chain == SkipType \/ StartType \/ JoinType \/ LeaveChain
          \/ ReportShort \/ CleanupExtra \/ PollUntilReady

Worker(w) == \/ Receive(w) \/ CheckEnough(w) \/ CreateWorkspace(w)
             \/ HandleCreateError(w) \/ HandleCreateSuccess(w)

Finished == pc \in {"done", "failed"} /\ UNCHANGED vars

Next ==
  \/ Chain
  \/ \E w \in Workers : Worker(w)
  \/ \E n \in Slots : Boot(n) \/ OthersCreate(n) \/ OthersDelete(n)
  \/ Finished

Spec == Init /\ [][Next]_vars

(* The command's goroutines run when they can, and every HTTP call is      *)
(* answered; nothing is assumed of the control plane's own steps.          *)
FairSpec == Spec /\ WF_vars(Chain) /\ \A w \in Workers : WF_vars(Worker(w))

-----------------------------------------------------------------------------
TypeOK ==
  /\ input \in Inputs
  /\ server \in [Slots -> Names]
  /\ pc \in {"next", "create", "verify", "wait", "done", "failed"}
  /\ tried \in 0 .. NTypes
  /\ next \in 0 .. Count /\ limit \in 0 .. Count
  /\ wpc \in [Workers -> {"recv", "check", "call", "record", "done"}]
  /\ slot \in [Workers -> Slots]
  /\ answer \in [Workers -> Answers]
  /\ successes \in Seq(Slots) /\ hadFailure \in BOOLEAN /\ fatal \in BOOLEAN
  /\ all \in Seq(Slots)
  /\ polled \in Nat \ {0} /\ waited \in 0 .. PollBudget

Busy == {w \in Workers : wpc[w] \in {"check", "call", "record"}}

(* The instances that were acknowledged, are being asked for, and may      *)
(* still be asked for never exceed what --count allows.  It is what makes  *)
(* the trimming of cleanupExtraInstances unnecessary.                      *)
WithinCount ==
  Len(all) + Len(successes)
    + (IF pc = "create" THEN Cardinality(Busy) + (limit - next) ELSE 0)
    <= Count

(* No instance of this command is forgotten: what the control plane        *)
(* created and acknowledged is in a list the command still reports from.   *)
NoUntracked ==
  \A n \in Slots : server[n] \in Own =>
    \/ n \in Seen(all) \cup Seen(successes)
    \/ \E w \in Workers : wpc[w] = "record" /\ answer[w] = "ok" /\ slot[w] = n

(* Within one type an index is handed to one worker only, and never again  *)
(* after it succeeded: the workers of a pool cannot collide on a name.     *)
OneRequestPerIndex ==
  \A w \in Busy :
    /\ slot[w] < next
    /\ slot[w] \notin Seen(successes)
    /\ \A v \in Busy \ {w} : slot[v] # slot[w]

(* The help text: "If first type fails for some instances, try second type *)
(* for remaining instances": an instance that exists is not asked for      *)
(* again.                                                                  *)
RetryOnlyRemaining ==
  \A w \in Workers : wpc[w] = "call" => slot[w] \notin Seen(all)

(* The command implements what it promises: never more than Count, a type  *)
(* tried only while it takes one, none after a name conflict, and "could   *)
(* only create k/N" only after a conflict or the last of the types.        *)
Promise == INSTANCE Provision
  WITH made    <- Len(all) + Len(successes),
       left    <- NTypes - tried,
       refused <- fatal,
       verdict <- IF pc = "failed" THEN "short"
                  ELSE IF pc \in {"wait", "done"} THEN "success" ELSE "open"
ImplementsProvision == Promise!PSpec

(* The command ends, even if an instance never leaves "deploying": each    *)
(* wait has a deadline.                                                    *)
Terminates == <>(pc \in {"done", "failed"})
=============================================================================
