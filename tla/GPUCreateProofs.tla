--------------------------- MODULE GPUCreateProofs ---------------------------
(***************************************************************************)
(* Proofs about GPUCreate for every Count, Parallel, NTypes, PollBudget    *)
(* and set of Scenarios.  Nothing is used of the control plane but that it *)
(* answers: the bound on the instances holds whatever it answers.          *)
(* The second part is about SearchPipe, what comes before in the same      *)
(* command, for every listing and flags that its assumption allows.        *)
(***************************************************************************)
EXTENDS GPUCreate, SearchPipe, FiniteSetTheorems, TLAPS

USE GPUCreateConstants

-----------------------------------------------------------------------------
(* The type invariant is inductive by itself: an index is taken only when  *)
(* next < limit, and limit never exceeds Count.                            *)

LEMMA EmptyList == <<>> \in Seq(Slots) /\ Len(<<>>) = 0
  OBVIOUS

LEMMA InitTypeOK == Init => TypeOK
<1> SUFFICES ASSUME Init PROVE TypeOK
  OBVIOUS
<1>1. successes \in Seq(Slots) /\ all \in Seq(Slots)
  BY EmptyList DEF Init
<1>2. server \in [Slots -> Names] /\ slot \in [Workers -> Slots]
  BY DEF Init, Names, Slots
<1>3. /\ wpc \in [Workers -> {"recv", "check", "call", "record", "done"}]
      /\ answer \in [Workers -> Answers]
  BY DEF Init, Answers
<1>4. tried \in 0 .. NTypes /\ next \in 0 .. Count /\ limit \in 0 .. Count
  BY DEF Init
<1>5. input \in Inputs
  BY DEF Init
<1>6. polled \in Nat \ {0} /\ waited \in 0 .. PollBudget
  BY DEF Init
<1> QED
  BY <1>1, <1>2, <1>3, <1>4, <1>5, <1>6, Zenon DEF Init, TypeOK

LEMMA ChainTypeOK == TypeOK /\ Chain => TypeOK'
<1> SUFFICES ASSUME TypeOK, Chain PROVE TypeOK'
  OBVIOUS
<1> USE DEF TypeOK, resultVars, workerVars, waitVars
<1>1. CASE SkipType
  <2>1. successes' \in Seq(Slots)
    BY <1>1, EmptyList DEF SkipType
  <2>2. tried' \in 0 .. NTypes
    BY <1>1 DEF SkipType
  <2> QED
    BY <1>1, <2>1, <2>2 DEF SkipType
<1>2. CASE StartType
  <2>1. Len(all) \in Nat /\ Len(all) < Count
    BY <1>2 DEF StartType, Enough
  <2>2. next' \in 0 .. Count /\ limit' \in 0 .. Count
    BY <1>2, <2>1 DEF StartType, Remaining
  <2>3. wpc' \in [Workers -> {"recv", "check", "call", "record", "done"}]
    BY <1>2 DEF StartType
  <2>4. tried' \in 0 .. NTypes
    BY <1>2 DEF StartType
  <2>5. successes' \in Seq(Slots)
    BY <1>2, EmptyList DEF StartType
  <2> QED
    BY <1>2, <2>2, <2>3, <2>4, <2>5 DEF StartType
<1>3. CASE JoinType
  BY <1>3, EmptyList DEF JoinType, Collected
<1>4. CASE LeaveChain
  BY <1>4 DEF LeaveChain
<1>5. CASE ReportShort
  BY <1>5 DEF ReportShort
<1>6. CASE CleanupExtra
  <2>1. all' \in Seq(Slots)
    BY <1>6 DEF CleanupExtra, Enough
  <2>2. server' \in [Slots -> Names]
    BY <1>6 DEF CleanupExtra, Names
  <2> QED
    BY <1>6, <2>1, <2>2 DEF CleanupExtra
<1>7. CASE PollUntilReady
  BY <1>7 DEF PollUntilReady, NextWait, BeforeDeadline
<1> QED
  BY <1>1, <1>2, <1>3, <1>4, <1>5, <1>6, <1>7 DEF Chain

LEMMA WorkerTypeOK ==
  ASSUME TypeOK, NEW w \in Workers, Worker(w)
  PROVE  TypeOK'
<1> USE DEF TypeOK, resultVars, workerVars, waitVars, chainVars
<1>1. CASE Receive(w)
  <2>1. CASE next < limit /\ slot' = [slot EXCEPT ![w] = next]
             /\ next' = next + 1 /\ wpc' = [wpc EXCEPT ![w] = "check"]
    <3>1. next \in Slots /\ next' \in 0 .. Count
      BY <2>1 DEF Slots
    <3> QED
      BY <1>1, <2>1, <3>1 DEF Receive
  <2> QED
    BY <1>1, <2>1 DEF Receive, Consumed
<1>2. CASE CheckEnough(w)
  BY <1>2 DEF CheckEnough
<1>3. CASE CreateWorkspace(w)
  <2>1. slot[w] \in Slots
    OBVIOUS
  <2> QED
    BY <1>3, <2>1 DEF CreateWorkspace, Answered, Names, Own, Answers
<1>4. CASE HandleCreateError(w)
  BY <1>4 DEF HandleCreateError
<1>5. CASE HandleCreateSuccess(w)
  BY <1>5 DEF HandleCreateSuccess
<1> QED
  BY <1>1, <1>2, <1>3, <1>4, <1>5 DEF Worker

LEMMA NextTypeOK == TypeOK /\ [Next]_vars => TypeOK'
<1> SUFFICES ASSUME TypeOK, [Next]_vars PROVE TypeOK'
  OBVIOUS
<1>1. ASSUME NEW n \in Slots,
             Boot(n) \/ OthersCreate(n) \/ OthersDelete(n)
      PROVE  TypeOK'
  <2>1. PICK from, to \in Names : ServerStep(n, from, to)
    BY <1>1 DEF Boot, OthersCreate, OthersDelete, Names, Own
  <2> QED
    BY <2>1 DEF ServerStep, TypeOK, chainVars, workerVars, resultVars,
                waitVars
<1>2. CASE UNCHANGED vars
  BY <1>2 DEF vars, TypeOK
<1> QED
  BY <1>1, <1>2, ChainTypeOK, WorkerTypeOK DEF Next, Finished

(* Every reachable state has the declared shape; in particular no index    *)
(* outside 0 .. Count - 1 is ever handed to a worker.                      *)
THEOREM TypeCorrect == Spec => []TypeOK
  BY InitTypeOK, NextTypeOK, PTL DEF Spec

-----------------------------------------------------------------------------
(* The strengthening: how control, the lists and the channel relate.       *)

Control ==
  /\ next <= limit
  /\ pc # "create" => successes = <<>> /\ \A w \in Workers : wpc[w] = "done"
  /\ pc = "next" => ~fatal
  /\ pc = "create" => tried >= 1
  /\ pc = "failed" => ~Enough(all)
  /\ pc \in {"verify", "failed"} /\ ~fatal /\ ~Enough(all) => tried = NTypes

IInv == TypeOK /\ Control /\ WithinCount

LEMMA BusyFinite ==
  /\ IsFiniteSet(Busy) /\ Cardinality(Busy) \in Nat
  /\ \A w : IsFiniteSet(Busy \cup {w}) /\ IsFiniteSet(Busy \ {w})
<1>1. IsFiniteSet(Workers)
  BY FS_Interval DEF Workers
<1>2. IsFiniteSet(Busy)
  BY <1>1, FS_Subset DEF Busy
<1> QED
  BY <1>2, FS_CardinalityType, FS_AddElement, FS_RemoveElement

LEMMA SmallerPool ==
  \A w : /\ Cardinality(Busy \ {w}) \in Nat
         /\ Cardinality(Busy \ {w}) <= Cardinality(Busy)
<1> SUFFICES ASSUME NEW w
             PROVE  /\ Cardinality(Busy \ {w}) \in Nat
                    /\ Cardinality(Busy \ {w}) <= Cardinality(Busy)
  OBVIOUS
<1>1. IsFiniteSet(Busy \ {w})
  BY BusyFinite
<1>2. Cardinality(Busy \ {w}) \in Nat
  BY <1>1, FS_CardinalityType
<1>3. Cardinality(Busy \ {w}) =
        IF w \in Busy THEN Cardinality(Busy) - 1 ELSE Cardinality(Busy)
  BY BusyFinite, FS_RemoveElement
<1> QED
  BY <1>2, <1>3, BusyFinite

LEMMA InitIInv == Init => IInv
<1> SUFFICES ASSUME Init PROVE IInv
  OBVIOUS
<1>1. Control
  BY DEF Init, Control, Enough
<1>2. WithinCount
  BY EmptyList DEF Init, WithinCount
<1> QED
  BY <1>1, <1>2, InitTypeOK DEF IInv

LEMMA ChainControl == IInv /\ Chain => Control'
<1> SUFFICES ASSUME IInv, Chain PROVE Control'
  OBVIOUS
<1> USE DEF IInv, TypeOK, Control, resultVars, workerVars, waitVars, Enough
<1>1. CASE SkipType
  BY <1>1 DEF SkipType
<1>2. CASE StartType
  BY <1>2 DEF StartType, Remaining
<1>3. CASE JoinType
  BY <1>3 DEF JoinType, Collected, ChainOver
<1>4. CASE LeaveChain
  BY <1>4 DEF LeaveChain
<1>5. CASE ReportShort
  BY <1>5 DEF ReportShort
<1>6. CASE CleanupExtra
  BY <1>6 DEF CleanupExtra
<1>7. CASE PollUntilReady
  BY <1>7 DEF PollUntilReady, NextWait
<1> QED
  BY <1>1, <1>2, <1>3, <1>4, <1>5, <1>6, <1>7 DEF Chain

\* A worker moves only while the pool of a type runs.
LEMMA WorkerRuns ==
  ASSUME IInv, NEW w \in Workers, Worker(w)
  PROVE  pc = "create" /\ pc' = "create" /\ all' = all /\ tried' = tried
  BY DEF IInv, Control, Worker, Receive, CheckEnough, CreateWorkspace,
         Answered, HandleCreateError, HandleCreateSuccess, chainVars

LEMMA WorkerControl ==
  ASSUME IInv, NEW w \in Workers, Worker(w)
  PROVE  Control'
<1>1. next' <= limit'
  BY DEF IInv, TypeOK, Control, Worker, Receive, Consumed, CheckEnough,
         CreateWorkspace, Answered, HandleCreateError, HandleCreateSuccess
<1>2. tried >= 1
  BY WorkerRuns DEF IInv, Control
<1> QED
  BY <1>1, <1>2, WorkerRuns DEF Control

LEMMA ChainWithinCount == IInv /\ Chain => WithinCount'
<1> SUFFICES ASSUME IInv, Chain PROVE WithinCount'
  OBVIOUS
<1>b. Cardinality(Busy) \in Nat
  BY BusyFinite
<1> USE <1>b DEF IInv, TypeOK, Control, WithinCount, Enough
<1>1. CASE SkipType
  BY <1>1 DEF SkipType
<1>2. CASE StartType
  <2>1. Busy' = {}
    BY <1>2 DEF StartType, Busy
  <2>2. Cardinality(Busy') = 0
    BY <2>1, FS_EmptySet
  <2>3. Len(successes') = 0 /\ Len(all') = Len(all)
    BY <1>2, EmptyList DEF StartType
  <2>4. limit' - next' = Count - Len(all) /\ Len(all) \in Nat
    BY <1>2 DEF StartType, Remaining
  <2> QED
    BY <2>2, <2>3, <2>4
<1>3. CASE JoinType
  <2>1. Len(all') = Len(all) + Len(successes) /\ Len(successes') = 0
    BY <1>3, EmptyList DEF JoinType, Collected
  <2>2. pc' # "create" /\ pc = "create"
    BY <1>3 DEF JoinType
  <2> QED
    BY <2>1, <2>2
<1>4. CASE LeaveChain
  BY <1>4 DEF LeaveChain, resultVars
<1>5. CASE ReportShort
  BY <1>5 DEF ReportShort, resultVars
<1>6. CASE CleanupExtra
  <2>1. Len(all') = Count /\ Len(all) >= Count
    BY <1>6 DEF CleanupExtra
  <2> QED
    BY <1>6, <2>1 DEF CleanupExtra, resultVars
<1>7. CASE PollUntilReady
  BY <1>7 DEF PollUntilReady, NextWait, resultVars
<1> QED
  BY <1>1, <1>2, <1>3, <1>4, <1>5, <1>6, <1>7 DEF Chain

LEMMA WorkerWithinCount ==
  ASSUME IInv, NEW w \in Workers, Worker(w)
  PROVE  WithinCount'
<1>b. Cardinality(Busy) \in Nat /\ IsFiniteSet(Busy)
  BY BusyFinite
<1>c. pc = "create" /\ pc' = "create" /\ all' = all
  BY WorkerRuns
<1> USE <1>b, <1>c DEF IInv, TypeOK, WithinCount
<1>1. CASE Receive(w)
  <2>1. CASE next < limit /\ next' = next + 1
             /\ wpc' = [wpc EXCEPT ![w] = "check"]
    <3>1. Busy' = Busy \cup {w} /\ w \notin Busy
      BY <1>1, <2>1 DEF Receive, Busy
    <3>2. Cardinality(Busy') = Cardinality(Busy) + 1
      BY <3>1, FS_AddElement
    <3> QED
      BY <1>1, <2>1, <3>2 DEF Receive, resultVars
  <2>2. CASE next' = next /\ wpc' = [wpc EXCEPT ![w] = "done"]
    <3>1. Busy' = Busy
      BY <1>1, <2>2 DEF Receive, Busy
    <3> QED
      BY <1>1, <2>2, <3>1 DEF Receive, resultVars
  <2> QED
    BY <1>1, <2>1, <2>2 DEF Receive, Consumed
<1>2. CASE CheckEnough(w)
  <2>1. Busy' = Busy \/ Busy' = Busy \ {w}
    BY <1>2 DEF CheckEnough, Busy
  <2>2. /\ Cardinality(Busy \ {w}) \in Nat
        /\ Cardinality(Busy \ {w}) <= Cardinality(Busy)
    BY SmallerPool
  <2>3. CASE Busy' = Busy
    BY <1>2, <2>3 DEF CheckEnough, resultVars
  <2>4. CASE Busy' = Busy \ {w}
    BY <1>2, <2>2, <2>4 DEF CheckEnough, resultVars
  <2> QED
    BY <2>1, <2>3, <2>4
<1>3. CASE CreateWorkspace(w)
  <2>1. Busy' = Busy
    BY <1>3 DEF CreateWorkspace, Answered, Busy
  <2> QED
    BY <1>3, <2>1 DEF CreateWorkspace, Answered, resultVars
<1>4. CASE HandleCreateError(w)
  <2>1. Busy' = Busy \ {w}
    BY <1>4 DEF HandleCreateError, Busy
  <2>2. /\ Cardinality(Busy \ {w}) \in Nat
        /\ Cardinality(Busy \ {w}) <= Cardinality(Busy)
    BY SmallerPool
  <2> QED
    BY <1>4, <2>1, <2>2 DEF HandleCreateError
<1>5. CASE HandleCreateSuccess(w)
  <2>1. Busy' = Busy \ {w} /\ w \in Busy
    BY <1>5 DEF HandleCreateSuccess, Busy
  <2>2. Cardinality(Busy') = Cardinality(Busy) - 1
    BY <2>1, FS_RemoveElement
  <2>3. Len(successes') = Len(successes) + 1
    BY <1>5 DEF HandleCreateSuccess
  <2> QED
    BY <1>5, <2>2, <2>3 DEF HandleCreateSuccess
<1> QED
  BY <1>1, <1>2, <1>3, <1>4, <1>5 DEF Worker

\* The control plane's steps change nothing but what it holds.
LEMMA ServerLocal ==
  ASSUME TypeOK, NEW n \in Slots,
         Boot(n) \/ OthersCreate(n) \/ OthersDelete(n)
  PROVE  /\ UNCHANGED <<input, pc, tried, next, limit, wpc, slot, answer,
                        successes, hadFailure, fatal, all, polled, waited>>
         /\ \A m \in Slots : server'[m] \in Own => server[m] \in Own
  BY DEF TypeOK, Boot, OthersCreate, OthersDelete, ServerStep, chainVars, workerVars,
         resultVars, waitVars, Own

LEMMA NextIInv == IInv /\ [Next]_vars => IInv'
<1> SUFFICES ASSUME IInv, [Next]_vars PROVE IInv'
  OBVIOUS
<1>1. TypeOK'
  BY NextTypeOK DEF IInv
<1>2. Control' /\ WithinCount'
  <2>1. ASSUME NEW n \in Slots,
               Boot(n) \/ OthersCreate(n) \/ OthersDelete(n)
        PROVE  Control' /\ WithinCount'
    BY <2>1, ServerLocal DEF IInv, Control, WithinCount, Busy, Enough
  <2>2. CASE UNCHANGED vars
    BY <2>2 DEF vars, IInv, Control, WithinCount, Busy, Enough
  <2> QED
    BY <2>1, <2>2, ChainControl, WorkerControl, ChainWithinCount,
       WorkerWithinCount DEF Next, Finished
<1> QED
  BY <1>1, <1>2 DEF IInv

(* --count bounds what is acknowledged, in flight and still to be asked    *)
(* for, whatever the control plane answers.                                *)
THEOREM CountBound == Spec => []WithinCount
<1>1. IInv => WithinCount
  BY DEF IInv
<1> QED
  BY <1>1, InitIInv, NextIInv, PTL DEF Spec

LEMMA IInvCorrect == Spec => []IInv
  BY InitIInv, NextIInv, PTL DEF Spec

-----------------------------------------------------------------------------
(* One request per index.  The property is inductive once it is known that *)
(* what succeeded was received: received indices are below next, and the   *)
(* pool starts with no worker busy and nothing received.                   *)

Received == Seen(successes) \subseteq 0 .. next - 1

Exclusive == OneRequestPerIndex /\ (pc = "create" => Received)

LEMMA SeenEmpty == Seen(<<>>) = {}
  BY DEF Seen

LEMMA SeenAppend ==
  ASSUME NEW S, NEW s \in Seq(S), NEW e \in S
  PROVE  Seen(Append(s, e)) = Seen(s) \cup {e}
<1>1. \A i \in 1 .. Len(s) : Append(s, e)[i] = s[i]
  OBVIOUS
<1>2. Append(s, e)[Len(s) + 1] = e /\ Len(s) + 1 \in 1 .. Len(s) + 1
  OBVIOUS
<1>3. DOMAIN Append(s, e) = 1 .. Len(s) + 1 /\ DOMAIN s = 1 .. Len(s)
  OBVIOUS
<1> QED
  BY <1>1, <1>2, <1>3 DEF Seen

LEMMA SeenConcat ==
  ASSUME NEW S, NEW s \in Seq(S), NEW t \in Seq(S)
  PROVE  Seen(s) \cup Seen(t) \subseteq Seen(s \o t)
<1>1. \A i \in 1 .. Len(s) : (s \o t)[i] = s[i] /\ i \in 1 .. Len(s \o t)
  OBVIOUS
<1>2. \A i \in 1 .. Len(t) : (s \o t)[Len(s) + i] = t[i]
                             /\ Len(s) + i \in 1 .. Len(s \o t)
  OBVIOUS
<1>3. DOMAIN s = 1 .. Len(s) /\ DOMAIN t = 1 .. Len(t)
      /\ DOMAIN (s \o t) = 1 .. Len(s \o t)
  OBVIOUS
<1> QED
  BY <1>1, <1>2, <1>3 DEF Seen

LEMMA ChainExclusive == IInv /\ Exclusive /\ Chain => Exclusive'
<1> SUFFICES ASSUME IInv, Exclusive, Chain PROVE Exclusive'
  OBVIOUS
<1>1. Busy' = {}
  BY DEF Chain, SkipType, StartType, JoinType, LeaveChain, ReportShort,
         CleanupExtra, PollUntilReady, IInv, TypeOK, Control, Busy, workerVars
<1>2. pc' = "create" => Seen(successes') = {}
  BY SeenEmpty DEF Chain, SkipType, StartType, JoinType, LeaveChain,
     ReportShort, CleanupExtra, PollUntilReady, NextWait, IInv, Control
<1> QED
  BY <1>1, <1>2 DEF Exclusive, OneRequestPerIndex, Received

LEMMA WorkerExclusive ==
  ASSUME IInv, Exclusive, NEW w \in Workers, Worker(w)
  PROVE  Exclusive'
<1> USE DEF IInv, TypeOK
<1>0. pc = "create" /\ Received /\ next \in Int
  BY WorkerRuns DEF Exclusive
<1>1. CASE Receive(w)
  <2>1. CASE /\ slot' = [slot EXCEPT ![w] = next] /\ next' = next + 1
             /\ wpc' = [wpc EXCEPT ![w] = "check"] /\ successes' = successes
    <3>1. Busy' = Busy \cup {w} /\ slot'[w] = next
          /\ \A v \in Busy \ {w} : slot'[v] = slot[v] /\ slot[v] < next
      BY <2>1 DEF Busy, Exclusive, OneRequestPerIndex
    <3>2. Received' /\ next \notin Seen(successes)
      BY <1>0, <2>1 DEF Received
    <3>3. ASSUME NEW v \in Busy'
          PROVE  slot'[v] < next' /\ slot'[v] \notin Seen(successes')
      <4>1. CASE v = w
        BY <1>0, <2>1, <3>1, <3>2, <4>1
      <4>2. CASE v \in Busy \ {w}
        <5>1. slot[v] \in Int /\ slot[v] \notin Seen(successes)
          BY <4>2 DEF Exclusive, OneRequestPerIndex, Busy, Slots
        <5> QED
          BY <1>0, <2>1, <3>1, <4>2, <5>1
      <4> QED
        BY <3>1, <4>1, <4>2
    <3>4. \A v, u \in Busy' : v # u => slot'[v] # slot'[u]
      BY <1>0, <3>1 DEF Exclusive, OneRequestPerIndex
    <3> QED
      BY <3>2, <3>3, <3>4 DEF Exclusive, OneRequestPerIndex
  <2>2. CASE wpc' = [wpc EXCEPT ![w] = "done"]
             /\ UNCHANGED <<slot, next, successes>>
    BY <1>0, <2>2 DEF Exclusive, OneRequestPerIndex, Received, Busy
  <2> QED
    BY <1>1, <2>1, <2>2 DEF Receive, Consumed, resultVars
<1>2. CASE HandleCreateSuccess(w)
  <2>1. w \in Busy /\ Busy' = Busy \ {w} /\ UNCHANGED <<slot, next>>
    BY <1>2 DEF HandleCreateSuccess, Busy
  <2>2. Seen(successes') = Seen(successes) \cup {slot[w]} /\ slot[w] \in Slots
    BY <1>2, SeenAppend DEF HandleCreateSuccess
  <2>3. slot[w] \in 0 .. next - 1
    BY <1>0, <2>1, <2>2 DEF Exclusive, OneRequestPerIndex, Slots
  <2> QED
    BY <1>0, <2>1, <2>2, <2>3 DEF Exclusive, OneRequestPerIndex, Received
<1>3. CASE CheckEnough(w) \/ CreateWorkspace(w) \/ HandleCreateError(w)
  <2>1. Busy' \subseteq Busy /\ UNCHANGED <<slot, next, successes>>
    BY <1>3 DEF CheckEnough, CreateWorkspace, Answered, HandleCreateError, Busy,
                resultVars
  <2> QED
    BY <1>0, <2>1 DEF Exclusive, OneRequestPerIndex, Received
<1> QED
  BY <1>1, <1>2, <1>3 DEF Worker

LEMMA NextExclusive == IInv /\ Exclusive /\ [Next]_vars => Exclusive'
<1> SUFFICES ASSUME IInv, Exclusive, [Next]_vars PROVE Exclusive'
  OBVIOUS
<1>1. ASSUME NEW n \in Slots, Boot(n) \/ OthersCreate(n) \/ OthersDelete(n)
      PROVE  Exclusive'
  BY <1>1, ServerLocal DEF IInv, Exclusive, OneRequestPerIndex, Received, Busy
<1>2. CASE UNCHANGED vars
  BY <1>2 DEF vars, Exclusive, OneRequestPerIndex, Received, Busy
<1> QED
  BY <1>1, <1>2, ChainExclusive, WorkerExclusive DEF Next, Finished

(* The workers of a pool never ask for the same index, nor for one that    *)
(* this type already gave, however many there are.                         *)
THEOREM ExclusiveCorrect == Spec => []OneRequestPerIndex
<1>1. Init => Exclusive
  BY SeenEmpty DEF Init, Exclusive, OneRequestPerIndex, Busy
<1>2. Exclusive => OneRequestPerIndex
  BY DEF Exclusive
<1> QED
  BY <1>1, <1>2, NextExclusive, IInvCorrect, PTL DEF Spec

-----------------------------------------------------------------------------
(* Nothing is forgotten.  With Control (nothing is in `successes` when a   *)
(* type starts) and CountBound (trimming drops nothing) the property is    *)
(* inductive.                                                              *)

Pending(n) == \E w \in Workers : wpc[w] = "record" /\ answer[w] = "ok" /\ slot[w] = n

LEMMA ChainTracks == IInv /\ NoUntracked /\ Chain => NoUntracked'
<1> SUFFICES ASSUME IInv, NoUntracked, Chain, NEW n \in Slots, server'[n] \in Own
             PROVE  n \in Seen(all') \cup Seen(successes') \/ Pending(n)'
  BY DEF NoUntracked, Pending
<1> USE DEF IInv, TypeOK, Control, resultVars, workerVars, waitVars
<1>0. server[n] \in Own
  BY DEF Chain, SkipType, StartType, JoinType, LeaveChain, ReportShort,
         CleanupExtra, PollUntilReady, Own
<1>1. n \in Seen(all) \cup Seen(successes) \/ Pending(n)
  BY <1>0 DEF NoUntracked, Pending
<1>2. CASE SkipType \/ StartType \/ LeaveChain \/ ReportShort \/ PollUntilReady
  <2>1. all' = all /\ (successes' = successes \/ successes = <<>>)
        /\ (wpc' = wpc \/ \A w \in Workers : wpc[w] # "record")
        /\ answer' = answer /\ slot' = slot
    BY <1>2 DEF SkipType, StartType, LeaveChain, ReportShort, PollUntilReady
  <2> QED
    BY <1>1, <2>1, SeenEmpty DEF Pending
<1>3. CASE JoinType
  <2>1. ~Pending(n)
    BY <1>3 DEF JoinType, Pending
  <2> QED
    BY <1>1, <1>3, <2>1, SeenConcat DEF JoinType, Collected
<1>4. CASE CleanupExtra
  <2>1. Len(all) = Count /\ successes = <<>> /\ ~Pending(n)
    BY <1>4, EmptyList DEF CleanupExtra, WithinCount, Enough, Pending
  <2>2. all' = all
    BY <1>4, <2>1 DEF CleanupExtra
  <2> QED
    BY <1>1, <2>1, <2>2, SeenEmpty
<1> QED
  BY <1>2, <1>3, <1>4 DEF Chain

LEMMA WorkerTracks ==
  ASSUME IInv, NoUntracked, NEW w \in Workers, Worker(w)
  PROVE  NoUntracked'
<1> SUFFICES ASSUME NEW n \in Slots, server'[n] \in Own
             PROVE  n \in Seen(all') \cup Seen(successes') \/ Pending(n)'
  BY DEF NoUntracked, Pending
<1> USE DEF IInv, TypeOK, resultVars, chainVars, waitVars
<1>1. server[n] \in Own => n \in Seen(all) \cup Seen(successes) \/ Pending(n)
  BY DEF NoUntracked, Pending
<1>2. CASE CreateWorkspace(w)
  <2>1. all' = all /\ successes' = successes /\ slot' = slot
        /\ \A v \in Workers \ {w} : wpc'[v] = wpc[v] /\ answer'[v] = answer[v]
    BY <1>2 DEF CreateWorkspace, Answered
  <2>2. CASE server[n] \in Own
    BY <1>1, <1>2, <2>1, <2>2 DEF Pending, CreateWorkspace
  <2>3. CASE server[n] \notin Own
    BY <1>2, <2>1, <2>3 DEF Pending, CreateWorkspace, Answered, Own
  <2> QED
    BY <2>2, <2>3
<1>3. CASE HandleCreateSuccess(w)
  <2>1. Seen(successes') = Seen(successes) \cup {slot[w]}
    BY <1>3, SeenAppend DEF HandleCreateSuccess
  <2> QED
    BY <1>1, <1>3, <2>1 DEF HandleCreateSuccess, Pending
<1>4. CASE Receive(w) \/ CheckEnough(w) \/ HandleCreateError(w)
  <2>1. UNCHANGED <<server, all, successes, answer>>
        /\ \A v \in Workers \ {w} : wpc'[v] = wpc[v] /\ slot'[v] = slot[v]
    BY <1>4 DEF Receive, CheckEnough, HandleCreateError
  <2>2. wpc[w] # "record" \/ answer[w] # "ok"
    BY <1>4 DEF Receive, CheckEnough, HandleCreateError
  <2> QED
    BY <1>1, <2>1, <2>2 DEF Pending
<1> QED
  BY <1>2, <1>3, <1>4 DEF Worker

(* An instance the control plane acknowledged is in a list the command     *)
(* still reports from.                                                     *)
THEOREM TrackedCorrect == Spec => []NoUntracked
<1>1. Init => NoUntracked
  BY DEF Init, NoUntracked, Own
<1>2. IInv /\ NoUntracked /\ [Next]_vars => NoUntracked'
  <2> SUFFICES ASSUME IInv, NoUntracked, [Next]_vars PROVE NoUntracked'
    OBVIOUS
  <2>1. ASSUME NEW n \in Slots, Boot(n) \/ OthersCreate(n) \/ OthersDelete(n)
        PROVE  NoUntracked'
    BY <2>1, ServerLocal DEF IInv, NoUntracked
  <2>2. CASE UNCHANGED vars
    BY <2>2 DEF vars, NoUntracked
  <2> QED
    BY <2>1, <2>2, ChainTracks, WorkerTracks DEF Next, Finished
<1> QED
  BY <1>1, <1>2, IInvCorrect, PTL DEF Spec

-----------------------------------------------------------------------------
(* The command implements Provision: every step of it is a step of the     *)
(* abstract command or leaves it alone.  WithinCount is what makes an      *)
(* acknowledgement legal (made < Count) and a success exact (made = Count).*)

Made == Len(all) + Len(successes)

LEMMA StepProvision == IInv /\ [Next]_vars => [Promise!PNext]_(Promise!pvars)
<1> SUFFICES ASSUME IInv, [Next]_vars
             PROVE  Promise!PNext \/ UNCHANGED Promise!pvars
  BY DEF Promise!pvars
<1> USE DEF IInv, TypeOK, Control, Promise!PNext, Promise!pvars, Enough
<1>1. CASE Chain
  <2>0. ASSUME pc = "next", pc' \in {"next", "create"}, Len(all) < Count,
               tried < NTypes, tried' = tried + 1, ~fatal,
               fatal' = fatal, successes' = <<>>,
               all' = all
        PROVE  Promise!PNext
    <3>1. Len(successes) = 0 /\ Len(successes') = 0
      BY <2>0, EmptyList
    <3>2. NTypes - tried > 0 /\ NTypes - tried' = (NTypes - tried) - 1
      BY <2>0
    <3> QED
      BY <2>0, <3>1, <3>2 DEF Promise!TryType
  <2>1. CASE SkipType
    <3>0. ~fatal /\ fatal \in BOOLEAN
      BY <2>1 DEF SkipType
    <3>1. fatal' = FALSE
      BY <2>1 DEF SkipType
    <3>2. fatal' = fatal
      BY <3>0, <3>1, Zenon
    <3> QED
      BY <2>0, <2>1, <3>0, <3>2 DEF SkipType
  <2>2. CASE StartType
    <3>0. ~fatal /\ fatal \in BOOLEAN
      BY <2>2 DEF StartType
    <3>1. fatal' = FALSE
      BY <2>2 DEF StartType
    <3>2. fatal' = fatal
      BY <3>0, <3>1, Zenon
    <3> QED
      BY <2>0, <2>2, <3>0, <3>2 DEF StartType
  <2>3. CASE JoinType
    <3>1. Len(all') + Len(successes') = Made
      BY <2>3, EmptyList DEF JoinType, Collected, Made
    <3> QED
      BY <2>3, <3>1 DEF JoinType, Made
  <2>4. CASE LeaveChain
    BY <2>4 DEF LeaveChain, resultVars
  <2>5. CASE ReportShort
    <3>1. Made < Count /\ UNCHANGED <<all, successes, tried, fatal>>
      BY <2>5, EmptyList DEF ReportShort, resultVars, Made
    <3>2. NTypes - tried = 0 \/ fatal
      BY <2>5 DEF ReportShort
    <3> QED
      BY <2>5, <3>1, <3>2 DEF ReportShort, Promise!GiveUp, Made
  <2>6. CASE CleanupExtra
    <3>1. Len(successes) = 0 /\ Len(all) = Count
      BY <2>6, EmptyList DEF CleanupExtra, WithinCount
    <3>2. Len(all') = Count /\ UNCHANGED <<successes, tried, fatal>>
      BY <2>6, <3>1 DEF CleanupExtra, resultVars
    <3> QED
      BY <2>6, <3>1, <3>2 DEF CleanupExtra, Promise!Succeed
  <2>7. CASE PollUntilReady
    BY <2>7 DEF PollUntilReady, NextWait, resultVars
  <2> QED
    BY <1>1, <2>1, <2>2, <2>3, <2>4, <2>5, <2>6, <2>7 DEF Chain
<1>2. ASSUME NEW w \in Workers, Worker(w)
      PROVE  Promise!PNext \/ UNCHANGED Promise!pvars
  <2>1. pc = "create" /\ pc' = pc /\ all' = all /\ tried' = tried
    BY <1>2, WorkerRuns
  <2>2. NTypes - tried < NTypes
    BY <2>1
  <2>3. CASE successes' = successes /\ fatal' = fatal
    BY <2>1, <2>3
  <2>4. CASE successes' = successes /\ fatal'
    <3>1. fatal' = TRUE
      BY <2>4, <1>2 DEF Worker, Receive, CheckEnough, CreateWorkspace, Answered,
                        HandleCreateError, HandleCreateSuccess, resultVars
    <3> QED
      BY <2>1, <2>2, <2>4, <3>1 DEF Promise!RefuseName
  <2>5. CASE HandleCreateError(w)
    <3>1. successes' = successes /\ (fatal' = fatal \/ fatal')
      BY <2>5 DEF HandleCreateError
    <3> QED
      BY <2>3, <2>4, <3>1
  <2>6. CASE HandleCreateSuccess(w)
    <3>1. w \in Busy
      BY <2>6 DEF HandleCreateSuccess, Busy
    <3>2. Cardinality(Busy) >= 1
      BY <3>1, BusyFinite, FS_EmptySet
    <3>3. Made < Count
      BY <2>1, <3>2, BusyFinite DEF WithinCount, Made
    <3>4. Len(successes') = Len(successes) + 1 /\ fatal' = fatal
      BY <2>6 DEF HandleCreateSuccess
    <3>5. Len(all') + Len(successes') = (Len(all) + Len(successes)) + 1
      BY <2>1, <3>4
    <3> QED
      BY <2>1, <2>2, <3>3, <3>4, <3>5 DEF Made, Promise!Acknowledge
  <2>7. CASE Receive(w) \/ CheckEnough(w) \/ CreateWorkspace(w)
    <3>1. successes' = successes /\ fatal' = fatal
      BY <2>7 DEF Receive, CheckEnough, CreateWorkspace, Answered, resultVars
    <3> QED
      BY <2>3, <3>1
  <2> QED
    BY <1>2, <2>5, <2>6, <2>7 DEF Worker
<1>3. ASSUME NEW n \in Slots,
             Boot(n) \/ OthersCreate(n) \/ OthersDelete(n)
      PROVE  UNCHANGED Promise!pvars
  BY <1>3, ServerLocal
<1>4. CASE UNCHANGED vars
  BY <1>4 DEF vars
<1> QED
  BY <1>1, <1>2, <1>3, <1>4 DEF Next, Finished

(* Refinement: `brev create` acknowledges at most --count instances, one   *)
(* at a time, and reports success for exactly --count of them.             *)
THEOREM CreateImplementsProvision == Spec => ImplementsProvision
<1>1. Init => Promise!PInit
  BY EmptyList DEF Init, Promise!PInit
<1> QED
  BY <1>1, StepProvision, IInvCorrect, PTL
  DEF Spec, ImplementsProvision, Promise!PSpec
-----------------------------------------------------------------------------
(* What the chain of types is: the proofs about SearchPipe.                *)

HIDE GPUCreateConstants

(* The lines at some places: each is there once, in the order it had.      *)

UpTo(places, k) == {j \in places : j <= k}

LEMMA PlacesFinite ==
  ASSUME NEW places, IsFiniteSet(places)
  PROVE  /\ Cardinality(places) \in Nat
         /\ \A k : /\ IsFiniteSet(UpTo(places, k))
                   /\ Cardinality(UpTo(places, k)) \in Nat
                   /\ Cardinality(UpTo(places, k)) <= Cardinality(places)
<1>1. ASSUME NEW k
      PROVE  /\ IsFiniteSet(UpTo(places, k))
             /\ Cardinality(UpTo(places, k)) <= Cardinality(places)
  <2>1. UpTo(places, k) \in SUBSET places
    BY DEF UpTo
  <2> QED
    BY <2>1, FS_Subset
<1> QED
  BY <1>1, FS_CardinalityType

LEMMA RankGrows ==
  ASSUME NEW places, IsFiniteSet(places), \A k \in places : k \in Int,
         NEW j \in places, NEW k \in places, j < k
  PROVE  Cardinality(UpTo(places, j)) < Cardinality(UpTo(places, k))
<1>1. /\ k \in UpTo(places, k) /\ k \notin UpTo(places, j)
      /\ UpTo(places, j) \in SUBSET UpTo(places, k)
  BY DEF UpTo
<1>2. /\ IsFiniteSet(UpTo(places, k))
      /\ Cardinality(UpTo(places, k)) \in Nat /\ Cardinality(UpTo(places, j)) \in Nat
  BY PlacesFinite
<1>3. /\ Cardinality(UpTo(places, j)) <= Cardinality(UpTo(places, k))
      /\ Cardinality(UpTo(places, k)) = Cardinality(UpTo(places, j))
           => UpTo(places, k) = UpTo(places, j)
  BY <1>1, <1>2, FS_Subset
<1> QED
  BY <1>1, <1>2, <1>3

\* The ranks of the places are 1 to their number: different places have
\* different ranks, and there are as many.
LEMMA RankOnto ==
  ASSUME NEW places, IsFiniteSet(places), \A k \in places : k \in Int
  PROVE  /\ \A k \in places : Cardinality(UpTo(places, k)) \in 1 .. Cardinality(places)
         /\ \A r \in 1 .. Cardinality(places) :
              \E k \in places : Cardinality(UpTo(places, k)) = r
<1> DEFINE N    == Cardinality(places)
           rank == [k \in places |-> Cardinality(UpTo(places, k))]
           Hit  == {rank[k] : k \in places}
<1>1. N \in Nat
  BY PlacesFinite
<1>2. ASSUME NEW k \in places PROVE rank[k] \in 1 .. N
  <2>1. UpTo(places, k) # {}
    BY DEF UpTo
  <2>2. /\ IsFiniteSet(UpTo(places, k)) /\ Cardinality(UpTo(places, k)) \in Nat
        /\ Cardinality(UpTo(places, k)) <= N
    BY PlacesFinite
  <2>3. Cardinality(UpTo(places, k)) # 0
    BY <2>1, <2>2, FS_EmptySet
  <2> QED
    BY <1>1, <2>2, <2>3
<1>3. ASSUME NEW j \in places, NEW k \in places, rank[j] = rank[k] PROVE j = k
  <2>1. rank[j] \in Int
    BY <1>2
  <2>2. ~(j < k)
    BY <1>3, <2>1, RankGrows
  <2>3. ~(k < j)
    BY <1>3, <2>1, RankGrows
  <2> QED
    BY <2>2, <2>3
<1>4. rank \in Bijection(places, Hit)
  BY <1>3 DEF Bijection, Injection, Surjection, IsInjective
<1>5. IsFiniteSet(Hit) /\ Cardinality(Hit) = N
  <2>1. ExistsBijection(places, Hit)
    BY <1>4 DEF ExistsBijection
  <2> QED
    BY <2>1, FS_Bijection
<1>6. IsFiniteSet(1 .. N) /\ Cardinality(1 .. N) = N
  BY <1>1, FS_Interval
<1>7. Hit \in SUBSET (1 .. N)
  BY <1>2
<1>8. Hit = 1 .. N
  BY <1>5, <1>6, <1>7, FS_Subset
<1> QED
  BY <1>2, <1>8

LEMMA NthPlace ==
  ASSUME NEW places, IsFiniteSet(places), \A k \in places : k \in Int
  PROVE  /\ Cardinality(places) \in Nat
         /\ \A r \in 1 .. Cardinality(places) : Nth(places, r) \in places
         /\ \A j, k \in 1 .. Cardinality(places) :
              j < k => Nth(places, j) < Nth(places, k)
         /\ \A k \in places : \E r \in 1 .. Cardinality(places) : Nth(places, r) = k
<1>1. ASSUME NEW r \in 1 .. Cardinality(places)
      PROVE  Nth(places, r) \in places /\ Cardinality(UpTo(places, Nth(places, r))) = r
  <2>1. \E k \in places : Cardinality(UpTo(places, k)) = r
    BY RankOnto
  <2> QED
    BY <2>1, Zenon DEF Nth, UpTo
<1>2. Cardinality(places) \in Nat
  BY PlacesFinite
<1>3. ASSUME NEW j \in 1 .. Cardinality(places), NEW k \in 1 .. Cardinality(places), j < k
      PROVE  Nth(places, j) < Nth(places, k)
  <2> DEFINE a == Nth(places, j)
             b == Nth(places, k)
  <2>1. /\ a \in places /\ b \in places /\ a \in Int /\ b \in Int
        /\ Cardinality(UpTo(places, a)) = j /\ Cardinality(UpTo(places, b)) = k
    BY <1>1
  <2>2. a # b
    BY <1>3, <2>1
  <2> HIDE DEF a, b
  <2>3. b < a => Cardinality(UpTo(places, b)) < Cardinality(UpTo(places, a))
    BY <2>1, RankGrows
  <2>4. a < b
    BY <1>2, <1>3, <2>1, <2>2, <2>3
  <2> QED
    BY <2>4 DEF a, b
<1>4. ASSUME NEW k \in places
      PROVE  \E r \in 1 .. Cardinality(places) : Nth(places, r) = k
  <2> DEFINE r == Cardinality(UpTo(places, k))
             a == Nth(places, r)
  <2>1. r \in 1 .. Cardinality(places)
    BY RankOnto
  <2>2. a \in places /\ Cardinality(UpTo(places, a)) = r
    BY <1>1, <2>1
  <2> HIDE DEF a
  <2>3. ~(a < k)
    BY <2>1, <2>2, RankGrows
  <2>4. ~(k < a)
    BY <2>1, <2>2, RankGrows
  <2>5. a = k
    BY <2>2, <2>3, <2>4
  <2> QED
    BY <2>1, <2>5 DEF a
<1> QED
  BY <1>1, <1>2, <1>3, <1>4

-----------------------------------------------------------------------------
(* Sizes and rows                                                          *)

LEMMA RoundedNat == \A size \in Nat : Rounded(size) \in Nat
  BY DEF Rounded, GB

LEMMA RoundedGrows == \A a, b \in Nat : a <= b => Rounded(a) <= Rounded(b)
  BY DEF Rounded, GB

\* A whole number of GB is printed as it is.
LEMMA RoundedWhole == \A n \in Nat : Rounded(GB * n) = n /\ GB * n \in Nat
  BY DEF Rounded, GB

LEMMA SizeNat == \A size \in Size : ParseToGB(size) \in Nat
  BY DEF Size, ParseToGB, GB

LEMMA TimesNat == \A a, b \in Nat : a * b \in Nat
  OBVIOUS

LEMMA BytesCounted ==
  ASSUME NEW b, b[1] \in Nat PROVE BytesToGB(b) \in Nat
<1> DEFINE unit == CASE b[2] \in {"TiB", "TB"} -> 1024 * GB
                     [] b[2] \in {"GiB", "GB"} -> GB
                     [] b[2] \in {"MiB", "MB"} -> 125
                     [] OTHER                  -> 0
<1>1. unit \in Nat
  BY DEF GB
<1>2. BytesToGB(b) = b[1] * unit
  BY DEF BytesToGB
<1> QED
  BY <1>1, <1>2, TimesNat

LEMMA BytesNat == \A b \in Bytes : BytesToGB(b) \in Nat
  BY BytesCounted DEF Bytes

LEMMA DiskNat ==
  ASSUME NEW item \in InstanceType
  PROVE  DiskInfo(item.storage)[1] \in Nat /\ DiskInfo(item.storage)[2] \in Nat
<1> DEFINE s == item.storage[1]
<1>1. CASE item.storage = <<>>
  BY <1>1 DEF DiskInfo
<1>2. CASE item.storage # <<>>
  <2>1. item.storage \in Seq(Storage)
    BY DEF InstanceType
  <2>2. s \in Storage
    BY <1>2, <2>1
  <2>3. s.min \in Size /\ s.max \in Size /\ s.size \in Size /\ s.bytes \in Bytes
    BY <2>2 DEF Storage
  <2>4. /\ ParseToGB(s.min) \in Nat /\ ParseToGB(s.max) \in Nat
        /\ OrBytes(s.size, s.bytes) \in Nat
    BY <2>3, SizeNat, BytesNat DEF OrBytes
  <2> QED
    BY <1>2, <2>4 DEF DiskInfo
<1> QED
  BY <1>1, <1>2

\* The instance types of the listings.
Types == {i \in InstanceType : DiskInfo(i.storage)[1] <= DiskInfo(i.storage)[2]}

IsRow(r) == \E item \in Types, gpu \in GPU \cup {NoGPU} : \E at : r = Row(at, item, gpu)

LEMMA RowTyped ==
  ASSUME NEW r, IsRow(r)
  PROVE  /\ r.type \in STRING /\ r.boot \in Nat
         /\ r.min \in Nat /\ r.max \in Nat /\ r.min <= r.max
<1>0. PICK item \in Types, gpu \in GPU \cup {NoGPU} : \E at : r = Row(at, item, gpu)
  BY DEF IsRow
<1>1. PICK at : r = Row(at, item, gpu)
  BY <1>0
<1>2. /\ r.type = item.type /\ r.boot = Seconds(item.deploy)
      /\ r.min = DiskInfo(item.storage)[1] /\ r.max = DiskInfo(item.storage)[2]
  BY <1>1 DEF Row
<1>3. item \in InstanceType /\ r.min <= r.max
  BY <1>2 DEF Types
<1>4. item.type \in STRING /\ item.deploy \in [h : Nat, m : Nat, s : Nat]
  BY <1>3, AlphabetAssumption DEF InstanceType
<1>5. Seconds(item.deploy) \in Nat
  BY <1>4 DEF Seconds
<1> QED
  BY <1>2, <1>3, <1>4, <1>5, DiskNat

\* What rows are sorted by is a number.
LEMMA CapabilityNat == \A name : Capability(name) \in Nat
<1> TAKE name
<1> DEFINE In(p) == p = name \/ (name \in DOMAIN Within /\ p \in Within[name])
           hits  == {k \in DOMAIN Capabilities : In(Capabilities[k][1])}
<1>1. hits \in SUBSET (1 .. 9)
  BY DEF Capabilities
<1>2. \A k \in 1 .. 9 : Capabilities[k][2] \in Nat
  BY DEF Capabilities
<1>3. Capability(name) = IF hits = {} THEN 0 ELSE Capabilities[Nth(hits, 1)][2]
  BY DEF Capability
<1> HIDE DEF hits
<1>4. IsFiniteSet(hits) /\ \A k \in hits : k \in Int
  <2>0. 1 \in Int /\ 9 \in Int
    OBVIOUS
  <2>1. IsFiniteSet(1 .. 9)
    BY <2>0, FS_Interval, Zenon
  <2>2. IsFiniteSet(hits)
    BY <1>1, <2>1, FS_Subset
  <2> QED
    BY <1>1, <2>2
<1>5. hits # {} => Nth(hits, 1) \in hits
  <2>1. hits # {} => Cardinality(hits) \in Nat /\ Cardinality(hits) # 0
    BY <1>4, FS_CardinalityType, FS_EmptySet
  <2>2. hits # {} => 1 \in 1 .. Cardinality(hits)
    BY <2>1
  <2> QED
    BY <1>4, <2>2, NthPlace
<1> HIDE DEF In
<1>6. CASE hits = {}
  BY <1>3, <1>6
<1>7. CASE hits # {}
  <2>1. Nth(hits, 1) \in 1 .. 9
    BY <1>1, <1>5, <1>7
  <2>2. Capabilities[Nth(hits, 1)][2] \in Nat
    BY <1>2, <2>1
  <2> QED
    BY <1>3, <1>7, <2>2
<1> QED
  BY <1>6, <1>7

LEMMA KeyNat ==
  ASSUME NEW r, IsRow(r), NEW column
  PROVE  Key(column, r) \in Nat
<1>0. PICK item \in Types, gpu \in GPU \cup {NoGPU} : \E at : r = Row(at, item, gpu)
  BY DEF IsRow
<1>1. PICK at : r = Row(at, item, gpu)
  BY <1>0
<1>2. /\ item \in InstanceType /\ item.price \in Nat /\ item.vcpu \in Nat
      /\ item.memory \in Size /\ item.bytes \in Bytes
      /\ item.type \in Labels /\ item.provider \in Labels /\ item.archs \in Seq(Labels)
  BY DEF Types, InstanceType
<1>3. gpu.count \in Nat /\ gpu.memory \in Size /\ gpu.bytes[1] \in Nat
  <2>1. CASE gpu \in GPU
    BY <2>1 DEF GPU, Bytes
  <2>2. CASE gpu = NoGPU
    BY <2>2 DEF NoGPU, Size
  <2> QED
    BY <2>1, <2>2
<1>4. /\ OrBytes(gpu.memory, gpu.bytes) \in Nat
      /\ OrBytes(item.memory, item.bytes) \in Nat
  BY <1>2, <1>3, SizeNat, BytesNat, BytesCounted DEF OrBytes
<1>5. /\ r.count = gpu.count /\ r.vram = OrBytes(gpu.memory, gpu.bytes)
      /\ r.total = r.vram * r.count /\ r.capability = Capability(gpu.name)
      /\ r.type = item.type /\ r.provider = item.provider /\ r.vcpu = item.vcpu
      /\ r.ram = OrBytes(item.memory, item.bytes)
      /\ r.arch = IF item.archs = <<>> THEN "-" ELSE item.archs[1]
      /\ r.price = item.price
  BY <1>1 DEF Row
<1>6. r.total \in Nat
  BY <1>3, <1>4, <1>5, TimesNat
<1>7. /\ Alphabet[r.type] \in Nat /\ Alphabet[r.provider] \in Nat
      /\ Alphabet[r.arch] \in Nat
  <2>1. r.arch \in Labels
    BY <1>2, <1>5, AlphabetAssumption
  <2> QED
    BY <1>2, <1>5, <2>1, AlphabetAssumption
<1>8. /\ r.count \in Nat /\ r.vram \in Nat /\ r.capability \in Nat /\ r.vcpu \in Nat
      /\ r.ram \in Nat /\ r.price \in Nat /\ r.max \in Nat /\ r.boot \in Nat
  BY <1>2, <1>3, <1>4, <1>5, CapabilityNat, RowTyped
<1> QED
  BY <1>6, <1>7, <1>8 DEF Key

\* A target changes nothing else.
Alike(q, r) ==
  /\ q.type = r.type /\ q.gpu = r.gpu /\ q.min = r.min /\ q.max = r.max
  /\ q.boot = r.boot /\ \A column : Key(column, q) = Key(column, r)

LEMMA Retargeted ==
  ASSUME NEW r, IsRow(r), NEW t, NEW q, q = [r EXCEPT !.target = t]
  PROVE  q.target = t /\ Alike(q, r)
<1>0. PICK item \in Types, gpu \in GPU \cup {NoGPU} : \E at : r = Row(at, item, gpu)
  BY DEF IsRow
<1>1. PICK at : r = Row(at, item, gpu)
  BY <1>0
<1>2. /\ q.target = t
      /\ q.type = r.type /\ q.gpu = r.gpu /\ q.min = r.min /\ q.max = r.max
      /\ q.boot = r.boot /\ q.count = r.count /\ q.vram = r.vram
      /\ q.total = r.total /\ q.vcpu = r.vcpu /\ q.capability = r.capability
      /\ q.ram = r.ram /\ q.provider = r.provider /\ q.arch = r.arch
      /\ q.price = r.price
  BY <1>1 DEF Row
<1>3. \A column : Key(column, q) = Key(column, r)
  BY <1>2 DEF Key
<1> QED
  BY <1>2, <1>3 DEF Alike

Aimed(r, d) == [r EXCEPT !.target = TargetDisk(r, d)]

LEMMA AimedAlike ==
  ASSUME NEW r, IsRow(r), NEW d
  PROVE  Aimed(r, d).target = TargetDisk(r, d) /\ Alike(Aimed(r, d), r)
  BY Retargeted DEF Aimed

LEMMA AimedRows == \A rows, d : SetTargetDisks(rows, d) = {Aimed(r, d) : r \in rows}
  BY DEF SetTargetDisks, Aimed

\* Rows that the comparator leaves in their places are in the order of --sort.
Placed(column, descending, a, b) ==
  Less(column, descending, b, a) => Less(column, descending, a, b)

LEMMA SortedKnown ==
  ASSUME NEW a, NEW b, a.boot \in Nat, b.boot \in Nat, NEW column,
         Key(column, a) \in Nat, Key(column, b) \in Nat,
         NEW descending \in BOOLEAN, Placed(column, descending, a, b)
  PROVE  Known(column, descending, a, b)
<1>1. CASE column = "boot-time" /\ 0 \in {a.boot, b.boot}
  <2>1. b.boot = 0
    BY <1>1 DEF Placed, Less, BootUnknown, KnownFirst
  <2> QED
    BY <1>1, <2>1 DEF Known
<1>2. CASE ~(column = "boot-time" /\ 0 \in {a.boot, b.boot})
  <2>1. IF descending THEN Key(column, b) <= Key(column, a)
                      ELSE Key(column, a) <= Key(column, b)
    BY <1>2 DEF Placed, Less, LessByKey, BootUnknown
  <2> QED
    BY <1>2, <2>1 DEF Known
<1> QED
  BY <1>1, <1>2

LEMMA KnownAlike ==
  ASSUME NEW column, NEW descending, NEW a, NEW b, NEW q, NEW r,
         Alike(q, a), Alike(r, b), Known(column, descending, q, r)
  PROVE  Known(column, descending, a, b)
  BY DEF Alike, Known

-----------------------------------------------------------------------------
(* Sets of rows are finite.                                                *)

LEMMA ImageFinite ==
  ASSUME NEW S, IsFiniteSet(S), NEW f PROVE IsFiniteSet({f[x] : x \in S})
<1> DEFINE T == {f[x] : x \in S}
           g == [x \in S |-> f[x]]
<1>1. g \in Surjection(S, T)
  BY DEF Surjection
<1> QED
  BY <1>1, FS_Surjection

LEMMA ProcessedRows ==
  ASSUME NEW places, IsFiniteSet(places), NEW items \in [places -> Types]
  PROVE  /\ IsFiniteSet(ProcessInstances(items))
         /\ \A r \in ProcessInstances(items) : IsRow(r)
<1> DEFINE rows == [k \in places |-> RowsOf(k, items[k])]
<1>1. {rows[k] : k \in places} = {RowsOf(k, items[k]) : k \in DOMAIN items}
  OBVIOUS
<1>2. ASSUME NEW k \in places PROVE IsFiniteSet(RowsOf(k, items[k]))
  <2> DEFINE gpus == items[k].gpus
             row  == [g \in DOMAIN gpus |-> Row(<<k, g>>, items[k], gpus[g])]
  <2>1. CASE gpus = <<>>
    BY <2>1, FS_Singleton DEF RowsOf
  <2>2. CASE gpus # <<>>
    <3>1. gpus \in Seq(GPU)
      BY DEF Types, InstanceType
    <3>2. DOMAIN gpus = 1 .. Len(gpus) /\ Len(gpus) \in Nat
      BY <3>1
    <3>3. IsFiniteSet(DOMAIN gpus)
      BY <3>2, FS_Interval
    <3>4. RowsOf(k, items[k]) = {Row(<<k, g>>, items[k], gpus[g]) : g \in DOMAIN gpus}
      BY <2>2 DEF RowsOf
    <3>5. {Row(<<k, g>>, items[k], gpus[g]) : g \in DOMAIN gpus}
            = {row[g] : g \in DOMAIN gpus}
      OBVIOUS
    <3> HIDE DEF row, gpus
    <3>6. IsFiniteSet({row[g] : g \in DOMAIN gpus})
      BY <3>3, ImageFinite
    <3> QED
      BY <3>4, <3>5, <3>6
  <2> QED
    BY <2>1, <2>2
<1>3. IsFiniteSet({rows[k] : k \in places}) /\ \A k \in places : rows[k] = RowsOf(k, items[k])
  <2>1. \A k \in places : rows[k] = RowsOf(k, items[k])
    OBVIOUS
  <2> HIDE DEF rows
  <2> QED
    BY <2>1, ImageFinite
<1>4. IsFiniteSet(UNION {rows[k] : k \in places})
  <2> HIDE DEF rows
  <2> QED
    BY <1>2, <1>3, FS_UNION
<1>5. ASSUME NEW r \in ProcessInstances(items) PROVE IsRow(r)
  <2>1. PICK k \in places : r \in RowsOf(k, items[k])
    BY <1>5 DEF ProcessInstances
  <2>2. items[k] \in Types /\ items[k].gpus \in Seq(GPU)
    BY DEF Types, InstanceType
  <2>3. CASE items[k].gpus = <<>>
    BY <2>1, <2>2, <2>3 DEF RowsOf, IsRow
  <2>4. CASE items[k].gpus # <<>>
    <3>1. PICK g \in DOMAIN items[k].gpus : r = Row(<<k, g>>, items[k], items[k].gpus[g])
      BY <2>1, <2>4 DEF RowsOf
    <3>2. items[k].gpus[g] \in GPU
      BY <2>2
    <3> QED
      BY <2>2, <3>1, <3>2 DEF IsRow
  <2> QED
    BY <2>3, <2>4
<1> QED
  BY <1>1, <1>4, <1>5 DEF ProcessInstances

\* The API names no maker "cpu".
LEMMA MakersNamed ==
  ASSUME NEW places, NEW items \in [places -> Types],
         \A k \in places : items[k].gpus # <<>>
  PROVE  \A r \in ProcessInstances(items) : r.maker # "cpu"
<1> TAKE r \in ProcessInstances(items)
<1>1. PICK k \in places : \E g \in DOMAIN items[k].gpus :
        r = Row(<<k, g>>, items[k], items[k].gpus[g])
  BY DEF ProcessInstances, RowsOf
<1>2. PICK g \in DOMAIN items[k].gpus : r = Row(<<k, g>>, items[k], items[k].gpus[g])
  BY <1>1
<1>3. items[k].gpus \in Seq(GPU)
  BY DEF Types, InstanceType
<1>4. items[k].gpus[g] \in GPU
  BY <1>3
<1>5. r.maker = items[k].gpus[g].maker
  BY <1>2 DEF Row
<1> QED
  BY <1>4, <1>5 DEF GPU

-----------------------------------------------------------------------------
(* The invariant.  What search printed are the rows it found, filtered and *)
(* sorted; what create tries comes from there, or from its own filters;    *)
(* what it asked for is of what it tries.                                  *)

TypeSpec == [type : STRING \cup {LaunchType}, disk : Nat]

Asked == {Request(specs[k], a) : k \in DOMAIN specs, a \in BOOLEAN}

Typed ==
  /\ opts \in CreateFlags /\ query \in SearchFlags
  /\ query.json => opts.grep = Anything
  /\ \E places : IsFiniteSet(places) /\ listing \in [places -> Types]
  /\ IsFiniteSet(found) /\ \A r \in found : IsRow(r)
  /\ turn \in Nat \ {0} /\ specs \in Seq(TypeSpec)
  /\ requests \in Seq(Asked)

PipeControl ==
  /\ spc = "run" => /\ origin = "none" /\ out = <<>> /\ opts.stdin = "search"
                    /\ cpc \in {"start", "read", "end"}
  /\ cpc \in {"start", "read"} => origin = "none" /\ specs = <<>>
  /\ cpc = "resolve" => origin # "filters"
  /\ cpc \notin {"try", "end"} => requests = <<>>

Printed ==
  origin # "filters" => out = <<>> \/ \E rows \in Results(found) : out = Display(rows)
FromPipe ==
  origin = "pipe" => spc = "exit" /\ specs = Piped
FromFlags ==
  origin = "filters" =>
    /\ \A r \in found : r.maker # "cpu"
    /\ \E rows \in SearchInstances(found, opts.filter) :
         specs = [k \in DOMAIN rows |->
           [type |-> rows[k].type, disk |-> DiskFor(rows[k], opts.filter)]]

PipeInv == Typed /\ PipeControl /\ Printed /\ FromPipe /\ FromFlags

-----------------------------------------------------------------------------
(* Sorting and printing                                                    *)

LEMMA SortedRows ==
  ASSUME NEW rows, IsFiniteSet(rows), NEW column, NEW descending,
         NEW s \in SortInstances(rows, column, descending)
  PROVE  /\ Cardinality(rows) \in Nat
         /\ s \in Bijection(1 .. Cardinality(rows), rows)
         /\ s \in [1 .. Cardinality(rows) -> rows]
         /\ \A j, k \in 1 .. Cardinality(rows) :
              j < k => Placed(column, descending, s[j], s[k])
<1>1. Cardinality(rows) \in Nat
  BY FS_CardinalityType
<1>2. s \in Bijection(1 .. Cardinality(rows), rows)
      /\ \A j, k \in DOMAIN s : j < k => Placed(column, descending, s[j], s[k])
  BY DEF SortInstances, Placed
<1>3. s \in [1 .. Cardinality(rows) -> rows]
  BY <1>2 DEF Bijection, Injection
<1> QED
  BY <1>1, <1>2, <1>3

\* A function on 1 .. n is a sequence.
LEMMA Listed ==
  ASSUME NEW n \in Nat, NEW S, NEW s \in [1 .. n -> S]
  PROVE  s \in Seq(S) /\ Len(s) = n
  OBVIOUS

LEMMA TargetedFinite ==
  ASSUME NEW rows, IsFiniteSet(rows), NEW d
  PROVE  IsFiniteSet(SetTargetDisks(rows, d))
<1> DEFINE f == [r \in rows |-> [r EXCEPT !.target = TargetDisk(r, d)]]
<1>1. SetTargetDisks(rows, d) = {f[r] : r \in rows}
  BY DEF SetTargetDisks
<1> HIDE DEF f
<1> QED
  BY <1>1, ImageFinite

LEMMA FilteredRows ==
  ASSUME Typed
  PROVE  /\ IsFiniteSet(Filtered(found))
         /\ \A r \in Filtered(found) : r \in found /\ r.max >= query.filter.disk
<1> DEFINE f == query.filter
           g == [f EXCEPT !.gpu = Anything, !.vram = 0, !.total = 0, !.capability = 0]
<1>1. f \in FilterOptions
  BY DEF Typed, SearchFlags
<1>2. g.disk = f.disk
  BY <1>1 DEF FilterOptions
<1>3. \A r \in Filtered(found) : r \in found /\ r.max >= f.disk
  BY <1>2 DEF Filtered, FilterCPUInstances, FilterInstances, Matches, MatchesNumbers
<1>4. Filtered(found) \in SUBSET found
  BY <1>3
<1>5. IsFiniteSet(found)
  BY DEF Typed
<1> QED
  BY <1>3, <1>4, <1>5, FS_Subset

\* Row k of what was found is on line k, or after a header.
PrintedRows(n, row) ==
  LET d == query.filter.disk IN
  /\ \A k \in 1 .. n : row[k].max >= d
  /\ \A j, k \in 1 .. n :
       j < k => Known(query.column, query.descending, row[j], row[k])
  /\ query.json \/ n = 0 =>
       /\ DOMAIN out = 1 .. n
       /\ \A k \in 1 .. n : /\ out[k].type = row[k].type
                            /\ out[k].target = TargetDisk(row[k], d)
  /\ ~query.json /\ n # 0 =>
       /\ DOMAIN out = 1 .. n + 1 /\ out[1] = Header
       /\ \A k \in 1 .. n :
            out[k + 1] = [header |-> FALSE, type |-> row[k].type, gpu |-> row[k].gpu,
                          disk |-> GB * Rounded(TargetDisk(row[k], d))]

LEMMA OutLines ==
  ASSUME Typed, out = <<>> \/ \E rows \in Results(found) : out = Display(rows)
  PROVE  \E n \in Nat : \E row \in [1 .. n -> found] : PrintedRows(n, row)
<1>1. CASE out = <<>>
  <2> DEFINE row == [k \in 1 .. 0 |-> out]
  <2>1. row \in [1 .. 0 -> found] /\ DOMAIN out = 1 .. 0
    BY <1>1
  <2>2. \A k : k \notin 1 .. 0
    OBVIOUS
  <2>3. PrintedRows(0, row)
    BY <2>1, <2>2 DEF PrintedRows
  <2> QED
    BY <2>1, <2>3
<1>2. ASSUME NEW rows \in Results(found), out = Display(rows)
      PROVE  \E n \in Nat : \E row \in [1 .. n -> found] : PrintedRows(n, row)
  <2> DEFINE d        == query.filter.disk
             targeted == SetTargetDisks(Filtered(found), d)
             n        == Cardinality(targeted)
             row      == [k \in 1 .. n |->
                            CHOOSE r \in Filtered(found) : rows[k] = Aimed(r, d)]
  <2>1. IsFiniteSet(targeted)
    BY FilteredRows, TargetedFinite
  <2>2. /\ n \in Nat /\ rows \in [1 .. n -> targeted]
        /\ \A j, k \in 1 .. n :
             j < k => Placed(query.column, query.descending, rows[j], rows[k])
    <3>1. rows \in SortInstances(targeted, query.column, query.descending)
      BY <1>2 DEF Results
    <3> HIDE DEF targeted
    <3> QED
      BY <2>1, <3>1, SortedRows
  <2>3. ASSUME NEW k \in 1 .. n
        PROVE  row[k] \in Filtered(found) /\ rows[k] = Aimed(row[k], d)
    <3>1. \E r \in Filtered(found) : rows[k] = Aimed(r, d)
      BY <2>2, AimedRows
    <3> HIDE DEF n
    <3> QED
      BY <3>1
  <2>4. ASSUME NEW k \in 1 .. n
        PROVE  /\ row[k] \in found /\ row[k].max >= d /\ IsRow(row[k])
               /\ rows[k].target = TargetDisk(row[k], d) /\ Alike(rows[k], row[k])
    <3>1. row[k] \in Filtered(found) /\ rows[k] = Aimed(row[k], d)
      BY <2>3
    <3> HIDE DEF row, n
    <3>2. row[k] \in found /\ row[k].max >= d /\ IsRow(row[k])
      BY <3>1, FilteredRows DEF Typed
    <3> QED
      BY <3>1, <3>2, AimedAlike
  <2> HIDE DEF row, n
  <2>5. row \in [1 .. n -> found]
    BY <2>4 DEF row
  <2>6. ASSUME NEW j \in 1 .. n, NEW k \in 1 .. n, j < k
        PROVE  Known(query.column, query.descending, row[j], row[k])
    <3>1. /\ rows[j].boot \in Nat /\ rows[k].boot \in Nat
          /\ Key(query.column, rows[j]) \in Nat /\ Key(query.column, rows[k]) \in Nat
      BY <2>4, RowTyped, KeyNat DEF Alike
    <3>2. query.descending \in BOOLEAN
      BY DEF Typed, SearchFlags
    <3>3. Known(query.column, query.descending, rows[j], rows[k])
      BY <2>2, <2>6, <3>1, <3>2, SortedKnown
    <3> QED
      BY <2>4, <3>3, KnownAlike
  <2>7. ASSUME query.json \/ n = 0 PROVE out = rows /\ DOMAIN out = 1 .. n
    <3>1. n = 0 => rows = <<>>
      BY <2>2
    <3> QED
      BY <1>2, <2>2, <2>7, <3>1 DEF Display
  <2>8. ASSUME ~query.json, n # 0
        PROVE  /\ DOMAIN out = 1 .. n + 1 /\ out[1] = Header
               /\ \A k \in 1 .. n : out[k + 1] = Line(rows[k])
    <3> DEFINE lines == [k \in 1 .. n |-> Line(rows[k])]
    <3>1. DOMAIN rows = 1 .. n /\ rows # <<>>
      BY <2>2, <2>8
    <3>2. out = <<Header>> \o lines
      BY <1>2, <2>8, <3>1 DEF Display, PlainTable
    <3>3. lines \in Seq({Line(rows[k]) : k \in 1 .. n}) /\ Len(lines) = n
      BY <2>2, Listed
    <3>4. \A k \in 1 .. n : lines[k] = Line(rows[k])
      OBVIOUS
    <3> HIDE DEF lines
    <3> QED
      BY <2>2, <3>2, <3>3, <3>4
  <2>9. ASSUME NEW k \in 1 .. n
        PROVE  Line(rows[k]) = [header |-> FALSE, type |-> row[k].type, gpu |-> row[k].gpu,
                                disk |-> GB * Rounded(TargetDisk(row[k], d))]
    BY <2>4 DEF Line, Alike
  <2>10. PrintedRows(n, row)
    BY <2>2, <2>4, <2>6, <2>7, <2>8, <2>9 DEF PrintedRows, Alike
  <2> QED
    BY <2>2, <2>5, <2>10
<1> QED
  BY <1>1, <1>2

-----------------------------------------------------------------------------
(* Reading what was printed                                                *)

\* The lines of a table that count as types.
CountedLines(lines) ==
  {k \in DOMAIN lines : /\ k = 1 => ~IsHeader(lines[k])
                        /\ ~lines[k].header /\ lines[k].type \in Typelike}

\* Taking lines at places keeps them all, in order.
LEMMA LinesKept ==
  ASSUME NEW lines, NEW m \in Nat, DOMAIN lines = 1 .. m, NEW places \in SUBSET (1 .. m)
  PROVE  /\ Cardinality(places) \in Nat
         /\ DOMAIN LinesAt(lines, places) = 1 .. Cardinality(places)
         /\ \A k \in 1 .. Cardinality(places) :
              /\ LinesAt(lines, places)[k] = lines[Nth(places, k)]
              /\ Nth(places, k) \in places
         /\ \A j, k \in 1 .. Cardinality(places) :
              j < k => Nth(places, j) < Nth(places, k)
         /\ \A p \in places : \E k \in 1 .. Cardinality(places) : Nth(places, k) = p
<1>1. IsFiniteSet(1 .. m)
  BY FS_Interval
<1>2. IsFiniteSet(places)
  BY <1>1, FS_Subset
<1>3. \A k \in places : k \in Int
  OBVIOUS
<1> QED
  BY <1>2, <1>3, NthPlace DEF LinesAt

LEMMA ParsedTable ==
  ASSUME NEW lines, NEW m \in Nat, DOMAIN lines = 1 .. m
  PROVE  LET T == CountedLines(lines)  N == Cardinality(T)  read == ParseTable(lines) IN
         /\ N \in Nat /\ DOMAIN read = 1 .. N
         /\ \A k \in 1 .. N :
              /\ Nth(T, k) \in T
              /\ read[k] = [type |-> lines[Nth(T, k)].type, disk |-> lines[Nth(T, k)].disk]
         /\ \A j, k \in 1 .. N : j < k => Nth(T, j) < Nth(T, k)
         /\ \A p \in T : \E k \in 1 .. N : Nth(T, k) = p
<1> DEFINE T     == CountedLines(lines)
           taken == LinesAt(lines, T)
<1>1. T \in SUBSET (1 .. m)
  BY DEF CountedLines
<1>2. ParseTable(lines) = [k \in DOMAIN taken |-> [type |-> taken[k].type, disk |-> taken[k].disk]]
  BY DEF ParseTable, CountedLines
<1> DEFINE N == Cardinality(T)
<1> HIDE DEF T
<1>3. /\ N \in Nat /\ DOMAIN taken = 1 .. N
      /\ \A k \in 1 .. N : taken[k] = lines[Nth(T, k)] /\ Nth(T, k) \in T
      /\ \A j, k \in 1 .. N : j < k => Nth(T, j) < Nth(T, k)
      /\ \A p \in T : \E k \in 1 .. N : Nth(T, k) = p
  BY <1>1, LinesKept
<1> HIDE DEF N, taken
<1>4. /\ DOMAIN ParseTable(lines) = 1 .. N
      /\ \A k \in 1 .. N : ParseTable(lines)[k] =
           [type |-> lines[Nth(T, k)].type, disk |-> lines[Nth(T, k)].disk]
  BY <1>2, <1>3
<1> QED
  BY <1>3, <1>4 DEF N, T

\* What create reads: line place[k] for its kth type.
Reads(place) ==
  /\ place \in Bijection(DOMAIN Piped, KeptLines)
  /\ \A j, k \in DOMAIN Piped : j < k => place[j] < place[k]
  /\ \A k \in DOMAIN Piped :
       /\ Piped[k].type = out[place[k]].type
       /\ Piped[k].disk = IF query.json THEN out[place[k]].target ELSE out[place[k]].disk

\* An increasing function onto a set is a bijection.
LEMMA IncreasingBijection ==
  ASSUME NEW n \in Nat, NEW S, NEW f \in [1 .. n -> S], \A k \in S : k \in Int,
         \A j, k \in 1 .. n : j < k => f[j] < f[k],
         \A p \in S : \E k \in 1 .. n : f[k] = p
  PROVE  f \in Bijection(1 .. n, S)
<1>1. ASSUME NEW j \in 1 .. n, NEW k \in 1 .. n, f[j] = f[k] PROVE j = k
  <2>1. f[j] \in Int
    OBVIOUS
  <2> QED
    BY <1>1, <2>1
<1> QED
  BY <1>1 DEF Bijection, Injection, Surjection, IsInjective

LEMMA ReadJSON ==
  ASSUME NEW m \in Nat, DOMAIN out = 1 .. m, query.json
  PROVE  (\E place : Reads(place)) /\ DOMAIN Piped = 1 .. m
<1> DEFINE place == [k \in 1 .. m |-> k]
<1>1. Piped = [k \in 1 .. m |-> [type |-> out[k].type, disk |-> out[k].target]]
  BY DEF Piped, ParseJSON
<1>2. KeptLines = 1 .. m
  BY DEF KeptLines, Reaches
<1>3. place \in Bijection(1 .. m, 1 .. m)
  BY IncreasingBijection
<1>4. Reads(place)
  BY <1>1, <1>2, <1>3 DEF Reads
<1> QED
  BY <1>1, <1>4

LEMMA ReadTable ==
  ASSUME NEW m \in Nat, DOMAIN out = 1 .. m, ~query.json, opts.grep = Anything,
         m # 0 => out[1] = Header
  PROVE  (\E place : Reads(place)) /\ \E N \in Nat : DOMAIN Piped = 1 .. N
<1> DEFINE T == CountedLines(out)
           N == Cardinality(T)
           place == [k \in 1 .. N |-> Nth(T, k)]
<1>1. Piped = ParseTable(out)
  BY DEF Piped
<1>2. T = KeptLines
  BY DEF CountedLines, KeptLines, Reaches, Lost, IsHeader, Fits, Header
<1>3. T \in SUBSET (1 .. m)
  BY DEF CountedLines
<1>4. /\ N \in Nat /\ DOMAIN Piped = 1 .. N
      /\ \A k \in 1 .. N :
           /\ Nth(T, k) \in T
           /\ Piped[k] = [type |-> out[Nth(T, k)].type, disk |-> out[Nth(T, k)].disk]
      /\ \A j, k \in 1 .. N : j < k => Nth(T, j) < Nth(T, k)
      /\ \A p \in T : \E k \in 1 .. N : Nth(T, k) = p
  BY <1>1, ParsedTable
<1> HIDE DEF T, N
<1>5. place \in Bijection(1 .. N, T)
  <2>1. place \in [1 .. N -> T] /\ \A k \in T : k \in Int
    BY <1>3, <1>4
  <2> QED
    BY <1>4, <2>1, IncreasingBijection
<1>6. Reads(place)
  BY <1>2, <1>4, <1>5 DEF Reads
<1> QED
  BY <1>4, <1>6

LEMMA ReadGrepped ==
  ASSUME NEW m \in Nat, DOMAIN out = 1 .. m, ~query.json, opts.grep # Anything
  PROVE  (\E place : Reads(place)) /\ \E N \in Nat : DOMAIN Piped = 1 .. N
<1> DEFINE G == {k \in DOMAIN out : ~out[k].header /\ out[k].gpu \in opts.grep}
           lines == LinesAt(out, G)
           M == Cardinality(G)
           T == CountedLines(lines)
           N == Cardinality(T)
           place == [k \in 1 .. N |-> Nth(G, Nth(T, k))]
<1>1. Piped = ParseTable(lines)
  BY DEF Piped, Grep
<1>2. G \in SUBSET (1 .. m) /\ \A j \in DOMAIN out : Reaches(j) <=> j \in G
  BY DEF Reaches, Fits
<1>3. /\ M \in Nat /\ DOMAIN lines = 1 .. M
      /\ \A k \in 1 .. M : lines[k] = out[Nth(G, k)] /\ Nth(G, k) \in G
      /\ \A j, k \in 1 .. M : j < k => Nth(G, j) < Nth(G, k)
      /\ \A p \in G : \E k \in 1 .. M : Nth(G, k) = p
  <2>1. DOMAIN out = 1 .. m /\ G \in SUBSET (1 .. m)
    BY <1>2
  <2> HIDE DEF G
  <2>2. /\ Cardinality(G) \in Nat /\ DOMAIN LinesAt(out, G) = 1 .. Cardinality(G)
        /\ \A k \in 1 .. Cardinality(G) :
             LinesAt(out, G)[k] = out[Nth(G, k)] /\ Nth(G, k) \in G
    BY <2>1, LinesKept
  <2>3. /\ \A j, k \in 1 .. Cardinality(G) : j < k => Nth(G, j) < Nth(G, k)
        /\ \A p \in G : \E k \in 1 .. Cardinality(G) : Nth(G, k) = p
    BY <2>1, LinesKept
  <2> QED
    BY <2>2, <2>3
<1>4. /\ N \in Nat /\ DOMAIN Piped = 1 .. N
      /\ \A k \in 1 .. N :
           /\ Nth(T, k) \in T
           /\ Piped[k] = [type |-> lines[Nth(T, k)].type, disk |-> lines[Nth(T, k)].disk]
      /\ \A j, k \in 1 .. N : j < k => Nth(T, j) < Nth(T, k)
      /\ \A p \in T : \E k \in 1 .. N : Nth(T, k) = p
  <2> HIDE DEF lines
  <2> QED
    BY <1>1, <1>3, ParsedTable
<1>5. T \in SUBSET (1 .. M)
  BY <1>3 DEF CountedLines
<1> HIDE DEF lines, M, N
<1>6. ASSUME NEW k \in 1 .. M PROVE Lost(Nth(G, k)) <=> k = 1 /\ IsHeader(lines[k])
  <2>1. /\ Nth(G, k) \in G /\ Nth(G, k) \in DOMAIN out /\ ~out[Nth(G, k)].header
        /\ lines[k] = out[Nth(G, k)]
    BY <1>3
  <2>2. k = 1 <=> \A i \in G : Nth(G, k) <= i
    <3>1. \A i \in G : i \in Int
      BY <1>2
    <3> HIDE DEF G
    <3>2. ASSUME k = 1, NEW i \in G PROVE Nth(G, k) <= i
      <4>1. PICK l \in 1 .. M : Nth(G, l) = i
        BY <1>3
      <4>2. l = k \/ k < l
        BY <3>2, <4>1
      <4>3. k < l => Nth(G, k) < Nth(G, l)
        BY <1>3, <4>1
      <4> QED
        BY <2>1, <3>1, <4>1, <4>2, <4>3
    <3>3. ASSUME k # 1 PROVE \E i \in G : ~(Nth(G, k) <= i)
      <4>1. 1 \in 1 .. M /\ 1 < k
        BY <1>3, <3>3
      <4> QED
        BY <1>3, <3>1, <4>1
    <3> QED
      BY <3>2, <3>3
  <2> QED
    BY <1>2, <2>1, <2>2 DEF Lost, IsHeader
<1>7. ASSUME NEW k \in 1 .. M PROVE k \in T <=> Nth(G, k) \in KeptLines
  <2>1. /\ Nth(G, k) \in G /\ Nth(G, k) \in DOMAIN out /\ ~out[Nth(G, k)].header
        /\ lines[k] = out[Nth(G, k)] /\ Reaches(Nth(G, k))
    BY <1>2, <1>3
  <2> QED
    BY <1>3, <1>6, <2>1 DEF CountedLines, KeptLines
<1>8. KeptLines \in SUBSET G
  BY <1>2 DEF KeptLines
<1> HIDE DEF G, T
<1>9. place \in Bijection(1 .. N, KeptLines)
  <2>0. \A k \in KeptLines : k \in Int
    BY <1>2, <1>8
  <2>1. ASSUME NEW k \in 1 .. N PROVE Nth(G, Nth(T, k)) \in KeptLines
    BY <1>4, <1>5, <1>7
  <2>2. \A j, k \in 1 .. N : j < k => place[j] < place[k]
    BY <1>3, <1>4, <1>5
  <2>3. \A p \in KeptLines : \E k \in 1 .. N : place[k] = p
    <3> TAKE p \in KeptLines
    <3>1. PICK k \in 1 .. M : Nth(G, k) = p
      BY <1>3, <1>8
    <3>2. k \in T
      BY <1>7, <3>1
    <3> QED
      BY <1>4, <3>1, <3>2
  <2>4. place \in [1 .. N -> KeptLines]
    BY <2>1
  <2> HIDE DEF place
  <2> QED
    BY <1>4, <2>0, <2>2, <2>3, <2>4, IncreasingBijection
<1>10. Reads(place)
  <2>1. \A k \in 1 .. N : place[k] = Nth(G, Nth(T, k)) /\ lines[Nth(T, k)] = out[place[k]]
    BY <1>3, <1>4, <1>5
  <2>2. \A j, k \in 1 .. N : j < k => place[j] < place[k]
    BY <1>3, <1>4, <1>5
  <2> HIDE DEF place
  <2> QED
    BY <1>4, <1>9, <2>1, <2>2 DEF Reads
<1> QED
  BY <1>4, <1>10

\* The kth type create reads is that of row at[k].
Comes(n, row, at) ==
  LET d == query.filter.disk IN
  /\ \A k \in 1 .. n : row[k].max >= d
  /\ \A j, k \in 1 .. n :
       j < k => Known(query.column, query.descending, row[j], row[k])
  /\ \A j, k \in DOMAIN Piped : j < k => at[j] < at[k]
  /\ \A k \in DOMAIN Piped :
       /\ Piped[k].type = row[at[k]].type
       /\ Piped[k].disk \in {TargetDisk(row[at[k]], d),
                             GB * Rounded(TargetDisk(row[at[k]], d))}

LEMMA TargetNat ==
  ASSUME NEW r, IsRow(r), NEW d \in Nat
  PROVE  /\ TargetDisk(r, d) \in Nat
         /\ GB * Rounded(TargetDisk(r, d)) \in Nat
<1>1. TargetDisk(r, d) \in Nat
  BY RowTyped DEF TargetDisk
<1>2. Rounded(TargetDisk(r, d)) \in Nat
  BY <1>1, RoundedNat
<1> QED
  BY <1>1, <1>2, RoundedWhole

LEMMA PipedTypes ==
  ASSUME Typed, out = <<>> \/ \E rows \in Results(found) : out = Display(rows)
  PROVE  /\ Piped \in Seq(TypeSpec)
         /\ \E place : Reads(place)
         /\ \E n \in Nat : \E row \in [1 .. n -> found] :
              \E at \in [DOMAIN Piped -> 1 .. n] : Comes(n, row, at)
<1> DEFINE d == query.filter.disk
<1>0. d \in Nat /\ query.json \in BOOLEAN /\ (query.json => opts.grep = Anything)
  BY DEF Typed, SearchFlags, FilterOptions
<1>1. PICK n \in Nat : \E row \in [1 .. n -> found] : PrintedRows(n, row)
  BY OutLines
<1>2. PICK row \in [1 .. n -> found] : PrintedRows(n, row)
  BY <1>1
<1>3. \E m \in Nat : /\ DOMAIN out = 1 .. m /\ (m # 0 /\ ~query.json => out[1] = Header)
  BY <1>2 DEF PrintedRows
<1>4. (\E place : Reads(place)) /\ \E N \in Nat : DOMAIN Piped = 1 .. N
  BY <1>0, <1>3, ReadJSON, ReadTable, ReadGrepped
<1>5. PICK place : Reads(place)
  BY <1>4
<1>6. \A k \in 1 .. n : IsRow(row[k]) /\ row[k].type \in STRING
  BY RowTyped DEF Typed
<1> DEFINE at == [k \in DOMAIN Piped |-> IF query.json THEN place[k] ELSE place[k] - 1]
<1>7. ASSUME NEW k \in DOMAIN Piped
      PROVE  /\ at[k] \in 1 .. n
             /\ Piped[k].type = row[at[k]].type
             /\ Piped[k].disk \in {TargetDisk(row[at[k]], d),
                                   GB * Rounded(TargetDisk(row[at[k]], d))}
  <2>1. place[k] \in KeptLines
    BY <1>5 DEF Reads, Bijection, Injection
  <2>2. place[k] \in DOMAIN out /\ (~query.json => ~out[place[k]].header)
    BY <2>1 DEF KeptLines, Reaches
  <2>3. Piped[k].type = out[place[k]].type
        /\ Piped[k].disk = IF query.json THEN out[place[k]].target ELSE out[place[k]].disk
    BY <1>5 DEF Reads
  <2>4. CASE query.json
    BY <1>2, <2>2, <2>3, <2>4 DEF PrintedRows
  <2>5. CASE ~query.json
    <3>1. DOMAIN out = 1 .. n + 1 /\ out[1] = Header /\ n # 0
      BY <1>2, <2>2, <2>5 DEF PrintedRows
    <3>2. place[k] # 1
      BY <2>2, <2>5, <3>1 DEF Header
    <3> DEFINE i == place[k] - 1
    <3>3. i \in 1 .. n /\ place[k] = i + 1
      BY <2>2, <3>1, <3>2
    <3>4. out[i + 1] = [header |-> FALSE, type |-> row[i].type, gpu |-> row[i].gpu,
                        disk |-> GB * Rounded(TargetDisk(row[i], d))]
      BY <1>2, <2>5, <3>1, <3>3 DEF PrintedRows
    <3>5. at[k] = i
      BY <2>5
    <3> HIDE DEF i
    <3> QED
      BY <2>3, <2>5, <3>3, <3>4, <3>5
  <2> QED
    BY <1>0, <2>4, <2>5
<1>8. ASSUME NEW j \in DOMAIN Piped, NEW k \in DOMAIN Piped, j < k PROVE at[j] < at[k]
  <2>1. place[j] < place[k]
    BY <1>5, <1>8 DEF Reads
  <2>2. place[j] \in Int /\ place[k] \in Int
    <3>1. place[j] \in DOMAIN out /\ place[k] \in DOMAIN out
      BY <1>5 DEF Reads, Bijection, Injection, KeptLines
    <3> QED
      BY <1>3, <3>1
  <2> QED
    BY <2>1, <2>2
<1> HIDE DEF at
<1>9. at \in [DOMAIN Piped -> 1 .. n]
  BY <1>7 DEF at
<1>10. Comes(n, row, at)
  BY <1>2, <1>7, <1>8 DEF Comes, PrintedRows
<1>11. ASSUME NEW k \in DOMAIN Piped PROVE Piped[k] \in TypeSpec
  <2>1. Piped[k].type \in STRING /\ Piped[k].disk \in Nat
    <3> DEFINE r == row[at[k]]
    <3>1. IsRow(r) /\ r.type \in STRING
      BY <1>6, <1>7
    <3>2. Piped[k].type = r.type
          /\ Piped[k].disk \in {TargetDisk(r, d), GB * Rounded(TargetDisk(r, d))}
      BY <1>7
    <3> HIDE DEF r
    <3>3. TargetDisk(r, d) \in Nat /\ GB * Rounded(TargetDisk(r, d)) \in Nat
      BY <1>0, <3>1, TargetNat
    <3> QED
      BY <3>1, <3>2, <3>3
  <2>2. Piped[k] = [type |-> Piped[k].type, disk |-> Piped[k].disk]
    BY DEF Piped, ParseJSON, ParseTable
  <2> QED
    BY <2>1, <2>2 DEF TypeSpec
<1>12. Piped \in Seq(TypeSpec)
  <2>1. Piped = [k \in DOMAIN Piped |-> Piped[k]]
    BY DEF Piped, ParseJSON, ParseTable
  <2>2. PICK N \in Nat : DOMAIN Piped = 1 .. N
    BY <1>4
  <2> DEFINE read == Piped
  <2>3. read \in [1 .. N -> TypeSpec]
    BY <1>11, <2>1, <2>2
  <2> HIDE DEF read
  <2>4. read \in Seq(TypeSpec)
    BY <2>3, Listed
  <2> QED
    BY <2>4 DEF read
<1> QED
  BY <1>4, <1>9, <1>10, <1>12

-----------------------------------------------------------------------------
(* The invariant is inductive.                                             *)

LEMMA InitPipeInv == PInit => PipeInv
<1> SUFFICES ASSUME PInit PROVE PipeInv
  OBVIOUS
<1>1. listing \in Seq(Types)
  BY InputsAssumption DEF PInit, Types
<1>2. listing \in [1 .. Len(listing) -> Types] /\ IsFiniteSet(1 .. Len(listing))
  BY <1>1, FS_Interval
<1>3. opts \in CreateFlags /\ query \in SearchFlags /\ (query.json => opts.grep = Anything)
  <2>1. PICK s \in Pipelines : query = s.query /\ opts = s.opts
    BY DEF PInit
  <2>2. s \in [query : SearchFlags, opts : CreateFlags]
        /\ (s.query.json => s.opts.grep = Anything)
    BY <2>1, InputsAssumption
  <2> QED
    BY <2>1, <2>2
<1>4. found = {} /\ specs = <<>> /\ requests = <<>> /\ turn = 1
  BY DEF PInit
<1>5. specs \in Seq(TypeSpec) /\ requests \in Seq(Asked)
  BY <1>4
<1>6. Typed
  BY <1>2, <1>3, <1>4, <1>5, FS_EmptySet DEF Typed
<1>7. PipeControl /\ Printed /\ FromPipe /\ FromFlags
  BY DEF PInit, PipeControl, Printed, FromPipe, FromFlags
<1> QED
  BY <1>6, <1>7 DEF PipeInv

\* What a step leaves alone.
LEMMA AskedStays == UNCHANGED <<opts, specs>> => Asked' = Asked
  BY DEF Asked, Request, Disk, Builds, Firewall

LEMMA PrintedStays ==
  ASSUME UNCHANGED <<query, out, opts>>
  PROVE  Piped' = Piped /\ \A rows : Results(rows)' = Results(rows) /\ Display(rows)' = Display(rows)
  BY DEF Piped, Results, Filtered, Display

LEMMA FlagsStay ==
  ASSUME UNCHANGED opts
  PROVE  \A rows, f : SearchInstances(rows, f)' = SearchInstances(rows, f)
  BY DEF SearchInstances

LEMMA Restricted ==
  ASSUME NEW places, IsFiniteSet(places), NEW items \in [places -> Types],
         NEW S \in SUBSET places
  PROVE  IsFiniteSet(S) /\ Restrict(items, S) \in [S -> Types]
  BY FS_Subset DEF Restrict

LEMMA FetchedRows ==
  ASSUME Typed, NEW cpu \in BOOLEAN
  PROVE  /\ IsFiniteSet(ProcessInstances(Fetched(cpu)))
         /\ \A r \in ProcessInstances(Fetched(cpu)) : IsRow(r)
         /\ ~cpu => \A r \in ProcessInstances(Fetched(cpu)) : r.maker # "cpu"
<1>1. PICK places : IsFiniteSet(places) /\ listing \in [places -> Types]
  BY DEF Typed
<1> DEFINE S == {k \in DOMAIN listing : listing[k].gpus # <<>>}
<1>2. S \in SUBSET places
  BY <1>1
<1>3. CASE cpu
  BY <1>1, <1>3, ProcessedRows DEF Fetched
<1>4. CASE ~cpu
  <2> DEFINE items == Restrict(listing, S)
  <2>1. IsFiniteSet(S) /\ items \in [S -> Types]
    BY <1>1, <1>2, Restricted
  <2>2. \A k \in S : items[k].gpus # <<>>
    BY <1>1 DEF Restrict
  <2>3. Fetched(cpu) = items
    BY <1>4 DEF Fetched
  <2> HIDE DEF S, items
  <2> QED
    BY <2>1, <2>2, <2>3, ProcessedRows, MakersNamed
<1> QED
  BY <1>3, <1>4

LEMMA SearchKeeps == PipeInv /\ Search => PipeInv'
<1> SUFFICES ASSUME PipeInv, Search PROVE PipeInv'
  OBVIOUS
<1>1. /\ UNCHANGED <<listing, query, opts, cpc, specs, origin, turn, requests>>
      /\ spc = "run" /\ spc' = "exit" /\ origin = "none"
  BY DEF Search, PipeInv, PipeControl
<1>2. \/ /\ found' = ProcessInstances(Fetched(query.cpu))
         /\ \E rows \in Results(found') : out' = Display(rows)
      \/ UNCHANGED <<out, found>>
  BY DEF Search
<1>3. query.cpu \in BOOLEAN
  BY DEF PipeInv, Typed, SearchFlags
<1>4. IsFiniteSet(found') /\ \A r \in found' : IsRow(r)
  BY <1>2, <1>3, FetchedRows DEF PipeInv, Typed
<1>5. Typed'
  BY <1>1, <1>4, AskedStays DEF PipeInv, Typed
<1>6. PipeControl'
  BY <1>1 DEF PipeInv, PipeControl
<1>7. Printed'
  <2>1. \A rows : Results(rows)' = Results(rows)'
    OBVIOUS
  <2>2. CASE UNCHANGED <<out, found>>
    BY <1>1, <2>2, PrintedStays DEF PipeInv, Printed
  <2>3. CASE \E rows \in Results(found') : out' = Display(rows)
    BY <1>1, <2>3 DEF Printed, Results, Filtered, Display
  <2> QED
    BY <1>2, <2>2, <2>3
<1>8. FromPipe' /\ FromFlags'
  BY <1>1 DEF FromPipe, FromFlags
<1> QED
  BY <1>5, <1>6, <1>7, <1>8 DEF PipeInv

LEMMA SoldOutKeeps == PipeInv /\ SoldOut => PipeInv'
<1> SUFFICES ASSUME PipeInv, SoldOut PROVE PipeInv'
  OBVIOUS
<1>1. UNCHANGED <<query, spc, out, opts, cpc, specs, origin, turn, requests, found>>
  BY DEF SoldOut, search
<1>2. \E places : IsFiniteSet(places) /\ listing' \in [places -> Types]
  <2>1. PICK places : IsFiniteSet(places) /\ listing \in [places -> Types]
    BY DEF PipeInv, Typed
  <2>2. PICK k \in DOMAIN listing : listing' = Restrict(listing, DOMAIN listing \ {k})
    BY DEF SoldOut
  <2>3. DOMAIN listing \ {k} \in SUBSET places
    BY <2>1
  <2> QED
    BY <2>1, <2>2, <2>3, Restricted
<1>3. Typed'
  BY <1>1, <1>2, AskedStays DEF PipeInv, Typed
<1>4. PipeControl' /\ Printed' /\ FromPipe' /\ FromFlags'
  BY <1>1, PrintedStays, FlagsStay DEF PipeInv, PipeControl, Printed, FromPipe, FromFlags
<1> QED
  BY <1>3, <1>4 DEF PipeInv

\* A step of create that only goes on.
LEMMA GoesOn ==
  ASSUME PipeInv, PipeControl',
         UNCHANGED <<listing, search, opts, specs, origin, turn, requests, found>>
  PROVE  PipeInv'
<1>1. UNCHANGED <<listing, query, spc, out, opts, specs, origin, turn, requests, found>>
  BY DEF search
<1>2. Typed'
  BY <1>1, AskedStays DEF PipeInv, Typed
<1>3. Printed' /\ FromPipe' /\ FromFlags'
  BY <1>1, PrintedStays, FlagsStay DEF PipeInv, Printed, FromPipe, FromFlags
<1> QED
  BY <1>2, <1>3 DEF PipeInv

LEMMA EndKeeps == PipeInv /\ End => PipeInv'
<1> SUFFICES ASSUME PipeInv, End PROVE PipeInv'
  OBVIOUS
<1>1. UNCHANGED <<listing, search, opts, specs, origin, turn, requests, found>>
      /\ cpc' = "end"
  BY DEF End, Goto
<1>2. PipeControl'
  BY <1>1 DEF PipeInv, PipeControl, search
<1> QED
  BY <1>1, <1>2, GoesOn

LEMMA StartKeeps == PipeInv /\ Start => PipeInv'
<1> SUFFICES ASSUME PipeInv, Start, ~End PROVE PipeInv'
  BY EndKeeps
<1>1. UNCHANGED <<listing, search, opts, specs, origin, turn, requests, found>>
      /\ cpc = "start" /\ cpc' = "read"
  BY DEF Start, Goto
<1>2. PipeControl'
  BY <1>1 DEF PipeInv, PipeControl, search
<1> QED
  BY <1>1, <1>2, GoesOn

LEMMA FlaggedTypes ==
  Typed => /\ Flagged \in Seq(TypeSpec)
           /\ opts.types = <<>> => Flagged = <<>>
<1> SUFFICES ASSUME Typed PROVE Flagged \in Seq(TypeSpec) /\ (opts.types = <<>> => Flagged = <<>>)
  OBVIOUS
<1>1. opts.types \in Seq(STRING)
  BY DEF Typed, CreateFlags
<1>2. /\ Len(opts.types) \in Nat /\ DOMAIN opts.types = 1 .. Len(opts.types)
      /\ \A k \in 1 .. Len(opts.types) : opts.types[k] \in STRING
      /\ opts.types = <<>> => Len(opts.types) = 0
  BY <1>1
<1>3. Flagged \in [1 .. Len(opts.types) -> TypeSpec]
  BY <1>2 DEF Flagged, TypeSpec
<1>4. Flagged \in Seq(TypeSpec) /\ Len(Flagged) = Len(opts.types)
  <2> DEFINE F == Flagged
  <2> HIDE DEF F
  <2>1. F \in [1 .. Len(opts.types) -> TypeSpec]
    BY <1>3 DEF F
  <2>2. F \in Seq(TypeSpec) /\ Len(F) = Len(opts.types)
    BY <1>2, <2>1, Listed
  <2> QED
    BY <2>2 DEF F
<1>5. \A s \in Seq(TypeSpec) : Len(s) = 0 => s = <<>>
  OBVIOUS
<1> QED
  BY <1>2, <1>4, <1>5

LEMMA ReadTypesKeeps == PipeInv /\ ReadTypes => PipeInv'
<1> SUFFICES ASSUME PipeInv, ReadTypes, ~End PROVE PipeInv'
  BY EndKeeps
<1>1. /\ UNCHANGED <<listing, query, spc, out, opts, turn, requests, found>>
      /\ cpc = "read" /\ cpc' = "resolve"
      /\ specs' = IF ReadsPipe THEN Flagged \o Piped ELSE Flagged
      /\ origin' = IF specs' = <<>> THEN "none"
                   ELSE IF opts.types = <<>> THEN "pipe" ELSE "flag"
      /\ ReadsPipe => opts.stdin = "search" /\ spc = "exit"
  BY DEF ReadTypes, Goto, search
<1>2. origin = "none" /\ specs = <<>> /\ requests = <<>>
  BY <1>1 DEF PipeInv, PipeControl
<1>3. out = <<>> \/ \E rows \in Results(found) : out = Display(rows)
  BY <1>2 DEF PipeInv, Printed
<1>4. Piped \in Seq(TypeSpec) /\ Flagged \in Seq(TypeSpec)
      /\ (opts.types = <<>> => Flagged = <<>>)
  BY <1>3, PipedTypes, FlaggedTypes DEF PipeInv
<1>5. \A s \in Seq(TypeSpec) : <<>> \o s = s
  OBVIOUS
<1>6. specs' \in Seq(TypeSpec)
  <2>1. Flagged \o Piped \in Seq(TypeSpec)
    BY <1>4
  <2> QED
    BY <1>1, <1>4, <2>1
<1>7. Typed'
  <2>1. requests' \in Seq(Asked')
    BY <1>1, <1>2
  <2> QED
    BY <1>1, <1>6, <2>1 DEF PipeInv, Typed
<1>8. PipeControl'
  BY <1>1, <1>2 DEF PipeInv, PipeControl, ReadsPipe
<1>9. Printed'
  BY <1>1, <1>3, PrintedStays DEF Printed
<1>10. FromPipe'
  <2> SUFFICES ASSUME origin' = "pipe" PROVE spc' = "exit" /\ specs' = Piped'
    BY DEF FromPipe
  <2>1. specs' # <<>> /\ opts.types = <<>> /\ Flagged = <<>>
    BY <1>1, <1>4
  <2>2. ReadsPipe /\ specs' = Flagged \o Piped
    BY <1>1, <2>1
  <2>3. specs' = Piped
    BY <1>4, <1>5, <2>1, <2>2
  <2> QED
    BY <1>1, <2>2, <2>3, PrintedStays
<1>11. FromFlags'
  BY <1>1 DEF FromFlags
<1> QED
  BY <1>7, <1>8, <1>9, <1>10, <1>11 DEF PipeInv

LEMMA LaunchedKeeps == PipeInv /\ cpc = "resolve" /\ Launched => PipeInv'
<1> SUFFICES ASSUME PipeInv, cpc = "resolve", Launched, ~End PROVE PipeInv'
  BY EndKeeps
<1>1. /\ UNCHANGED <<listing, query, spc, out, opts, turn, requests, found>>
      /\ cpc' = "context" /\ origin' = "launchable"
      /\ specs' = <<[type |-> LaunchType, disk |-> 0]>>
      /\ specs = <<>>
  BY DEF Launched, Goto, search
<1>2. requests = <<>> /\ spc # "run"
  BY DEF PipeInv, PipeControl
<1>3. specs' \in Seq(TypeSpec)
  <2>1. [type |-> LaunchType, disk |-> 0] \in TypeSpec
    BY DEF TypeSpec
  <2> QED
    BY <1>1, <2>1
<1>4. Typed'
  <2>1. requests' \in Seq(Asked')
    BY <1>1, <1>2
  <2> QED
    BY <1>1, <1>3, <2>1 DEF PipeInv, Typed
<1>5. Printed'
  <2>1. origin # "filters"
    <3> SUFFICES ASSUME origin = "filters" PROVE FALSE
      OBVIOUS
    <3> QED
      BY <1>1 DEF PipeInv, PipeControl
  <2> QED
    BY <1>1, <2>1, PrintedStays DEF PipeInv, Printed
<1>6. PipeControl' /\ FromPipe' /\ FromFlags'
  BY <1>1, <1>2 DEF PipeControl, FromPipe, FromFlags
<1> QED
  BY <1>4, <1>5, <1>6 DEF PipeInv

LEMMA MergedDisk ==
  \A f \in FilterOptions : Merged(f).disk \in Nat \ {0}
<1> TAKE f \in FilterOptions
<1>1. f.disk \in Nat
  BY DEF FilterOptions
<1>2. Merged(f).disk = OrDefault(f.disk, 500 * GB)
  BY DEF Merged, FilterOptions
<1> QED
  BY <1>1, <1>2 DEF OrDefault, GB

\* The rows create's own filters give it.
LEMMA SearchedRows ==
  ASSUME opts \in CreateFlags, NEW S, IsFiniteSet(S), \A r \in S : IsRow(r),
         NEW rows \in SearchInstances(S, opts.filter)
  PROVE  \E n \in Nat :
           /\ DOMAIN rows = 1 .. n
           /\ rows \in Bijection(1 .. n, FilterInstances(S, Merged(opts.filter), TRUE))
           /\ \A k \in 1 .. n : rows[k] \in S /\ rows[k].max >= Merged(opts.filter).disk
           /\ \A j, k \in 1 .. n :
                j < k => Known(opts.column, opts.descending, rows[j], rows[k])
<1> DEFINE T == FilterInstances(S, Merged(opts.filter), TRUE)
           n == Cardinality(T)
<1>1. T \in SUBSET S /\ \A r \in T : r.max >= Merged(opts.filter).disk
  BY DEF FilterInstances, Matches, MatchesNumbers
<1>2. IsFiniteSet(T)
  BY <1>1, FS_Subset
<1>3. rows \in SortInstances(T, opts.column, opts.descending)
  BY DEF SearchInstances
<1> HIDE DEF T
<1>4. /\ n \in Nat /\ rows \in Bijection(1 .. n, T) /\ rows \in [1 .. n -> T]
      /\ \A j, k \in 1 .. n :
           j < k => Placed(opts.column, opts.descending, rows[j], rows[k])
  BY <1>2, <1>3, SortedRows
<1>5. opts.descending \in BOOLEAN
  BY DEF CreateFlags
<1> HIDE DEF n
<1>6. \A k \in 1 .. n : rows[k].boot \in Nat /\ Key(opts.column, rows[k]) \in Nat
  BY <1>1, <1>4, RowTyped, KeyNat
<1>7. \A j, k \in 1 .. n : j < k => Known(opts.column, opts.descending, rows[j], rows[k])
  BY <1>4, <1>5, <1>6, SortedKnown
<1>8. \A k \in 1 .. n : rows[k] \in S /\ rows[k].max >= Merged(opts.filter).disk
  BY <1>1, <1>4
<1>9. DOMAIN rows = 1 .. n
  BY <1>4
<1> QED
  BY <1>4, <1>7, <1>8, <1>9 DEF T

LEMMA FromFiltersKeeps == PipeInv /\ cpc = "resolve" /\ FromFilters => PipeInv'
<1> SUFFICES ASSUME PipeInv, cpc = "resolve", FromFilters, ~End PROVE PipeInv'
  BY EndKeeps
<1>1. /\ UNCHANGED <<listing, query, spc, out, opts, turn, requests>>
      /\ cpc' = "context" /\ origin' = "filters"
      /\ found' = ProcessInstances(Fetched(FALSE))
      /\ \E rows \in SearchInstances(found', opts.filter) :
           specs' = [k \in DOMAIN rows |->
             [type |-> rows[k].type, disk |-> DiskFor(rows[k], opts.filter)]]
  BY DEF FromFilters, Goto, search
<1>2. requests = <<>> /\ spc # "run"
  BY DEF PipeInv, PipeControl
<1>3. IsFiniteSet(found') /\ \A r \in found' : IsRow(r) /\ r.maker # "cpu"
  BY <1>1, FetchedRows DEF PipeInv
<1>4. specs' \in Seq(TypeSpec)
  <2>1. PICK rows \in SearchInstances(found', opts.filter) :
          specs' = [k \in DOMAIN rows |->
             [type |-> rows[k].type, disk |-> DiskFor(rows[k], opts.filter)]]
    BY <1>1
  <2>2. opts \in CreateFlags /\ opts.filter \in FilterOptions
    BY DEF PipeInv, Typed, CreateFlags
  <2> DEFINE S == found'
  <2>3. IsFiniteSet(S) /\ (\A r \in S : IsRow(r)) /\ rows \in SearchInstances(S, opts.filter)
    BY <1>3, <2>1
  <2> HIDE DEF S
  <2>4. PICK n \in Nat : DOMAIN rows = 1 .. n /\ \A k \in 1 .. n : rows[k] \in S
    BY <2>2, <2>3, SearchedRows
  <2>5. ASSUME NEW k \in 1 .. n
        PROVE  rows[k].type \in STRING /\ DiskFor(rows[k], opts.filter) \in Nat
    <3>1. IsRow(rows[k])
      BY <2>3, <2>4
    <3>2. rows[k].type \in STRING /\ rows[k].min \in Nat
      BY <3>1, RowTyped
    <3>3. Merged(opts.filter).disk \in Nat
      BY <2>2, MergedDisk
    <3> QED
      BY <3>2, <3>3 DEF DiskFor
  <2> DEFINE new == specs'
  <2>6. new \in [1 .. n -> TypeSpec]
    BY <2>1, <2>4, <2>5 DEF TypeSpec
  <2> HIDE DEF new
  <2>7. new \in Seq(TypeSpec)
    BY <2>6, Listed
  <2> QED
    BY <2>7 DEF new
<1>5. Typed'
  <2>1. requests' \in Seq(Asked')
    BY <1>1, <1>2
  <2> QED
    BY <1>1, <1>3, <1>4, <2>1 DEF PipeInv, Typed
<1>6. PipeControl' /\ Printed' /\ FromPipe'
  BY <1>1, <1>2 DEF PipeControl, Printed, FromPipe
<1>7. FromFlags'
  <2>1. PICK rows \in SearchInstances(found', opts.filter) :
          specs' = [k \in DOMAIN rows |->
             [type |-> rows[k].type, disk |-> DiskFor(rows[k], opts.filter)]]
    BY <1>1
  <2>2. rows \in SearchInstances(found, opts.filter)'
    BY <1>1, <2>1 DEF SearchInstances
  <2>3. \A k : DiskFor(rows[k], opts.filter') = DiskFor(rows[k], opts.filter)
    BY <1>1
  <2>4. specs' = [k \in DOMAIN rows |->
             [type |-> rows[k].type, disk |-> DiskFor(rows[k], opts.filter')]]
    BY <2>1, <2>3
  <2> QED
    BY <1>3, <2>2, <2>4 DEF FromFlags
<1> QED
  BY <1>5, <1>6, <1>7 DEF PipeInv

LEMMA AsGivenKeeps == PipeInv /\ cpc = "resolve" /\ AsGiven => PipeInv'
<1> SUFFICES ASSUME PipeInv, cpc = "resolve", AsGiven PROVE PipeInv'
  OBVIOUS
<1>1. UNCHANGED <<listing, search, opts, specs, origin, turn, requests, found>>
      /\ cpc' = "context"
  BY DEF AsGiven, Goto
<1>2. PipeControl'
  BY <1>1 DEF PipeInv, PipeControl, search
<1> QED
  BY <1>1, <1>2, GoesOn

LEMMA ContextKeeps == PipeInv /\ Context => PipeInv'
<1> SUFFICES ASSUME PipeInv, Context, ~End PROVE PipeInv'
  BY EndKeeps
<1>1. UNCHANGED <<listing, search, opts, specs, origin, turn, requests, found>>
      /\ cpc = "context" /\ cpc' = "try"
  BY DEF Context, Goto
<1>2. PipeControl'
  BY <1>1 DEF PipeInv, PipeControl, search
<1> QED
  BY <1>1, <1>2, GoesOn

LEMMA TryKeeps == PipeInv /\ Try => PipeInv'
<1> SUFFICES ASSUME PipeInv, Try PROVE PipeInv'
  OBVIOUS
<1>1. /\ UNCHANGED <<listing, query, spc, out, opts, specs, origin, found>>
      /\ cpc = "try" /\ cpc' \in {"try", "end"}
      /\ turn <= Len(specs) /\ turn' = turn + 1
      /\ \/ requests' = requests
         \/ \E address \in BOOLEAN : requests' = Append(requests, Request(specs[turn], address))
  BY DEF Try, search
<1>2. turn \in Nat \ {0} /\ specs \in Seq(TypeSpec) /\ requests \in Seq(Asked)
  BY DEF PipeInv, Typed
<1>3. turn \in DOMAIN specs
  BY <1>1, <1>2
<1>4. requests' \in Seq(Asked)
  <2>1. \A address \in BOOLEAN : Request(specs[turn], address) \in Asked
    BY <1>3 DEF Asked
  <2> QED
    BY <1>1, <1>2, <2>1
<1>5. Asked' = Asked
  BY <1>1, AskedStays
<1>6. turn' \in Nat \ {0}
  BY <1>1, <1>2
<1>7. Typed'
  BY <1>1, <1>4, <1>5, <1>6 DEF PipeInv, Typed
<1>8. PipeControl'
  <2>1. spc # "run"
    BY <1>1 DEF PipeInv, PipeControl
  <2> QED
    BY <1>1, <2>1 DEF PipeControl
<1>9. Printed' /\ FromPipe' /\ FromFlags'
  BY <1>1, PrintedStays, FlagsStay DEF PipeInv, Printed, FromPipe, FromFlags
<1> QED
  BY <1>7, <1>8, <1>9 DEF PipeInv

LEMMA PipeInvNext == PipeInv /\ [PNext]_pvars => PipeInv'
<1> SUFFICES ASSUME PipeInv, [PNext]_pvars PROVE PipeInv'
  OBVIOUS
<1>1. CASE Search
  BY <1>1, SearchKeeps
<1>2. CASE SoldOut
  BY <1>2, SoldOutKeeps
<1>3. CASE Create
  <2>1. CASE Start
    BY <2>1, StartKeeps
  <2>2. CASE ReadTypes
    BY <2>2, ReadTypesKeeps
  <2>3. CASE ResolveInstanceTypes
    BY <2>3, LaunchedKeeps, FromFiltersKeeps, AsGivenKeeps DEF ResolveInstanceTypes
  <2>4. CASE Context
    BY <2>4, ContextKeeps
  <2>5. CASE Try
    BY <2>5, TryKeeps
  <2>6. CASE OutOfTypes
    BY <2>6, EndKeeps DEF OutOfTypes
  <2> QED
    BY <1>3, <2>1, <2>2, <2>3, <2>4, <2>5, <2>6 DEF Create
<1>4. CASE UNCHANGED pvars
  <2>1. /\ UNCHANGED <<listing, search, opts, specs, origin, turn, requests, found>>
        /\ UNCHANGED <<spc, out, cpc>>
    BY <1>4 DEF pvars, search
  <2>2. PipeControl'
    BY <2>1 DEF PipeInv, PipeControl
  <2> QED
    BY <2>1, <2>2, GoesOn
<1> QED
  BY <1>1, <1>2, <1>3, <1>4 DEF PNext

(* What search printed is what it found, filtered and sorted, and stays so *)
(* until create has read it; what create tries and asks for is of it, or   *)
(* of create's own filters.                                                *)
THEOREM PipeInvCorrect == PSpec => []PipeInv
  BY InitPipeInv, PipeInvNext, PTL DEF PSpec

-----------------------------------------------------------------------------
(* What follows from it.                                                   *)

LEMMA KeptAll == PipeInv => PipeKept
<1> SUFFICES ASSUME PipeInv, origin = "pipe"
             PROVE  \E place \in Bijection(DOMAIN specs, KeptLines) :
                      /\ \A k \in DOMAIN specs : specs[k].type = out[place[k]].type
                      /\ \A j, k \in DOMAIN specs : j < k => place[j] < place[k]
  BY DEF PipeKept
<1>1. specs = Piped /\ (out = <<>> \/ \E rows \in Results(found) : out = Display(rows))
  BY DEF PipeInv, FromPipe, Printed
<1>2. PICK place : Reads(place)
  BY <1>1, PipedTypes DEF PipeInv
<1> QED
  BY <1>1, <1>2 DEF Reads

\* A disk between those the type has and no less than the one asked for.
LEMMA DiskBetween ==
  ASSUME NEW r, IsRow(r), NEW d \in Nat, NEW T \in Nat,
         r.min <= T, T <= r.max, d <= T,
         NEW spec, spec.disk \in {T, GB * Rounded(T)}, opts.launchable = "none"
  PROVE  /\ \/ Disk(spec) \in Rounded(r.min) .. Rounded(r.max)
            \/ Rounded(r.min) = 0 /\ Disk(spec) = DefaultDisk
         /\ Disk(spec) >= Rounded(d)
<1>1. r.min \in Nat /\ r.max \in Nat
  BY RowTyped
<1>2. /\ Rounded(r.min) \in Nat /\ Rounded(r.max) \in Nat
      /\ Rounded(T) \in Nat /\ Rounded(d) \in Nat
      /\ Rounded(r.min) <= Rounded(T) /\ Rounded(T) <= Rounded(r.max)
      /\ Rounded(d) <= Rounded(T)
  BY <1>1, RoundedNat, RoundedGrows
<1>3. /\ Rounded(spec.disk) = Rounded(T) /\ spec.disk \in Nat
      /\ ~(spec.disk > 0) => Rounded(T) = 0
  <2>1. Rounded(GB * Rounded(T)) = Rounded(T) /\ GB * Rounded(T) \in Nat
    BY <1>2, RoundedWhole
  <2>2. Rounded(0) = 0
    BY DEF Rounded, GB
  <2>3. CASE spec.disk = T
    BY <2>2, <2>3
  <2>4. CASE spec.disk = GB * Rounded(T)
    BY <2>1, <2>2, <2>4
  <2> QED
    BY <2>3, <2>4
<1>4. Disk(spec) = IF spec.disk > 0 THEN Rounded(spec.disk) ELSE DefaultDisk
  BY DEF Disk
<1>5. CASE spec.disk > 0
  BY <1>2, <1>3, <1>4, <1>5
<1>6. CASE ~(spec.disk > 0)
  BY <1>2, <1>3, <1>4, <1>6 DEF DefaultDisk
<1> QED
  BY <1>5, <1>6

\* The disk that either command chooses is one of those.
LEMMA TargetBetween ==
  ASSUME NEW r, IsRow(r), NEW d \in Nat, r.max >= d
  PROVE  LET T == TargetDisk(r, d) IN T \in Nat /\ r.min <= T /\ T <= r.max /\ d <= T
  BY RowTyped DEF TargetDisk

LEMMA DiskForBetween ==
  ASSUME NEW r, IsRow(r), NEW f \in FilterOptions, r.max >= Merged(f).disk
  PROVE  LET T == DiskFor(r, f) IN
         T \in Nat /\ r.min <= T /\ T <= r.max /\ Merged(f).disk <= T
<1>1. Merged(f).disk \in Nat
  BY MergedDisk
<1> QED
  BY <1>1, RowTyped DEF DiskFor

LEMMA DiskKept == PipeInv => DiskHonoured
<1> SUFFICES ASSUME PipeInv, origin \in {"pipe", "filters"}, opts.launchable = "none",
                    NEW q \in ToSet(requests)
             PROVE  \E r \in found :
                      /\ q.type = r.type
                      /\ \/ q.disk \in Rounded(r.min) .. Rounded(r.max)
                         \/ Rounded(r.min) = 0 /\ q.disk = DefaultDisk
                      /\ q.disk >= Rounded(Chosen.disk)
  BY DEF DiskHonoured
<1>1. PICK k \in DOMAIN specs : q.type = specs[k].type /\ q.disk = Disk(specs[k])
  <2>1. requests \in Seq(Asked)
    BY DEF PipeInv, Typed
  <2>2. q \in Asked
    BY <2>1 DEF ToSet
  <2> QED
    BY <2>2 DEF Asked, Request
<1>2. CASE origin = "pipe"
  <2>1. specs = Piped /\ (out = <<>> \/ \E rows \in Results(found) : out = Display(rows))
    BY <1>2 DEF PipeInv, FromPipe, Printed
  <2>2. PICK n \in Nat : \E row \in [1 .. n -> found] :
               \E at \in [DOMAIN Piped -> 1 .. n] : Comes(n, row, at)
    BY <2>1, PipedTypes DEF PipeInv
  <2>3. PICK row \in [1 .. n -> found] : \E at \in [DOMAIN Piped -> 1 .. n] : Comes(n, row, at)
    BY <2>2
  <2>4. PICK at \in [DOMAIN Piped -> 1 .. n] : Comes(n, row, at)
    BY <2>3
  <2> DEFINE d == query.filter.disk
             r == row[at[k]]
  <2>5. at[k] \in 1 .. n /\ r \in found /\ d \in Nat /\ Chosen.disk = d
    BY <1>1, <1>2, <2>1 DEF PipeInv, Typed, SearchFlags, FilterOptions, Chosen
  <2>6. /\ r.max >= d /\ specs[k].type = r.type
        /\ specs[k].disk \in {TargetDisk(r, d), GB * Rounded(TargetDisk(r, d))}
    BY <1>1, <2>1, <2>4, <2>5 DEF Comes
  <2>7. IsRow(r)
    BY <2>5 DEF PipeInv, Typed
  <2> HIDE DEF r, d
  <2>8. /\ \/ Disk(specs[k]) \in Rounded(r.min) .. Rounded(r.max)
           \/ Rounded(r.min) = 0 /\ Disk(specs[k]) = DefaultDisk
        /\ Disk(specs[k]) >= Rounded(d)
    BY <2>5, <2>6, <2>7, TargetBetween, DiskBetween
  <2> QED
    BY <1>1, <2>5, <2>6, <2>8
<1>3. CASE origin = "filters"
  <2> DEFINE f == opts.filter
  <2>1. PICK rows \in SearchInstances(found, f) :
          specs = [i \in DOMAIN rows |->
            [type |-> rows[i].type, disk |-> DiskFor(rows[i], f)]]
    BY <1>3 DEF PipeInv, FromFlags
  <2>2. opts \in CreateFlags /\ f \in FilterOptions
    BY DEF PipeInv, Typed, CreateFlags
  <2>3. PICK n \in Nat :
          DOMAIN rows = 1 .. n
          /\ \A i \in 1 .. n : rows[i] \in found /\ rows[i].max >= Merged(f).disk
    BY <2>1, <2>2, SearchedRows DEF PipeInv, Typed
  <2> DEFINE r == rows[k]
  <2>4. /\ r \in found /\ r.max >= Merged(f).disk /\ IsRow(r)
        /\ specs[k].type = r.type /\ specs[k].disk = DiskFor(r, f)
    BY <1>1, <2>1, <2>3 DEF PipeInv, Typed
  <2>5. Chosen.disk = Merged(f).disk /\ Merged(f).disk \in Nat
    BY <1>3, <2>2, MergedDisk DEF Chosen
  <2> HIDE DEF r, f
  <2>6. LET T == DiskFor(r, f) IN T \in Nat /\ r.min <= T /\ T <= r.max /\ Merged(f).disk <= T
    BY <2>2, <2>4, DiskForBetween
  <2>7. /\ \/ Disk(specs[k]) \in Rounded(r.min) .. Rounded(r.max)
           \/ Rounded(r.min) = 0 /\ Disk(specs[k]) = DefaultDisk
        /\ Disk(specs[k]) >= Rounded(Merged(f).disk)
    BY <2>4, <2>5, <2>6, DiskBetween
  <2> QED
    BY <1>1, <2>4, <2>5, <2>7
<1> QED
  BY <1>2, <1>3

LEMMA OrderKept == PipeInv => TriedInOrder
<1> DEFINE by == IF origin = "pipe" THEN query ELSE opts
<1> SUFFICES ASSUME PipeInv, origin \in {"pipe", "filters"},
                    NEW j \in DOMAIN specs, NEW k \in DOMAIN specs, j < k
             PROVE  \E a, b \in found :
                      /\ a.type = specs[j].type /\ b.type = specs[k].type
                      /\ Known(by.column, by.descending, a, b)
  BY DEF TriedInOrder
<1>1. CASE origin = "pipe"
  <2>1. specs = Piped /\ (out = <<>> \/ \E rows \in Results(found) : out = Display(rows))
    BY <1>1 DEF PipeInv, FromPipe, Printed
  <2>2. PICK n \in Nat : \E row \in [1 .. n -> found] :
               \E at \in [DOMAIN Piped -> 1 .. n] : Comes(n, row, at)
    BY <2>1, PipedTypes DEF PipeInv
  <2>3. PICK row \in [1 .. n -> found] : \E at \in [DOMAIN Piped -> 1 .. n] : Comes(n, row, at)
    BY <2>2
  <2>4. PICK at \in [DOMAIN Piped -> 1 .. n] : Comes(n, row, at)
    BY <2>3
  <2>5. at[j] \in 1 .. n /\ at[k] \in 1 .. n /\ at[j] < at[k]
    BY <2>1, <2>4 DEF Comes
  <2>6. /\ row[at[j]] \in found /\ row[at[k]] \in found
        /\ row[at[j]].type = specs[j].type /\ row[at[k]].type = specs[k].type
        /\ Known(query.column, query.descending, row[at[j]], row[at[k]])
    BY <2>1, <2>4, <2>5 DEF Comes
  <2> QED
    BY <1>1, <2>6
<1>2. CASE origin = "filters"
  <2>1. PICK rows \in SearchInstances(found, opts.filter) :
          specs = [i \in DOMAIN rows |->
            [type |-> rows[i].type, disk |-> DiskFor(rows[i], opts.filter)]]
    BY <1>2 DEF PipeInv, FromFlags
  <2>2. PICK n \in Nat :
          /\ DOMAIN rows = 1 .. n /\ \A i \in 1 .. n : rows[i] \in found
          /\ \A i, l \in 1 .. n :
               i < l => Known(opts.column, opts.descending, rows[i], rows[l])
    BY <2>1, SearchedRows DEF PipeInv, Typed
  <2>3. /\ rows[j] \in found /\ rows[k] \in found
        /\ rows[j].type = specs[j].type /\ rows[k].type = specs[k].type
        /\ Known(opts.column, opts.descending, rows[j], rows[k])
    BY <2>1, <2>2
  <2> QED
    BY <1>2, <2>3
<1> QED
  BY <1>1, <1>2

LEMMA FlagsLikePipe == PipeInv => PipeOrFlags
<1> DEFINE f == opts.filter
           S == FilterInstances(found, f, FALSE)
<1> SUFFICES ASSUME PipeInv, origin = "filters", f = Merged(f)
             PROVE  \E row \in Bijection(DOMAIN specs, S) : \A k \in DOMAIN specs :
                      specs[k] = [type |-> row[k].type, disk |-> TargetDisk(row[k], f.disk)]
  BY DEF PipeOrFlags
<1>1. PICK rows \in SearchInstances(found, f) :
        specs = [k \in DOMAIN rows |->
          [type |-> rows[k].type, disk |-> DiskFor(rows[k], f)]]
  BY DEF PipeInv, FromFlags
<1>2. opts \in CreateFlags /\ f \in FilterOptions
  BY DEF PipeInv, Typed, CreateFlags
<1>3. PICK n \in Nat :
        /\ DOMAIN rows = 1 .. n
        /\ rows \in Bijection(1 .. n, FilterInstances(found, Merged(f), TRUE))
        /\ \A k \in 1 .. n : rows[k] \in found
  BY <1>1, <1>2, SearchedRows DEF PipeInv, Typed
<1>4. FilterInstances(found, Merged(f), TRUE) = S
  <2>1. \A r \in found : r.maker # "cpu"
    BY DEF PipeInv, FromFlags
  <2> HIDE DEF f
  <2> QED
    BY <2>1 DEF FilterInstances
<1>5. f.disk \in Nat \ {0}
  BY <1>2, MergedDisk
<1>6. ASSUME NEW k \in 1 .. n PROVE DiskFor(rows[k], f) = TargetDisk(rows[k], f.disk)
  <2>1. rows[k].min \in Nat /\ rows[k].max \in Nat
    BY <1>3, RowTyped DEF PipeInv, Typed
  <2> HIDE DEF f
  <2> QED
    BY <1>5, <2>1 DEF DiskFor, TargetDisk
<1>7. DOMAIN specs = 1 .. n /\ rows \in Bijection(DOMAIN specs, S)
  BY <1>1, <1>3, <1>4
<1>8. \A k \in DOMAIN specs :
        specs[k] = [type |-> rows[k].type, disk |-> TargetDisk(rows[k], f.disk)]
  BY <1>1, <1>3, <1>6, <1>7
<1> QED
  BY <1>7, <1>8

(* Whatever the API lists and the flags are, create tries the types that   *)
(* search printed and grep kept, in that order: headers are skipped, no    *)
(* line is read twice.                                                     *)
THEOREM PipeKeptCorrect == PSpec => []PipeKept
  BY PipeInvCorrect, KeptAll, PTL

(* A request's disk is one its type has and no less than --min-disk, to    *)
(* the nearest GB, although the table rounds and create rounds again.      *)
THEOREM DiskHonouredCorrect == PSpec => []DiskHonoured
  BY PipeInvCorrect, DiskKept, PTL

(* Types are tried in the order of --sort, unknown boot times last.        *)
THEOREM TriedInOrderCorrect == PSpec => []TriedInOrder
  BY PipeInvCorrect, OrderKept, PTL

(* create's own filters give it the types and disks that a search with the *)
(* same filters would have.                                                *)
THEOREM PipeOrFlagsCorrect == PSpec => []PipeOrFlags
  BY PipeInvCorrect, FlagsLikePipe, PTL
=============================================================================
