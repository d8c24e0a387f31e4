------------------------- MODULE NodeSSHAccessProofs -------------------------
(***************************************************************************)
(* Proofs about NodeSSHAccess for any set of processes, users, ports and   *)
(* keys: type correctness; that lines of other people's keys survive every *)
(* interleaving of the unlocked reads, truncations and writes but for the  *)
(* two that tear the file; and what the file owes to the grants, but for   *)
(* the tags of sessions that crossed.  Of one process none ever cross, and *)
(* the file is torn only by a failure or a kill.                           *)
(***************************************************************************)
EXTENDS NodeSSHAccess, TLAPS

USE NodeSSHAccessConstants

-----------------------------------------------------------------------------
(* What the edits of the file do.                                          *)

LEMMA InstallType ==
  ASSUME NEW file \in SUBSET Lines, NEW k \in Keys, NEW u \in Users,
         NEW q \in Ports, NEW new \in Install(file, k, u, q)
  PROVE  new \in SUBSET Lines
  BY DEF Install, Upgradable, Line, Lines, Tags, Tag

LEMMA InstallKeepsOthers ==
  ASSUME NEW file, NEW k, NEW u, NEW q, NEW new \in Install(file, k, u, q),
         NEW l, l.key # k
  PROVE  l \in file <=> l \in new
<1>1. Line(k, Tag(u, q)) # l
  BY DEF Line
<1>2. l \notin Upgradable(file, k)
  BY DEF Upgradable
<1> QED
  BY <1>1, <1>2 DEF Install

(* A line tells the tag it was written for.                                *)
LEMMA TagLineInjective ==
  ASSUME NEW g \in Users \X Ports, NEW h \in Users \X Ports, TagLine(g) = TagLine(h)
  PROVE  g = h
<1>1. /\ TagLine(g).mark.user = g[1] /\ TagLine(g).mark.port = g[2]
      /\ TagLine(h).mark.user = h[1] /\ TagLine(h).mark.port = h[2]
  BY DEF TagLine, Line, Tag
<1> QED
  BY <1>1

LEMMA GrantType ==
  ASSUME TypeOK, NEW p \in Procs
  PROVE  /\ Grant(p) \in Users \X Ports /\ Grant(p) = <<who[p], port[p]>>
         /\ Grant(p)[1] = who[p] /\ Key(p) = KeyOf[Grant(p)[1]]
         /\ Mine(p) = TagLine(Grant(p))
  BY DEF TypeOK, Grant, Key, Mine

(* A line of a stranger's key is not one that a session writes or takes    *)
(* out.                                                                    *)
LEMMA NotMine ==
  ASSUME TypeOK, NEW p \in Procs, NEW l \in Strangers
  PROVE  l.key # Key(p) /\ l # Mine(p)
<1>1. who[p] \in Users /\ Mine(p).key = Key(p)
  BY DEF TypeOK, Key, Mine, TagLine, Grant, Line
<1> QED
  BY <1>1 DEF Strangers, Key

(* A content that a session p may write: what it read, but for the line of *)
(* its own tag and those of its own key.                                   *)
Edits(p, content) ==
  /\ content \in SUBSET Lines
  /\ \A l \in Strangers : l \in content <=> l \in snapshot[p]
  /\ \A g \in Users \X Ports :
       g # Grant(p) => (TagLine(g) \in content <=> TagLine(g) \in snapshot[p])

LEMMA InstallEdits ==
  ASSUME TypeOK, NEW p \in Procs, Key(p) # NoKey,
         NEW new \in Install(snapshot[p], Key(p), who[p], port[p])
  PROVE  Edits(p, new) /\ Mine(p) \in new
<1>0. /\ who[p] \in Users /\ port[p] \in Ports /\ Key(p) \in Keys
      /\ snapshot[p] \in SUBSET Lines
  BY DEF TypeOK, Key
<1>1. Line(Key(p), Tag(who[p], port[p])) = Mine(p)
  BY DEF Mine, TagLine, Grant, Key
<1>2. \A g \in Users \X Ports : TagLine(g) \notin Upgradable(snapshot[p], Key(p))
  BY DEF Upgradable, TagLine, Line, Tag, Plain, Legacy
<1>3. \A g \in Users \X Ports : g # Grant(p) => TagLine(g) # Mine(p)
  BY GrantType, TagLineInjective
<1>4. new \in SUBSET Lines
  BY <1>0, InstallType
<1>5. \A l \in Strangers : l \in new <=> l \in snapshot[p]
  BY NotMine, InstallKeepsOthers
<1> QED
  BY <1>1, <1>2, <1>3, <1>4, <1>5 DEF Install, Edits

LEMMA RemoveEdits ==
  ASSUME TypeOK, NEW p \in Procs
  PROVE  /\ Edits(p, RemoveLine(snapshot[p], Mine(p)))
         /\ Mine(p) \notin RemoveLine(snapshot[p], Mine(p))
<1>1. snapshot[p] \in SUBSET Lines
  BY DEF TypeOK
<1>2. \A g \in Users \X Ports : g # Grant(p) => TagLine(g) # Mine(p)
  BY GrantType, TagLineInjective
<1> QED
  BY <1>1, <1>2, NotMine DEF Edits, RemoveLine

-----------------------------------------------------------------------------
(* The first inductive invariant: a process that edits the file has a key  *)
(* to edit, and as long as the file is not torn, what any of them read has *)
(* the strangers of the start, the file has no others, and it has all of   *)
(* them when nobody has it truncated.                                      *)

Keyed == \A p \in Procs : spc[p] \notin {"idle", "grant"} => Key(p) # NoKey
StrangersAgree ==
  ~Torn => \A l \in Strangers :
             /\ l \in keys => l \in first
             /\ l \in first => l \in keys \/ Truncating
             /\ \A r \in Procs : Editing(r) => (l \in snapshot[r] <=> l \in first)

IInv == TypeOK /\ Keyed /\ StrangersAgree

(* The kinds of steps, as far as the file is concerned: of one that leaves *)
(* it alone, ...                                                           *)
Quiet ==
  /\ UNCHANGED <<keys, first, torn>>
  /\ \A r \in Procs : Editing(r)' => Editing(r) /\ snapshot'[r] = snapshot[r]
  /\ Truncating => Truncating'

(* ... of one that reads it, ...                                           *)
Reads(p) ==
  /\ UNCHANGED <<keys, first, crossed>> /\ TornIf(Truncating, "peeked")
  /\ \A r \in Procs \ {p} : spc'[r] = spc[r] /\ snapshot'[r] = snapshot[r]
  /\ Editing(p)' => snapshot'[p] = keys
  /\ ~Editing(p) /\ ~Truncated(p)'

(* ... of one that truncates it, ...                                       *)
Truncates(p) ==
  /\ UNCHANGED <<first, torn, crossed, snapshot>> /\ keys' = {}
  /\ \A r \in Procs \ {p} : spc'[r] = spc[r]
  /\ Editing(p) /\ Truncated(p)'

(* ... of one that writes it, ...                                          *)
Writes(p, content) ==
  /\ UNCHANGED <<first, torn>> /\ crossed' = crossed \cup Overlapping(p)
  /\ Edits(p, content) /\ keys' \in Landed(keys, content)
  /\ \A r \in Procs \ {p} : spc'[r] = spc[r] /\ snapshot'[r] = snapshot[r]
  /\ Truncated(p) /\ ~Editing(p)'

(* ... and of one that leaves it torn.                                     *)
Tears == Torn'

LEMMA QuietStrangers == StrangersAgree /\ Quiet => StrangersAgree'
  BY DEF StrangersAgree, Quiet, Torn, Strangers

LEMMA ReadsStrangers ==
  ASSUME StrangersAgree, NEW p \in Procs, Reads(p) PROVE StrangersAgree'
<1> SUFFICES ASSUME ~Torn' PROVE StrangersAgree'
  BY DEF StrangersAgree
<1>1. ~Torn /\ ~Truncating
  BY DEF Reads, TornIf, Torn
<1>2. \A r \in Procs \ {p} : Editing(r)' = Editing(r)
  BY DEF Reads, Editing
<1> QED
  BY <1>1, <1>2 DEF Reads, StrangersAgree, Strangers

LEMMA TruncatesStrangers ==
  ASSUME StrangersAgree, NEW p \in Procs, Truncates(p) PROVE StrangersAgree'
<1>1. Truncating' /\ Torn' = Torn
  BY DEF Truncates, Truncating, Torn
<1>2. \A r \in Procs : Editing(r)' => Editing(r)
  BY DEF Truncates, Editing
<1> QED
  BY <1>1, <1>2 DEF Truncates, StrangersAgree, Strangers

LEMMA WritesStrangers ==
  ASSUME StrangersAgree, NEW p \in Procs, NEW content, Writes(p, content)
  PROVE  StrangersAgree'
<1>1. Torn' = Torn /\ Editing(p)
  BY DEF Writes, Torn, Truncated, Editing
<1>2. \A r \in Procs \ {p} : Editing(r)' = Editing(r)
  BY DEF Writes, Editing
<1>3. PICK tail \in SUBSET keys : keys' = content \cup tail
  BY DEF Writes, Landed
<1> QED
  BY <1>1, <1>2, <1>3 DEF Writes, StrangersAgree, Strangers, Edits

LEMMA TearsStrangers == Tears => StrangersAgree'
  BY DEF Tears, StrangersAgree

-----------------------------------------------------------------------------
(* Each action is of one of these kinds, and keeps the types and the keys. *)

(* Where a session goes, with its data well typed.                         *)
Moves(p, there) ==
  /\ spc' = [spc EXCEPT ![p] = there]
  /\ snapshot' \in [Procs -> SUBSET Lines]
  /\ \A r \in Procs \ {p} : snapshot'[r] = snapshot[r]
  /\ keyAdded' \in [Procs -> BOOLEAN] /\ tries' \in [Procs -> 0 .. MaxTries]

LEMMA ExitMoves ==
  ASSUME TypeOK, NEW p \in Procs, Exit(p) PROVE Moves(p, "idle")
  BY DEF TypeOK, Exit, Goto, Forget, Moves

LEMMA AbandonMoves ==
  ASSUME TypeOK, NEW p \in Procs, Abandon(p)
  PROVE  Moves(p, "idle") /\ excused' \subseteq Users \X Ports
<1>1. Exit(p) /\ Grant(p) \in Users \X Ports
  BY GrantType DEF Abandon
<1>2. excused' \subseteq Users \X Ports
  BY <1>1 DEF Abandon, TypeOK
<1> QED
  BY <1>1, <1>2, ExitMoves

(* A session that moves without a write is quiet if it was not truncating, *)
(* and if it takes up no edit.                                             *)
LEMMA MovesQuiet ==
  ASSUME TypeOK, NEW p \in Procs, NEW there, Moves(p, there),
         UNCHANGED <<keys, first, torn>>, ~Truncated(p),
         there \notin {"truncate", "write", "retruncate", "rewrite"}
  PROVE  Quiet
<1>1. spc'[p] = there /\ \A r \in Procs \ {p} : spc'[r] = spc[r]
  BY DEF Moves, TypeOK
<1>2. \A r \in Procs : Editing(r)' => Editing(r) /\ snapshot'[r] = snapshot[r]
  BY <1>1 DEF Moves, Editing
<1>3. Truncating => Truncating'
  BY <1>1 DEF Truncating, Truncated
<1> QED
  BY <1>2, <1>3 DEF Quiet

LEMMA InitIInv == Init => IInv
<1> SUFFICES ASSUME Init PROVE IInv
  OBVIOUS
<1>1. (CHOOSE u \in Users : TRUE) \in Users /\ (CHOOSE q \in Ports : TRUE) \in Ports
  OBVIOUS
<1>2. TypeOK
  BY <1>1 DEF Init, TypeOK
<1>3. Keyed /\ StrangersAgree
  BY DEF Init, Keyed, StrangersAgree, Editing
<1> QED
  BY <1>2, <1>3 DEF IInv

LEMMA OpenPortStep ==
  ASSUME IInv, NEW p \in Procs, OpenPort(p) PROVE TypeOK' /\ Keyed' /\ Quiet
<1>1. PICK u \in Users, q \in Ports :
        /\ ports' \subseteq Ports
        /\ \/ /\ Start
              /\ who' = [who EXCEPT ![p] = u] /\ port' = [port EXCEPT ![p] = q]
              /\ Goto(p, AfterPort(u)) /\ crossed' = crossed \cup Sharing(<<u, q>>)
           \/ UNCHANGED <<started, who, port, spc, crossed>>
  BY DEF OpenPort, UsePort, OpenSSHPort, IInv, TypeOK
<1>2. /\ UNCHANGED <<keys, grants, snapshot, keyAdded, tries, first, excused, torn>>
      /\ spc[p] = "idle"
  BY DEF OpenPort
<1>3. TypeOK'
  <2>1. crossed' \subseteq Users \X Ports /\ started' \in Nat
    BY <1>1 DEF IInv, TypeOK, Sharing, Start
  <2>2. spc' \in [Procs -> {"idle", "read", "truncate", "write", "grant",
                            "reread", "retruncate", "rewrite"}]
    BY <1>1 DEF IInv, TypeOK, Goto, AfterPort
  <2>3. who' \in [Procs -> Users] /\ port' \in [Procs -> Ports] /\ ports' \subseteq Ports
    BY <1>1 DEF IInv, TypeOK
  <2> QED
    BY <1>2, <2>1, <2>2, <2>3 DEF IInv, TypeOK
<1>4. Keyed'
  BY <1>1, <1>2 DEF IInv, TypeOK, Keyed, Key, Goto, AfterPort
<1>5. Quiet
  <2>1. \A r \in Procs : spc'[r] = spc[r] \/ (spc[r] = "idle" /\ spc'[r] \in {"read", "grant"})
    BY <1>1, <1>2 DEF IInv, TypeOK, Goto, AfterPort
  <2>2. \A r \in Procs : Editing(r)' => Editing(r) /\ snapshot'[r] = snapshot[r]
    BY <1>2, <2>1 DEF Editing
  <2>3. Truncating => Truncating'
    BY <2>1 DEF Truncating, Truncated
  <2> QED
    BY <1>2, <2>2, <2>3 DEF Quiet
<1> QED
  BY <1>3, <1>4, <1>5

(* The steps of a session under way: the state it does not name is typed   *)
(* before and after.                                                       *)
LEMMA MovesIInv ==
  ASSUME IInv, NEW p \in Procs, NEW there, Moves(p, there),
         there \in {"idle", "read", "truncate", "write", "grant", "reread",
                    "retruncate", "rewrite"},
         there \notin {"idle", "grant"} => Key(p) # NoKey,
         keys' \subseteq Lines, excused' \subseteq Users \X Ports,
         crossed' \subseteq Users \X Ports, torn' \in {"no", "peeked", "cutOff"},
         grants' \in [Users \X Ports -> {"none", "known", "unseen"}],
         UNCHANGED <<ports, who, port, started, first>>
  PROVE  TypeOK' /\ Keyed'
<1>1. TypeOK'
  BY DEF IInv, TypeOK, Moves
<1>2. Keyed'
  <2>1. \A r \in Procs : spc'[r] = IF r = p THEN there ELSE spc[r]
    BY DEF IInv, TypeOK, Moves
  <2> QED
    BY <2>1 DEF IInv, Keyed, Key
<1> QED
  BY <1>1, <1>2

LEMMA ReadKeysStep ==
  ASSUME IInv, NEW p \in Procs, ReadKeys(p)
  PROVE  TypeOK' /\ Keyed' /\ (Quiet \/ Reads(p))
<1> USE DEF IInv
<1>1. /\ UNCHANGED <<keys, ports, grants, who, port, started, first, excused, crossed>>
      /\ spc[p] = "read" /\ Key(p) # NoKey
  BY DEF ReadKeys, Keyed
<1>2. CASE Unreadable(p) /\ UNCHANGED torn
  <2>1. Moves(p, "idle") /\ ~Truncated(p)
    BY <1>1, <1>2, ExitMoves DEF Unreadable, Truncated
  <2> QED
    BY <1>1, <1>2, <2>1, MovesIInv, MovesQuiet DEF TypeOK
<1>3. CASE /\ Mine(p) \in keys /\ Goto(p, "grant") /\ UNCHANGED <<snapshot, keyAdded, tries>>
           /\ TornIf(Truncating, "peeked")
  <2>1. Moves(p, "grant") /\ torn' \in {"no", "peeked", "cutOff"}
    BY <1>3 DEF Goto, Moves, TypeOK, TornIf
  <2>2. TypeOK' /\ Keyed'
    BY <1>1, <2>1, MovesIInv DEF TypeOK
  <2>3. Reads(p)
    BY <1>1, <1>3, <2>1 DEF Reads, Moves, TypeOK, Editing, Truncated
  <2> QED
    BY <2>2, <2>3
<1>4. CASE /\ snapshot' = [snapshot EXCEPT ![p] = keys] /\ Goto(p, "truncate")
           /\ UNCHANGED <<keyAdded, tries>> /\ TornIf(Truncating, "peeked")
  <2>1. Moves(p, "truncate") /\ torn' \in {"no", "peeked", "cutOff"}
    BY <1>4 DEF Goto, Moves, TypeOK, TornIf
  <2>2. TypeOK' /\ Keyed'
    BY <1>1, <2>1, MovesIInv DEF TypeOK
  <2>3. Reads(p)
    BY <1>1, <1>4, <2>1 DEF Reads, Moves, TypeOK, Editing, Truncated
  <2> QED
    BY <2>2, <2>3
<1> QED
  BY <1>2, <1>3, <1>4 DEF ReadKeys

LEMMA TruncateKeysStep ==
  ASSUME IInv, NEW p \in Procs, TruncateKeys(p)
  PROVE  TypeOK' /\ Keyed' /\ (Quiet \/ Truncates(p))
<1> USE DEF IInv
<1>1. /\ UNCHANGED <<ports, grants, who, port, started, first, crossed, torn>>
      /\ spc[p] \in {"truncate", "retruncate"} /\ Key(p) # NoKey
  BY DEF TruncateKeys, Keyed
<1>2. CASE Abandon(p) /\ UNCHANGED keys
  <2>1. Moves(p, "idle") /\ ~Truncated(p) /\ excused' \subseteq Users \X Ports
    BY <1>1, <1>2, AbandonMoves DEF Truncated
  <2> QED
    BY <1>1, <1>2, <2>1, MovesIInv, MovesQuiet DEF TypeOK
<1>3. CASE /\ keys' = {} /\ UNCHANGED <<snapshot, keyAdded, tries, excused>>
           /\ \E there \in {"write", "rewrite"} : Goto(p, there)
  <2>1. PICK there \in {"write", "rewrite"} : Moves(p, there)
    BY <1>3 DEF Goto, Moves, TypeOK
  <2>2. TypeOK' /\ Keyed'
    BY <1>1, <1>3, <2>1, MovesIInv DEF TypeOK
  <2>3. Truncates(p)
    BY <1>1, <1>3, <2>1 DEF Truncates, Moves, TypeOK, Editing, Truncated
  <2> QED
    BY <2>2, <2>3
<1> QED
  BY <1>2, <1>3 DEF TruncateKeys

LEMMA OverlapType ==
  ASSUME TypeOK, NEW p \in Procs PROVE Overlapping(p) \subseteq Users \X Ports
  BY GrantType DEF Overlapping

LEMMA WriteKeysStep ==
  ASSUME IInv, NEW p \in Procs, WriteKeys(p)
  PROVE  /\ TypeOK' /\ Keyed'
         /\ Tears \/ \E content : Writes(p, content) /\ Mine(p) \in content
<1> USE DEF IInv
<1>1. /\ UNCHANGED <<ports, grants, who, port, started, first>>
      /\ spc[p] = "write" /\ Key(p) # NoKey
      /\ crossed' = crossed \cup Overlapping(p)
  BY DEF WriteKeys, WriteWhole, WriteFails, Keyed
<1>2. PICK content \in Install(snapshot[p], Key(p), who[p], port[p]) :
        \/ /\ WriteWhole(content) /\ Goto(p, "grant") /\ Forget(p)
           /\ keyAdded' = [keyAdded EXCEPT ![p] = TRUE]
           /\ UNCHANGED <<tries, excused>>
        \/ WriteFails(content) /\ Exit(p) /\ excused' = excused \cup {Grant(p)}
  BY DEF WriteKeys
<1>3. Edits(p, content) /\ Mine(p) \in content
  BY <1>1, InstallEdits
<1>4. crossed' \subseteq Users \X Ports
  BY <1>1, OverlapType DEF TypeOK
<1>5. CASE WriteFails(content) /\ Exit(p) /\ excused' = excused \cup {Grant(p)}
  <2>1. /\ Moves(p, "idle") /\ excused' \subseteq Users \X Ports
        /\ keys' \subseteq Lines
    BY <1>3, <1>5, ExitMoves, GrantType DEF TypeOK, WriteFails, CutShort, Edits
  <2>2. torn' \in {"no", "peeked", "cutOff"} /\ Torn'
    BY <1>5 DEF WriteFails, TornIf, TypeOK, Torn
  <2> QED
    BY <1>1, <1>4, <2>1, <2>2, MovesIInv DEF TypeOK, Tears
<1>6. CASE /\ WriteWhole(content) /\ Goto(p, "grant") /\ Forget(p)
           /\ keyAdded' = [keyAdded EXCEPT ![p] = TRUE]
           /\ UNCHANGED <<tries, excused>>
  <2>1. Moves(p, "grant") /\ keys' \subseteq Lines
    BY <1>3, <1>6 DEF Goto, Forget, Moves, TypeOK, WriteWhole, Landed, Edits
  <2>2. TypeOK' /\ Keyed'
    BY <1>1, <1>4, <1>6, <2>1, MovesIInv DEF TypeOK, WriteWhole
  <2>3. Writes(p, content)
    BY <1>1, <1>3, <1>6, <2>1 DEF Writes, WriteWhole, Moves, TypeOK, Editing, Truncated
  <2> QED
    BY <1>3, <2>2, <2>3
<1> QED
  BY <1>2, <1>5, <1>6

LEMMA CallGrantStep ==
  ASSUME IInv, NEW p \in Procs, CallGrant(p) PROVE TypeOK' /\ Keyed' /\ Quiet
<1> USE DEF CallGrant, IInv
<1>1. grants' \in [Users \X Ports -> {"none", "known", "unseen"}]
  BY GrantType DEF Granted, Transient, Permanent, Served, TypeOK
<1>2. \E there \in {"idle", "grant", "reread"} :
        Moves(p, there) /\ (there = "reread" => Key(p) # NoKey)
  <2>1. CASE Exit(p)
    BY <2>1, ExitMoves
  <2>2. CASE Transient(p) /\ ~Exit(p)
    <3>1. /\ UNCHANGED <<spc, snapshot, keyAdded>> /\ tries[p] < MaxTries
          /\ tries' = [tries EXCEPT ![p] = (@ + 1) % (MaxTries + 1)]
      BY <2>2 DEF Transient, MayRetry, Abandon
    <3>2. spc' = [spc EXCEPT ![p] = "grant"]
      BY <3>1 DEF TypeOK
    <3>3. tries' \in [Procs -> 0 .. MaxTries]
      BY <3>1 DEF TypeOK
    <3> QED
      BY <3>1, <3>2, <3>3 DEF TypeOK, Moves
  <2>3. CASE Permanent(p) /\ ~Exit(p)
    BY <2>3 DEF Permanent, NeedsRollback, TypeOK, Moves, Goto
  <2> QED
    BY <2>1, <2>2, <2>3 DEF Granted
<1>3. excused' \subseteq Users \X Ports
  BY AbandonMoves DEF Granted, Transient, Permanent, TypeOK
<1>4. ~Truncated(p)
  BY DEF Truncated
<1> QED
  BY <1>1, <1>2, <1>3, <1>4, MovesIInv, MovesQuiet DEF TypeOK

LEMMA RereadKeysStep ==
  ASSUME IInv, NEW p \in Procs, RereadKeys(p)
  PROVE  TypeOK' /\ Keyed' /\ (Quiet \/ Reads(p))
<1> USE DEF IInv
<1>1. /\ UNCHANGED <<keys, ports, grants, who, port, started, first, crossed>>
      /\ spc[p] = "reread" /\ Key(p) # NoKey
  BY DEF RereadKeys, Keyed
<1>2. CASE Abandon(p) /\ UNCHANGED torn
  <2>1. Moves(p, "idle") /\ ~Truncated(p) /\ excused' \subseteq Users \X Ports
    BY <1>1, <1>2, AbandonMoves DEF Truncated
  <2> QED
    BY <1>1, <1>2, <2>1, MovesIInv, MovesQuiet DEF TypeOK
<1>3. CASE /\ snapshot' = [snapshot EXCEPT ![p] = keys] /\ Goto(p, "retruncate")
           /\ UNCHANGED <<keyAdded, tries, excused>> /\ TornIf(Truncating, "peeked")
  <2>1. Moves(p, "retruncate") /\ torn' \in {"no", "peeked", "cutOff"}
    BY <1>3 DEF Goto, Moves, TypeOK, TornIf
  <2>2. TypeOK' /\ Keyed'
    BY <1>1, <1>3, <2>1, MovesIInv DEF TypeOK
  <2>3. Reads(p)
    BY <1>1, <1>3, <2>1 DEF Reads, Moves, TypeOK, Editing, Truncated
  <2> QED
    BY <2>2, <2>3
<1> QED
  BY <1>2, <1>3 DEF RereadKeys

LEMMA RewriteKeysStep ==
  ASSUME IInv, NEW p \in Procs, RewriteKeys(p)
  PROVE  /\ TypeOK' /\ Keyed'
         /\ Tears \/ \E content : Writes(p, content) /\ Mine(p) \notin content
<1> USE DEF IInv
<1> DEFINE content == RemoveLine(snapshot[p], Mine(p))
<1>1. /\ UNCHANGED <<ports, grants, who, port, started, first>>
      /\ spc[p] = "rewrite" /\ Key(p) # NoKey
      /\ crossed' = crossed \cup Overlapping(p)
  BY DEF RewriteKeys, WriteWhole, WriteFails, Keyed
<1>2. \/ WriteWhole(content) /\ Exit(p) /\ UNCHANGED excused
      \/ WriteFails(content) /\ Abandon(p)
  BY DEF RewriteKeys
<1>3. Edits(p, content) /\ Mine(p) \notin content
  BY <1>1, RemoveEdits
<1>4. crossed' \subseteq Users \X Ports
  BY <1>1, OverlapType DEF TypeOK
<1> HIDE DEF content
<1>5. Moves(p, "idle") /\ excused' \subseteq Users \X Ports
  BY <1>2, ExitMoves, AbandonMoves DEF TypeOK
<1>6. CASE WriteFails(content)
  <2>1. keys' \subseteq Lines
    BY <1>3, <1>6 DEF TypeOK, WriteFails, CutShort, Edits
  <2>2. torn' \in {"no", "peeked", "cutOff"} /\ Torn'
    BY <1>6 DEF WriteFails, TornIf, TypeOK, Torn
  <2> QED
    BY <1>1, <1>4, <1>5, <2>1, <2>2, MovesIInv DEF TypeOK, Tears
<1>7. CASE WriteWhole(content)
  <2>1. keys' \subseteq Lines
    BY <1>3, <1>7 DEF TypeOK, WriteWhole, Landed, Edits
  <2>2. TypeOK' /\ Keyed'
    BY <1>1, <1>4, <1>5, <1>7, <2>1, MovesIInv DEF TypeOK, WriteWhole
  <2>3. Writes(p, content)
    BY <1>1, <1>3, <1>5, <1>7 DEF Writes, WriteWhole, Moves, TypeOK, Editing, Truncated
  <2> QED
    BY <1>3, <2>2, <2>3
<1> QED
  BY <1>2, <1>6, <1>7

LEMMA KillStep ==
  ASSUME IInv, NEW p \in Procs, Kill(p) PROVE TypeOK' /\ Keyed' /\ (Quiet \/ Tears)
<1> USE DEF IInv
<1>1. /\ UNCHANGED <<keys, ports, grants, who, port, started, first, crossed>>
      /\ TornIf(Truncated(p), "cutOff") /\ Moves(p, "idle")
      /\ excused' \subseteq Users \X Ports
  BY AbandonMoves DEF Kill
<1>2. torn' \in {"no", "peeked", "cutOff"}
  BY <1>1 DEF TornIf, TypeOK
<1>3. TypeOK' /\ Keyed'
  BY <1>1, <1>2, MovesIInv DEF TypeOK
<1>4. CASE Truncated(p)
  BY <1>1, <1>3, <1>4 DEF TornIf, Tears, Torn
<1>5. CASE ~Truncated(p)
  <2>1. torn' = torn
    BY <1>1, <1>5 DEF TornIf
  <2> QED
    BY <1>1, <1>3, <1>5, <2>1, MovesQuiet
<1> QED
  BY <1>4, <1>5

(* The commands of other members leave the file alone.                     *)
LEMMA MembersStep ==
  ASSUME IInv, GrantSSH \/ RevokeSSH PROVE TypeOK' /\ Keyed' /\ Quiet
<1>1. grants' \in [Users \X Ports -> {"none", "known", "unseen"}]
  BY DEF GrantSSH, RevokeSSH, Accesses, OrgMembers, IInv, TypeOK
<1>2. excused' \subseteq Users \X Ports /\ started' \in Nat
  BY DEF GrantSSH, RevokeSSH, Accesses, IInv, TypeOK, history, Start
<1>3. UNCHANGED <<keys, ports, sessionVars, first, crossed, torn>>
  BY DEF GrantSSH, RevokeSSH, history
<1>4. TypeOK' /\ Keyed'
  BY <1>1, <1>2, <1>3 DEF IInv, TypeOK, Keyed, sessionVars, Key
<1>5. Quiet
  BY <1>3 DEF Quiet, sessionVars, Editing, Truncating, Truncated
<1> QED
  BY <1>4, <1>5

LEMMA NextIInv == IInv /\ [Next]_vars => IInv'
<1> SUFFICES ASSUME IInv, [Next]_vars PROVE IInv'
  OBVIOUS
<1>1. CASE UNCHANGED vars
  <2>1. TypeOK' /\ Keyed'
    BY <1>1 DEF IInv, TypeOK, Keyed, vars, sessionVars, history, Key
  <2>2. Quiet
    BY <1>1 DEF vars, sessionVars, history, Quiet, Editing, Truncating, Truncated
  <2> QED
    BY <2>1, <2>2, QuietStrangers DEF IInv
<1>2. ASSUME NEW p \in Procs, OpenPort(p) \/ Step(p) \/ Kill(p)
      PROVE  /\ TypeOK' /\ Keyed'
             /\ Quiet \/ Reads(p) \/ Truncates(p) \/ Tears \/ \E content : Writes(p, content)
  BY <1>2, OpenPortStep, ReadKeysStep, TruncateKeysStep, WriteKeysStep, CallGrantStep,
     RereadKeysStep, RewriteKeysStep, KillStep DEF Step
<1>3. ASSUME NEW p \in Procs, OpenPort(p) \/ Step(p) \/ Kill(p) PROVE IInv'
  BY <1>2, <1>3, QuietStrangers, ReadsStrangers, TruncatesStrangers, WritesStrangers,
     TearsStrangers DEF IInv
<1>4. CASE GrantSSH \/ RevokeSSH
  BY <1>4, MembersStep, QuietStrangers DEF IInv
<1> QED
  BY <1>1, <1>3, <1>4 DEF Next

THEOREM Inductive == Spec => []IInv
  BY InitIInv, NextIInv, PTL DEF Spec

(* The state of NodeSSHAccess stays well typed.                            *)
THEOREM TypeCorrect == Spec => []TypeOK
<1>1. IInv => TypeOK
  BY DEF IInv
<1> QED
  BY <1>1, Inductive, PTL

(* Lines of keys the CLI does not handle survive any number of concurrent  *)
(* sessions, but for the two ways in which the file is torn.               *)
THEOREM StrangersCorrect == Spec => []StrangersKept
<1>1. IInv => StrangersKept
  BY DEF IInv, StrangersAgree, StrangersKept
<1> QED
  BY <1>1, Inductive, PTL

-----------------------------------------------------------------------------
(* Tags and grants.  Of the tags that no two sessions crossed over, in a   *)
(* file that is not torn: whoever is editing the file read the same of     *)
(* them, and the file has them but while somebody has it truncated         *)
(* (TagsAgree); a tag devplane confirmed, or is being asked for, is there  *)
(* and was read (Present); and a session that adds a line, or is about to, *)
(* has a grant devplane has not confirmed, so that a rollback takes        *)
(* nothing away (Unconfirmed).  Torn or not, no other session has the tag  *)
(* (Apart), and a line without a grant, in the file or in what a session   *)
(* read of it, is the line of a session that will see to it (Owned).       *)

Rolling == {"reread", "retruncate", "rewrite"}
Adding ==
  \A p \in Procs :
    /\ spc[p] \in Rolling => keyAdded[p]
    /\ keyAdded[p] => spc[p] \in {"grant"} \cup Rolling /\ Key(p) # NoKey
Unconfirmed ==
  \A p \in Procs : spc[p] \in {"truncate", "write"} \/ keyAdded[p]
                     => grants[Grant(p)] # "known" \/ Grant(p) \in crossed \/ Torn
Apart ==
  \A p, r \in Procs :
    p # r /\ spc[p] # "idle" /\ spc[r] # "idle" /\ Grant(p) = Grant(r)
      => Grant(p) \in crossed

Appears(g) == TagLine(g) \in keys \/ \E r \in Procs : Editing(r) /\ TagLine(g) \in snapshot[r]
Cared(g)   == \/ grants[g] # "none" \/ g \in excused \cup crossed
              \/ \E p \in Procs : keyAdded[p] /\ Grant(p) = g
Owned == \A g \in Users \X Ports : KeyOf[g[1]] # NoKey /\ Appears(g) => Cared(g)

SameInAll(g) ==
  \A r \in Procs : Editing(r) =>
    /\ TagLine(g) \in keys => TagLine(g) \in snapshot[r]
    /\ TagLine(g) \in snapshot[r] => TagLine(g) \in keys \/ Truncating
    /\ \A s \in Procs : Editing(s) => (TagLine(g) \in snapshot[r] <=> TagLine(g) \in snapshot[s])
TagsAgree == ~Torn => \A g \in (Users \X Ports) \ crossed : SameInAll(g)

Owed(g) == grants[g] = "known" \/ \E p \in Procs : spc[p] = "grant" /\ Grant(p) = g
Has(g)  == /\ TagLine(g) \in keys \/ Truncating
           /\ \A r \in Procs : Editing(r) => TagLine(g) \in snapshot[r]
Present == ~Torn => \A g \in (Users \X Ports) \ crossed :
                      KeyOf[g[1]] # NoKey /\ Owed(g) => Has(g)

Tracked == Adding /\ Unconfirmed /\ Apart /\ Owned /\ TagsAgree /\ Present

-----------------------------------------------------------------------------
(* What the kinds of steps leave of this.                                  *)

LEMMA ReadsUntorn ==
  ASSUME NEW p \in Procs, Reads(p), ~Torn'
  PROVE  /\ ~Torn /\ ~Truncating /\ UNCHANGED <<keys, crossed>>
         /\ \A r \in Procs \ {p} : Editing(r)' = Editing(r) /\ snapshot'[r] = snapshot[r]
         /\ Editing(p)' => snapshot'[p] = keys
<1>1. ~Torn /\ ~Truncating
  BY DEF Reads, TornIf, Torn
<1>2. \A r \in Procs \ {p} : Editing(r)' = Editing(r)
  BY DEF Reads, Editing
<1> QED
  BY <1>1, <1>2 DEF Reads

LEMMA TruncatesFacts ==
  ASSUME NEW p \in Procs, Truncates(p)
  PROVE  /\ Truncating' /\ Torn' = Torn /\ UNCHANGED <<snapshot, crossed>> /\ keys' = {}
         /\ \A r \in Procs : Editing(r)' => Editing(r)
  BY DEF Truncates, Truncating, Torn, Editing

LEMMA WritesFacts ==
  ASSUME NEW p \in Procs, NEW content, Writes(p, content)
  PROVE  /\ Torn' = Torn /\ Editing(p) /\ Truncating /\ crossed \subseteq crossed'
         /\ content \subseteq keys' /\ keys' \subseteq content \cup keys
         /\ \A r \in Procs : Editing(r)' =>
              /\ r # p /\ Editing(r) /\ snapshot'[r] = snapshot[r]
              /\ Grant(p) \in crossed'
<1>1. Torn' = Torn /\ Editing(p) /\ Truncating /\ crossed \subseteq crossed'
  BY DEF Writes, Torn, Truncated, Editing, Truncating
<1>2. content \subseteq keys' /\ keys' \subseteq content \cup keys
  BY DEF Writes, Landed
<1>3. \A r \in Procs : Editing(r)' =>
        r # p /\ Editing(r) /\ snapshot'[r] = snapshot[r] /\ Grant(p) \in crossed'
  BY DEF Writes, Editing, Overlapping
<1> QED
  BY <1>1, <1>2, <1>3

LEMMA QuietHas == ASSUME NEW g, Quiet, Has(g) PROVE Has(g)'
  BY DEF Quiet, Has, TagLine

LEMMA ReadsHas ==
  ASSUME NEW p \in Procs, Reads(p), ~Torn', NEW g, Has(g) PROVE Has(g)'
  BY ReadsUntorn DEF Has, TagLine

LEMMA TruncatesHas ==
  ASSUME NEW p \in Procs, Truncates(p), NEW g, Has(g) PROVE Has(g)'
  BY TruncatesFacts DEF Has, TagLine

LEMMA WritesHas ==
  ASSUME NEW p \in Procs, NEW content, Writes(p, content),
         NEW g \in Users \X Ports, g # Grant(p), Has(g)
  PROVE  Has(g)'
<1>1. TagLine(g) \in content
  BY WritesFacts DEF Has, Writes, Edits
<1> QED
  BY <1>1, WritesFacts DEF Has, TagLine

LEMMA QuietAgrees ==
  ASSUME TagsAgree, Quiet, crossed \subseteq crossed' PROVE TagsAgree'
<1> SUFFICES ASSUME ~Torn', NEW g \in (Users \X Ports) \ crossed' PROVE SameInAll(g)'
  BY DEF TagsAgree
<1>1. SameInAll(g)
  BY DEF TagsAgree, Quiet, Torn
<1> QED
  BY <1>1 DEF SameInAll, Quiet, TagLine

LEMMA ReadsAgrees ==
  ASSUME TagsAgree, NEW p \in Procs, Reads(p) PROVE TagsAgree'
<1> SUFFICES ASSUME ~Torn', NEW g \in (Users \X Ports) \ crossed' PROVE SameInAll(g)'
  BY DEF TagsAgree
<1>1. SameInAll(g)
  BY ReadsUntorn DEF TagsAgree
<1>2. \A r \in Procs : Editing(r)' => (TagLine(g) \in snapshot'[r] <=> TagLine(g) \in keys)
  BY <1>1, ReadsUntorn DEF SameInAll
<1> QED
  BY <1>2, ReadsUntorn DEF SameInAll, TagLine

LEMMA TruncatesAgrees ==
  ASSUME TagsAgree, NEW p \in Procs, Truncates(p) PROVE TagsAgree'
<1> SUFFICES ASSUME ~Torn', NEW g \in (Users \X Ports) \ crossed' PROVE SameInAll(g)'
  BY DEF TagsAgree
<1>1. SameInAll(g)
  BY TruncatesFacts DEF TagsAgree
<1> QED
  BY <1>1, TruncatesFacts DEF SameInAll, TagLine

LEMMA WritesAgrees ==
  ASSUME TagsAgree, NEW p \in Procs, NEW content, Writes(p, content) PROVE TagsAgree'
<1> SUFFICES ASSUME ~Torn', NEW g \in (Users \X Ports) \ crossed',
                    NEW r \in Procs, Editing(r)'
             PROVE  /\ TagLine(g) \in keys' => TagLine(g) \in snapshot'[r]
                    /\ TagLine(g) \in snapshot'[r] => TagLine(g) \in keys'
                    /\ \A s \in Procs : Editing(s)' =>
                         (TagLine(g) \in snapshot'[r] <=> TagLine(g) \in snapshot'[s])
  BY DEF TagsAgree, SameInAll, TagLine
<1>1. SameInAll(g)
  BY WritesFacts DEF TagsAgree
<1>2. /\ Editing(r) /\ snapshot'[r] = snapshot[r] /\ g # Grant(p) /\ Editing(p)
      /\ \A s \in Procs : Editing(s)' => Editing(s) /\ snapshot'[s] = snapshot[s]
  BY WritesFacts
<1>3. TagLine(g) \in content <=> TagLine(g) \in snapshot[r]
  BY <1>1, <1>2 DEF SameInAll, Writes, Edits
<1>4. TagLine(g) \in keys => TagLine(g) \in snapshot[r]
  BY <1>1, <1>2 DEF SameInAll
<1>5. \A s \in Procs : Editing(s) => (TagLine(g) \in snapshot[r] <=> TagLine(g) \in snapshot[s])
  BY <1>1, <1>2 DEF SameInAll
<1> QED
  BY <1>2, <1>3, <1>4, <1>5, WritesFacts

(* A tag that is cared for is so after a step that only adds to the        *)
(* history, keeps the grants and takes no session from its line.           *)
LEMMA CaredKept ==
  ASSUME NEW g, Cared(g), excused \subseteq excused', crossed \subseteq crossed',
         grants[g] # "none" => grants'[g] # "none" \/ g \in excused',
         \A r \in Procs : keyAdded[r] /\ Grant(r) = g =>
           \/ keyAdded'[r] /\ Grant(r)' = g
           \/ g \in excused' \/ grants'[g] # "none"
  PROVE  Cared(g)'
  BY DEF Cared

(* What appears after a step that writes nothing appeared before it.       *)
Shrinks ==
  /\ keys' \subseteq keys
  /\ \A r \in Procs : Editing(r)' =>
       (Editing(r) /\ snapshot'[r] = snapshot[r]) \/ snapshot'[r] \subseteq keys

LEMMA ShrinksAppears == ASSUME Shrinks, NEW g, Appears(g)' PROVE Appears(g)
  BY DEF Shrinks, Appears, TagLine

LEMMA QuietShrinks == Quiet => Shrinks
  BY DEF Quiet, Shrinks

LEMMA ReadsShrinks == ASSUME NEW p \in Procs, Reads(p) PROVE Shrinks
  BY DEF Reads, Shrinks, Editing

LEMMA TruncatesShrinks == ASSUME NEW p \in Procs, Truncates(p) PROVE Shrinks
  BY TruncatesFacts DEF Shrinks

-----------------------------------------------------------------------------
(* Each action keeps Tracked.                                              *)

LEMMA InitTracked == Init => Tracked
<1> SUFFICES ASSUME Init PROVE Tracked
  OBVIOUS
<1>1. Adding /\ Unconfirmed /\ Apart
  BY DEF Init, Adding, Unconfirmed, Apart, Rolling
<1>2. Owned
  BY DEF Init, Owned, Appears, Cared, Editing
<1>3. TagsAgree /\ Present
  BY DEF Init, TagsAgree, SameInAll, Present, Owed, Editing
<1> QED
  BY <1>1, <1>2, <1>3 DEF Tracked

(* What the other processes know stays.                                    *)
Beside(p) == \A r \in Procs \ {p} :
               spc'[r] = spc[r] /\ keyAdded'[r] = keyAdded[r] /\ snapshot'[r] = snapshot[r]

LEMMA SameTags ==
  ASSUME UNCHANGED <<who, port>>
  PROVE  \A r \in Procs : Grant(r)' = Grant(r) /\ Key(r)' = Key(r) /\ Mine(r)' = Mine(r)
  BY DEF Grant, Key, Mine, TagLine

LEMMA ApartKept ==
  ASSUME Apart, NEW p \in Procs, Beside(p), spc[p] # "idle",
         UNCHANGED <<who, port>>, crossed \subseteq crossed'
  PROVE  Apart'
  BY SameTags DEF Apart, Beside

LEMMA ExitBeside ==
  ASSUME TypeOK, NEW p \in Procs, Exit(p)
  PROVE  Beside(p) /\ spc'[p] = "idle" /\ ~keyAdded'[p]
  BY DEF TypeOK, Exit, Goto, Forget, Beside

(* The end of a session that leaves the file alone: the tags of the others *)
(* are as they were, and its own, if it added it, is granted or excused.   *)
LEMMA EndTracked ==
  ASSUME IInv, Tracked, NEW p \in Procs, spc[p] # "idle", Exit(p),
         Quiet \/ (Tears /\ UNCHANGED keys),
         UNCHANGED <<who, port, crossed>>, excused \subseteq excused',
         keyAdded[p] => Grant(p) \in excused' \/ grants'[Grant(p)] # "none",
         \A g \in Users \X Ports :
           /\ grants[g] # "none" => grants'[g] # "none"
           /\ g # Grant(p) => grants'[g] = grants[g],
         grants'[Grant(p)] = "known" => Owed(Grant(p))
  PROVE  Tracked'
<1> USE DEF IInv, Tracked
<1>1. Beside(p) /\ spc'[p] = "idle" /\ ~keyAdded'[p]
  BY ExitBeside
<1>2. \A r \in Procs : Grant(r)' = Grant(r) /\ Key(r)' = Key(r) /\ Mine(r)' = Mine(r)
  BY SameTags
<1>3. Adding'
  BY <1>1, <1>2 DEF Adding, Beside, Rolling
<1>4. Torn' \/ (Quiet /\ Torn' = Torn)
  BY DEF Quiet, Tears, Torn
<1>5. Unconfirmed'
  <2> SUFFICES ASSUME NEW r \in Procs, spc'[r] \in {"truncate", "write"} \/ keyAdded'[r],
                      grants'[Grant(r)] = "known", ~Torn'
               PROVE  Grant(r) \in crossed
    BY <1>2 DEF Unconfirmed
  <2>1. r # p /\ (spc[r] \in {"truncate", "write"} \/ keyAdded[r]) /\ spc[r] # "idle"
    BY <1>1 DEF Beside, Adding, Rolling
  <2>2. CASE Grant(r) = Grant(p)
    BY <2>1, <2>2 DEF Apart
  <2>3. CASE Grant(r) # Grant(p)
    BY <1>4, <2>1, <2>3, GrantType DEF Unconfirmed
  <2> QED
    BY <2>2, <2>3
<1>6. Apart'
  BY <1>1, ApartKept
<1>7. Owned'
  <2> SUFFICES ASSUME NEW g \in Users \X Ports, KeyOf[g[1]] # NoKey, Appears(g)'
               PROVE  Cared(g)'
    BY DEF Owned
  <2>1. Shrinks
    <3>1. CASE Quiet
      BY <3>1, QuietShrinks
    <3>2. CASE UNCHANGED keys
      BY <1>1, <3>2 DEF Shrinks, Beside, Editing
    <3> QED
      BY <3>1, <3>2
  <2>2. Cared(g)
    BY <2>1, ShrinksAppears DEF Owned
  <2> QED
    BY <1>1, <1>2, <2>2, CaredKept DEF Beside
<1>8. TagsAgree'
  BY <1>4, QuietAgrees DEF TagsAgree
<1>9. Present'
  <2> SUFFICES ASSUME ~Torn', NEW g \in (Users \X Ports) \ crossed,
                      KeyOf[g[1]] # NoKey, Owed(g)'
               PROVE  Has(g)'
    BY DEF Present
  <2>1. Owed(g)
    BY <1>1, <1>2 DEF Owed, Beside
  <2> QED
    BY <1>4, <2>1, QuietHas DEF Present
<1> QED
  BY <1>3, <1>5, <1>6, <1>7, <1>8, <1>9

LEMMA OpenPortTracked ==
  ASSUME IInv, Tracked, NEW p \in Procs, OpenPort(p) PROVE Tracked'
<1> USE DEF IInv, Tracked
<1>1. /\ UNCHANGED <<keys, grants, snapshot, keyAdded, excused, torn>>
      /\ spc[p] = "idle" /\ ~keyAdded[p]
  BY DEF OpenPort, Adding, TypeOK, Rolling
<1>2. Quiet /\ Torn' = Torn
  BY <1>1, OpenPortStep DEF Torn
<1>3. CASE UNCHANGED <<who, port, spc, crossed>>
  <2>1. \A r \in Procs : Grant(r)' = Grant(r) /\ Key(r)' = Key(r)
    BY <1>3, SameTags
  <2>2. Adding' /\ Unconfirmed' /\ Apart'
    BY <1>1, <1>2, <1>3, <2>1 DEF Adding, Unconfirmed, Apart
  <2>3. Owned'
    BY <1>1, <1>3, <2>1 DEF Owned, Appears, Cared, Editing, TagLine
  <2>4. TagsAgree'
    BY <1>2, <1>3, QuietAgrees
  <2>5. Present'
    BY <1>1, <1>2, <1>3, <2>1, QuietHas DEF Present, Owed
  <2> QED
    BY <2>2, <2>3, <2>4, <2>5
<1>4. ASSUME NEW u \in Users, NEW q \in Ports,
             who' = [who EXCEPT ![p] = u], port' = [port EXCEPT ![p] = q],
             Goto(p, AfterPort(u)), crossed' = crossed \cup Sharing(<<u, q>>)
      PROVE  Tracked'
  <2>1. \A r \in Procs \ {p} : spc'[r] = spc[r] /\ who'[r] = who[r] /\ port'[r] = port[r]
    BY <1>4 DEF TypeOK, Goto
  <2>2. \A r \in Procs \ {p} : Grant(r)' = Grant(r) /\ Key(r)' = Key(r)
    BY <2>1 DEF Grant, Key
  <2>3. Grant(p)' = <<u, q>> /\ Key(p)' = KeyOf[u]
    <3>1. who'[p] = u /\ port'[p] = q
      BY <1>4 DEF TypeOK
    <3> QED
      BY <3>1 DEF Grant, Key
  <2>4. spc'[p] = "read" \/ (spc'[p] = "grant" /\ KeyOf[u] = NoKey)
    BY <1>4 DEF TypeOK, Goto, AfterPort
  <2>5. crossed \subseteq crossed'
    BY <1>4
  <2>6. Adding' /\ Unconfirmed'
    BY <1>1, <1>2, <2>1, <2>2, <2>4, <2>5 DEF Adding, Unconfirmed, Rolling
  <2>7. Apart'
    <3>1. ASSUME NEW r \in Procs \ {p}, spc'[r] # "idle", Grant(r)' = Grant(p)'
          PROVE  Grant(p)' \in crossed'
      BY <1>4, <2>1, <2>2, <2>3, <3>1 DEF Sharing, Active
    <3> QED
      BY <1>1, <2>1, <2>2, <2>5, <3>1 DEF Apart
  <2>8. Owned'
    <3> SUFFICES ASSUME NEW g \in Users \X Ports, KeyOf[g[1]] # NoKey, Appears(g)'
                 PROVE  Cared(g)'
      BY DEF Owned
    <3>1. Cared(g)
      BY <1>2, QuietShrinks, ShrinksAppears DEF Owned
    <3> QED
      BY <1>1, <2>2, <2>5, <3>1 DEF Cared
  <2>9. TagsAgree'
    BY <1>2, <2>5, QuietAgrees
  <2>10. Present'
    <3> SUFFICES ASSUME ~Torn', NEW g \in (Users \X Ports) \ crossed',
                        KeyOf[g[1]] # NoKey, Owed(g)'
                 PROVE  Has(g)'
      BY DEF Present
    <3>1. Owed(g)
      BY <1>1, <2>1, <2>2, <2>3, <2>4 DEF Owed
    <3> QED
      BY <1>2, <2>5, <3>1, QuietHas DEF Present
  <2> QED
    BY <2>6, <2>7, <2>8, <2>9, <2>10
<1> QED
  BY <1>3, <1>4 DEF OpenPort

LEMMA ReadKeysTracked ==
  ASSUME IInv, Tracked, NEW p \in Procs, ReadKeys(p) PROVE Tracked'
<1> USE DEF IInv, Tracked
<1>1. /\ UNCHANGED <<keys, grants, who, port, first, excused, crossed>>
      /\ spc[p] = "read" /\ ~keyAdded[p] /\ Key(p) # NoKey
  BY DEF ReadKeys, Adding, Rolling, Keyed, TypeOK
<1>2. CASE Unreadable(p) /\ UNCHANGED torn
  <2>1. Moves(p, "idle") /\ ~Truncated(p)
    BY <1>1, <1>2, ExitMoves DEF Unreadable, Truncated
  <2>2. Quiet
    BY <1>1, <1>2, <2>1, MovesQuiet
  <2>3. Grant(p) \in Users \X Ports /\ (grants[Grant(p)] = "known" => Owed(Grant(p)))
    BY GrantType DEF Owed
  <2> QED
    BY <1>1, <1>2, <2>2, <2>3, EndTracked DEF Unreadable
<1>3. CASE ~(Unreadable(p) /\ UNCHANGED torn)
  <2>1. /\ \/ Mine(p) \in keys /\ Goto(p, "grant") /\ UNCHANGED snapshot
           \/ /\ Mine(p) \notin keys /\ snapshot' = [snapshot EXCEPT ![p] = keys]
              /\ Goto(p, "truncate")
        /\ TornIf(Truncating, "peeked") /\ UNCHANGED <<keyAdded, tries>>
    BY <1>3 DEF ReadKeys
  <2>2. /\ Beside(p) /\ UNCHANGED keyAdded
        /\ \/ Mine(p) \in keys /\ spc'[p] = "grant"
           \/ Mine(p) \notin keys /\ spc'[p] = "truncate" /\ snapshot'[p] = keys
    BY <2>1 DEF Beside, Goto, TypeOK
  <2>3. Reads(p)
    BY <1>1, <2>1, <2>2 DEF Reads, Beside, Editing, Truncated
  <2>4. \A r \in Procs : Grant(r)' = Grant(r) /\ Key(r)' = Key(r)
    BY <1>1, SameTags
  <2>5. /\ Grant(p) \in Users \X Ports /\ Mine(p) = TagLine(Grant(p))
        /\ KeyOf[Grant(p)[1]] # NoKey
    BY <1>1, GrantType
  <2>6. Adding'
    BY <1>1, <2>2, <2>4 DEF Adding, Beside, Rolling
  <2>7. Unconfirmed'
    <3> SUFFICES ASSUME ~Torn', NEW r \in Procs, grants[Grant(r)] = "known",
                        spc'[r] \in {"truncate", "write"} \/ keyAdded[r]
                 PROVE  Grant(r) \in crossed
      BY <1>1, <2>2, <2>4 DEF Unconfirmed
    <3>1. CASE r = p
      BY <1>1, <2>2, <2>3, <2>5, <3>1, ReadsUntorn DEF Present, Owed, Has
    <3>2. CASE r # p
      BY <2>2, <2>3, <3>2, ReadsUntorn DEF Unconfirmed, Beside
    <3> QED
      BY <3>1, <3>2
  <2>8. Apart'
    BY <1>1, <2>2, ApartKept
  <2>9. Owned'
    <3> SUFFICES ASSUME NEW g \in Users \X Ports, KeyOf[g[1]] # NoKey, Appears(g)'
                 PROVE  Cared(g)'
      BY DEF Owned
    <3>1. Cared(g)
      BY <2>3, ReadsShrinks, ShrinksAppears DEF Owned
    <3> QED
      BY <1>1, <2>2, <2>4, <3>1 DEF Cared
  <2>10. TagsAgree'
    BY <2>3, ReadsAgrees
  <2>11. Present'
    <3> SUFFICES ASSUME ~Torn', NEW g \in (Users \X Ports) \ crossed,
                        KeyOf[g[1]] # NoKey, Owed(g)'
                 PROVE  Has(g)'
      BY <1>1 DEF Present
    <3>1. CASE Owed(g)
      BY <2>3, <3>1, ReadsHas, ReadsUntorn DEF Present
    <3>2. CASE ~Owed(g)
      <4>1. g = Grant(p) /\ Mine(p) \in keys /\ spc'[p] = "grant"
        BY <1>1, <2>2, <2>4, <3>2 DEF Owed, Beside
      <4>2. SameInAll(g)
        BY <2>3, ReadsUntorn DEF TagsAgree
      <4>3. Has(g)
        BY <2>5, <4>1, <4>2 DEF Has, SameInAll
      <4> QED
        BY <2>3, <4>3, ReadsHas
    <3> QED
      BY <3>1, <3>2
  <2> QED
    BY <2>6, <2>7, <2>8, <2>9, <2>10, <2>11
<1> QED
  BY <1>2, <1>3

(* A session that is killed or gives up: the line it added is excused.     *)
LEMMA AbandonTracked ==
  ASSUME IInv, Tracked, NEW p \in Procs, spc[p] # "idle", Abandon(p),
         Quiet \/ (Tears /\ UNCHANGED keys), UNCHANGED <<grants, who, port, crossed>>
  PROVE  Tracked'
<1>1. Exit(p) /\ excused \subseteq excused' /\ (keyAdded[p] => Grant(p) \in excused')
  BY DEF Abandon
<1>2. grants[Grant(p)] = "known" => Owed(Grant(p))
  BY DEF Owed
<1> QED
  BY <1>1, <1>2, EndTracked

LEMMA TruncateKeysTracked ==
  ASSUME IInv, Tracked, NEW p \in Procs, TruncateKeys(p) PROVE Tracked'
<1> USE DEF IInv, Tracked
<1>1. /\ UNCHANGED <<ports, grants, who, port, started, first, crossed, torn>>
      /\ spc[p] \in {"truncate", "retruncate"}
  BY DEF TruncateKeys
<1>2. CASE Abandon(p) /\ UNCHANGED keys
  <2>1. Moves(p, "idle") /\ ~Truncated(p)
    BY <1>1, <1>2, AbandonMoves DEF Truncated
  <2>2. Quiet
    BY <1>1, <1>2, <2>1, MovesQuiet
  <2> QED
    BY <1>1, <1>2, <2>2, AbandonTracked
<1>3. CASE ~(Abandon(p) /\ UNCHANGED keys)
  <2>1. /\ \/ spc[p] = "truncate" /\ Goto(p, "write")
           \/ spc[p] = "retruncate" /\ Goto(p, "rewrite")
        /\ keys' = {} /\ UNCHANGED <<snapshot, keyAdded, tries, excused>>
    BY <1>3 DEF TruncateKeys
  <2>2. /\ Beside(p)
        /\ \/ spc[p] = "truncate" /\ spc'[p] = "write"
           \/ spc[p] = "retruncate" /\ spc'[p] = "rewrite"
    BY <2>1 DEF Beside, Goto, TypeOK
  <2>3. Truncates(p)
    BY <1>1, <2>1, <2>2 DEF Truncates, Beside, Editing, Truncated
  <2>4. \A r \in Procs : Grant(r)' = Grant(r) /\ Key(r)' = Key(r)
    BY <1>1, SameTags
  <2>5. Adding'
    BY <2>1, <2>2, <2>4 DEF Adding, Beside, Rolling
  <2>6. Unconfirmed'
    BY <1>1, <2>1, <2>2, <2>4 DEF Unconfirmed, Beside, Torn
  <2>7. Apart'
    BY <1>1, <2>2, ApartKept
  <2>8. Owned'
    <3> SUFFICES ASSUME NEW g \in Users \X Ports, KeyOf[g[1]] # NoKey, Appears(g)'
                 PROVE  Cared(g)'
      BY DEF Owned
    <3>1. Cared(g)
      BY <2>3, TruncatesShrinks, ShrinksAppears DEF Owned
    <3> QED
      BY <1>1, <2>1, <2>4, <3>1 DEF Cared
  <2>9. TagsAgree'
    BY <2>3, TruncatesAgrees
  <2>10. Present'
    <3> SUFFICES ASSUME ~Torn', NEW g \in (Users \X Ports) \ crossed,
                        KeyOf[g[1]] # NoKey, Owed(g)'
                 PROVE  Has(g)'
      BY <1>1 DEF Present
    <3>1. Owed(g)
      BY <1>1, <2>2, <2>4 DEF Owed, Beside
    <3> QED
      BY <1>1, <2>3, <3>1, TruncatesHas DEF Present, Torn
  <2> QED
    BY <2>5, <2>6, <2>7, <2>8, <2>9, <2>10
<1> QED
  BY <1>2, <1>3

(* What a write, whole or cut short, may show of a tag that is not the     *)
(* session's own is what the session read or what it found in the file.    *)
LEMMA WritesAppears ==
  ASSUME NEW p \in Procs, NEW content, Edits(p, content), Editing(p), ~Editing(p)',
         keys' \subseteq content \cup keys, Beside(p),
         NEW g \in Users \X Ports, g # Grant(p), Appears(g)'
  PROVE  Appears(g)
<1>1. TagLine(g) \in content => TagLine(g) \in snapshot[p]
  BY DEF Edits
<1>2. \A r \in Procs : Editing(r)' => Editing(r) /\ snapshot'[r] = snapshot[r]
  BY DEF Beside, Editing
<1> QED
  BY <1>1, <1>2 DEF Appears, TagLine

LEMMA WriteKeysTracked ==
  ASSUME IInv, Tracked, NEW p \in Procs, WriteKeys(p) PROVE Tracked'
<1> USE DEF IInv, Tracked
<1>1. /\ UNCHANGED <<ports, grants, who, port, first>>
      /\ spc[p] = "write" /\ ~keyAdded[p] /\ Key(p) # NoKey
      /\ crossed' = crossed \cup Overlapping(p)
  BY DEF WriteKeys, WriteWhole, WriteFails, Adding, Rolling, Keyed, TypeOK
<1>2. PICK content \in Install(snapshot[p], Key(p), who[p], port[p]) :
        \/ /\ WriteWhole(content) /\ Goto(p, "grant") /\ Forget(p)
           /\ keyAdded' = [keyAdded EXCEPT ![p] = TRUE]
           /\ UNCHANGED <<tries, excused>>
        \/ WriteFails(content) /\ Exit(p) /\ excused' = excused \cup {Grant(p)}
  BY DEF WriteKeys
<1>3. Edits(p, content) /\ Mine(p) \in content
  BY <1>1, InstallEdits
<1>4. \/ /\ WriteWhole(content) /\ spc'[p] = "grant" /\ keyAdded'[p] /\ Beside(p)
         /\ UNCHANGED excused
      \/ /\ WriteFails(content) /\ spc'[p] = "idle" /\ ~keyAdded'[p] /\ Beside(p)
         /\ excused' = excused \cup {Grant(p)}
  <2>1. CASE Exit(p)
    BY <1>2, <2>1, ExitBeside, <1>1 DEF Goto, Forget, Beside, TypeOK
  <2>2. CASE ~Exit(p)
    BY <1>2, <2>2 DEF Goto, Forget, Beside, TypeOK
  <2> QED
    BY <2>1, <2>2
<1>5. /\ keys' \subseteq content \cup keys /\ crossed \subseteq crossed'
      /\ Editing(p) /\ ~Editing(p)' /\ excused \subseteq excused'
  <2>1. keys' \in Landed(keys, content) \/ keys' \in CutShort(keys, content)
    BY <1>4 DEF WriteWhole, WriteFails
  <2>2. keys' \subseteq content \cup keys
    BY <2>1 DEF Landed, CutShort
  <2>3. Editing(p) /\ ~Editing(p)'
    BY <1>1, <1>4 DEF Editing
  <2> QED
    BY <1>1, <1>4, <2>2, <2>3
<1>6. \A r \in Procs : Grant(r)' = Grant(r) /\ Key(r)' = Key(r)
  BY <1>1, SameTags
<1>7. /\ Grant(p) \in Users \X Ports /\ Mine(p) = TagLine(Grant(p))
      /\ KeyOf[Grant(p)[1]] # NoKey
  BY <1>1, GrantType
<1>8. Adding'
  BY <1>1, <1>4, <1>6 DEF Adding, Beside, Rolling
<1>9. Unconfirmed'
  <2>1. Torn => Torn'
    BY <1>4 DEF WriteWhole, WriteFails, TornIf, Torn
  <2> QED
    BY <1>1, <1>4, <1>5, <1>6, <2>1 DEF Unconfirmed, Beside
<1>10. Apart'
  BY <1>1, <1>4, <1>5, ApartKept
<1>11. Owned'
  <2> SUFFICES ASSUME NEW g \in Users \X Ports, KeyOf[g[1]] # NoKey, Appears(g)'
               PROVE  Cared(g)'
    BY DEF Owned
  <2>1. CASE g = Grant(p)
    BY <1>4, <1>6, <2>1 DEF Cared
  <2>2. CASE g # Grant(p)
    <3>1. Cared(g)
      BY <1>3, <1>4, <1>5, <2>2, WritesAppears DEF Owned
    <3> QED
      BY <1>1, <1>4, <1>5, <1>6, <3>1, CaredKept DEF Beside
  <2> QED
    BY <2>1, <2>2
<1>12. CASE WriteFails(content)
  <2>1. Torn'
    BY <1>12 DEF WriteFails, TornIf, Torn
  <2> QED
    BY <1>8, <1>9, <1>10, <1>11, <2>1 DEF TagsAgree, Present
<1>13. CASE ~WriteFails(content)
  <2>1. Writes(p, content)
    BY <1>1, <1>3, <1>4, <1>13 DEF Writes, WriteWhole, Beside, Editing, Truncated
  <2>2. TagsAgree'
    BY <2>1, WritesAgrees
  <2>3. Present'
    <3> SUFFICES ASSUME ~Torn', NEW g \in (Users \X Ports) \ crossed',
                        KeyOf[g[1]] # NoKey, Owed(g)'
                 PROVE  Has(g)'
      BY DEF Present
    <3>1. CASE g = Grant(p)
      BY <1>3, <1>7, <2>1, <3>1, WritesFacts DEF Has, TagLine
    <3>2. CASE g # Grant(p)
      <4>1. Owed(g)
        BY <1>1, <1>4, <1>6, <3>2 DEF Owed, Beside
      <4> QED
        BY <1>5, <2>1, <3>2, <4>1, WritesHas, WritesFacts DEF Present
    <3> QED
      BY <3>1, <3>2
  <2> QED
    BY <1>8, <1>9, <1>10, <1>11, <2>2, <2>3
<1> QED
  BY <1>12, <1>13

LEMMA CallGrantTracked ==
  ASSUME IInv, Tracked, NEW p \in Procs, CallGrant(p) PROVE Tracked'
<1> USE DEF IInv, Tracked
<1>1. /\ UNCHANGED <<keys, who, port, first, crossed, torn>>
      /\ spc[p] = "grant" /\ excused \subseteq excused'
  BY DEF CallGrant, Granted, Transient, Permanent, Abandon
<1>2. /\ Quiet /\ Owed(Grant(p)) /\ Grant(p) \in Users \X Ports
  BY <1>1, CallGrantStep, GrantType DEF Owed
<1>3. \A g \in Users \X Ports :
        /\ grants[g] # "none" => grants'[g] # "none"
        /\ g # Grant(p) => grants'[g] = grants[g]
  BY GrantType DEF CallGrant, Granted, Transient, Permanent, Served, TypeOK
<1>4. CASE Exit(p)
  <2>1. keyAdded[p] => Grant(p) \in excused' \/ grants'[Grant(p)] # "none"
    <3>1. CASE Granted(p)
      BY <1>2, <3>1 DEF Granted, TypeOK
    <3>2. CASE Transient(p)
      <4>1. Abandon(p) \/ UNCHANGED spc
        BY <3>2 DEF Transient
      <4>2. ~UNCHANGED spc
        BY <1>1, <1>4 DEF Exit, Goto, TypeOK
      <4> QED
        BY <4>1, <4>2 DEF Abandon
    <3>3. CASE Permanent(p)
      <4>1. Goto(p, "reread") \/ ~NeedsRollback(p)
        BY <3>3 DEF Permanent
      <4>2. ~Goto(p, "reread")
        BY <1>4 DEF Exit, Goto, TypeOK
      <4> QED
        BY <4>1, <4>2 DEF NeedsRollback, Adding
    <3> QED
      BY <3>1, <3>2, <3>3 DEF CallGrant
  <2> QED
    BY <1>1, <1>2, <1>3, <1>4, <2>1, EndTracked
<1>5. CASE ~Exit(p)
  <2>1. /\ UNCHANGED <<snapshot, keyAdded, excused>> /\ Served(p)
        /\ \/ UNCHANGED spc
           \/ Goto(p, "reread") /\ keyAdded[p]
    BY <1>5 DEF CallGrant, Granted, Transient, Permanent, Abandon, NeedsRollback
  <2>2. Beside(p) /\ (spc'[p] = "grant" \/ (spc'[p] = "reread" /\ keyAdded[p]))
    BY <1>1, <2>1 DEF Beside, Goto, TypeOK
  <2>3. \A r \in Procs : Grant(r)' = Grant(r) /\ Key(r)' = Key(r)
    BY <1>1, SameTags
  <2>4. \A g \in Users \X Ports : grants'[g] = "known" => grants[g] = "known"
    BY <2>1, GrantType DEF Served, TypeOK
  <2>5. Adding'
    BY <1>1, <2>1, <2>2, <2>3 DEF Adding, Beside, Rolling
  <2>6. Unconfirmed'
    BY <1>1, <2>1, <2>2, <2>3, <2>4, GrantType DEF Unconfirmed, Beside, Torn
  <2>7. Apart'
    BY <1>1, <2>2, ApartKept
  <2>8. Owned'
    <3> SUFFICES ASSUME NEW g \in Users \X Ports, KeyOf[g[1]] # NoKey, Appears(g)'
                 PROVE  Cared(g)'
      BY DEF Owned
    <3>1. Cared(g)
      BY <1>2, QuietShrinks, ShrinksAppears DEF Owned
    <3> QED
      BY <1>1, <1>3, <2>1, <2>3, <3>1, CaredKept
  <2>9. TagsAgree'
    BY <1>1, <1>2, QuietAgrees
  <2>10. Present'
    <3> SUFFICES ASSUME ~Torn', NEW g \in (Users \X Ports) \ crossed,
                        KeyOf[g[1]] # NoKey, Owed(g)'
                 PROVE  Has(g)'
      BY <1>1 DEF Present
    <3>1. Owed(g)
      BY <1>1, <2>2, <2>3, <2>4 DEF Owed, Beside
    <3> QED
      BY <1>1, <1>2, <3>1, QuietHas DEF Present, Torn
  <2> QED
    BY <2>5, <2>6, <2>7, <2>8, <2>9, <2>10
<1> QED
  BY <1>4, <1>5

LEMMA RereadKeysTracked ==
  ASSUME IInv, Tracked, NEW p \in Procs, RereadKeys(p) PROVE Tracked'
<1> USE DEF IInv, Tracked
<1>1. /\ UNCHANGED <<keys, grants, who, port, first, crossed>>
      /\ spc[p] = "reread" /\ keyAdded[p]
  BY DEF RereadKeys, Adding, Rolling
<1>2. CASE Abandon(p) /\ UNCHANGED torn
  <2>1. Moves(p, "idle") /\ ~Truncated(p)
    BY <1>1, <1>2, AbandonMoves DEF Truncated
  <2>2. Quiet
    BY <1>1, <1>2, <2>1, MovesQuiet
  <2> QED
    BY <1>1, <1>2, <2>2, AbandonTracked
<1>3. CASE ~(Abandon(p) /\ UNCHANGED torn)
  <2>1. /\ snapshot' = [snapshot EXCEPT ![p] = keys] /\ Goto(p, "retruncate")
        /\ TornIf(Truncating, "peeked") /\ UNCHANGED <<keyAdded, tries, excused>>
    BY <1>3 DEF RereadKeys
  <2>2. Beside(p) /\ spc'[p] = "retruncate" /\ snapshot'[p] = keys
    BY <2>1 DEF Beside, Goto, TypeOK
  <2>3. Reads(p)
    BY <1>1, <2>1, <2>2 DEF Reads, Beside, Editing, Truncated
  <2>4. \A r \in Procs : Grant(r)' = Grant(r) /\ Key(r)' = Key(r)
    BY <1>1, SameTags
  <2>5. Adding'
    BY <1>1, <2>1, <2>2, <2>4 DEF Adding, Beside, Rolling
  <2>6. Unconfirmed'
    <3>1. Torn => Torn'
      BY <2>1 DEF TornIf, Torn
    <3> QED
      BY <1>1, <2>1, <2>2, <2>4, <3>1 DEF Unconfirmed, Beside
  <2>7. Apart'
    BY <1>1, <2>2, ApartKept
  <2>8. Owned'
    <3> SUFFICES ASSUME NEW g \in Users \X Ports, KeyOf[g[1]] # NoKey, Appears(g)'
                 PROVE  Cared(g)'
      BY DEF Owned
    <3>1. Cared(g)
      BY <2>3, ReadsShrinks, ShrinksAppears DEF Owned
    <3> QED
      BY <1>1, <2>1, <2>4, <3>1 DEF Cared
  <2>9. TagsAgree'
    BY <2>3, ReadsAgrees
  <2>10. Present'
    <3> SUFFICES ASSUME ~Torn', NEW g \in (Users \X Ports) \ crossed,
                        KeyOf[g[1]] # NoKey, Owed(g)'
                 PROVE  Has(g)'
      BY <1>1 DEF Present
    <3>1. Owed(g)
      BY <1>1, <2>2, <2>4 DEF Owed, Beside
    <3> QED
      BY <2>3, <3>1, ReadsHas, ReadsUntorn DEF Present
  <2> QED
    BY <2>5, <2>6, <2>7, <2>8, <2>9, <2>10
<1> QED
  BY <1>2, <1>3

LEMMA RewriteKeysTracked ==
  ASSUME IInv, Tracked, NEW p \in Procs, RewriteKeys(p) PROVE Tracked'
<1> USE DEF IInv, Tracked
<1> DEFINE content == RemoveLine(snapshot[p], Mine(p))
<1>1. /\ UNCHANGED <<ports, grants, who, port, first>>
      /\ spc[p] = "rewrite" /\ keyAdded[p]
      /\ crossed' = crossed \cup Overlapping(p)
  BY DEF RewriteKeys, WriteWhole, WriteFails, Adding, Rolling
<1>2. \/ WriteWhole(content) /\ Exit(p) /\ UNCHANGED excused
      \/ WriteFails(content) /\ Abandon(p)
  BY DEF RewriteKeys
<1>3. Edits(p, content) /\ Mine(p) \notin content
  BY <1>1, RemoveEdits
<1> HIDE DEF content
<1>4. /\ spc'[p] = "idle" /\ ~keyAdded'[p] /\ Beside(p)
      /\ \/ WriteWhole(content)
         \/ WriteFails(content) /\ Grant(p) \in excused'
      /\ excused \subseteq excused'
  BY <1>1, <1>2, ExitBeside DEF Abandon
<1>5. /\ keys' \subseteq content \cup keys /\ crossed \subseteq crossed'
      /\ Editing(p) /\ ~Editing(p)'
  <2>1. keys' \in Landed(keys, content) \/ keys' \in CutShort(keys, content)
    BY <1>4 DEF WriteWhole, WriteFails
  <2>2. keys' \subseteq content \cup keys
    BY <2>1 DEF Landed, CutShort
  <2>3. Editing(p) /\ ~Editing(p)'
    BY <1>1, <1>4 DEF Editing
  <2> QED
    BY <1>1, <1>4, <2>2, <2>3
<1>6. \A r \in Procs : Grant(r)' = Grant(r) /\ Key(r)' = Key(r)
  BY <1>1, SameTags
<1>7. Grant(p) \in Users \X Ports /\ Mine(p) = TagLine(Grant(p))
  BY GrantType
<1>8. Adding'
  BY <1>1, <1>4, <1>6 DEF Adding, Beside, Rolling
<1>9. Unconfirmed'
  <2>1. Torn => Torn'
    BY <1>4 DEF WriteWhole, WriteFails, TornIf, Torn
  <2> QED
    BY <1>1, <1>4, <1>5, <1>6, <2>1 DEF Unconfirmed, Beside
<1>10. Apart'
  BY <1>1, <1>4, <1>5, ApartKept
<1>11. Owned'
  <2> SUFFICES ASSUME NEW g \in Users \X Ports, KeyOf[g[1]] # NoKey, Appears(g)'
               PROVE  Cared(g)'
    BY DEF Owned
  <2>1. CASE g = Grant(p)
    <3>1. TagLine(g) \in keys => g \in crossed'
      BY <1>1, <2>1 DEF Overlapping
    <3>2. TagLine(g) \in keys' => TagLine(g) \in keys
      BY <1>3, <1>5, <1>7, <2>1
    <3>3. ASSUME NEW r \in Procs, Editing(r)' PROVE g \in crossed'
      BY <1>1, <1>4, <1>5, <2>1, <3>3 DEF Overlapping, Beside, Editing
    <3> QED
      BY <3>1, <3>2, <3>3 DEF Appears, Cared, TagLine
  <2>2. CASE g # Grant(p)
    <3>1. Cared(g)
      BY <1>3, <1>4, <1>5, <2>2, WritesAppears DEF Owned
    <3> QED
      BY <1>1, <1>4, <1>5, <1>6, <2>2, <3>1, CaredKept DEF Beside
  <2> QED
    BY <2>1, <2>2
<1>12. CASE WriteFails(content)
  <2>1. Torn'
    BY <1>12 DEF WriteFails, TornIf, Torn
  <2> QED
    BY <1>8, <1>9, <1>10, <1>11, <2>1 DEF TagsAgree, Present
<1>13. CASE ~WriteFails(content)
  <2>1. Writes(p, content)
    BY <1>1, <1>3, <1>4, <1>13 DEF Writes, WriteWhole, Beside, Editing, Truncated
  <2>2. TagsAgree'
    BY <2>1, WritesAgrees
  <2>3. Present'
    <3> SUFFICES ASSUME ~Torn', NEW g \in (Users \X Ports) \ crossed',
                        KeyOf[g[1]] # NoKey, Owed(g)'
                 PROVE  Has(g)'
      BY DEF Present
    <3>1. Owed(g)
      BY <1>1, <1>4, <1>6 DEF Owed, Beside
    <3>2. CASE g # Grant(p)
      BY <1>5, <2>1, <3>1, <3>2, WritesHas, WritesFacts DEF Present
    <3>3. CASE g = Grant(p)
      <4>1. grants[g] # "known"
        BY <1>1, <1>5, <2>1, <3>3, WritesFacts DEF Unconfirmed
      <4>2. PICK r \in Procs : spc'[r] = "grant" /\ Grant(r)' = g
        BY <1>1, <4>1 DEF Owed
      <4>3. r # p /\ spc[r] = "grant" /\ Grant(r) = Grant(p)
        BY <1>4, <1>6, <3>3, <4>2 DEF Beside
      <4> QED
        BY <1>1, <1>5, <3>3, <4>3 DEF Apart
    <3> QED
      BY <3>2, <3>3
  <2> QED
    BY <1>8, <1>9, <1>10, <1>11, <2>2, <2>3
<1> QED
  BY <1>12, <1>13

LEMMA KillTracked ==
  ASSUME IInv, Tracked, NEW p \in Procs, Kill(p) PROVE Tracked'
  BY KillStep, AbandonTracked DEF Kill

(* Members elsewhere: a new grant is not one the CLI knows of, and a       *)
(* revoked one leaves its line behind, which is said.                      *)
LEMMA MembersTracked ==
  ASSUME IInv, Tracked, GrantSSH \/ RevokeSSH PROVE Tracked'
<1> USE DEF IInv, Tracked
<1>1. UNCHANGED <<keys, sessionVars, first, crossed, torn>> /\ excused \subseteq excused'
  BY DEF GrantSSH, RevokeSSH, history
<1>2. \A g \in Users \X Ports :
        /\ grants'[g] = "known" => grants[g] = "known"
        /\ grants[g] # "none" /\ grants'[g] = "none" => g \in excused'
  BY DEF GrantSSH, RevokeSSH, Accesses, OrgMembers, TypeOK
<1>3. Quiet /\ Torn' = Torn
  BY <1>1, MembersStep DEF Torn
<1>4. \A r \in Procs : Grant(r)' = Grant(r) /\ Key(r)' = Key(r)
  BY <1>1, SameTags DEF sessionVars
<1>5. Adding' /\ Apart'
  BY <1>1, <1>4 DEF Adding, Apart, sessionVars
<1>6. Unconfirmed'
  BY <1>1, <1>2, <1>3, <1>4, GrantType DEF Unconfirmed, sessionVars
<1>7. Owned'
  <2> SUFFICES ASSUME NEW g \in Users \X Ports, KeyOf[g[1]] # NoKey, Appears(g)'
               PROVE  Cared(g)'
    BY DEF Owned
  <2>1. Cared(g)
    BY <1>3, QuietShrinks, ShrinksAppears DEF Owned
  <2> QED
    BY <1>1, <1>2, <1>4, <2>1, CaredKept DEF sessionVars
<1>8. TagsAgree'
  BY <1>1, <1>3, QuietAgrees
<1>9. Present'
  <2> SUFFICES ASSUME ~Torn', NEW g \in (Users \X Ports) \ crossed,
                      KeyOf[g[1]] # NoKey, Owed(g)'
               PROVE  Has(g)'
    BY <1>1 DEF Present
  <2>1. Owed(g)
    BY <1>1, <1>2, <1>4 DEF Owed, sessionVars
  <2> QED
    BY <1>3, <2>1, QuietHas DEF Present
<1> QED
  BY <1>5, <1>6, <1>7, <1>8, <1>9

LEMMA StutterTracked == Tracked /\ UNCHANGED vars => Tracked'
<1> SUFFICES ASSUME Tracked, UNCHANGED vars PROVE Tracked'
  OBVIOUS
<1>1. \A r \in Procs : Grant(r)' = Grant(r) /\ Key(r)' = Key(r)
  BY SameTags DEF vars, sessionVars
<1> QED
  BY <1>1 DEF vars, sessionVars, history, Tracked, Adding, Unconfirmed, Apart, Owned,
     Appears, Cared, TagsAgree, SameInAll, Present, Owed, Has, Torn, Truncating,
     Truncated, Editing, TagLine

LEMMA NextTracked == IInv /\ Tracked /\ [Next]_vars => Tracked'
  BY OpenPortTracked, ReadKeysTracked, TruncateKeysTracked, WriteKeysTracked,
     CallGrantTracked, RereadKeysTracked, RewriteKeysTracked, KillTracked,
     MembersTracked, StutterTracked DEF Next, Step

THEOREM TagsTracked == Spec => []Tracked
  BY InitTracked, NextTracked, Inductive, PTL DEF Spec

(* However many sessions run at once: a grant devplane confirmed has its   *)
(* line in authorized_keys, unless sessions crossed over the tag, one has  *)
(* the file truncated, or the file was torn.                               *)
THEOREM KnownCorrect == Spec => []KnownGrantHasKey
<1>1. Tracked => KnownGrantHasKey
  BY DEF Tracked, Present, Owed, Has, KnownGrantHasKey
<1> QED
  BY <1>1, TagsTracked, PTL

(* The line is there when devplane is asked for the grant, with the same   *)
(* exceptions.                                                             *)
THEOREM KeyFirstCorrect == Spec => []KeyBeforeGrant
<1>1. IInv /\ Tracked => KeyBeforeGrant
  BY GrantType DEF IInv, Tracked, Present, Owed, Has, KeyBeforeGrant
<1> QED
  BY <1>1, Inductive, TagsTracked, PTL

(* A line without a grant is one that somebody is to take out, or that a   *)
(* failure, a kill, a revocation or a crossing left.                       *)
THEOREM StrayCorrect == Spec => []StrayTagsExcused
<1>1. IInv /\ Tracked => StrayTagsExcused
  BY DEF IInv, TypeOK, Tracked, Owned, Appears, Cared, Adding, Rolling,
         StrayTagsExcused, Active
<1> QED
  BY <1>1, Inductive, TagsTracked, PTL

-----------------------------------------------------------------------------
(* One process after another: nothing is ever crossed, and nobody reads a  *)
(* truncated file, so the properties hold but for what a failed write or a *)
(* kill after the truncation takes.                                        *)

Sole == \A p, r \in Procs : p = r

Fresh ==
  /\ Sole
  /\ crossed = {} /\ torn # "peeked"
  /\ \A p \in Procs : Truncated(p) => keys = {}

LEMMA NextFresh == IInv /\ Fresh /\ [Next]_vars => Fresh'
<1> SUFFICES ASSUME IInv, Fresh, [Next]_vars PROVE Fresh'
  OBVIOUS
<1> USE DEF IInv, TypeOK, Fresh, Goto
<1>1. Sole'
  BY DEF Sole
<1>2. CASE UNCHANGED vars
  BY <1>1, <1>2 DEF vars, sessionVars, history, Truncated
<1>3. ASSUME NEW p \in Procs, OpenPort(p) PROVE Fresh'
  BY <1>1, <1>3 DEF OpenPort, AfterPort, Sharing, Active, Sole, Truncated
<1>4. ASSUME NEW p \in Procs, ReadKeys(p) PROVE Fresh'
  BY <1>1, <1>4 DEF ReadKeys, Unreadable, Exit, Sole, Truncated, Truncating, TornIf
<1>5. ASSUME NEW p \in Procs, TruncateKeys(p) PROVE Fresh'
  BY <1>1, <1>5 DEF TruncateKeys, Abandon, Exit, Sole, Truncated
<1>6. ASSUME NEW p \in Procs, WriteKeys(p) PROVE Fresh'
  BY <1>1, <1>6 DEF WriteKeys, WriteWhole, WriteFails, Overlapping, Exit, Sole, Truncated, TornIf
<1>7. ASSUME NEW p \in Procs, CallGrant(p) PROVE Fresh'
  BY <1>1, <1>7 DEF CallGrant, Granted, Transient, Permanent, Abandon, Exit, Sole, Truncated
<1>8. ASSUME NEW p \in Procs, RereadKeys(p) PROVE Fresh'
  BY <1>1, <1>8 DEF RereadKeys, Abandon, Exit, Sole, Truncated, Truncating, TornIf
<1>9. ASSUME NEW p \in Procs, RewriteKeys(p) PROVE Fresh'
  BY <1>1, <1>9 DEF RewriteKeys, WriteWhole, WriteFails, Overlapping, Abandon, Exit, Sole,
     Truncated, TornIf
<1>10. ASSUME NEW p \in Procs, Kill(p) PROVE Fresh'
  BY <1>1, <1>10 DEF Kill, Abandon, Exit, Sole, Truncated, TornIf
<1>11. CASE GrantSSH \/ RevokeSSH
  BY <1>1, <1>11 DEF GrantSSH, RevokeSSH, sessionVars, history, Truncated
<1> QED
  BY <1>2, <1>3, <1>4, <1>5, <1>6, <1>7, <1>8, <1>9, <1>10, <1>11 DEF Next, Step

(* Sessions one after another never cross, and never read a truncated file. *)
THEOREM SoleNeverCrosses == Sole /\ Spec => [](crossed = {} /\ torn # "peeked")
<1>1. Sole /\ Init => Fresh
  BY DEF Init, Fresh, Truncated
<1>2. Fresh => crossed = {} /\ torn # "peeked"
  BY DEF Fresh
<1> QED
  BY <1>1, <1>2, NextFresh, Inductive, PTL DEF Spec
=============================================================================
