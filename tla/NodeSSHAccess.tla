---------------------------- MODULE NodeSSHAccess ----------------------------
(***************************************************************************)
(* Granting SSH access to a registered node: `brev enable-ssh` and the     *)
(* last part of `brev register` (SetupAndRegisterNodeSSHAccess in          *)
(* pkg/cmd/register/sshkeys.go).                                           *)
(*                                                                         *)
(* A session allocates a port, installs the user's public key in           *)
(* authorized_keys under the port's tag, then asks devplane for the grant, *)
(* again and again while the answer is an internal error and the backoff   *)
(* window lasts.  Any other error takes the line back out.  The file is    *)
(* read, truncated and written in three steps, without a lock, each of     *)
(* which may fail, and the process can be killed between any two.          *)
(*                                                                         *)
(* Beside the sessions, members of the organization use `brev grant-ssh`   *)
(* and `brev revoke-ssh`, on any machine: one call each, and no file.      *)
(***************************************************************************)
EXTENDS AuthorizedKeys, Integers

CONSTANTS
  Procs,        \* CLI processes on the node
  KeyOf,        \* the public key devplane holds for a user, or NoKey
  NoKey,
  Preexisting,  \* files the node may start with
  MaxCommands,  \* commands a behaviour may start
  MaxTries      \* calls that fit in backoffMaxElapsedTime

ASSUME NodeSSHAccessConstants ==
  /\ KeyOf \in [Users -> Keys \cup {NoKey}] /\ NoKey \notin Keys
  /\ Users # {} /\ Ports # {}
  /\ Preexisting \subseteq SUBSET Lines
  /\ MaxTries \in Nat \ {0} /\ MaxCommands \in Nat

VARIABLES
  keys,         \* authorized_keys
  ports,        \* ports devplane allocated for the node
  grants,       \* grants[u, q]: "none", "known" to the CLI, or "unseen" by it
  spc, who, port, snapshot, keyAdded, tries,      \* one session per process
  started,      \* commands started, up to MaxCommands
  first,        \* history: the file at the start
  excused,      \* history: tags that were there before, that a session was
                \* killed over or failed to remove, or whose grant was revoked
  crossed,      \* history: tags two sessions had at once, or that one wrote
                \* while another was between its reading and its writing
  torn          \* history: whether lines may be lost, and how for the first time:
                \* a session read the file while another had it truncated
                \* ("peeked"), or ended before it wrote it ("cutOff")

sessionVars == <<spc, who, port, snapshot, keyAdded, tries>>
history     == <<first, excused, crossed, torn>>
vars        == <<keys, ports, grants, sessionVars, started, history>>

\* The line of a user's grant of a port.
TagLine(g) == Line(KeyOf[g[1]], Tag(g[1], g[2]))

Init ==
  /\ keys \in Preexisting
  /\ ports = {}
  /\ grants = [g \in Users \X Ports |-> "none"]
  /\ spc = [p \in Procs |-> "idle"]
  /\ who = [p \in Procs |-> CHOOSE u \in Users : TRUE]
  /\ port = [p \in Procs |-> CHOOSE q \in Ports : TRUE]
  /\ snapshot = [p \in Procs |-> {}]
  /\ keyAdded = [p \in Procs |-> FALSE]
  /\ tries = [p \in Procs |-> 0]
  /\ started = 0
  /\ first = keys
  /\ excused = {g \in Users \X Ports : TagLine(g) \in keys}
  /\ crossed = {} /\ torn = "no"

Key(p)   == KeyOf[who[p]]
Grant(p) == <<who[p], port[p]>>
Mine(p)  == TagLine(Grant(p))

\* A command starts.
Start == started < MaxCommands /\ started' = started + 1

Goto(p, there) == spc' = [spc EXCEPT ![p] = there]
Forget(p)      == snapshot' = [snapshot EXCEPT ![p] = {}]

\* The process ends, and what it knew with it; another may start in its place.
Exit(p) ==
  /\ Goto(p, "idle") /\ Forget(p)
  /\ keyAdded' = [keyAdded EXCEPT ![p] = FALSE]
  /\ tries' = [tries EXCEPT ![p] = 0]

\* It ends, and the line it added stays.
Abandon(p) ==
  /\ Exit(p)
  /\ excused' = excused \cup IF keyAdded[p] THEN {Grant(p)} ELSE {}

Active(g) == \E p \in Procs : spc[p] # "idle" /\ Grant(p) = g

\* A session has read the file and not yet written it; it has it truncated.
Editing(p)   == spc[p] \in {"truncate", "write", "retruncate", "rewrite"}
Truncated(p) == spc[p] \in {"write", "rewrite"}
Truncating   == \E p \in Procs : Truncated(p)

\* What the history keeps of a session that takes a tag another one has, of a
\* write that another session did not read, or did not find, and of lost lines.
TornIf(condition, how) == torn' = IF torn = "no" /\ condition THEN how ELSE torn
Sharing(g)     == IF Active(g) THEN {g} ELSE {}
Overlapping(p) == IF (\E r \in Procs \ {p} : Editing(r)) \/ keys # {}
                    THEN {Grant(p)} ELSE {}

-----------------------------------------------------------------------------
\* Only a user with a public key has a line to install.  Faulty: nobody has,
\* before the grant.
GrantAtOnce(u)   == "grant"
AfterPort(u)     == IF KeyOf[u] = NoKey THEN "grant" ELSE "read"

\* An allocated port, or a new one; the call for it is idempotent.
UsePort(q)     == q \in ports /\ UNCHANGED ports
OpenSSHPort(q) == ports' = ports \cup {q}

OpenPort(p) ==
  /\ spc[p] = "idle"
  /\ \E u \in Users, q \in Ports :
       /\ UsePort(q) \/ OpenSSHPort(q)
       /\ \/ /\ Start
             /\ who' = [who EXCEPT ![p] = u] /\ port' = [port EXCEPT ![p] = q]
             /\ Goto(p, AfterPort(u))
             /\ crossed' = crossed \cup Sharing(<<u, q>>)
          \/ UNCHANGED <<started, who, port, spc, crossed>>    \* the call fails
  /\ UNCHANGED <<keys, grants, snapshot, keyAdded, tries, first, excused, torn>>

\* A file that cannot be read ends the session.  Faulty: it is taken as empty.
TakenAsEmpty(p) == Goto(p, "truncate") /\ Forget(p) /\ UNCHANGED <<keyAdded, tries>>
Unreadable(p)   == Exit(p)

\* InstallAuthorizedKey reads: nothing to do if the tag is there.
ReadKeys(p) ==
  /\ spc[p] = "read"
  /\ \/ /\ \/ Mine(p) \in keys /\ Goto(p, "grant") /\ UNCHANGED snapshot
           \/ /\ Mine(p) \notin keys
              /\ snapshot' = [snapshot EXCEPT ![p] = keys]
              /\ Goto(p, "truncate")
        /\ TornIf(Truncating, "peeked")
        /\ UNCHANGED <<keyAdded, tries>>
     \/ Unreadable(p) /\ UNCHANGED torn
  /\ UNCHANGED <<keys, ports, grants, who, port, started, first, excused, crossed>>

\* os.WriteFile, of an installation and of a removal: a file it cannot open
\* is left whole ...
TruncateKeys(p) ==
  /\ \/ /\ \/ spc[p] = "truncate" /\ Goto(p, "write")
           \/ spc[p] = "retruncate" /\ Goto(p, "rewrite")
        /\ keys' = {}
        /\ UNCHANGED <<snapshot, keyAdded, tries, excused>>
     \/ /\ spc[p] \in {"truncate", "retruncate"}
        /\ Abandon(p) /\ UNCHANGED keys
  /\ UNCHANGED <<ports, grants, who, port, started, first, crossed, torn>>

\* ... and a write may be cut short.
WriteWhole(content) == keys' \in Landed(keys, content) /\ UNCHANGED <<started, torn>>
WriteFails(content) == /\ keys' \in CutShort(keys, content) /\ UNCHANGED started
                       /\ TornIf(TRUE, "cutOff")

WriteKeys(p) ==
  /\ spc[p] = "write"
  /\ \E content \in Install(snapshot[p], Key(p), who[p], port[p]) :
       \/ /\ WriteWhole(content)
          /\ Goto(p, "grant") /\ Forget(p)
          /\ keyAdded' = [keyAdded EXCEPT ![p] = TRUE]
          /\ UNCHANGED <<tries, excused>>
       \/ /\ WriteFails(content)
          /\ Exit(p)
          /\ excused' = excused \cup {Grant(p)}
  /\ crossed' = crossed \cup Overlapping(p)
  /\ UNCHANGED <<ports, grants, who, port, first>>

\* A permanent error is rolled back if this session added the line.
\* Faulty: always, or never.
RollbackAlways(p)  == Key(p) # NoKey
RollbackNever(p)   == FALSE
NeedsRollback(p)   == keyAdded[p] /\ Key(p) # NoKey

\* backoff.RetryNotify gives up when the window is over; faulty: it never
\* does (and the count below wraps).
MayRetryForever(p) == TRUE
MayRetry(p)        == tries[p] < MaxTries

\* One call of GrantNodeSSHAccess and what opToTry makes of the answer; a
\* call that fails may still have been served.
Granted(p) ==
  /\ grants' = [grants EXCEPT ![Grant(p)] = "known"]
  /\ Exit(p)
  /\ UNCHANGED excused

Served(p) == \/ grants' = [grants EXCEPT ![Grant(p)] =
                             IF @ = "known" THEN @ ELSE "unseen"]
             \/ UNCHANGED grants

Transient(p) ==
  /\ Served(p)
  /\ \/ /\ MayRetry(p)
        /\ tries' = [tries EXCEPT ![p] = (@ + 1) % (MaxTries + 1)]
        /\ UNCHANGED <<spc, snapshot, keyAdded, excused>>
     \/ ~MayRetry(p) /\ Abandon(p)

Permanent(p) ==
  /\ Served(p)
  /\ \/ /\ NeedsRollback(p)
        /\ Goto(p, "reread") /\ UNCHANGED <<snapshot, keyAdded, tries>>
     \/ ~NeedsRollback(p) /\ Exit(p)
  /\ UNCHANGED excused

CallGrant(p) ==
  /\ spc[p] = "grant"
  /\ Granted(p) \/ Transient(p) \/ Permanent(p)
  /\ UNCHANGED <<keys, ports, who, port, started, first, crossed, torn>>

\* RemoveAuthorizedKeyLine reads ...
RereadKeys(p) ==
  /\ spc[p] = "reread"
  /\ \/ /\ snapshot' = [snapshot EXCEPT ![p] = keys]
        /\ TornIf(Truncating, "peeked")
        /\ Goto(p, "retruncate")
        /\ UNCHANGED <<keyAdded, tries, excused>>
     \/ Abandon(p) /\ UNCHANGED torn                       \* read error
  /\ UNCHANGED <<keys, ports, grants, who, port, started, first, crossed>>

\* ... and writes the rest back.
RewriteKeys(p) ==
  /\ spc[p] = "rewrite"
  /\ LET content == RemoveLine(snapshot[p], Mine(p)) IN
       \/ WriteWhole(content) /\ Exit(p) /\ UNCHANGED excused
       \/ WriteFails(content) /\ Abandon(p)
  /\ crossed' = crossed \cup Overlapping(p)
  /\ UNCHANGED <<ports, grants, who, port, first>>

\* A signal, or the power of the node.
Kill(p) ==
  /\ spc[p] # "idle"
  /\ Abandon(p)
  /\ TornIf(Truncated(p), "cutOff")
  /\ UNCHANGED <<keys, ports, grants, who, port, started, first, crossed>>

-----------------------------------------------------------------------------
(* brev grant-ssh and brev revoke-ssh                                      *)

\* The members a caller may choose, as far as they can be looked up.
OrgMembers(caller) == Users \ {caller}

\* A port devplane has for the node.
GrantPort(q) == q \in ports

\* The Linux user is a flag, or one of those of the grants there are.
Accesses == {g \in Users \X Ports : grants[g] # "none"}

GrantSSH ==
  /\ Start
  /\ \E u \in UNION {OrgMembers(caller) : caller \in Users}, q \in Ports :
       /\ GrantPort(q)
       /\ grants' = [grants EXCEPT ![<<u, q>>] = IF @ = "none" THEN "unseen" ELSE @]
  /\ UNCHANGED <<keys, ports, sessionVars, history>>

\* One of the grants there are; its line stays in the file.
RevokeSSH ==
  /\ Start
  /\ \E g \in Accesses :
       /\ grants' = [grants EXCEPT ![g] = "none"]
       /\ excused' = excused \cup {g}
  /\ UNCHANGED <<keys, ports, sessionVars, first, crossed, torn>>
-----------------------------------------------------------------------------
Step(p) == \/ ReadKeys(p) \/ TruncateKeys(p) \/ WriteKeys(p) \/ CallGrant(p)
           \/ RereadKeys(p) \/ RewriteKeys(p)

Next == \/ \E p \in Procs : OpenPort(p) \/ Step(p) \/ Kill(p)
        \/ GrantSSH \/ RevokeSSH

Spec == Init /\ [][Next]_vars

(* A session that started goes on: calls are answered, files can be tried. *)
(* Nothing makes a new session start.                                      *)
FairSpec == Spec /\ \A p \in Procs : WF_vars(Step(p))

-----------------------------------------------------------------------------
TypeOK ==
  /\ keys \subseteq Lines /\ first \subseteq Lines
  /\ ports \subseteq Ports
  /\ grants \in [Users \X Ports -> {"none", "known", "unseen"}]
  /\ spc \in [Procs -> {"idle", "read", "truncate", "write", "grant",
                        "reread", "retruncate", "rewrite"}]
  /\ who \in [Procs -> Users] /\ port \in [Procs -> Ports]
  /\ snapshot \in [Procs -> SUBSET Lines]
  /\ keyAdded \in [Procs -> BOOLEAN]
  /\ tries \in [Procs -> 0 .. MaxTries] /\ started \in Nat
  /\ excused \subseteq Users \X Ports /\ crossed \subseteq Users \X Ports
  /\ torn \in {"no", "peeked", "cutOff"}

(* What takes lines from the file that no session meant to take out.       *)
Torn == torn # "no"

(* Keys the CLI never handles keep their lines: whenever no session has    *)
(* the file truncated, the lines of the start are there and no other.      *)
(* They are lost, for good, in two ways only: a session reads the file     *)
(* while another has it truncated, and writes what it read; or a session   *)
(* fails or is killed after truncating it.  Sessions that overlap in any   *)
(* other way lose none.                                                    *)
Strangers == {l \in Lines : \A u \in Users : KeyOf[u] # l.key}
StrangersKept ==
  Torn \/ Truncating \/ \A l \in Strangers : l \in keys <=> l \in first

(* A grant devplane confirmed has its line in the file: a later session    *)
(* for the same user and port that fails does not take it away, because it *)
(* did not add it (keyAdded).  But: while a session has the file truncated *)
(* the line may be away, a read in that time or a write that is cut off    *)
(* may lose it, and so may a session for the same tag, or one that read    *)
(* the file before the line was written and writes it after.               *)
KnownGrantHasKey ==
  \A g \in Users \X Ports :
    grants[g] = "known" /\ KeyOf[g[1]] # NoKey
      => TagLine(g) \in keys \/ g \in crossed \/ Truncating \/ Torn

(* A tag without a grant is left behind only by a session that was killed, *)
(* whose retries ran out, whose write was cut short or whose rollback      *)
(* failed; by revoke-ssh; and by sessions that cross.                      *)
StrayTagsExcused ==
  \A g \in Users \X Ports :
    KeyOf[g[1]] # NoKey /\ TagLine(g) \in keys
      => grants[g] # "none" \/ Active(g) \/ g \in excused \cup crossed

(* "The key must be present locally before devplane can grant": when the   *)
(* grant is asked for, the line is in the file, unless another session     *)
(* has the file truncated at the time, or lost the line in one of the ways *)
(* of KnownGrantHasKey.                                                    *)
KeyBeforeGrant ==
  \A p \in Procs : spc[p] = "grant" /\ Key(p) # NoKey
                      => Mine(p) \in keys \/ Grant(p) \in crossed \/ Truncating \/ Torn

(* A session ends: the retries have a window.                              *)
SessionsEnd == \A p \in Procs : []<>(spc[p] = "idle")
=============================================================================
