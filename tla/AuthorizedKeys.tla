---------------------------- MODULE AuthorizedKeys ----------------------------
(***************************************************************************)
(* ~/.ssh/authorized_keys as the CLI edits it                              *)
(* (pkg/cmd/register/sshkeys.go).  A file is the set of its lines; a line  *)
(* is a public key and what follows it: nothing, the legacy "# brev-cli"   *)
(* mark, or the tag "#brev-portID:<port>,brev-userID:<user>".  The order   *)
(* of lines and repeated lines are abstracted: an edit that picks the      *)
(* first line that matches picks any one here.                             *)
(***************************************************************************)
EXTENDS FiniteSets

CONSTANTS Keys, Users, Ports

Plain      == [kind |-> "plain"]
Legacy     == [kind |-> "legacy"]
Tag(u, q)  == [kind |-> "tag", user |-> u, port |-> q]
Tags       == {Tag(u, q) : u \in Users, q \in Ports}

Lines      == [key : Keys, mark : {Plain, Legacy} \cup Tags]
Line(k, m) == [key |-> k, mark |-> m]

\* The lines InstallAuthorizedKey may rewrite in place.
Upgradable(file, k) == {l \in file : l.key = k /\ l.mark \in {Plain, Legacy}}

\* What InstallAuthorizedKey may write for a file it read.
Install(file, k, u, q) ==
  LET new == Line(k, Tag(u, q)) IN
  IF Upgradable(file, k) = {}
    THEN {file \cup {new}}
    ELSE {(file \ {old}) \cup {new} : old \in Upgradable(file, k)}

\* RemoveAuthorizedKeyLine: the exact line.
RemoveLine(file, l) == file \ {l}

(***************************************************************************)
(* os.WriteFile opens the file, which empties it, and then writes from its *)
(* beginning, perhaps not to the end.  What others wrote in between stays  *)
(* behind the content where it was longer.  What is left of a line that is *)
(* cut has no tag, and is left out.                                        *)
(***************************************************************************)
Landed(file, content) == {content \cup tail : tail \in SUBSET file}
CutShort(file, content) == {part \cup tail : part \in SUBSET content, tail \in SUBSET file}
=============================================================================
