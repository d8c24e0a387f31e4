------------------------------- MODULE NodeLife -------------------------------
(***************************************************************************)
(* What register and deregister promise of the nodes of one machine,       *)
(* whatever fails on the way: the machine keeps one node at a time, a new  *)
(* one is added only when none is kept, what is kept is forgotten only     *)
(* after devplane removed it, and a node that was removed or lost never    *)
(* comes back.                                                             *)
(***************************************************************************)
EXTENDS Integers

CONSTANT None                     \* no node

VARIABLES
  born,                           \* nodes devplane made so far: 1 .. born
  live,                           \* those it still lists
  held,                           \* the node whose answer is not on file yet
  kept                            \* the node on file

lvars == <<born, live, held, kept>>

LInit == born = 0 /\ live = {} /\ held = {} /\ kept = None

\* The answer may be lost: then nobody holds the new node.
Add ==
  /\ held = {} /\ kept = None
  /\ born' = born + 1
  /\ live' = live \cup {born'}
  /\ held' \in {{}, {born'}}
  /\ UNCHANGED kept

Keep ==
  /\ kept' \in held
  /\ held' = {}
  /\ UNCHANGED <<born, live>>

Lose ==
  /\ held # {}
  /\ held' = {}
  /\ UNCHANGED <<born, live, kept>>

Remove ==
  /\ kept \in live
  /\ live' = live \ {kept}
  /\ UNCHANGED <<born, held, kept>>

Forget ==
  /\ kept # None /\ kept \notin live
  /\ kept' = None
  /\ UNCHANGED <<born, live, held>>

LNext == Add \/ Keep \/ Lose \/ Remove \/ Forget

LSpec == LInit /\ [][LNext]_lvars
=============================================================================
