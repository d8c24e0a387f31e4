------------------------------ MODULE Provision ------------------------------
(***************************************************************************)
(* What `brev create --count N` promises, whatever its workers, its pools  *)
(* and its retries do: instance types are tried in turn, as long as there  *)
(* are too few instances and no name was refused; instances are            *)
(* acknowledged one by one, never more than N of them; and the command     *)
(* reports success exactly when it has acknowledged N, and "could only     *)
(* create k/N" only when the types are used up or a name was refused.      *)
(***************************************************************************)
EXTENDS Integers

CONSTANTS
  Count,                          \* --count, at least 1
  NTypes                          \* length of the chain of instance types

VARIABLES
  made,                           \* instances acknowledged so far
  left,                           \* types not tried yet
  refused,                        \* whether a name was in use
  verdict                         \* "open" until the command exits

pvars == <<made, left, refused, verdict>>

PInit == made = 0 /\ left = NTypes /\ ~refused /\ verdict = "open"

TryType ==
  /\ verdict = "open"
  /\ made < Count /\ left > 0 /\ ~refused
  /\ left' = left - 1
  /\ UNCHANGED <<made, refused, verdict>>

Acknowledge ==
  /\ verdict = "open"
  /\ made < Count /\ left < NTypes
  /\ made' = made + 1
  /\ UNCHANGED <<left, refused, verdict>>

RefuseName ==
  /\ verdict = "open"
  /\ left < NTypes
  /\ refused' = TRUE
  /\ UNCHANGED <<made, left, verdict>>

Succeed ==
  /\ verdict = "open"
  /\ made = Count
  /\ verdict' = "success"
  /\ UNCHANGED <<made, left, refused>>

GiveUp ==
  /\ verdict = "open"
  /\ made < Count /\ (left = 0 \/ refused)
  /\ verdict' = "short"
  /\ UNCHANGED <<made, left, refused>>

PNext == TryType \/ Acknowledge \/ RefuseName \/ Succeed \/ GiveUp

PSpec == PInit /\ [][PNext]_pvars
=============================================================================
