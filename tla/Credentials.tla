------------------------------ MODULE Credentials ------------------------------
(***************************************************************************)
(* What the unlocked credentials.json is to the processes that share it: a *)
(* cell holding the credentials of one login, or an API key beside them.   *)
(* A process takes what is stored, and may put back later what it took, or *)
(* add a key to it; only a login stores what was not there before, and a   *)
(* login that nobody holds and that is not stored is gone for good.        *)
(***************************************************************************)
EXTENDS Integers

VARIABLES
  made,                           \* logins so far
  stored,                         \* what the file holds
  taken                           \* what processes have read, or got

cvars == <<made, stored, taken>>

Nothing    == [sess |-> 0, renewable |-> FALSE, key |-> FALSE]
Of(login)  == [sess |-> login, renewable |-> TRUE, key |-> FALSE]
WithKey(c) == [sess |-> c.sess, renewable |-> c.renewable, key |-> TRUE]

CInit == made = 0 /\ stored = Nothing /\ taken = {}

\* Processes forget what they took.
Drop == taken' \subseteq taken

Take ==
  /\ taken' \subseteq taken \cup {stored}
  /\ UNCHANGED <<made, stored>>

PutBack ==
  /\ stored' \in taken /\ ~stored'.key
  /\ Drop /\ UNCHANGED made

AddKey ==
  /\ stored' \in {WithKey(c) : c \in taken \cup {Nothing}}
  /\ Drop /\ UNCHANGED made

LogIn ==
  /\ made' = made + 1
  /\ \/ stored' = Of(made') /\ Drop
     \/ taken' \subseteq taken \cup {Of(made')} /\ UNCHANGED stored

LogOut ==
  /\ stored' = Nothing
  /\ Drop /\ UNCHANGED made

CNext == Take \/ PutBack \/ AddKey \/ LogIn \/ LogOut

CSpec == CInit /\ [][CNext]_cvars
=============================================================================
