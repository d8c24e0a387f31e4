------------------------------ MODULE NameBatch ------------------------------
(***************************************************************************)
(* What a command over several names promises, whatever it does to each:   *)
(* the names are tried in the order given, each of them once; those that   *)
(* went well are kept in that order; the command ends after the last name, *)
(* before it only by a failure that its policy lets end it; and the next   *)
(* command of a pipe is handed names that went well, of a command that     *)
(* hands on all or none only if they all did.                              *)
(***************************************************************************)
EXTENDS Integers, Sequences

CONSTANTS
  Word,                           \* what a name may be
  Together                       \* whether names are handed on only together

VARIABLES
  given,                          \* the names of the command
  policy,                         \* what may end it before the last of them
  tried,                          \* how many of them it has tried
  well,                           \* those that went well
  handed,                         \* those handed to the next command
  over                            \* whether it has ended

nvars == <<given, policy, tried, well, handed, over>>

\* After a failure the rest is tried, but for a failure of a fragile name.
Policies == [goesOn : BOOLEAN, fragile : SUBSET Word]

NInit ==
  /\ given = <<>> /\ policy \in Policies
  /\ tried = 0 /\ well = <<>> /\ handed = <<>> /\ over = TRUE

Take ==
  /\ over /\ ~over'
  /\ given' \in Seq(Word) \ {<<>>} /\ policy' \in Policies
  /\ tried' = 0 /\ well' = <<>> /\ handed' = <<>>

Leave ==
  /\ over /\ over'
  /\ given' = <<>> /\ policy' \in Policies
  /\ tried' = 0 /\ well' = <<>> /\ handed' = <<>>

\* A failure of a fragile name need not end the command.
MustEnd(n, good) == n = Len(given) \/ (~good /\ ~policy.goesOn)
MayEnd(n, good)  == MustEnd(n, good) \/ (~good /\ given[n] \in policy.fragile)

Handing == IF Together
             THEN handed' # <<>> => over' /\ well' = given /\ handed' = given
             ELSE handed' = well'

Try(good) ==
  LET n == tried + 1 IN
  /\ ~over /\ tried' = n
  /\ well' = IF good THEN Append(well, given[n]) ELSE well
  /\ over' \in BOOLEAN
  /\ MustEnd(n, good) => over'
  /\ over' => MayEnd(n, good)
  /\ Handing
  /\ UNCHANGED <<given, policy>>

NNext == Take \/ Leave \/ \E good \in BOOLEAN : Try(good)

NSpec == NInit /\ [][NNext]_nvars
=============================================================================
