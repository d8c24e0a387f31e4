----------------------------- MODULE MCGPUCreate -----------------------------
(* Small instances of GPUCreate for TLC. *)
EXTENDS GPUCreate

\* Every combination of options and listing.
MCInputs == Inputs

\* For larger pools: both types on offer, the first one full, no listing at
\* all, and a launchable that brings its own workspace group.
MCFew ==
  LET in(l, o, la) == [listed |-> l, offer |-> o, launchable |-> la,
                       detached |-> FALSE]
  IN  {in(TRUE, <<"available", "available">>, "none"),
       in(TRUE, <<"full", "available">>, "none"),
       in(FALSE, <<"unknown", "unknown">>, "none"),
       in(FALSE, <<"unknown", "unknown">>, "with_group")}
=============================================================================
