----------------------------- MODULE MCLifecycle -----------------------------
(* A small instance of Lifecycle for TLC: two instances of one name, an     *)
(* ordinary one and one whose type does not support stop.  "self" is the    *)
(* word that, but for stop, is neither an instance nor a path.              *)
EXTENDS Lifecycle

CONSTANTS i1, i2, na, url

MCNameOf == [i \in Instances |-> na]
=============================================================================
