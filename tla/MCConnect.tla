------------------------------ MODULE MCConnect ------------------------------
(* A small instance of Connect for TLC: two instances of one name and a    *)
(* node; one retry of ssh.                                                 *)
EXTENDS Connect, TLC

CONSTANTS i1, i2, n1, box, node

MCNameOf == (i1 :> box) @@ (i2 :> box) @@ (n1 :> node)
MCTries  == [k \in Kinds |-> 1]
=============================================================================
