--------------------------- MODULE MCNodeSSHAccess ---------------------------
(* A small instance of NodeSSHAccess for TLC. *)
EXTENDS NodeSSHAccess

CONSTANTS alice, bob, ka, kb, kx

MCKeyOf  == [u \in Users |-> IF u = alice THEN ka ELSE kb]

\* A stranger's key is there already.
MCFiles  == {{Line(kx, Plain)}}
=============================================================================
