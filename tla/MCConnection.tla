---------------------------- MODULE MCConnection ----------------------------
(* Connection on small instances. *)
EXTENDS Connection, TLC

CONSTANTS c1, c2

Symmetry == Permutations(Conn)

=============================================================================
