------------------------ MODULE MCMasterReplication ------------------------
(* Model checking MasterReplication: two connections.                       *)
EXTENDS MasterReplication, TLC

CONSTANTS c1, c2

Symmetry == Permutations(Conn)

=============================================================================
