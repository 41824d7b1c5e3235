---------------------------- MODULE MCRdbFile ----------------------------
(* RdbFile on small instances. *)
EXTENDS RdbFile

=============================================================================
