----------------------------- MODULE MCStartup -----------------------------
(* Startup on small instances: the limits of the parsers.  A record has 19 *)
(* bytes.  A file of three records fits the loader's buffer, with a torn   *)
(* fourth one it may not; a list of three elements in one command exceeds  *)
(* its array limit.  Two records fit a client's buffer, three do not.      *)
EXTENDS Startup

LoaderLimits == [bulk |-> 9, buffer |-> 60, array |-> 3, depth |-> 4]
ClientLimits == [bulk |-> 9, buffer |-> 40, array |-> 3, depth |-> 2]

=============================================================================
