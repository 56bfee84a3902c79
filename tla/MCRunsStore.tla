---------------------------- MODULE MCRunsStore ----------------------------
(* Instances of RunsStore for TLC.                                         *)
EXTENDS RunsStore

=============================================================================
