---------------------------- MODULE MCRecordings ----------------------------
(* Recordings on small sets.                                               *)
EXTENDS Recordings
=============================================================================
