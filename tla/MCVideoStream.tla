---------------------------- MODULE MCVideoStream ----------------------------
(***************************************************************************)
(* The video path on small instances.                                      *)
(***************************************************************************)
EXTENDS VideoStream
=============================================================================
