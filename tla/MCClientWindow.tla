---------------------------- MODULE MCClientWindow ----------------------------
(***************************************************************************)
(* The client's window for a few frames.                                   *)
(***************************************************************************)
EXTENDS ClientWindow

MCKeys == {DecodePacket, FailedDecode}
=============================================================================
