-------------------------- MODULE MCStreamingServer --------------------------
(***************************************************************************)
(* The server's threads with one datum of each thread and use.             *)
(***************************************************************************)
EXTENDS StreamingServer

MCKeys == {Encoding, PacketSending, QueueOccupancy, OoBlocks}
=============================================================================
