------------------------------ MODULE LVPacket ------------------------------
(***************************************************************************)
(* What travels from the server to the client (net/src/packet.rs): an      *)
(* LVErasureInformation header followed either by one marshalled RTP       *)
(* packet or by one Reed-Solomon recovery shard of a block of RTP packets. *)
(*                                                                         *)
(* An RTP packet is its sequence number and its marshalled size.  A        *)
(* recovery shard is the codeword it was computed from, i.e. the block's   *)
(* original packets, and the number of its bytes that were sent.           *)
(* min_fragment_size is always Regular and send_timestamp plays no part in *)
(* the block protocol, so neither is a field here.                         *)
(***************************************************************************)
EXTENDS Naturals, Sequences

CONSTANTS
    Regular,    \* EC_RATIO_REGULAR_PACKETS: RTP packets per block
    Recovery,   \* EC_RATIO_RECOVERY_PACKETS: recovery shards per block
    Sizes       \* marshalled sizes an RTP packet may have

ASSUME RatioAssumption ==
    /\ Regular \in Nat \ {0}
    /\ Recovery \in Nat \ {0}
    /\ Sizes \subseteq Nat \ {0}

Index == 0 .. Regular - 1
RecoveryIndex == 0 .. Recovery - 1

Packet == [seq : Nat, size : Sizes]
Codeword == [Index -> Packet]

\* Datagrams that carry an RTP packet; the packager leaves pkt_sizes zero.
OriginalDatagram ==
    [block_id : Nat, fragment_index : Index, recovery_pkt : {FALSE},
     pkt_sizes : {[k \in Index |-> 0]}, body : Packet]

\* Datagrams that carry a recovery shard, cut to its first body.len bytes.
RecoveryDatagram ==
    [block_id : Nat, fragment_index : RecoveryIndex, recovery_pkt : {TRUE},
     pkt_sizes : [Index -> Sizes \cup {0}], body : [code : Codeword, len : Nat]]

Datagram == OriginalDatagram \cup RecoveryDatagram

Original(b, i, pkt) ==
    [block_id |-> b, fragment_index |-> i, recovery_pkt |-> FALSE,
     pkt_sizes |-> [k \in Index |-> 0], body |-> pkt]

RecoveryShard(b, j, sizes, code, len) ==
    [block_id |-> b, fragment_index |-> j, recovery_pkt |-> TRUE,
     pkt_sizes |-> sizes, body |-> [code |-> code, len |-> len]]

\* Position of a datagram in its block's transmission order: the original
\* fragments, then the recovery shards.
Position(d) == IF d.recovery_pkt THEN Regular + d.fragment_index
                                 ELSE d.fragment_index

\* The server emits blocks in order and each block in Position order.
Before(d, e) ==
    \/ d.block_id < e.block_id
    \/ d.block_id = e.block_id /\ Position(d) < Position(e)
=============================================================================
