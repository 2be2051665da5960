------------------------------ MODULE LVDecoder ------------------------------
(***************************************************************************)
(* The client's decode thread: decode_loop of client/src/decoder/video.rs  *)
(* takes one datagram at a time, groups fragments into blocks, restores    *)
(* missing fragments with the Reed-Solomon decoder and hands RTP packets   *)
(* to the depacketizer.  A pass of the loop is up to three steps: receive, *)
(* close the previous block if the datagram starts another, then take the  *)
(* datagram itself.                                                        *)
(*                                                                         *)
(* delivered is the history of packets given to depacketize_decode.  The   *)
(* variable names are the code's.  The loop's statistics and its exchange  *)
(* with the feedback thread (lines 446-490) read these variables and write *)
(* none of them; they are not modelled here.                               *)
(***************************************************************************)
EXTENDS LVPacket, FiniteSets

CONSTANTS
    OverflowChecks,     \* TRUE in a dev build: arithmetic overflow panics
    NoPacket,           \* Packet::default(), the empty RTP packet
    Damaged             \* what unmarshalling wrongly restored bytes yields

ASSUME DecoderAssumption ==
    /\ OverflowChecks \in BOOLEAN
    /\ NoPacket \notin Packet
    /\ Damaged \notin Packet \cup {NoPacket}

VARIABLES
    pc,                 \* "recv", "new_block", "fragment", "exited", "panicked"
    lvheader,           \* the datagram being handled
    block_id,
    rs_original,        \* original shards in the decoder, by index
    rs_recovery,        \* recovery shards in the decoder, by index
    rs_pkt_sizes,
    rs_sendq,           \* slots of restored and early packets
    rs_total_packets, rs_inorder_packets, rs_oorder_packets, rs_recovery_packets,
    lvheader_prev_fragment_index,
    delivered

rsCounters == <<rs_total_packets, rs_inorder_packets, rs_oorder_packets,
                rs_recovery_packets>>
rsShards == <<rs_original, rs_recovery>>
decoderVars == <<pc, lvheader, block_id, rsShards, rs_pkt_sizes, rs_sendq,
                 rsCounters, lvheader_prev_fragment_index, delivered>>

NoDatagram == [block_id |-> 0, fragment_index |-> 0, recovery_pkt |-> FALSE,
               pkt_sizes |-> [k \in Index |-> 0], body |-> NoPacket]

NoShards == [k \in {} |-> NoPacket]

-----------------------------------------------------------------------------
DecoderInit ==
    /\ pc = "recv"
    /\ lvheader = NoDatagram
    /\ block_id = 0
    /\ rs_original = NoShards
    /\ rs_recovery = NoShards
    /\ rs_pkt_sizes = [k \in Index |-> 0]
    /\ rs_sendq = [k \in Index |-> NoPacket]
    /\ rs_total_packets = 0
    /\ rs_inorder_packets = 0
    /\ rs_oorder_packets = 0
    /\ rs_recovery_packets = 0
    /\ lvheader_prev_fragment_index = Regular - 1
    /\ delivered = <<>>

\* A shard added under an index the decoder has not seen.
AddShard(shards, index, body) ==
    [k \in DOMAIN shards \cup {index} |->
        IF k = index THEN body ELSE shards[k]]

\* External (reed-solomon-simd): decode() succeeds with Regular shards of
\* either kind.
Decodable ==
    Cardinality(DOMAIN rs_original) + Cardinality(DOMAIN rs_recovery) >= Regular

\* External (reed-solomon-simd): the shards restore the codeword c.
Restores(c) ==
    /\ \A j \in DOMAIN rs_recovery : rs_recovery[j].code = c
    /\ \A k \in DOMAIN rs_original : rs_original[k] = c[k]

\* Packet k as restored and cut to rs_pkt_sizes[k]: it is the original when
\* the shards agree, none of their bytes up to its size were cut off, and the
\* recorded size is the right one.
Restored(k) ==
    LET codes == {rs_recovery[j].code : j \in DOMAIN rs_recovery}
        code == CHOOSE c \in codes : TRUE
    IN  IF /\ \E c \in codes : Restores(c)
           /\ rs_pkt_sizes[k] = code[k].size
           /\ \A j \in DOMAIN rs_recovery : code[k].size <= rs_recovery[j].len
        THEN code[k]
        ELSE Damaged

\* rs_sendq once the missing fragments are restored into it (lines 318-330).
RestoredQueue ==
    [k \in Index |-> IF k \in DOMAIN rs_original THEN rs_sendq[k] ELSE Restored(k)]

\* Faulty: hands over the packets delivered in order again.
RestFromStart(queue) == [n \in 1 .. Regular |-> queue[n - 1]]

\* The slots handed over after a recovery: rs_sendq[rs_inorder_packets..].
Rest(queue) ==
    [n \in 1 .. Regular - rs_inorder_packets |-> queue[rs_inorder_packets + n - 1]]

\* Faulty: counts recovery shards as packets of the stream.
NeedsRecoveryByTotal == rs_total_packets # Regular

\* recovery is attempted on closing a block (lines 307-308).
NeedsRecovery ==
    /\ rs_total_packets < Recovery + Regular
    /\ rs_total_packets - rs_recovery_packets # Regular

\* Expected fragment index of the next packet of the RTP stream.
ExpectedIndex == (lvheader_prev_fragment_index + 1) % Regular

-----------------------------------------------------------------------------
\* recv_ref and from_bytes: take the next datagram.
Receive(d) ==
    /\ pc = "recv"
    /\ lvheader' = d
    /\ pc' = IF d.block_id # block_id THEN "new_block" ELSE "fragment"
    /\ UNCHANGED <<block_id, rsShards, rs_pkt_sizes, rs_sendq, rsCounters,
                   lvheader_prev_fragment_index, delivered>>

\* Faulty: the count of packets in order is not reset.
StartBlockKeepsInorder ==
    /\ block_id' = lvheader.block_id
    /\ rs_original' = NoShards
    /\ rs_recovery' = NoShards
    /\ rs_total_packets' = 0
    /\ rs_oorder_packets' = 0
    /\ rs_recovery_packets' = 0
    /\ UNCHANGED <<lvheader, rs_pkt_sizes, rs_inorder_packets>>

\* Faulty: the decoder is not reset.
StartBlockKeepsShards ==
    /\ block_id' = lvheader.block_id
    /\ rs_total_packets' = 0
    /\ rs_inorder_packets' = 0
    /\ rs_oorder_packets' = 0
    /\ rs_recovery_packets' = 0
    /\ UNCHANGED <<lvheader, rs_pkt_sizes, rsShards>>

\* Lines 356-369: forget the closed block and go on with the datagram.
StartBlock ==
    /\ block_id' = lvheader.block_id
    /\ rs_original' = NoShards
    /\ rs_recovery' = NoShards
    /\ rs_total_packets' = 0
    /\ rs_inorder_packets' = 0
    /\ rs_oorder_packets' = 0
    /\ rs_recovery_packets' = 0
    /\ UNCHANGED <<lvheader, rs_pkt_sizes>>

\* The closed block needs no recovery; the previous index is kept.
SkipRecovery ==
    /\ pc = "new_block"
    /\ ~NeedsRecovery
    /\ StartBlock
    /\ pc' = "fragment"
    /\ UNCHANGED <<rs_sendq, lvheader_prev_fragment_index, delivered>>

\* decode() restores the closed block; every slot from the first one not yet
\* delivered goes to the depacketizer.  It refuses an empty slot, and the
\* error ends the thread.
RecoverBlock ==
    /\ pc = "new_block"
    /\ NeedsRecovery /\ Decodable
    /\ rs_sendq' = RestoredQueue
    /\ delivered' = delivered \o Rest(RestoredQueue)
    /\ lvheader_prev_fragment_index' = Regular - 1
    /\ StartBlock
    /\ pc' = IF \E k \in rs_inorder_packets .. Regular - 1 : RestoredQueue[k] = NoPacket
             THEN "exited" ELSE "fragment"

\* decode() fails: the closed block's queued packets are dropped.
RecoveryFails ==
    /\ pc = "new_block"
    /\ NeedsRecovery /\ ~Decodable
    /\ lvheader_prev_fragment_index' = Regular - 1
    /\ StartBlock
    /\ pc' = "fragment"
    /\ UNCHANGED <<rs_sendq, delivered>>

-----------------------------------------------------------------------------
\* add_recovery_shard or add_original_shard refuses an index it already holds
\* and the error ends the thread.
DuplicateShard ==
    /\ pc = "fragment"
    /\ lvheader.fragment_index \in
          DOMAIN (IF lvheader.recovery_pkt THEN rs_recovery ELSE rs_original)
    /\ pc' = "exited"
    /\ UNCHANGED <<lvheader, block_id, rsShards, rs_pkt_sizes, rs_sendq,
                   rsCounters, lvheader_prev_fragment_index, delivered>>

\* Faulty: the sizes of the shard's header are not recorded.
TakeRecoveryShardWithoutSizes ==
    /\ pc = "fragment"
    /\ lvheader.recovery_pkt
    /\ lvheader.fragment_index \notin DOMAIN rs_recovery
    /\ rs_recovery' = AddShard(rs_recovery, lvheader.fragment_index, lvheader.body)
    /\ rs_recovery_packets' = rs_recovery_packets + 1
    /\ rs_total_packets' = rs_total_packets + 1
    /\ pc' = "recv"
    /\ lvheader' = NoDatagram
    /\ UNCHANGED <<block_id, rs_original, rs_pkt_sizes, rs_sendq,
                   rs_inorder_packets, rs_oorder_packets,
                   lvheader_prev_fragment_index, delivered>>

\* Lines 382-394.
TakeRecoveryShard ==
    /\ pc = "fragment"
    /\ lvheader.recovery_pkt
    /\ lvheader.fragment_index \notin DOMAIN rs_recovery
    /\ rs_recovery' = AddShard(rs_recovery, lvheader.fragment_index, lvheader.body)
    /\ rs_pkt_sizes' = lvheader.pkt_sizes
    /\ rs_recovery_packets' = rs_recovery_packets + 1
    /\ rs_total_packets' = rs_total_packets + 1
    /\ pc' = "recv"
    /\ lvheader' = NoDatagram
    /\ UNCHANGED <<block_id, rs_original, rs_sendq, rs_inorder_packets,
                   rs_oorder_packets, lvheader_prev_fragment_index, delivered>>

\* Lines 396-399: the fragment becomes a shard, whatever its order.
TakeOriginalShard ==
    /\ pc = "fragment"
    /\ ~lvheader.recovery_pkt
    /\ lvheader.fragment_index \notin DOMAIN rs_original
    /\ rs_original' = AddShard(rs_original, lvheader.fragment_index, lvheader.body)
    /\ rs_total_packets' = rs_total_packets + 1
    /\ UNCHANGED <<block_id, rs_recovery, rs_pkt_sizes, rs_recovery_packets>>

\* The fragment is not the next of the stream, or an earlier one of its block
\* was not.
OutOfOrder == rs_oorder_packets > 0 \/ ExpectedIndex # lvheader.fragment_index

\* lost_packets += fragment_index - expected, in unsigned arithmetic.
LostUnderflows == lvheader.fragment_index < ExpectedIndex

\* Lines 404-413 and 415-437: keep the packet for a recovery of the block.
QueueFragment ==
    /\ TakeOriginalShard
    /\ OutOfOrder
    /\ ~(LostUnderflows /\ OverflowChecks)
    /\ rs_sendq' = [rs_sendq EXCEPT ![lvheader.fragment_index] = lvheader.body]
    /\ lvheader_prev_fragment_index' = lvheader.fragment_index
    /\ rs_oorder_packets' = rs_oorder_packets + 1
    /\ pc' = "recv"
    /\ lvheader' = NoDatagram
    /\ UNCHANGED <<rs_inorder_packets, delivered>>

\* The subtraction overflows in a dev build.
LostCountPanics ==
    /\ TakeOriginalShard
    /\ OutOfOrder
    /\ LostUnderflows /\ OverflowChecks
    /\ pc' = "panicked"
    /\ UNCHANGED <<lvheader, rs_sendq, rs_inorder_packets, rs_oorder_packets,
                   lvheader_prev_fragment_index, delivered>>

\* Lines 439-444: the next packet of the stream goes to the depacketizer.
DeliverFragment ==
    /\ TakeOriginalShard
    /\ ~OutOfOrder
    /\ rs_inorder_packets' = rs_inorder_packets + 1
    /\ lvheader_prev_fragment_index' = lvheader.fragment_index
    /\ delivered' = Append(delivered, lvheader.body)
    /\ pc' = "recv"
    /\ lvheader' = NoDatagram
    /\ UNCHANGED <<rs_sendq, rs_oorder_packets>>

CloseBlock == \/ SkipRecovery
              \/ RecoverBlock
              \/ RecoveryFails

TakeDatagram == \/ DuplicateShard
                \/ TakeRecoveryShard
                \/ QueueFragment
                \/ LostCountPanics
                \/ DeliverFragment

DecoderStep == CloseBlock \/ TakeDatagram

-----------------------------------------------------------------------------
DecoderTypeOK ==
    /\ pc \in {"recv", "new_block", "fragment", "exited", "panicked"}
    /\ lvheader \in Datagram \cup {NoDatagram}
    /\ block_id \in Nat
    /\ DOMAIN rs_original \subseteq Index
    /\ \A k \in DOMAIN rs_original : rs_original[k] \in Packet
    /\ DOMAIN rs_recovery \subseteq RecoveryIndex
    /\ \A j \in DOMAIN rs_recovery : rs_recovery[j] \in [code : Codeword, len : Nat]
    /\ rs_pkt_sizes \in [Index -> Sizes \cup {0}]
    /\ rs_sendq \in [Index -> Packet \cup {NoPacket, Damaged}]
    /\ rs_total_packets \in Nat
    /\ rs_inorder_packets \in 0 .. Regular
    /\ rs_oorder_packets \in 0 .. Regular
    /\ rs_recovery_packets \in 0 .. Recovery
    /\ lvheader_prev_fragment_index \in Index
    /\ delivered \in Seq(Packet \cup {NoPacket, Damaged})
=============================================================================
