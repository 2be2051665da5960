----------------------------- MODULE LVPackager -----------------------------
(***************************************************************************)
(* The server's packager: LVPackager (server/src/packager/mod.rs) keeps    *)
(* the queue of RTP packets of the current frame, and its                  *)
(* LVErasureManager (server/src/packager/packet.rs) labels every packet    *)
(* with a block and a fragment index, feeds it to the Reed-Solomon encoder *)
(* and hands it to the UDP socket.  The recovery shards of a block are     *)
(* computed and sent at the start of the next call, just before the first  *)
(* fragment of the following block.                                        *)
(*                                                                         *)
(* udp is everything the socket accepted, in order.  A call of             *)
(* send_lv_packet is one action: the packager is owned by one thread.      *)
(* fragment_errors, recovery_errors and id_wrapped are history variables.  *)
(***************************************************************************)
EXTENDS LVPacket, FiniteSets

CONSTANTS
    BlockIdLimit,       \* block_id is a u32: 2^32 in the code
    Builds,             \* builds of the server: is overflow checked (dev)?
    MaxSeq,             \* bound: RTP packets produced
    MaxFrame,           \* bound: RTP packets per frame
    MaxFragmentErrors,  \* bound: failed send_to of a fragment (packet.rs:178)
    MaxRecoveryErrors   \* bound: failed send_to of a shard (packet.rs:119)

ASSUME PackagerAssumption ==
    /\ BlockIdLimit \in Nat \ {0}
    /\ Builds \subseteq BOOLEAN
    /\ MaxSeq \in Nat
    /\ MaxFrame \in Nat \ {0}
    /\ MaxFragmentErrors \in Nat
    /\ MaxRecoveryErrors \in Nat

VARIABLES
    overflow_checks,                    \* the build; never changes
    status,                             \* "running" or "panicked"
    next_seq,                           \* sequence number of the packetizer
    rtp_queue,                          \* packets not sent yet, oldest first
    current_block_id,
    current_regular_fragment_index,
    current_recovery_fragment_index,
    largest_sized_payload,
    pkt_sizes,                          \* sizes of the block being filled
    enc,                                \* original shards in the encoder
    udp,                                \* datagrams the socket accepted
    fragment_errors, recovery_errors,   \* send_to errors so far
    id_wrapped                          \* the block id has wrapped around

queueVars == <<next_seq, rtp_queue>>
labelVars == <<current_block_id, current_regular_fragment_index, id_wrapped>>
blockVars == <<largest_sized_payload, pkt_sizes, enc>>
errorVars == <<fragment_errors, recovery_errors>>
packagerVars == <<overflow_checks, status, queueVars, labelVars,
                  current_recovery_fragment_index, blockVars, udp, errorVars>>

-----------------------------------------------------------------------------
Init ==
    /\ overflow_checks \in Builds
    /\ status = "running"
    /\ next_seq = 0
    /\ rtp_queue = <<>>
    /\ current_block_id = 0
    /\ current_regular_fragment_index = 0
    /\ current_recovery_fragment_index = Recovery - 1
    /\ largest_sized_payload = 0
    /\ pkt_sizes = [k \in Index |-> 0]
    /\ enc = <<>>
    /\ udp = <<>>
    /\ fragment_errors = 0
    /\ recovery_errors = 0
    /\ id_wrapped = FALSE

\* A call that starts a block, other than the first, sends the recovery
\* shards of the block before it.
EncodeDue == current_regular_fragment_index = 0 /\ current_block_id # 0

\* The encoder computes a codeword only when it holds a whole block, and
\* takes no further shard then.
EncoderFull == Len(enc) = Regular

\* The codeword of the shards in the encoder.
EncodedBlock == [k \in Index |-> enc[k + 1]]

\* Label of the shard sent n-th in this call.
RecoveryFragmentIndex(n) == (current_recovery_fragment_index + n) % Recovery

\* Faulty: the shards get the id of the block being started.
DueShardOfNewBlock(n) ==
    RecoveryShard(current_block_id, RecoveryFragmentIndex(n), pkt_sizes,
                  EncodedBlock, largest_sized_payload)

\* The recovery datagram sent n-th in a call that encodes.
DueShard(n) ==
    RecoveryShard(current_block_id - 1, RecoveryFragmentIndex(n), pkt_sizes,
                  EncodedBlock, largest_sized_payload)

\* Faulty: the loop over the recovery shards ends one early.
RecoveryShardsButLast(n) == [m \in 1 .. n - 1 |-> DueShard(m)]

\* The first n of them.
RecoveryShards(n) == [m \in 1 .. n |-> DueShard(m)]

NextFragmentIndex == (current_regular_fragment_index + 1) % Regular

\* Faulty: the size of the last packet instead of the largest one.
LastSize(size, encodes) == size

\* largest_sized_payload after a packet of this size, in a call that encodes
\* (and so resets it) or not.
LargestAfter(size, encodes) ==
    IF ~encodes /\ largest_sized_payload > size THEN largest_sized_payload
                                                ELSE size

\* Faulty: the codeword's shards stay in the encoder.
ShardsKept(encodes) == enc

\* The encoder's shards once a call that encodes has dropped the codeword.
ShardsBefore(encodes) == IF encodes THEN <<>> ELSE enc

Overflows == NextFragmentIndex = 0 /\ current_block_id + 1 = BlockIdLimit

\* Advance the fragment index, and the block id with it.
AdvanceLabel ==
    /\ current_regular_fragment_index' = NextFragmentIndex
    /\ current_block_id' = IF NextFragmentIndex # 0 THEN current_block_id
                           ELSE IF Overflows THEN 0
                           ELSE current_block_id + 1
    /\ id_wrapped' = (id_wrapped \/ Overflows)

-----------------------------------------------------------------------------
\* process_frame: the packets of one frame are queued behind each other.  The
\* send loop drains the queue before it takes another frame.
ProcessFrame ==
    /\ status = "running"
    /\ rtp_queue = <<>>
    /\ \E n \in 1 .. MaxFrame :
          /\ next_seq + n <= MaxSeq
          /\ next_seq' = next_seq + n
          /\ \E sizes \in [1 .. n -> Sizes] :
                rtp_queue' = [k \in 1 .. n |->
                                 [seq |-> next_seq + k - 1, size |-> sizes[k]]]
    /\ UNCHANGED <<status, labelVars, current_recovery_fragment_index,
                   blockVars, udp, errorVars>>

\* send_next_pkt: the oldest packet leaves the queue whatever happens to it.
PopPacket ==
    /\ status = "running"
    /\ rtp_queue # <<>>
    /\ rtp_queue' = Tail(rtp_queue)
    /\ UNCHANGED next_seq

\* encode()? fails on an incomplete block: the packet is dropped unlabelled.
EncodeFails ==
    /\ PopPacket
    /\ EncodeDue /\ ~EncoderFull
    /\ UNCHANGED <<status, labelVars, current_recovery_fragment_index,
                   blockVars, udp, errorVars>>

\* send_to fails on recovery shard n + 1.  The early return drops the
\* EncoderResult, which empties the encoder; the packet is dropped and the
\* fragment index stays 0.
RecoverySendFails ==
    /\ PopPacket
    /\ EncodeDue /\ EncoderFull
    /\ recovery_errors < MaxRecoveryErrors
    /\ recovery_errors' = recovery_errors + 1
    /\ \E n \in 0 .. Recovery - 1 :
          /\ udp' = udp \o RecoveryShards(n)
          /\ current_recovery_fragment_index' = RecoveryFragmentIndex(n + 1)
    /\ enc' = <<>>
    /\ UNCHANGED <<status, labelVars, largest_sized_payload, pkt_sizes,
                   fragment_errors>>

\* Everything send_lv_packet does to the block's bookkeeping with the popped
\* packet, up to adding its shard: the label, the sizes and the recovery data
\* of the previous block.
LabelPacket(pkt) ==
    /\ ~(Overflows /\ overflow_checks)
    /\ AdvanceLabel
    /\ largest_sized_payload' = LargestAfter(pkt.size, EncodeDue)
    /\ pkt_sizes' = [pkt_sizes EXCEPT ![current_regular_fragment_index] = pkt.size]
    /\ current_recovery_fragment_index' =
          IF EncodeDue THEN RecoveryFragmentIndex(Recovery)
                       ELSE current_recovery_fragment_index

\* What the socket accepts before the fragment itself.
RecoveryDue == IF EncodeDue THEN RecoveryShards(Recovery) ELSE <<>>

\* The packet becomes a shard of the block and is sent, or its send_to fails.
SendFragment ==
    LET pkt == Head(rtp_queue)
        pk  == Original(current_block_id, current_regular_fragment_index, pkt)
    IN  /\ PopPacket
        /\ EncodeDue = EncoderFull
        /\ LabelPacket(pkt)
        /\ enc' = Append(ShardsBefore(EncodeDue), pkt)
        /\ \/ /\ udp' = udp \o Append(RecoveryDue, pk)
              /\ UNCHANGED fragment_errors
           \/ /\ fragment_errors < MaxFragmentErrors
              /\ fragment_errors' = fragment_errors + 1
              /\ udp' = udp \o RecoveryDue
        /\ UNCHANGED <<status, recovery_errors>>

\* add_original_shard()? fails on a full encoder: the packet is dropped after
\* its label has been used.
AddShardFails ==
    /\ PopPacket
    /\ ~EncodeDue /\ EncoderFull
    /\ LabelPacket(Head(rtp_queue))
    /\ UNCHANGED <<status, enc, udp, errorVars>>

\* current_block_id += 1 overflows in a dev build; recovery data, if due, has
\* been sent and the fragment index is already advanced.
BlockIdOverflow ==
    /\ PopPacket
    /\ EncodeDue => EncoderFull
    /\ Overflows /\ overflow_checks
    /\ status' = "panicked"
    /\ current_regular_fragment_index' = NextFragmentIndex
    /\ udp' = udp \o RecoveryDue
    /\ enc' = ShardsBefore(EncodeDue)
    /\ largest_sized_payload' = IF EncodeDue THEN 0 ELSE largest_sized_payload
    /\ current_recovery_fragment_index' =
          IF EncodeDue THEN RecoveryFragmentIndex(Recovery)
                       ELSE current_recovery_fragment_index
    /\ UNCHANGED <<current_block_id, id_wrapped, pkt_sizes, errorVars>>

SendNextPkt == \/ EncodeFails
               \/ RecoverySendFails
               \/ SendFragment
               \/ AddShardFails
               \/ BlockIdOverflow

Next == (ProcessFrame \/ SendNextPkt) /\ UNCHANGED overflow_checks

Spec == Init /\ [][Next]_packagerVars

-----------------------------------------------------------------------------
TypeOK ==
    /\ overflow_checks \in BOOLEAN
    /\ status \in {"running", "panicked"}
    /\ next_seq \in Nat
    /\ rtp_queue \in Seq(Packet)
    /\ current_block_id \in Nat
    /\ current_regular_fragment_index \in Index
    /\ current_recovery_fragment_index \in RecoveryIndex
    /\ largest_sized_payload \in Sizes \cup {0}
    /\ pkt_sizes \in [Index -> Sizes \cup {0}]
    /\ enc \in Seq(Packet)
    /\ udp \in Seq(Datagram)
    /\ fragment_errors \in Nat
    /\ recovery_errors \in Nat
    /\ id_wrapped \in BOOLEAN

\* A send error on a recovery shard has emptied the encoder at a block start.
Wedged == EncodeDue /\ enc = <<>>

\* The encoder holds exactly the fragments labelled since the block started,
\* so neither encode() nor add_original_shard() (packet.rs:81, :171) can be
\* called with the wrong number of shards, except after a failed send_to of a
\* recovery shard (packet.rs:119).
EncoderInStep ==
    status = "running" /\ ~id_wrapped =>
        \/ Len(enc) = current_regular_fragment_index /\ ~EncodeDue
        \/ EncodeDue /\ EncoderFull
        \/ Wedged /\ recovery_errors > 0

Originals == {k \in 1 .. Len(udp) : ~udp[k].recovery_pkt}
Shards == {k \in 1 .. Len(udp) : udp[k].recovery_pkt}

\* A recovery shard carries the codeword and the sizes of exactly the
\* fragments sent under its block id, and enough of its bytes to restore the
\* longest of them (packet.rs:87-97, :112): the label, the encoder's contents
\* and the two size records are kept by different lines of send_lv_packet.
RecoveryCoversBlock ==
    ~id_wrapped =>
        \A r \in Shards :
            /\ \A k \in Index :
                  /\ udp[r].pkt_sizes[k] = udp[r].body.code[k].size
                  /\ udp[r].body.code[k].size <= udp[r].body.len
            /\ \A o \in Originals :
                  udp[o].block_id = udp[r].block_id =>
                      udp[r].body.code[udp[o].fragment_index] = udp[o].body

\* Datagrams leave in strictly increasing (block, position) order, and the
\* fragments among them in RTP order, whatever sends fail: no label is used
\* twice and the client may rely on labels to restore the RTP order.
WireOrdered ==
    ~id_wrapped =>
        \A j, k \in 1 .. Len(udp) : j < k =>
            /\ Before(udp[j], udp[k])
            /\ (~udp[j].recovery_pkt /\ ~udp[k].recovery_pkt)
                  => udp[j].body.seq < udp[k].body.seq

\* Once a fragment of a block is sent, every earlier block is on the wire with
\* all its recovery shards and all fragments but those whose send failed.
EarlierBlocksComplete ==
    ~id_wrapped =>
        \A o \in Originals : \A b \in 0 .. udp[o].block_id - 1 :
            /\ \A j \in RecoveryIndex : \E r \in Shards :
                  udp[r].block_id = b /\ udp[r].fragment_index = j
            /\ Cardinality({k \in Originals : udp[k].block_id = b})
                  >= Regular - fragment_errors

\* After a wrap of the block id only the shards labelled 0 are unreliable:
\* every other shard still carries the codeword of the Regular fragments sent
\* just before it, under its own block id, so the encoder is back in step.
WrapConfined ==
    fragment_errors = 0 /\ recovery_errors = 0 =>
        \A r \in Shards : udp[r].block_id # 0 =>
            LET window == r - Regular - udp[r].fragment_index .. r - 1
                sent == window \cap Originals
            IN  /\ Cardinality(sent) = Regular
                /\ \A o \in sent :
                      /\ udp[o].block_id = udp[r].block_id
                      /\ udp[r].body.code[udp[o].fragment_index] = udp[o].body

\* packet.rs:56-59: given a packet, send_lv_packet produces the datagram that
\* carries it.  A call in which no send_to fails hands its packet to the
\* socket.
GivesPayload ==
    [][ (rtp_queue # <<>> /\ rtp_queue' = Tail(rtp_queue) /\ UNCHANGED errorVars)
        => \E k \in Len(udp) + 1 .. Len(udp') :
              ~udp'[k].recovery_pkt /\ udp'[k].body = Head(rtp_queue)
      ]_packagerVars
=============================================================================
