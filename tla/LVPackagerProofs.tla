-------------------------- MODULE LVPackagerProofs --------------------------
(***************************************************************************)
(* Theorems about the packager, for every block ratio, every set of packet *)
(* sizes, every bound and either build.                                    *)
(***************************************************************************)
EXTENDS LVPackager, FiniteSetTheorems, SequenceTheorems, TLAPS

USE RatioAssumption, PackagerAssumption

\* The fragment index advances modulo Regular.
LEMMA FragmentIndexAdvances ==
    ASSUME current_regular_fragment_index \in Index
    PROVE  NextFragmentIndex = IF current_regular_fragment_index = Regular - 1
                               THEN 0 ELSE current_regular_fragment_index + 1
BY DEF NextFragmentIndex, Index

\* The recovery index stays in range, and from its initial value the shards of
\* a block are numbered from 0 and leave it unchanged.
LEMMA RecoveryIndexAdvances ==
    ASSUME current_recovery_fragment_index \in RecoveryIndex, NEW n \in Nat
    PROVE  /\ RecoveryFragmentIndex(n) \in RecoveryIndex
           /\ /\ current_recovery_fragment_index = Recovery - 1
              /\ n \in 1 .. Recovery
              => RecoveryFragmentIndex(n) = n - 1
BY DEF RecoveryFragmentIndex, RecoveryIndex

\* What a call that encodes sends is a sequence of recovery datagrams.
LEMMA RecoveryShardsType ==
    ASSUME TypeOK, EncodeDue, EncoderFull, NEW n \in Nat
    PROVE  /\ RecoveryShards(n) \in Seq(RecoveryDatagram)
           /\ Len(RecoveryShards(n)) = n
           /\ \A m \in 1 .. n : RecoveryShards(n)[m] = DueShard(m)
<1>1. EncodedBlock \in Codeword
  BY DEF TypeOK, EncoderFull, EncodedBlock, Codeword, Index
<1>2. /\ current_block_id - 1 \in Nat
      /\ largest_sized_payload \in Nat
  BY DEF TypeOK, EncodeDue
<1>3. ASSUME NEW m \in 1 .. n
      PROVE  DueShard(m) \in RecoveryDatagram
  <2>1. RecoveryFragmentIndex(m) \in RecoveryIndex
    BY RecoveryIndexAdvances DEF TypeOK
  <2>2. QED
    BY <1>1, <1>2, <2>1 DEF DueShard, RecoveryShard, RecoveryDatagram, TypeOK
<1>4. QED
  BY <1>3 DEF RecoveryShards

\* The recovery datagrams a call owes are datagrams, whether or not it encodes.
LEMMA RecoveryDueType ==
    ASSUME TypeOK, EncodeDue => EncoderFull
    PROVE  RecoveryDue \in Seq(RecoveryDatagram)
BY RecoveryShardsType DEF RecoveryDue

\* Taking a packet off the queue leaves the types.
LEMMA PopPacketType ==
    ASSUME TypeOK, PopPacket
    PROVE  Head(rtp_queue) \in Packet /\ rtp_queue' \in Seq(Packet)
BY DEF TypeOK, PopPacket

\* Labelling a packet leaves the types.
LEMMA LabelPacketType ==
    ASSUME TypeOK, NEW pkt \in Packet, LabelPacket(pkt)
    PROVE  /\ current_block_id' \in Nat
           /\ current_regular_fragment_index' \in Index
           /\ current_recovery_fragment_index' \in RecoveryIndex
           /\ largest_sized_payload' \in Sizes \cup {0}
           /\ pkt_sizes' \in [Index -> Sizes \cup {0}]
           /\ id_wrapped' \in BOOLEAN
<1>1. /\ current_block_id' \in Nat
      /\ current_regular_fragment_index' \in Index
      /\ id_wrapped' \in BOOLEAN
  BY FragmentIndexAdvances DEF TypeOK, LabelPacket, AdvanceLabel, Index
<1>2. current_recovery_fragment_index' \in RecoveryIndex
  BY RecoveryIndexAdvances DEF TypeOK, LabelPacket
<1>3. pkt.size \in Sizes
  BY DEF Packet
<1>4. QED
  BY <1>1, <1>2, <1>3 DEF TypeOK, LabelPacket, LargestAfter

\* The first state is of its types.
LEMMA InitTypes == Init => TypeOK
<1> SUFFICES ASSUME Init PROVE TypeOK
  OBVIOUS
<1>1. /\ rtp_queue \in Seq(Packet)
      /\ enc \in Seq(Packet)
      /\ udp \in Seq(Datagram)
  BY DEF Init
<1>2. /\ current_regular_fragment_index \in Index
      /\ current_recovery_fragment_index \in RecoveryIndex
      /\ pkt_sizes \in [Index -> Sizes \cup {0}]
  BY DEF Init, Index, RecoveryIndex
<1>3. QED
  BY <1>1, <1>2, PackagerAssumption DEF Init, TypeOK

\* Every step leaves the types.
LEMMA TypesPreserved == TypeOK /\ [Next]_packagerVars => TypeOK'
<1> SUFFICES ASSUME TypeOK, [Next]_packagerVars
             PROVE  TypeOK'
  OBVIOUS
<1> USE DEF queueVars, labelVars, blockVars, errorVars
<1>0. overflow_checks' \in BOOLEAN
  BY DEF Next, packagerVars, TypeOK
<1>1. CASE ProcessFrame
  <2>1. PICK n \in 1 .. MaxFrame : \E sizes \in [1 .. n -> Sizes] :
           /\ next_seq' = next_seq + n
           /\ rtp_queue' = [k \in 1 .. n |->
                               [seq |-> next_seq + k - 1, size |-> sizes[k]]]
    BY <1>1 DEF ProcessFrame
  <2>2. next_seq' \in Nat /\ rtp_queue' \in Seq(Packet)
    BY <2>1 DEF TypeOK, Packet
  <2>3. QED
    BY <1>0, <1>1, <2>2 DEF ProcessFrame, TypeOK
<1>2. CASE EncodeFails
  BY <1>0, <1>2, PopPacketType DEF EncodeFails, PopPacket, TypeOK
<1>3. CASE RecoverySendFails
  <2>1. PICK n \in 0 .. Recovery - 1 :
           /\ udp' = udp \o RecoveryShards(n)
           /\ current_recovery_fragment_index' = RecoveryFragmentIndex(n + 1)
    BY <1>3 DEF RecoverySendFails
  <2>2. udp' \in Seq(Datagram)
    BY <1>3, <2>1, RecoveryShardsType DEF RecoverySendFails, TypeOK, Datagram
  <2>3. current_recovery_fragment_index' \in RecoveryIndex
    BY <2>1, RecoveryIndexAdvances DEF TypeOK
  <2>4. QED
    BY <1>0, <1>3, <2>2, <2>3, PopPacketType DEF RecoverySendFails, PopPacket, TypeOK
<1>4. CASE SendFragment
  <2> DEFINE pkt == Head(rtp_queue)
             pk == Original(current_block_id, current_regular_fragment_index, pkt)
  <2>1. pkt \in Packet /\ rtp_queue' \in Seq(Packet)
    BY <1>4, PopPacketType DEF SendFragment
  <2>2. pk \in Datagram
    BY <2>1 DEF TypeOK, Original, OriginalDatagram, Datagram
  <2>3. RecoveryDue \in Seq(Datagram)
    BY <1>4, RecoveryDueType DEF SendFragment, Datagram
  <2>4. udp' \in Seq(Datagram) /\ fragment_errors' \in Nat
    <3>1. Append(RecoveryDue, pk) \in Seq(Datagram)
      BY <2>2, <2>3
    <3>2. \/ udp' = udp \o Append(RecoveryDue, pk) /\ fragment_errors' = fragment_errors
          \/ udp' = udp \o RecoveryDue /\ fragment_errors' = fragment_errors + 1
      BY <1>4 DEF SendFragment
    <3>3. udp \in Seq(Datagram) /\ fragment_errors \in Nat
      BY DEF TypeOK
    <3>4. udp \o RecoveryDue \in Seq(Datagram)
      BY <2>3, <3>3
    <3>5. udp \o Append(RecoveryDue, pk) \in Seq(Datagram)
      BY <3>1, <3>3
    <3>6. udp' \in Seq(Datagram)
      BY <3>2, <3>4, <3>5, Zenon
    <3>7. fragment_errors' \in Nat
      BY <3>2, <3>3
    <3>8. QED
      BY <3>6, <3>7
  <2>5. enc' \in Seq(Packet)
    BY <1>4, <2>1 DEF SendFragment, ShardsBefore, TypeOK
  <2>6. QED
    BY <1>0, <1>4, <2>1, <2>4, <2>5, LabelPacketType DEF SendFragment, PopPacket, TypeOK
<1>5. CASE AddShardFails
  BY <1>0, <1>5, PopPacketType, LabelPacketType DEF AddShardFails, PopPacket, TypeOK
<1>6. CASE BlockIdOverflow
  <2>1. udp' \in Seq(Datagram)
    BY <1>6, RecoveryDueType DEF BlockIdOverflow, Datagram, TypeOK
  <2>2. current_regular_fragment_index' \in Index
    BY <1>6, FragmentIndexAdvances DEF BlockIdOverflow, TypeOK, Index
  <2>3. current_recovery_fragment_index' \in RecoveryIndex
    BY <1>6, RecoveryIndexAdvances DEF BlockIdOverflow, TypeOK
  <2>4. QED
    BY <1>0, <1>6, <2>1, <2>2, <2>3, PopPacketType
    DEF BlockIdOverflow, PopPacket, ShardsBefore, TypeOK
<1>7. CASE UNCHANGED packagerVars
  BY <1>0, <1>7 DEF packagerVars, TypeOK
<1>8. QED
  BY <1>1, <1>2, <1>3, <1>4, <1>5, <1>6, <1>7 DEF Next, SendNextPkt

\* The variables of the packager always have their types.
THEOREM PackagerTypes == Spec => []TypeOK
BY InitTypes, TypesPreserved, PTL DEF Spec

-----------------------------------------------------------------------------
(***************************************************************************)
(* The inductive invariant.  RecoveryCoversBlock and WireOrdered speak of  *)
(* what was sent only; that the next datagrams keep them depends on how    *)
(* the encoder, the size records and the labels relate to what was sent    *)
(* and what is queued.                                                     *)
(***************************************************************************)

\* The labels still name blocks uniquely and the thread runs.
Labelling == status = "running" /\ ~id_wrapped

\* RTP order runs from the wire through the queue to the packetizer.
QueueOrdered ==
    /\ \A k \in 1 .. Len(rtp_queue) : rtp_queue[k].seq < next_seq
    /\ \A j, k \in 1 .. Len(rtp_queue) :
          j < k => rtp_queue[j].seq < rtp_queue[k].seq
    /\ \A o \in Originals :
          /\ udp[o].body.seq < next_seq
          /\ \A k \in 1 .. Len(rtp_queue) : udp[o].body.seq < rtp_queue[k].seq

\* The size records describe the shards in the encoder.
SizesInStep ==
    Labelling =>
        \A k \in Index : k < Len(enc) =>
            /\ pkt_sizes[k] = enc[k + 1].size
            /\ enc[k + 1].size <= largest_sized_payload

\* Every label on the wire comes before the next one to be used.
LabelsUsed ==
    Labelling =>
        \A n \in 1 .. Len(udp) :
            IF udp[n].recovery_pkt
            THEN /\ udp[n].block_id < current_block_id
                 /\ EncodeDue /\ EncoderFull => udp[n].block_id + 1 < current_block_id
            ELSE \/ udp[n].block_id < current_block_id
                 \/ /\ udp[n].block_id = current_block_id
                    /\ udp[n].fragment_index < current_regular_fragment_index

\* The encoder holds what was sent of the block being filled, or of the full
\* block whose recovery data is due.
EncoderMatchesWire ==
    Labelling =>
        \A o \in Originals :
            \/ udp[o].block_id = current_block_id
            \/ EncodeDue /\ EncoderFull /\ udp[o].block_id + 1 = current_block_id
            => enc[udp[o].fragment_index + 1] = udp[o].body

\* The recovery shards of the next block will be numbered from 0.
NumberingInStep ==
    Labelling => current_recovery_fragment_index = Recovery - 1 \/ Wedged

PackagerInv ==
    /\ TypeOK
    /\ EncoderInStep
    /\ QueueOrdered
    /\ SizesInStep
    /\ LabelsUsed
    /\ EncoderMatchesWire
    /\ NumberingInStep
    /\ RecoveryCoversBlock
    /\ WireOrdered

\* A call of send_lv_packet appends to the wire; what it appends is the
\* recovery data due, numbered consecutively, and last its fragment.
LEMMA WireGrowth ==
    ASSUME TypeOK, SendNextPkt
    PROVE  /\ Len(udp') \in Nat /\ Len(udp) \in Nat /\ Len(udp) <= Len(udp')
           /\ \A k \in 1 .. Len(udp) : udp'[k] = udp[k]
           /\ \A k \in Len(udp) + 1 .. Len(udp') :
                 \/ /\ EncodeDue /\ EncoderFull
                    /\ k - Len(udp) \in 1 .. Recovery
                    /\ udp'[k] = DueShard(k - Len(udp))
                 \/ /\ k = Len(udp')
                    /\ SendFragment
                    /\ udp'[k] = Original(current_block_id,
                                    current_regular_fragment_index, Head(rtp_queue))
<1> DEFINE pk == Original(current_block_id, current_regular_fragment_index,
                          Head(rtp_queue))
<1> HIDE DEF pk
<1> USE DEF blockVars
<1>1. udp \in Seq(Datagram)
  BY DEF TypeOK
<1>2. ASSUME NEW n \in Nat, EncodeDue, EncoderFull
      PROVE  /\ Len(udp \o RecoveryShards(n)) = Len(udp) + n
             /\ \A k \in 1 .. Len(udp) : (udp \o RecoveryShards(n))[k] = udp[k]
             /\ \A k \in Len(udp) + 1 .. Len(udp) + n :
                   (udp \o RecoveryShards(n))[k] = DueShard(k - Len(udp))
  <2>1. /\ RecoveryShards(n) \in Seq(RecoveryDatagram)
        /\ Len(RecoveryShards(n)) = n
        /\ \A m \in 1 .. n : RecoveryShards(n)[m] = DueShard(m)
    BY <1>2, RecoveryShardsType
  <2> DEFINE s == RecoveryShards(n)
  <2> HIDE DEF s
  <2>2. /\ Len(udp \o s) = Len(udp) + Len(s)
        /\ \A k \in 1 .. Len(udp) : (udp \o s)[k] = udp[k]
        /\ \A k \in Len(udp) + 1 .. Len(udp) + Len(s) :
              (udp \o s)[k] = s[k - Len(udp)]
    BY <1>1, <2>1 DEF s
  <2>3. QED
    BY <1>1, <2>1, <2>2 DEF s
<1>3. CASE EncodeFails
  BY <1>1, <1>3 DEF EncodeFails
<1>4. CASE AddShardFails
  BY <1>1, <1>4 DEF AddShardFails
<1>5. CASE RecoverySendFails
  <2>1. PICK n \in 0 .. Recovery - 1 : udp' = udp \o RecoveryShards(n)
    BY <1>5 DEF RecoverySendFails
  <2>2. EncodeDue /\ EncoderFull
    BY <1>5 DEF RecoverySendFails
  <2>3. /\ Len(udp') = Len(udp) + n
        /\ \A k \in 1 .. Len(udp) : udp'[k] = udp[k]
        /\ \A k \in Len(udp) + 1 .. Len(udp) + n : udp'[k] = DueShard(k - Len(udp))
    <3>1. n \in Nat
      OBVIOUS
    <3>2. QED
      BY <1>2, <2>1, <2>2, <3>1, Zenon
  <2>4. Len(udp) \in Nat
    BY <1>1
  <2>5. QED
    BY <2>2, <2>3, <2>4
<1>6. CASE BlockIdOverflow
  <2>1. udp' = udp \o RecoveryDue /\ (EncodeDue => EncoderFull)
    BY <1>6 DEF BlockIdOverflow
  <2>2. CASE EncodeDue
    <3>1. /\ Len(udp') = Len(udp) + Recovery
          /\ \A k \in 1 .. Len(udp) : udp'[k] = udp[k]
          /\ \A k \in Len(udp) + 1 .. Len(udp) + Recovery :
                udp'[k] = DueShard(k - Len(udp))
      <4>1. Recovery \in Nat
        OBVIOUS
      <4>2. udp' = udp \o RecoveryShards(Recovery)
        BY <2>1, <2>2 DEF RecoveryDue
      <4>3. QED
        BY <1>2, <2>1, <2>2, <4>1, <4>2, Zenon
    <3>2. Len(udp) \in Nat
      BY <1>1
    <3>3. QED
      BY <2>1, <2>2, <3>1, <3>2
  <2>3. CASE ~EncodeDue
    BY <1>1, <2>1, <2>3 DEF RecoveryDue
  <2>4. QED
    BY <2>2, <2>3
<1>7. CASE SendFragment
  <2>1. EncodeDue = EncoderFull
    BY <1>7 DEF SendFragment
  <2>2. \/ udp' = udp \o Append(RecoveryDue, pk)
        \/ udp' = udp \o RecoveryDue
    BY <1>7 DEF SendFragment, pk
  <2>3. RecoveryDue \in Seq(RecoveryDatagram)
    BY <2>1, RecoveryDueType
  <2>4. /\ Len(udp \o RecoveryDue) \in Nat
        /\ udp \o Append(RecoveryDue, pk) = Append(udp \o RecoveryDue, pk)
    BY <1>1, <2>3
  <2>5. /\ Len(udp) <= Len(udp \o RecoveryDue)
        /\ \A k \in 1 .. Len(udp) : (udp \o RecoveryDue)[k] = udp[k]
        /\ \A k \in Len(udp) + 1 .. Len(udp \o RecoveryDue) :
              /\ EncodeDue /\ EncoderFull
              /\ k - Len(udp) \in 1 .. Recovery
              /\ (udp \o RecoveryDue)[k] = DueShard(k - Len(udp))
    <3>1. CASE EncodeDue
      <4>1. Recovery \in Nat /\ Len(udp) \in Nat
        BY <1>1
      <4>2. RecoveryDue = RecoveryShards(Recovery)
        BY <3>1 DEF RecoveryDue
      <4>3. /\ Len(udp \o RecoveryDue) = Len(udp) + Recovery
            /\ \A k \in 1 .. Len(udp) : (udp \o RecoveryDue)[k] = udp[k]
            /\ \A k \in Len(udp) + 1 .. Len(udp) + Recovery :
                  (udp \o RecoveryDue)[k] = DueShard(k - Len(udp))
        BY <1>2, <2>1, <3>1, <4>1, <4>2, Zenon
      <4> DEFINE sent == udp \o RecoveryDue
      <4> HIDE DEF sent
      <4>4. /\ Len(udp) <= Len(sent)
            /\ \A k \in 1 .. Len(udp) : sent[k] = udp[k]
            /\ \A k \in Len(udp) + 1 .. Len(sent) :
                  k - Len(udp) \in 1 .. Recovery /\ sent[k] = DueShard(k - Len(udp))
        BY <4>1, <4>3 DEF sent
      <4>5. QED
        BY <2>1, <3>1, <4>4, Zenon DEF sent
    <3>2. CASE ~EncodeDue
      BY <1>1, <3>2 DEF RecoveryDue
    <3>3. QED
      BY <3>1, <3>2
  <2>6. CASE udp' = udp \o RecoveryDue
    BY <1>1, <2>4, <2>5, <2>6
  <2>7. CASE udp' = Append(udp \o RecoveryDue, pk)
    <3> DEFINE sent == udp \o RecoveryDue
    <3>1. sent \in Seq(Datagram)
      BY <1>1, <2>3 DEF Datagram
    <3>2. /\ Len(udp') = Len(sent) + 1
          /\ \A k \in 1 .. Len(sent) : udp'[k] = sent[k]
          /\ udp'[Len(sent) + 1] = pk
      BY <2>7, <3>1
    <3>3. QED
      BY <1>1, <1>7, <2>4, <2>5, <3>2 DEF pk
  <2>8. QED
    BY <2>2, <2>4, <2>6, <2>7
<1>8. QED
  BY <1>3, <1>4, <1>5, <1>6, <1>7 DEF SendNextPkt

\* The fields of the datagrams a call can append.
LEMMA NewDatagramFields ==
    ASSUME NEW n \in Nat, NEW b, NEW i, NEW pkt
    PROVE  /\ DueShard(n).recovery_pkt
           /\ DueShard(n).block_id = current_block_id - 1
           /\ DueShard(n).fragment_index = RecoveryFragmentIndex(n)
           /\ DueShard(n).pkt_sizes = pkt_sizes
           /\ DueShard(n).body.code = EncodedBlock
           /\ DueShard(n).body.len = largest_sized_payload
           /\ ~Original(b, i, pkt).recovery_pkt
           /\ Original(b, i, pkt).block_id = b
           /\ Original(b, i, pkt).fragment_index = i
           /\ Original(b, i, pkt).body = pkt
BY DEF DueShard, RecoveryShard, Original

\* The fields of the datagrams sent so far.
LEMMA SentDatagramFields ==
    ASSUME TypeOK, NEW k \in 1 .. Len(udp)
    PROVE  /\ udp[k].block_id \in Nat
           /\ udp[k].recovery_pkt \in BOOLEAN
           /\ ~udp[k].recovery_pkt => /\ udp[k].fragment_index \in Index
                                      /\ udp[k].body \in Packet
           /\ udp[k].recovery_pkt => /\ udp[k].fragment_index \in RecoveryIndex
                                     /\ udp[k].pkt_sizes \in [Index -> Sizes \cup {0}]
                                     /\ udp[k].body.code \in Codeword
                                     /\ udp[k].body.len \in Nat
<1>1. udp[k] \in OriginalDatagram \/ udp[k] \in RecoveryDatagram
  BY DEF TypeOK, Datagram
<1>2. CASE udp[k] \in OriginalDatagram
  BY <1>2 DEF OriginalDatagram
<1>3. CASE udp[k] \in RecoveryDatagram
  BY <1>3 DEF RecoveryDatagram
<1>4. QED
  BY <1>1, <1>2, <1>3

\* Each datagram on the wire after a call was there before, or is a shard of
\* the full block in the encoder, or is the call's fragment, the last of all.
LEMMA AppendedDatagrams ==
    ASSUME TypeOK, SendNextPkt, NEW k \in 1 .. Len(udp')
    PROVE  \/ k \in 1 .. Len(udp) /\ udp'[k] = udp[k]
           \/ /\ EncodeDue /\ EncoderFull
              /\ k > Len(udp) /\ k - Len(udp) \in 1 .. Recovery
              /\ udp'[k].recovery_pkt
              /\ udp'[k].block_id = current_block_id - 1
              /\ udp'[k].fragment_index = RecoveryFragmentIndex(k - Len(udp))
              /\ udp'[k].pkt_sizes = pkt_sizes
              /\ udp'[k].body.code = EncodedBlock
              /\ udp'[k].body.len = largest_sized_payload
           \/ /\ SendFragment
              /\ k = Len(udp') /\ k > Len(udp)
              /\ ~udp'[k].recovery_pkt
              /\ udp'[k].block_id = current_block_id
              /\ udp'[k].fragment_index = current_regular_fragment_index
              /\ udp'[k].body = Head(rtp_queue)
<1>1. CASE k \in 1 .. Len(udp)
  BY <1>1, WireGrowth
<1>2. CASE k \notin 1 .. Len(udp)
  <2>1. k \in Len(udp) + 1 .. Len(udp') /\ k > Len(udp)
    BY <1>2, WireGrowth
  <2>2. CASE /\ EncodeDue /\ EncoderFull
             /\ k - Len(udp) \in 1 .. Recovery
             /\ udp'[k] = DueShard(k - Len(udp))
    <3>1. k - Len(udp) \in Nat
      BY <2>2
    <3>2. QED
      BY <2>1, <2>2, <3>1, NewDatagramFields
  <2>3. CASE /\ k = Len(udp')
             /\ SendFragment
             /\ udp'[k] = Original(current_block_id,
                             current_regular_fragment_index, Head(rtp_queue))
    BY <2>1, <2>3, NewDatagramFields
  <2>4. QED
    BY <2>1, <2>2, <2>3, WireGrowth
<1>3. QED
  BY <1>1, <1>2

\* No step puts the encoder out of step with the number of shards it was
\* configured for, while no send_to fails and the block id has not wrapped.
LEMMA EncoderInStepPreserved ==
    ASSUME TypeOK, EncoderInStep, [Next]_packagerVars
    PROVE  EncoderInStep'
<1> USE DEF queueVars, labelVars, blockVars, errorVars
<1> SUFFICES ASSUME Labelling'
             PROVE  \/ Len(enc') = current_regular_fragment_index' /\ ~EncodeDue'
                    \/ EncodeDue' /\ EncoderFull'
                    \/ Wedged' /\ recovery_errors' > 0
  BY DEF EncoderInStep, Labelling
<1>1. CASE UNCHANGED packagerVars \/ ProcessFrame \/ EncodeFails
  BY <1>1 DEF packagerVars, ProcessFrame, EncodeFails, EncoderInStep, EncodeDue,
              EncoderFull, Wedged, Labelling
<1>2. CASE RecoverySendFails
  BY <1>2 DEF RecoverySendFails, EncodeDue, Wedged, TypeOK
<1>3. CASE SendFragment
  <2>1. /\ status = "running" /\ ~id_wrapped /\ ~Overflows
        /\ current_regular_fragment_index' = NextFragmentIndex
        /\ NextFragmentIndex = 0 => current_block_id' = current_block_id + 1
        /\ NextFragmentIndex # 0 => current_block_id' = current_block_id
    BY <1>3 DEF SendFragment, LabelPacket, AdvanceLabel, PopPacket, Labelling, TypeOK
  <2>2. Len(enc') = IF EncodeDue THEN 1 ELSE Len(enc) + 1
    BY <1>3 DEF SendFragment, ShardsBefore, TypeOK
  <2>3. \/ Len(enc) = current_regular_fragment_index /\ ~EncodeDue
        \/ EncodeDue /\ current_regular_fragment_index = 0
    BY <2>1 DEF EncoderInStep, EncodeDue, Wedged
  <2>4. Len(enc') = current_regular_fragment_index + 1
    BY <2>2, <2>3 DEF TypeOK, Index
  <2>5. QED
    BY <2>1, <2>4, FragmentIndexAdvances
    DEF TypeOK, Index, EncodeDue, EncoderFull
<1>4. CASE AddShardFails
  BY <1>4 DEF AddShardFails, PopPacket, LabelPacket, AdvanceLabel, EncoderInStep,
              EncodeDue, EncoderFull, Wedged, Labelling, TypeOK, Index
<1>5. CASE BlockIdOverflow
  BY <1>5 DEF BlockIdOverflow, Labelling
<1>6. QED
  BY <1>1, <1>2, <1>3, <1>4, <1>5 DEF Next, SendNextPkt

\* The packets that wait keep the order of their RTP numbers: process_frame
\* pushes newer ones behind, send_next_pkt takes from the other end.
LEMMA QueueOrderedPreserved ==
    ASSUME TypeOK, QueueOrdered, [Next]_packagerVars
    PROVE  QueueOrdered'
<1> USE DEF queueVars, labelVars, blockVars, errorVars
<1>1. CASE UNCHANGED packagerVars
  BY <1>1 DEF packagerVars, QueueOrdered, Originals
<1>2. CASE ProcessFrame
  <2>1. PICK n \in 1 .. MaxFrame :
           /\ next_seq' = next_seq + n
           /\ Len(rtp_queue') = n
           /\ \A k \in 1 .. n : rtp_queue'[k].seq = next_seq + k - 1
    BY <1>2 DEF ProcessFrame
  <2>2. udp' = udp
    BY <1>2 DEF ProcessFrame
  <2>3. ASSUME NEW o \in Originals'
        PROVE  /\ o \in Originals /\ udp'[o] = udp[o]
               /\ udp[o].body.seq < next_seq /\ udp[o].body.seq \in Nat
    <3>1. o \in Originals /\ o \in 1 .. Len(udp) /\ ~udp[o].recovery_pkt
      BY <2>2 DEF Originals
    <3>2. udp[o].body \in Packet
      BY <3>1, SentDatagramFields
    <3>3. QED
      BY <2>2, <3>1, <3>2 DEF QueueOrdered, Packet
  <2>4. next_seq \in Nat
    BY DEF TypeOK
  <2>5. /\ \A k \in 1 .. Len(rtp_queue') : rtp_queue'[k].seq < next_seq'
        /\ \A j, k \in 1 .. Len(rtp_queue') :
              j < k => rtp_queue'[j].seq < rtp_queue'[k].seq
    BY <2>1, <2>4
  <2>6. ASSUME NEW o \in Originals'
        PROVE  /\ udp'[o].body.seq < next_seq'
               /\ \A k \in 1 .. Len(rtp_queue') : udp'[o].body.seq < rtp_queue'[k].seq
    BY <2>1, <2>3, <2>4
  <2>7. QED
    BY <2>5, <2>6 DEF QueueOrdered
<1>3. CASE SendNextPkt
  <2>1. /\ rtp_queue # <<>> /\ rtp_queue' = Tail(rtp_queue) /\ next_seq' = next_seq
    BY <1>3 DEF SendNextPkt, EncodeFails, RecoverySendFails, SendFragment,
                AddShardFails, BlockIdOverflow, PopPacket
  <2>2. /\ rtp_queue' \in Seq(Packet)
        /\ Len(rtp_queue') = Len(rtp_queue) - 1
        /\ \A k \in 1 .. Len(rtp_queue') : rtp_queue'[k] = rtp_queue[k + 1]
        /\ Head(rtp_queue) = rtp_queue[1] /\ Len(rtp_queue) >= 1
        /\ Len(rtp_queue) \in Nat
    BY <2>1 DEF TypeOK
  <2>3. ASSUME NEW o \in Originals'
        PROVE  \/ o \in Originals /\ udp'[o] = udp[o]
               \/ udp'[o].body = rtp_queue[1]
    <3>1. o \in 1 .. Len(udp') /\ ~udp'[o].recovery_pkt
      BY DEF Originals
    <3>2. QED
      BY <1>3, <2>2, <3>1, AppendedDatagrams DEF Originals
  <2>4. QED
    BY <2>1, <2>2, <2>3 DEF QueueOrdered
<1>4. QED
  BY <1>1, <1>2, <1>3 DEF Next

\* While the labels are good, a step leaves the packager as it is, queues a
\* frame, drops a packet, fails on a recovery shard or sends a fragment.
LEMMA LabellingSteps ==
    ASSUME TypeOK, EncoderInStep, [Next]_packagerVars, Labelling'
    PROVE  /\ Labelling
           /\ \/ UNCHANGED <<labelVars, current_recovery_fragment_index,
                             blockVars, udp, errorVars>>
              \/ RecoverySendFails
              \/ SendFragment
<1> USE DEF queueVars, labelVars, blockVars, errorVars
<1>1. CASE UNCHANGED packagerVars \/ ProcessFrame \/ EncodeFails
  BY <1>1 DEF packagerVars, ProcessFrame, EncodeFails, PopPacket, Labelling
<1>2. CASE RecoverySendFails
  BY <1>2 DEF RecoverySendFails, PopPacket, Labelling
<1>3. CASE SendFragment
  BY <1>3 DEF SendFragment, PopPacket, LabelPacket, AdvanceLabel, Labelling, TypeOK
<1>4. CASE AddShardFails
  BY <1>4 DEF AddShardFails, PopPacket, LabelPacket, AdvanceLabel, EncoderInStep,
              EncodeDue, EncoderFull, Wedged, Labelling, TypeOK, Index
<1>5. CASE BlockIdOverflow
  BY <1>5 DEF BlockIdOverflow, Labelling
<1>6. QED
  BY <1>1, <1>2, <1>3, <1>4, <1>5 DEF Next, SendNextPkt

\* What sending a fragment does to the encoder and the labels.
LEMMA SendFragmentEffect ==
    ASSUME TypeOK, EncoderInStep, SendFragment, Labelling, Labelling'
    PROVE  /\ EncodeDue = EncoderFull
           /\ Head(rtp_queue) \in Packet
           /\ Len(ShardsBefore(EncodeDue)) = current_regular_fragment_index
           /\ enc' = Append(ShardsBefore(EncodeDue), Head(rtp_queue))
           /\ \/ /\ current_regular_fragment_index = Regular - 1
                 /\ current_regular_fragment_index' = 0
                 /\ current_block_id' = current_block_id + 1
              \/ /\ current_regular_fragment_index < Regular - 1
                 /\ current_regular_fragment_index' = current_regular_fragment_index + 1
                 /\ current_block_id' = current_block_id
<1>1. /\ EncodeDue = EncoderFull
      /\ enc' = Append(ShardsBefore(EncodeDue), Head(rtp_queue))
      /\ PopPacket
  BY DEF SendFragment
<1>2. Head(rtp_queue) \in Packet
  BY <1>1, PopPacketType
<1>3. Len(ShardsBefore(EncodeDue)) = current_regular_fragment_index
  BY <1>1 DEF ShardsBefore, EncoderInStep, EncodeDue, Wedged, Labelling, TypeOK
<1>4. /\ current_regular_fragment_index' = NextFragmentIndex
      /\ NextFragmentIndex = 0 => current_block_id' = current_block_id + 1
      /\ NextFragmentIndex # 0 => current_block_id' = current_block_id
  BY DEF SendFragment, LabelPacket, AdvanceLabel, Labelling, TypeOK
<1>5. QED
  BY <1>1, <1>2, <1>3, <1>4, FragmentIndexAdvances DEF TypeOK, Index

\* The recorded sizes and the largest one stay those of the current block.
LEMMA SizesInStepPreserved ==
    ASSUME TypeOK, EncoderInStep, SizesInStep, [Next]_packagerVars
    PROVE  SizesInStep'
<1> SUFFICES ASSUME Labelling', NEW k \in Index, k < Len(enc')
             PROVE  /\ pkt_sizes'[k] = enc'[k + 1].size
                    /\ enc'[k + 1].size <= largest_sized_payload'
  BY DEF SizesInStep
<1>1. CASE UNCHANGED <<labelVars, current_recovery_fragment_index, blockVars, udp, errorVars>>
  BY <1>1, LabellingSteps DEF SizesInStep, blockVars
<1>2. CASE RecoverySendFails
  BY <1>2 DEF RecoverySendFails, Index
<1>3. CASE SendFragment
  <2> DEFINE i == current_regular_fragment_index
             before == ShardsBefore(EncodeDue)
             pkt == Head(rtp_queue)
  <2>1. /\ Labelling
        /\ Len(before) = i /\ i \in Index /\ pkt \in Packet
        /\ enc' = Append(before, pkt)
    BY <1>3, LabellingSteps, SendFragmentEffect DEF TypeOK
  <2>2. before \in Seq(Packet)
    BY DEF ShardsBefore, TypeOK
  <2>3. pkt_sizes' = [pkt_sizes EXCEPT ![i] = pkt.size]
    BY <1>3 DEF SendFragment, LabelPacket
  <2>4. largest_sized_payload' = LargestAfter(pkt.size, EncodeDue)
    BY <1>3 DEF SendFragment, LabelPacket
  <2>5. /\ pkt.size \in Nat /\ largest_sized_payload \in Nat
        /\ pkt_sizes \in [Index -> Sizes \cup {0}]
    <3>1. pkt.size \in Sizes
      <4>1. pkt \in Packet
        BY <2>1
      <4> HIDE DEF pkt
      <4>2. QED
        BY <4>1 DEF Packet
    <3>2. pkt_sizes \in [Index -> Sizes \cup {0}]
      BY DEF TypeOK
    <3>3. largest_sized_payload \in Nat
      BY DEF TypeOK
    <3>4. pkt.size \in Nat
      <4> HIDE DEF pkt
      <4>1. QED
        BY <3>1
    <3>5. QED
      BY <3>2, <3>3, <3>4
  <2>6. CASE k = i
    <3>1. enc'[k + 1] = pkt
      <4> HIDE DEF before, pkt
      <4>1. enc'[Len(before) + 1] = pkt
        BY <2>1, <2>2
      <4>2. QED
        BY <2>1, <2>6, <4>1
    <3>2. pkt_sizes'[k] = pkt.size
      BY <2>1, <2>3, <2>5, <2>6
    <3>3. pkt.size <= largest_sized_payload'
      BY <2>4, <2>5 DEF LargestAfter
    <3>4. QED
      BY <3>1, <3>2, <3>3
  <2>7. CASE k # i
    <3>1. k < i /\ enc'[k + 1] = before[k + 1]
      BY <2>1, <2>2, <2>7 DEF Index
    <3>2. ~EncodeDue /\ before = enc
      BY <2>1, <3>1 DEF ShardsBefore, EncodeDue, Index
    <3>3. /\ pkt_sizes[k] = enc[k + 1].size
          /\ enc[k + 1].size <= largest_sized_payload
      BY <2>1, <3>1, <3>2 DEF SizesInStep
    <3>4. enc[k + 1].size \in Nat
      <4>1. enc[k + 1] \in Packet
        BY <2>1, <2>2, <3>1, <3>2 DEF Index
      <4>2. QED
        BY <4>1 DEF Packet
    <3>5. QED
      BY <2>3, <2>4, <2>5, <2>7, <3>1, <3>2, <3>3, <3>4 DEF LargestAfter
  <2>8. QED
    BY <2>6, <2>7
<1>4. QED
  BY <1>1, <1>2, <1>3, LabellingSteps

\* The fragment index stays the number of shards the encoder has been given.
LEMMA NumberingInStepPreserved ==
    ASSUME TypeOK, EncoderInStep, NumberingInStep, [Next]_packagerVars
    PROVE  NumberingInStep'
<1> SUFFICES ASSUME Labelling'
             PROVE  current_recovery_fragment_index' = Recovery - 1 \/ Wedged'
  BY DEF NumberingInStep
<1>1. CASE UNCHANGED <<labelVars, current_recovery_fragment_index, blockVars, udp, errorVars>>
  BY <1>1, LabellingSteps DEF NumberingInStep, Wedged, EncodeDue, blockVars, labelVars
<1>2. CASE RecoverySendFails
  BY <1>2 DEF RecoverySendFails, Wedged, EncodeDue, labelVars
<1>3. CASE SendFragment
  <2>1. Labelling /\ EncodeDue = EncoderFull
    BY <1>3, LabellingSteps, SendFragmentEffect
  <2>2. ~Wedged
    BY <2>1 DEF Wedged, EncoderFull
  <2>3. current_recovery_fragment_index = Recovery - 1
    BY <2>1, <2>2 DEF NumberingInStep
  <2>4. RecoveryFragmentIndex(Recovery) = Recovery - 1
    BY <2>3, RecoveryIndexAdvances DEF TypeOK
  <2>5. QED
    BY <1>3, <2>3, <2>4 DEF SendFragment, LabelPacket
<1>4. QED
  BY <1>1, <1>2, <1>3, LabellingSteps

\* No datagram sent carries a label the packager has yet to give.
LEMMA LabelsUsedPreserved ==
    ASSUME TypeOK, EncoderInStep, LabelsUsed, [Next]_packagerVars
    PROVE  LabelsUsed'
<1> SUFFICES ASSUME Labelling', NEW n \in 1 .. Len(udp')
             PROVE  IF udp'[n].recovery_pkt
                    THEN /\ udp'[n].block_id < current_block_id'
                         /\ EncodeDue' /\ EncoderFull'
                               => udp'[n].block_id + 1 < current_block_id'
                    ELSE \/ udp'[n].block_id < current_block_id'
                         \/ /\ udp'[n].block_id = current_block_id'
                            /\ udp'[n].fragment_index < current_regular_fragment_index'
  BY DEF LabelsUsed
<1>1. CASE UNCHANGED <<labelVars, current_recovery_fragment_index, blockVars, udp, errorVars>>
  BY <1>1, LabellingSteps
  DEF LabelsUsed, EncodeDue, EncoderFull, blockVars, labelVars
<1>2. CASE RecoverySendFails
  <2>1. /\ Labelling /\ ~EncoderFull'
        /\ current_block_id' = current_block_id
        /\ current_regular_fragment_index' = current_regular_fragment_index
    BY <1>2, LabellingSteps DEF RecoverySendFails, EncoderFull, labelVars
  <2>2. CASE n \in 1 .. Len(udp) /\ udp'[n] = udp[n]
    BY <2>1, <2>2 DEF LabelsUsed
  <2>3. CASE udp'[n].recovery_pkt /\ udp'[n].block_id = current_block_id - 1
    BY <2>1, <2>3 DEF TypeOK
  <2>4. ~SendFragment
    <3>1. recovery_errors' = recovery_errors + 1 /\ recovery_errors \in Nat
      BY <1>2 DEF RecoverySendFails, TypeOK
    <3>2. SendFragment => recovery_errors' = recovery_errors
      BY DEF SendFragment
    <3>3. QED
      BY <3>1, <3>2
  <2>5. QED
    BY <1>2, <2>2, <2>3, <2>4, AppendedDatagrams DEF SendNextPkt
<1>3. CASE SendFragment
  <2>1. /\ Labelling /\ EncodeDue = EncoderFull
        /\ current_block_id \in Nat /\ current_regular_fragment_index \in Nat
        /\ \/ /\ current_regular_fragment_index' = 0
              /\ current_block_id' = current_block_id + 1
           \/ /\ current_regular_fragment_index' = current_regular_fragment_index + 1
              /\ current_block_id' = current_block_id
    BY <1>3, LabellingSteps, SendFragmentEffect DEF TypeOK, Index
  <2>2. EncodeDue' => current_regular_fragment_index' = 0
    BY DEF EncodeDue
  <2>3. CASE n \in 1 .. Len(udp) /\ udp'[n] = udp[n]
    <3>1. /\ udp[n].block_id \in Nat
          /\ ~udp[n].recovery_pkt => udp[n].fragment_index \in Nat
      BY <2>3, SentDatagramFields DEF Index
    <3>2. IF udp[n].recovery_pkt
          THEN udp[n].block_id < current_block_id
          ELSE \/ udp[n].block_id < current_block_id
               \/ /\ udp[n].block_id = current_block_id
                  /\ udp[n].fragment_index < current_regular_fragment_index
      BY <2>1, <2>3 DEF LabelsUsed
    <3>3. CASE udp[n].recovery_pkt
      BY <2>1, <2>2, <2>3, <3>1, <3>2, <3>3
    <3>4. CASE ~udp[n].recovery_pkt
      BY <2>1, <2>3, <3>1, <3>2, <3>4
    <3>5. QED
      BY <3>3, <3>4
  <2>4. CASE udp'[n].recovery_pkt /\ udp'[n].block_id = current_block_id - 1
    BY <2>1, <2>2, <2>4
  <2>5. CASE /\ ~udp'[n].recovery_pkt
             /\ udp'[n].block_id = current_block_id
             /\ udp'[n].fragment_index = current_regular_fragment_index
    BY <2>1, <2>5
  <2>6. QED
    BY <1>3, <2>3, <2>4, <2>5, AppendedDatagrams DEF SendNextPkt
<1>4. QED
  BY <1>1, <1>2, <1>3, LabellingSteps

\* The shards in the encoder stay those of the datagrams of the current block
\* on the wire.
LEMMA EncoderMatchesWirePreserved ==
    ASSUME TypeOK, EncoderInStep, LabelsUsed, EncoderMatchesWire, [Next]_packagerVars
    PROVE  EncoderMatchesWire'
<1> SUFFICES ASSUME Labelling', NEW o \in Originals',
                    \/ udp'[o].block_id = current_block_id'
                    \/ /\ EncodeDue' /\ EncoderFull'
                       /\ udp'[o].block_id + 1 = current_block_id'
             PROVE  enc'[udp'[o].fragment_index + 1] = udp'[o].body
  BY DEF EncoderMatchesWire
<1>1. CASE UNCHANGED <<labelVars, current_recovery_fragment_index, blockVars, udp, errorVars>>
  BY <1>1, LabellingSteps
  DEF EncoderMatchesWire, EncodeDue, EncoderFull, Originals, blockVars, labelVars
<1>2. o \in 1 .. Len(udp') /\ ~udp'[o].recovery_pkt
  BY DEF Originals
<1>3. ASSUME o \in 1 .. Len(udp), udp'[o] = udp[o], Labelling
      PROVE  /\ o \in Originals
             /\ udp[o].block_id \in Nat /\ udp[o].fragment_index \in Nat
             /\ \/ udp[o].block_id < current_block_id
                \/ /\ udp[o].block_id = current_block_id
                   /\ udp[o].fragment_index < current_regular_fragment_index
  <2>1. ~udp[o].recovery_pkt
    BY <1>2, <1>3
  <2>2. QED
    BY <1>3, <2>1, SentDatagramFields DEF LabelsUsed, Originals, Index
<1>4. CASE RecoverySendFails
  <2>1. /\ Labelling /\ ~EncoderFull'
        /\ current_block_id' = current_block_id
        /\ current_regular_fragment_index = 0
    BY <1>4, LabellingSteps
    DEF RecoverySendFails, EncoderFull, EncodeDue, labelVars
  <2>2. ~SendFragment
    <3>1. recovery_errors' = recovery_errors + 1 /\ recovery_errors \in Nat
      BY <1>4 DEF RecoverySendFails, TypeOK
    <3>2. SendFragment => recovery_errors' = recovery_errors
      BY DEF SendFragment
    <3>3. QED
      BY <3>1, <3>2
  <2>3. o \in 1 .. Len(udp) /\ udp'[o] = udp[o]
    BY <1>2, <1>4, <2>2, AppendedDatagrams DEF SendNextPkt
  <2>4. QED
    BY <1>3, <2>1, <2>3
<1>5. CASE SendFragment
  <2> DEFINE i == current_regular_fragment_index
             before == ShardsBefore(EncodeDue)
             pkt == Head(rtp_queue)
  <2>1. /\ Labelling /\ EncodeDue = EncoderFull
        /\ Len(before) = i /\ i \in Nat
        /\ enc' = Append(before, pkt)
        /\ current_block_id \in Nat
        /\ \/ i' = 0 /\ current_block_id' = current_block_id + 1
           \/ i' = i + 1 /\ current_block_id' = current_block_id
    BY <1>5, LabellingSteps, SendFragmentEffect DEF TypeOK, Index
  <2>2. before \in Seq(Packet)
    BY DEF ShardsBefore, TypeOK
  <2>3. CASE o \in 1 .. Len(udp) /\ udp'[o] = udp[o]
    <3>1. EncodeDue' => i' = 0
      BY DEF EncodeDue
    <3>2. udp[o].block_id = current_block_id /\ udp[o].fragment_index < i
      BY <1>3, <2>1, <2>3, <3>1
    <3>3. ~EncodeDue /\ before = enc
      BY <1>3, <2>1, <2>3, <3>2 DEF EncodeDue, ShardsBefore
    <3>4. enc[udp[o].fragment_index + 1] = udp[o].body
      BY <1>3, <2>1, <2>3, <3>2 DEF EncoderMatchesWire
    <3>5. udp[o].fragment_index + 1 \in 1 .. Len(before)
      BY <1>3, <2>1, <2>3, <3>2
    <3>6. enc'[udp[o].fragment_index + 1] = before[udp[o].fragment_index + 1]
      <4> HIDE DEF before, pkt
      <4>1. QED
        BY <2>1, <2>2, <3>5
    <3>7. QED
      BY <2>3, <3>3, <3>4, <3>6
  <2>4. CASE udp'[o].fragment_index = i /\ udp'[o].body = pkt
    <3> HIDE DEF before, pkt
    <3>1. enc'[Len(before) + 1] = pkt
      BY <2>1, <2>2
    <3>2. QED
      BY <2>1, <2>4, <3>1
  <2>5. QED
    BY <1>2, <1>5, <2>3, <2>4, AppendedDatagrams DEF SendNextPkt
<1>6. QED
  BY <1>1, <1>4, <1>5, LabellingSteps

\* A step sends recovery shards of nothing but the block they are labelled with.
LEMMA RecoveryCoversBlockPreserved ==
    ASSUME PackagerInv, [Next]_packagerVars
    PROVE  RecoveryCoversBlock'
<1> USE DEF PackagerInv
<1> SUFFICES ASSUME ~id_wrapped', NEW r \in Shards'
             PROVE  /\ \A k \in Index :
                          /\ udp'[r].pkt_sizes[k] = udp'[r].body.code[k].size
                          /\ udp'[r].body.code[k].size <= udp'[r].body.len
                    /\ \A o \in Originals' :
                          udp'[o].block_id = udp'[r].block_id =>
                              udp'[r].body.code[udp'[o].fragment_index] = udp'[o].body
  BY DEF RecoveryCoversBlock
<1>1. CASE UNCHANGED <<id_wrapped, udp>>
  BY <1>1 DEF RecoveryCoversBlock, Shards, Originals
<1>2. CASE SendNextPkt
  <2>1. status = "running" /\ ~id_wrapped
    BY <1>2 DEF SendNextPkt, EncodeFails, RecoverySendFails, SendFragment,
                AddShardFails, BlockIdOverflow, PopPacket, LabelPacket,
                AdvanceLabel, labelVars, TypeOK
  <2>2. r \in 1 .. Len(udp') /\ udp'[r].recovery_pkt
    BY DEF Shards
  <2>3. CASE r \in 1 .. Len(udp) /\ udp'[r] = udp[r]
    <3>1. r \in Shards
      BY <2>2, <2>3 DEF Shards
    <3>2. udp[r].block_id < current_block_id /\ udp[r].block_id \in Nat
      BY <2>1, <2>2, <2>3, SentDatagramFields DEF LabelsUsed, Labelling
    <3>3. ASSUME NEW o \in Originals', udp'[o].block_id = udp'[r].block_id
          PROVE  udp'[r].body.code[udp'[o].fragment_index] = udp'[o].body
      <4>1. o \in 1 .. Len(udp') /\ ~udp'[o].recovery_pkt
        BY DEF Originals
      <4>2. udp'[o].block_id # current_block_id
        BY <2>3, <3>2, <3>3 DEF TypeOK
      <4>3. o \in Originals /\ udp'[o] = udp[o]
        BY <1>2, <4>1, <4>2, AppendedDatagrams DEF Originals
      <4>4. QED
        BY <2>1, <2>3, <3>1, <3>3, <4>3 DEF RecoveryCoversBlock
    <3>4. QED
      BY <2>1, <2>3, <3>1, <3>3 DEF RecoveryCoversBlock
  <2>4. CASE /\ EncodeDue /\ EncoderFull
             /\ udp'[r].block_id = current_block_id - 1
             /\ udp'[r].pkt_sizes = pkt_sizes
             /\ udp'[r].body.code = EncodedBlock
             /\ udp'[r].body.len = largest_sized_payload
    <3>1. ASSUME NEW k \in Index
          PROVE  EncodedBlock[k] = enc[k + 1] /\ k < Len(enc)
      BY <2>4 DEF EncodedBlock, EncoderFull, Index
    <3>2. ASSUME NEW k \in Index
          PROVE  /\ udp'[r].pkt_sizes[k] = udp'[r].body.code[k].size
                 /\ udp'[r].body.code[k].size <= udp'[r].body.len
      BY <2>1, <2>4, <3>1 DEF SizesInStep, Labelling
    <3>3. ASSUME NEW o \in Originals', udp'[o].block_id = udp'[r].block_id
          PROVE  udp'[r].body.code[udp'[o].fragment_index] = udp'[o].body
      <4>1. o \in 1 .. Len(udp') /\ ~udp'[o].recovery_pkt
        BY DEF Originals
      <4>2. udp'[o].block_id + 1 = current_block_id /\ current_block_id \in Nat
        BY <2>4, <3>3 DEF TypeOK
      <4>3. o \in Originals /\ udp'[o] = udp[o] /\ udp[o].fragment_index \in Index
        BY <1>2, <4>1, <4>2, AppendedDatagrams, SentDatagramFields DEF Originals
      <4>4. enc[udp[o].fragment_index + 1] = udp[o].body
        BY <2>1, <2>4, <4>2, <4>3 DEF EncoderMatchesWire, Labelling
      <4>5. QED
        BY <2>4, <3>1, <4>3, <4>4
    <3>4. QED
      BY <3>2, <3>3
  <2>5. QED
    BY <1>2, <2>2, <2>3, <2>4, AppendedDatagrams
<1>3. QED
  BY <1>1, <1>2 DEF Next, ProcessFrame, packagerVars, labelVars

\* A step appends to the wire labels and RTP numbers larger than those on it.
LEMMA WireOrderedPreserved ==
    ASSUME PackagerInv, [Next]_packagerVars
    PROVE  WireOrdered'
<1> USE DEF PackagerInv
<1> SUFFICES ASSUME ~id_wrapped',
                    NEW j \in 1 .. Len(udp'), NEW k \in 1 .. Len(udp'), j < k
             PROVE  /\ Before(udp'[j], udp'[k])
                    /\ (~udp'[j].recovery_pkt /\ ~udp'[k].recovery_pkt)
                          => udp'[j].body.seq < udp'[k].body.seq
  BY DEF WireOrdered
<1>1. CASE UNCHANGED <<id_wrapped, udp>>
  BY <1>1 DEF WireOrdered
<1>2. CASE SendNextPkt
  <2>1. Labelling /\ ~id_wrapped /\ current_block_id \in Nat
    BY <1>2 DEF SendNextPkt, EncodeFails, RecoverySendFails, SendFragment,
                AddShardFails, BlockIdOverflow, PopPacket, LabelPacket,
                AdvanceLabel, labelVars, TypeOK, Labelling
  <2> DEFINE Old(n) == n \in 1 .. Len(udp) /\ udp'[n] = udp[n]
             Shard(n) == /\ EncodeDue /\ EncoderFull
                         /\ n > Len(udp) /\ n - Len(udp) \in 1 .. Recovery
                         /\ udp'[n].recovery_pkt
                         /\ udp'[n].block_id = current_block_id - 1
                         /\ udp'[n].fragment_index = n - Len(udp) - 1
             Fragment(n) == /\ n = Len(udp') /\ n > Len(udp)
                            /\ ~udp'[n].recovery_pkt
                            /\ udp'[n].block_id = current_block_id
                            /\ udp'[n].fragment_index = current_regular_fragment_index
                            /\ udp'[n].body = Head(rtp_queue)
  <2>2. ASSUME NEW n \in 1 .. Len(udp')
        PROVE  Old(n) \/ Shard(n) \/ Fragment(n)
    <3>1. ASSUME EncodeDue, EncoderFull, n - Len(udp) \in 1 .. Recovery
          PROVE  RecoveryFragmentIndex(n - Len(udp)) = n - Len(udp) - 1
      <4>1. current_recovery_fragment_index = Recovery - 1
        BY <2>1, <3>1 DEF NumberingInStep, Wedged, EncoderFull
      <4>2. n - Len(udp) \in Nat
        BY <3>1
      <4>3. QED
        BY <3>1, <4>1, <4>2, RecoveryIndexAdvances DEF TypeOK
    <3>2. QED
      BY <1>2, <3>1, AppendedDatagrams
  <2>3. ASSUME Old(j)
        PROVE  /\ udp[j].block_id \in Nat
               /\ ~udp[j].recovery_pkt => udp[j].fragment_index \in Index
               /\ udp[j].recovery_pkt => udp[j].fragment_index \in RecoveryIndex
               /\ IF udp[j].recovery_pkt
                  THEN /\ udp[j].block_id < current_block_id
                       /\ EncodeDue /\ EncoderFull => udp[j].block_id + 1 < current_block_id
                  ELSE \/ udp[j].block_id < current_block_id
                       \/ /\ udp[j].block_id = current_block_id
                          /\ udp[j].fragment_index < current_regular_fragment_index
    BY <2>1, <2>3, SentDatagramFields DEF LabelsUsed
  <2>4. CASE Old(j) /\ Old(k)
    BY <2>1, <2>4 DEF WireOrdered
  <2>5. CASE Old(j) /\ Shard(k)
    <3>1. current_regular_fragment_index = 0
      BY <2>5 DEF EncodeDue
    <3>2. CASE udp[j].recovery_pkt
      BY <2>1, <2>3, <2>5, <3>2 DEF Before
    <3>3. CASE ~udp[j].recovery_pkt
      BY <2>1, <2>3, <2>5, <3>1, <3>3 DEF Before, Position, Index
    <3>4. QED
      BY <3>2, <3>3
  <2>6. CASE Old(j) /\ Fragment(k)
    <3>1. Before(udp'[j], udp'[k])
      BY <2>1, <2>3, <2>6 DEF Before, Position, Index
    <3>2. ASSUME ~udp'[j].recovery_pkt
          PROVE  udp'[j].body.seq < udp'[k].body.seq
      <4>1. rtp_queue # <<>> /\ rtp_queue \in Seq(Packet)
        BY <1>2 DEF SendNextPkt, EncodeFails, RecoverySendFails, SendFragment,
                    AddShardFails, BlockIdOverflow, PopPacket, TypeOK
      <4>2. Head(rtp_queue) = rtp_queue[1] /\ 1 \in 1 .. Len(rtp_queue)
        BY <4>1
      <4>3. j \in Originals
        BY <2>6, <3>2 DEF Originals
      <4>4. QED
        BY <2>6, <4>2, <4>3 DEF QueueOrdered
    <3>3. QED
      BY <3>1, <3>2
  <2>7. CASE Shard(j) /\ Shard(k)
    BY <2>7 DEF Before, Position, TypeOK
  <2>8. CASE Shard(j) /\ Fragment(k)
    BY <2>1, <2>8 DEF Before
  <2>9. ~Fragment(j) /\ ~(Old(k) /\ ~Old(j))
    <3>1. Len(udp) \in Nat /\ Len(udp') \in Nat
      BY <1>2, WireGrowth
    <3>2. \A n \in 1 .. Len(udp) : udp'[n] = udp[n]
      BY <1>2, WireGrowth
    <3>3. QED
      BY <3>1, <3>2
  <2>10. QED
    BY <2>2, <2>4, <2>5, <2>6, <2>7, <2>8, <2>9
<1>3. QED
  BY <1>1, <1>2 DEF Next, ProcessFrame, packagerVars, labelVars

-----------------------------------------------------------------------------
\* The first state satisfies the invariant.
LEMMA PackagerInvInit == Init => PackagerInv
<1> SUFFICES ASSUME Init PROVE PackagerInv
  OBVIOUS
<1>1. TypeOK
  BY InitTypes
<1>2. Originals = {} /\ Shards = {}
  BY DEF Init, Originals, Shards
<1>3. /\ EncoderInStep /\ SizesInStep /\ LabelsUsed /\ NumberingInStep
      /\ WireOrdered /\ QueueOrdered
  BY <1>2 DEF Init, EncoderInStep, SizesInStep, LabelsUsed, NumberingInStep,
              WireOrdered, QueueOrdered, EncodeDue, Index
<1>4. EncoderMatchesWire /\ RecoveryCoversBlock
  BY <1>2 DEF EncoderMatchesWire, RecoveryCoversBlock
<1>5. QED
  BY <1>1, <1>3, <1>4 DEF PackagerInv

\* Every step keeps the invariant: the lemmas above, part by part.
LEMMA PackagerInvInductive == PackagerInv /\ [Next]_packagerVars => PackagerInv'
<1> SUFFICES ASSUME PackagerInv, [Next]_packagerVars PROVE PackagerInv'
  OBVIOUS
<1>1. /\ TypeOK /\ EncoderInStep /\ QueueOrdered /\ SizesInStep /\ LabelsUsed
      /\ EncoderMatchesWire /\ NumberingInStep
  BY DEF PackagerInv
<1>2. TypeOK'
  BY <1>1, TypesPreserved
<1>3. EncoderInStep' /\ QueueOrdered' /\ SizesInStep' /\ NumberingInStep'
  BY <1>1, EncoderInStepPreserved, QueueOrderedPreserved, SizesInStepPreserved,
     NumberingInStepPreserved
<1>4. LabelsUsed' /\ EncoderMatchesWire'
  BY <1>1, LabelsUsedPreserved, EncoderMatchesWirePreserved
<1>5. RecoveryCoversBlock' /\ WireOrdered'
  BY RecoveryCoversBlockPreserved, WireOrderedPreserved
<1>6. QED
  BY <1>2, <1>3, <1>4, <1>5 DEF PackagerInv

\* The inductive invariant holds in every reachable state.
THEOREM PackagerInvariant == Spec => []PackagerInv
BY PackagerInvInit, PackagerInvInductive, PTL DEF Spec

\* encode() and add_original_shard() find the number of shards they need,
\* unless a send_to of a recovery shard has failed or the block id has wrapped.
THEOREM EncoderStaysInStep == Spec => []EncoderInStep
<1>1. PackagerInv => EncoderInStep
  BY DEF PackagerInv
<1>2. QED
  BY <1>1, PackagerInvariant, PTL

\* Every recovery shard sent is one of the block it is labelled with, whatever
\* sends fail, until the block id wraps.
THEOREM ShardsCoverTheirBlock == Spec => []RecoveryCoversBlock
<1>1. PackagerInv => RecoveryCoversBlock
  BY DEF PackagerInv
<1>2. QED
  BY <1>1, PackagerInvariant, PTL

\* Labels leave in order and RTP packets with them, whatever sends fail, until
\* the block id wraps.
THEOREM WireStaysOrdered == Spec => []WireOrdered
<1>1. PackagerInv => WireOrdered
  BY DEF PackagerInv
<1>2. QED
  BY <1>1, PackagerInvariant, PTL
-----------------------------------------------------------------------------
(***************************************************************************)
(* What is on the wire of a block.  These definitions take the wire, so    *)
(* that the wire before and after a call can be compared.                  *)
(***************************************************************************)
OfBlock(wire, b) == {k \in 1 .. Len(wire) : ~wire[k].recovery_pkt /\ wire[k].block_id = b}

AllShards(wire, b) ==
    \A j \in RecoveryIndex : \E r \in 1 .. Len(wire) :
        wire[r].recovery_pkt /\ wire[r].block_id = b /\ wire[r].fragment_index = j

\* Exactly what a call appends that labels its packet.
LEMMA FragmentAppended ==
    ASSUME TypeOK, SendFragment
    PROVE  LET due == IF EncodeDue THEN Recovery ELSE 0
           IN  /\ Len(udp') \in Nat /\ Len(udp) \in Nat
               /\ EncodeDue => \A m \in 1 .. Recovery :
                     Len(udp) + m <= Len(udp') /\ udp'[Len(udp) + m] = DueShard(m)
               /\ \/ /\ fragment_errors' = fragment_errors
                     /\ Len(udp') = Len(udp) + due + 1
                     /\ udp'[Len(udp')] = Original(current_block_id,
                                             current_regular_fragment_index, Head(rtp_queue))
                  \/ fragment_errors' = fragment_errors + 1
<1> DEFINE pk == Original(current_block_id, current_regular_fragment_index, Head(rtp_queue))
           due == IF EncodeDue THEN Recovery ELSE 0
           R == RecoveryDue
<1>1. EncodeDue = EncoderFull
  BY DEF SendFragment
<1>2. \/ udp' = udp \o Append(R, pk) /\ fragment_errors' = fragment_errors
      \/ udp' = udp \o R /\ fragment_errors' = fragment_errors + 1
  BY DEF SendFragment
<1>3. /\ R \in Seq(RecoveryDatagram) /\ Len(R) = due /\ due \in Nat
      /\ EncodeDue => \A m \in 1 .. Recovery : R[m] = DueShard(m)
  BY <1>1, RecoveryShardsType DEF RecoveryDue
<1>4. pk \in Datagram /\ udp \in Seq(Datagram)
  <2>1. Head(rtp_queue) \in Packet
    BY PopPacketType DEF SendFragment
  <2> QED
    BY <2>1 DEF TypeOK, Original, OriginalDatagram, Datagram
<1>5. EncodeDue => due = Recovery
  OBVIOUS
<1> HIDE DEF pk, due, R
<1>6. R \in Seq(Datagram)
  BY <1>3 DEF Datagram
<1> DEFINE D == Datagram
<1> HIDE DEF D
<1>7. R \in Seq(D) /\ udp \in Seq(D) /\ pk \in D
  BY <1>4, <1>6 DEF D
<1>8. /\ udp \o R \in Seq(D) /\ Len(udp \o R) = Len(udp) + due
      /\ Len(udp) \in Nat
      /\ \A m \in 1 .. due : (udp \o R)[Len(udp) + m] = R[m]
  <2>1. /\ udp \o R \in Seq(D) /\ Len(udp \o R) = Len(udp) + Len(R)
        /\ Len(udp) \in Nat
    BY <1>7, ConcatProperties, LenProperties
  <2>2. ASSUME NEW m \in 1 .. due
        PROVE  (udp \o R)[Len(udp) + m] = R[m]
    <3>1. /\ Len(udp) + m \in 1 .. Len(udp) + Len(R)
          /\ ~(Len(udp) + m <= Len(udp))
          /\ (Len(udp) + m) - Len(udp) = m
      BY <1>3, <2>1
    <3> QED
      BY <1>7, <3>1, ConcatProperties
  <2> QED
    BY <1>3, <2>1, <2>2
<1>9. udp \o Append(R, pk) = Append(udp \o R, pk)
  BY <1>7
<1>10. CASE udp' = udp \o R /\ fragment_errors' = fragment_errors + 1
  <2>1. EncodeDue => \A m \in 1 .. Recovery :
           Len(udp) + m <= Len(udp') /\ udp'[Len(udp) + m] = DueShard(m)
    BY <1>3, <1>5, <1>8, <1>10
  <2> QED
    BY <1>3, <1>8, <1>10, <2>1 DEF due
<1>11. CASE udp' = Append(udp \o R, pk) /\ fragment_errors' = fragment_errors
  <2>1. /\ Len(udp') = Len(udp) + due + 1
        /\ \A n \in 1 .. Len(udp) + due : udp'[n] = (udp \o R)[n]
        /\ udp'[Len(udp) + due + 1] = pk
    BY <1>7, <1>8, <1>11, AppendProperties
  <2>2. ASSUME EncodeDue, NEW m \in 1 .. Recovery
        PROVE  Len(udp) + m <= Len(udp') /\ udp'[Len(udp) + m] = DueShard(m)
    <3>1. m \in 1 .. due /\ Len(udp) + m \in 1 .. Len(udp) + due
      BY <1>3, <1>5, <1>8, <2>2
    <3> QED
      BY <1>3, <1>8, <2>1, <2>2, <3>1
  <2> QED
    BY <1>3, <1>8, <1>11, <2>1, <2>2 DEF due, pk
<1> QED
  BY <1>2, <1>9, <1>10, <1>11

\* The fragments of a block stay on the wire, and a set of them is counted.
LEMMA OfBlockGrows ==
    ASSUME TypeOK, SendNextPkt, NEW b
    PROVE  /\ OfBlock(udp, b) \subseteq OfBlock(udp', b)
           /\ IsFiniteSet(OfBlock(udp, b)) /\ IsFiniteSet(OfBlock(udp', b))
           /\ Cardinality(OfBlock(udp, b)) \in Nat
           /\ Cardinality(OfBlock(udp', b)) \in Nat
           /\ Cardinality(OfBlock(udp, b)) <= Cardinality(OfBlock(udp', b))
<1>1. /\ Len(udp') \in Nat /\ Len(udp) \in Nat /\ Len(udp) <= Len(udp')
      /\ \A k \in 1 .. Len(udp) : udp'[k] = udp[k]
  BY WireGrowth
<1>2. OfBlock(udp, b) \subseteq OfBlock(udp', b)
  BY <1>1 DEF OfBlock
<1>3. OfBlock(udp', b) \subseteq 1 .. Len(udp')
  BY DEF OfBlock
<1>4. IsFiniteSet(1 .. Len(udp'))
  BY <1>1, FS_Interval
<1>5. IsFiniteSet(OfBlock(udp', b))
  BY <1>3, <1>4, FS_Subset
<1> QED
  BY <1>2, <1>5, FS_Subset, FS_CardinalityType

\* A block whose shards are all on the wire keeps them there.
LEMMA AllShardsStay ==
    ASSUME TypeOK, SendNextPkt, NEW b, AllShards(udp, b)
    PROVE  AllShards(udp', b)
<1>1. /\ Len(udp') \in Nat /\ Len(udp) \in Nat /\ Len(udp) <= Len(udp')
      /\ \A k \in 1 .. Len(udp) : udp'[k] = udp[k]
  BY WireGrowth
<1>2. \A k \in 1 .. Len(udp) : k \in 1 .. Len(udp')
  BY <1>1
<1> QED
  BY <1>1, <1>2 DEF AllShards

-----------------------------------------------------------------------------
\* All shards of the blocks before are sent, but for the block whose recovery data
\* is due or was given up.
ShardsSent ==
    Labelling =>
        \A b \in Nat :
            \/ b + 1 < current_block_id
            \/ b + 1 = current_block_id /\ current_regular_fragment_index # 0
            => AllShards(udp, b)

\* All fragments are sent that were labelled, but for those whose send failed.
FragmentsSent ==
    Labelling =>
        /\ \A b \in Nat : b < current_block_id =>
              Cardinality(OfBlock(udp, b)) + fragment_errors >= Regular
        /\ Cardinality(OfBlock(udp, current_block_id)) + fragment_errors
              >= current_regular_fragment_index

CompleteInv == ShardsSent /\ FragmentsSent /\ EarlierBlocksComplete

\* While the labels are good the property follows from the rest.
LEMMA CompleteWhileLabelling ==
    ASSUME TypeOK, LabelsUsed, ShardsSent, FragmentsSent, Labelling
    PROVE  EarlierBlocksComplete
<1> SUFFICES ASSUME NEW o \in Originals, NEW b \in 0 .. udp[o].block_id - 1
             PROVE  /\ AllShards(udp, b)
                    /\ Cardinality(OfBlock(udp, b)) >= Regular - fragment_errors
  <2>1. \A b : OfBlock(udp, b) = {k \in Originals : udp[k].block_id = b}
    BY DEF OfBlock, Originals
  <2>2. \A b : AllShards(udp, b) => \A j \in RecoveryIndex : \E r \in Shards :
                  udp[r].block_id = b /\ udp[r].fragment_index = j
    BY DEF AllShards, Shards
  <2> QED
    BY <2>1, <2>2 DEF EarlierBlocksComplete
<1>1. o \in 1 .. Len(udp) /\ ~udp[o].recovery_pkt
  BY DEF Originals
<1>2. udp[o].block_id \in Nat /\ udp[o].fragment_index \in Index
  BY <1>1, SentDatagramFields
<1>3. \/ udp[o].block_id < current_block_id
      \/ /\ udp[o].block_id = current_block_id
         /\ udp[o].fragment_index < current_regular_fragment_index
  BY <1>1 DEF LabelsUsed
<1>4. /\ b \in Nat /\ b < current_block_id
      /\ \/ b + 1 < current_block_id
         \/ b + 1 = current_block_id /\ current_regular_fragment_index # 0
  BY <1>2, <1>3 DEF TypeOK, Index
<1>5. AllShards(udp, b)
  BY <1>4 DEF ShardsSent
<1>6. Cardinality(OfBlock(udp, b)) + fragment_errors >= Regular
  BY <1>4 DEF FragmentsSent
<1>7. Cardinality(OfBlock(udp, b)) \in Nat
  <2>1. OfBlock(udp, b) \subseteq 1 .. Len(udp) /\ Len(udp) \in Nat
    BY DEF OfBlock, TypeOK
  <2>2. IsFiniteSet(1 .. Len(udp))
    BY <2>1, FS_Interval
  <2> QED
    BY <2>1, <2>2, FS_Subset, FS_CardinalityType
<1> QED
  BY <1>5, <1>6, <1>7 DEF TypeOK

LEMMA ShardsSentPreserved ==
    ASSUME TypeOK, EncoderInStep, NumberingInStep, ShardsSent, [Next]_packagerVars
    PROVE  ShardsSent'
<1> SUFFICES ASSUME Labelling', NEW b \in Nat,
                    \/ b + 1 < current_block_id'
                    \/ b + 1 = current_block_id' /\ current_regular_fragment_index' # 0
             PROVE  AllShards(udp', b)
  BY DEF ShardsSent
<1>1. CASE UNCHANGED <<labelVars, current_recovery_fragment_index, blockVars, udp, errorVars>>
  BY <1>1, LabellingSteps DEF ShardsSent, labelVars
<1>2. CASE RecoverySendFails
  <2>1. AllShards(udp, b)
    BY <1>2, LabellingSteps DEF ShardsSent, RecoverySendFails, labelVars
  <2> QED
    BY <1>2, <2>1, AllShardsStay DEF SendNextPkt
<1>3. CASE SendFragment
  <2>1. Labelling
    BY <1>3, LabellingSteps
  <2>2. CASE b + 1 < current_block_id \/ current_regular_fragment_index # 0
    <3>1. \/ b + 1 < current_block_id
          \/ b + 1 = current_block_id /\ current_regular_fragment_index # 0
      BY <1>3, <2>1, <2>2, SendFragmentEffect DEF TypeOK, Index
    <3>2. AllShards(udp, b)
      BY <2>1, <3>1 DEF ShardsSent
    <3> QED
      BY <1>3, <3>2, AllShardsStay DEF SendNextPkt
  <2>3. CASE ~(b + 1 < current_block_id) /\ current_regular_fragment_index = 0
    <3>1. b + 1 = current_block_id /\ EncodeDue /\ EncoderFull
      <4>1. b + 1 = current_block_id
        BY <1>3, <2>1, <2>3, SendFragmentEffect DEF TypeOK, Index
      <4>2. EncodeDue
        BY <2>3, <4>1 DEF EncodeDue
      <4> QED
        BY <1>3, <2>1, <4>1, <4>2, SendFragmentEffect
    <3>2. current_recovery_fragment_index = Recovery - 1
      BY <2>1, <3>1 DEF NumberingInStep, Wedged, EncoderFull
    <3> SUFFICES ASSUME NEW j \in RecoveryIndex
                 PROVE  \E r \in 1 .. Len(udp') : /\ udp'[r].recovery_pkt
                                                  /\ udp'[r].block_id = b
                                                  /\ udp'[r].fragment_index = j
      BY DEF AllShards
    <3>3. j + 1 \in 1 .. Recovery /\ j + 1 \in Nat
      BY DEF RecoveryIndex
    <3>4. /\ Len(udp) \in Nat /\ Len(udp') \in Nat
          /\ Len(udp) + (j + 1) <= Len(udp')
          /\ udp'[Len(udp) + (j + 1)] = DueShard(j + 1)
      BY <1>3, <3>1, <3>3, FragmentAppended
    <3>5. RecoveryFragmentIndex(j + 1) = j
      BY <3>2, <3>3, RecoveryIndexAdvances DEF TypeOK, RecoveryIndex
    <3>6. /\ DueShard(j + 1).recovery_pkt
          /\ DueShard(j + 1).block_id = b
          /\ DueShard(j + 1).fragment_index = j
      BY <3>1, <3>3, <3>5, NewDatagramFields DEF TypeOK
    <3>7. Len(udp) + (j + 1) \in 1 .. Len(udp')
      BY <3>3, <3>4
    <3> QED
      BY <3>4, <3>6, <3>7
  <2> QED
    BY <2>2, <2>3
<1> QED
  BY <1>1, <1>2, <1>3, LabellingSteps

LEMMA FragmentsSentPreserved ==
    ASSUME TypeOK, EncoderInStep, LabelsUsed, FragmentsSent, [Next]_packagerVars
    PROVE  FragmentsSent'
<1> SUFFICES ASSUME Labelling'
             PROVE  /\ \A b \in Nat : b < current_block_id' =>
                          Cardinality(OfBlock(udp', b)) + fragment_errors' >= Regular
                    /\ Cardinality(OfBlock(udp', current_block_id')) + fragment_errors'
                          >= current_regular_fragment_index'
  BY DEF FragmentsSent
<1>0. Labelling
  BY LabellingSteps
<1>1. CASE UNCHANGED <<labelVars, current_recovery_fragment_index, blockVars, udp, errorVars>>
  BY <1>0, <1>1 DEF FragmentsSent, labelVars, errorVars
<1>2. CASE RecoverySendFails
  <2>1. UNCHANGED <<current_block_id, current_regular_fragment_index, fragment_errors>>
    BY <1>2 DEF RecoverySendFails, labelVars
  <2>2. \A b : /\ Cardinality(OfBlock(udp, b)) \in Nat /\ Cardinality(OfBlock(udp', b)) \in Nat
               /\ Cardinality(OfBlock(udp, b)) <= Cardinality(OfBlock(udp', b))
    BY <1>2, OfBlockGrows DEF SendNextPkt
  <2> DEFINE before(b) == Cardinality(OfBlock(udp, b))
             after(b) == Cardinality(OfBlock(udp', b))
  <2>3. /\ \A b \in Nat : b < current_block_id => before(b) + fragment_errors >= Regular
        /\ before(current_block_id) + fragment_errors >= current_regular_fragment_index
    BY <1>0 DEF FragmentsSent
  <2>4. \A b : before(b) \in Nat /\ after(b) \in Nat /\ before(b) <= after(b)
    BY <2>2
  <2>5. fragment_errors \in Nat /\ current_regular_fragment_index \in Nat
    BY DEF TypeOK, Index
  <2> HIDE DEF before, after
  <2>6. /\ \A b \in Nat : b < current_block_id => after(b) + fragment_errors >= Regular
        /\ after(current_block_id) + fragment_errors >= current_regular_fragment_index
    BY <2>3, <2>4, <2>5
  <2> QED
    BY <2>1, <2>6 DEF after
<1>3. CASE SendFragment
  <2> DEFINE before(b) == Cardinality(OfBlock(udp, b))
             after(b) == Cardinality(OfBlock(udp', b))
             i == current_regular_fragment_index
             c == current_block_id
  <2>1. \A b : before(b) \in Nat /\ after(b) \in Nat /\ before(b) <= after(b)
    BY <1>3, OfBlockGrows DEF SendNextPkt
  <2>2. /\ \A b \in Nat : b < c => before(b) + fragment_errors >= Regular
        /\ before(c) + fragment_errors >= i
    BY <1>0 DEF FragmentsSent
  <2>3. fragment_errors \in Nat /\ i \in 0 .. Regular - 1 /\ c \in Nat
    BY DEF TypeOK, Index
  <2>4. \/ i = Regular - 1 /\ current_regular_fragment_index' = 0 /\ current_block_id' = c + 1
        \/ i < Regular - 1 /\ current_regular_fragment_index' = i + 1 /\ current_block_id' = c
    BY <1>0, <1>3, SendFragmentEffect
  <2>5. after(c) + fragment_errors' >= i + 1
    <3>1. CASE fragment_errors' = fragment_errors + 1
      <4> HIDE DEF before, after, i, c
      <4> QED
        BY <2>1, <2>2, <2>3, <3>1
    <3>2. CASE fragment_errors' = fragment_errors
      <4>1. /\ Len(udp) \in Nat /\ Len(udp') \in Nat /\ Len(udp') > Len(udp)
            /\ udp'[Len(udp')] = Original(c, i, Head(rtp_queue))
        BY <1>3, <2>3, <3>2, FragmentAppended
      <4>2. Len(udp') \in OfBlock(udp', c) /\ Len(udp') \notin OfBlock(udp, c)
        BY <4>1, NewDatagramFields DEF OfBlock
      <4>3. /\ OfBlock(udp, c) \subseteq OfBlock(udp', c)
            /\ IsFiniteSet(OfBlock(udp, c)) /\ IsFiniteSet(OfBlock(udp', c))
        BY <1>3, OfBlockGrows DEF SendNextPkt
      <4> DEFINE more == OfBlock(udp, c) \cup {Len(udp')}
      <4>4. IsFiniteSet(more) /\ Cardinality(more) = before(c) + 1
        BY <4>2, <4>3, FS_AddElement
      <4>5. more \subseteq OfBlock(udp', c)
        BY <4>2, <4>3
      <4> HIDE DEF more
      <4>6. Cardinality(more) <= after(c)
        BY <4>3, <4>5, FS_Subset
      <4> HIDE DEF before, after, i, c
      <4> QED
        BY <2>1, <2>2, <2>3, <3>2, <4>4, <4>6
    <3> QED
      BY <1>3, <3>1, <3>2, FragmentAppended
  <2>6. fragment_errors' \in Nat /\ fragment_errors' >= fragment_errors
    BY <1>3, <2>3, FragmentAppended
  <2> HIDE DEF before, after, i, c
  <2>7. /\ \A b \in Nat : b < current_block_id' => after(b) + fragment_errors' >= Regular
        /\ after(current_block_id') + fragment_errors' >= current_regular_fragment_index'
    BY <2>1, <2>2, <2>3, <2>4, <2>5, <2>6
  <2> QED
    BY <2>7 DEF after
<1> QED
  BY <1>1, <1>2, <1>3, LabellingSteps

\* The call in which the block id overflows sends no fragment, and shards only.
LEMMA OverflowKeepsComplete ==
    ASSUME TypeOK, EarlierBlocksComplete, ~id_wrapped, BlockIdOverflow
    PROVE  EarlierBlocksComplete'
<1>1. SendNextPkt
  BY DEF SendNextPkt
<1>2. /\ Len(udp') \in Nat /\ Len(udp) \in Nat /\ Len(udp) <= Len(udp')
      /\ \A k \in 1 .. Len(udp) : udp'[k] = udp[k]
  BY <1>1, WireGrowth
<1>3. ~SendFragment
  <2>1. status = "running" /\ status' = "panicked"
    BY DEF BlockIdOverflow, PopPacket
  <2> QED
    BY <2>1 DEF SendFragment
<1>4. \A k \in 1 .. Len(udp') : k \in 1 .. Len(udp) \/ udp'[k].recovery_pkt
  BY <1>1, <1>3, AppendedDatagrams
<1>5. Originals' = Originals /\ Shards \subseteq Shards'
  BY <1>2, <1>4 DEF Originals, Shards
<1>6. /\ \A o \in Originals : o \in 1 .. Len(udp) /\ udp'[o] = udp[o]
      /\ \A r \in Shards : r \in 1 .. Len(udp) /\ udp'[r] = udp[r]
  BY <1>2 DEF Originals, Shards
<1>7. \A b : {k \in Originals' : udp'[k].block_id = b} = {k \in Originals : udp[k].block_id = b}
  BY <1>5, <1>6
<1>8. fragment_errors' = fragment_errors
  BY DEF BlockIdOverflow, errorVars
<1> SUFFICES ASSUME NEW o \in Originals', NEW b \in 0 .. udp'[o].block_id - 1
             PROVE  /\ \A j \in RecoveryIndex : \E r \in Shards' :
                          udp'[r].block_id = b /\ udp'[r].fragment_index = j
                    /\ Cardinality({k \in Originals' : udp'[k].block_id = b})
                          >= Regular - fragment_errors'
  BY DEF EarlierBlocksComplete
<1>9. o \in Originals /\ b \in 0 .. udp[o].block_id - 1
  BY <1>5, <1>6
<1>10. /\ \A j \in RecoveryIndex : \E r \in Shards :
             udp[r].block_id = b /\ udp[r].fragment_index = j
       /\ Cardinality({k \in Originals : udp[k].block_id = b}) >= Regular - fragment_errors
  BY <1>9 DEF EarlierBlocksComplete
<1> QED
  BY <1>5, <1>6, <1>7, <1>8, <1>10

LEMMA CompleteInvInductive ==
    PackagerInv /\ CompleteInv /\ PackagerInv' /\ [Next]_packagerVars => CompleteInv'
<1> SUFFICES ASSUME PackagerInv, CompleteInv, PackagerInv', [Next]_packagerVars
             PROVE  CompleteInv'
  OBVIOUS
<1>1. /\ TypeOK /\ EncoderInStep /\ NumberingInStep /\ LabelsUsed
      /\ ShardsSent /\ FragmentsSent /\ EarlierBlocksComplete
      /\ TypeOK' /\ LabelsUsed'
  BY DEF PackagerInv, CompleteInv
<1>2. ShardsSent' /\ FragmentsSent'
  BY <1>1, ShardsSentPreserved, FragmentsSentPreserved
<1>3. CASE Labelling'
  <2>1. (TypeOK /\ LabelsUsed /\ ShardsSent /\ FragmentsSent /\ Labelling
              => EarlierBlocksComplete)'
    BY CompleteWhileLabelling, PTL
  <2> QED
    BY <1>1, <1>2, <1>3, <2>1 DEF CompleteInv
<1>4. CASE id_wrapped'
  BY <1>2, <1>4 DEF CompleteInv, EarlierBlocksComplete
<1>5. CASE ~Labelling' /\ ~id_wrapped'
  <2>1. CASE BlockIdOverflow
    <3>1. ~id_wrapped
      BY <1>5, <2>1 DEF BlockIdOverflow
    <3> QED
      BY <1>1, <1>2, <2>1, <3>1, OverflowKeepsComplete DEF CompleteInv
  <2>2. CASE UNCHANGED packagerVars
    BY <1>1, <1>2, <2>2 DEF CompleteInv, packagerVars, labelVars, errorVars,
                            EarlierBlocksComplete, Originals, Shards
  <2>3. CASE Next /\ ~BlockIdOverflow
    <3>1. status' = "running"
      BY <2>3 DEF Next, SendNextPkt, ProcessFrame, EncodeFails, RecoverySendFails, SendFragment,
                  AddShardFails, PopPacket
    <3> QED
      BY <1>5, <3>1 DEF Labelling
  <2> QED
    BY <2>1, <2>2, <2>3
<1> QED
  BY <1>3, <1>4, <1>5

\* Once a fragment of a block is on the wire every earlier block is there with all
\* its recovery shards and all its fragments but those whose send failed, for any
\* ratio and any number of failed sends.
THEOREM EarlierBlocksStayComplete == Spec => []EarlierBlocksComplete
<1>1. Init => CompleteInv
  <2> SUFFICES ASSUME Init PROVE CompleteInv
    OBVIOUS
  <2>1. /\ current_block_id = 0 /\ current_regular_fragment_index = 0 /\ udp = <<>>
        /\ fragment_errors = 0
    BY DEF Init
  <2>2. OfBlock(udp, 0) = {} /\ Originals = {}
    BY <2>1 DEF OfBlock, Originals
  <2>3. Cardinality(OfBlock(udp, 0)) = 0
    BY <2>2, FS_EmptySet
  <2> QED
    BY <2>1, <2>2, <2>3 DEF CompleteInv, ShardsSent, FragmentsSent, EarlierBlocksComplete
<1>2. CompleteInv => EarlierBlocksComplete
  BY DEF CompleteInv
<1> QED
  BY <1>1, <1>2, CompleteInvInductive, PackagerInvariant, PTL DEF Spec
-----------------------------------------------------------------------------
(***************************************************************************)
(* Past a wrap of the block id the encoder is full when block 0 begins a   *)
(* second time, and stays full until its recovery data is due.  But for    *)
(* that block the encoder holds exactly what was sent last.                *)
(***************************************************************************)
NoErrors == fragment_errors = 0 /\ recovery_errors = 0

\* The last n datagrams of the wire are fragments of block b, in order, and the
\* first n of the shards.
LastSent(wire, shards, n, b) ==
    /\ n <= Len(wire)
    /\ \A i \in 0 .. n - 1 :
          /\ ~wire[Len(wire) - n + 1 + i].recovery_pkt
          /\ wire[Len(wire) - n + 1 + i].block_id = b
          /\ wire[Len(wire) - n + 1 + i].fragment_index = i
          /\ wire[Len(wire) - n + 1 + i].body = shards[i + 1]

InStepAcrossWraps ==
    NoErrors /\ status = "running" =>
        /\ current_recovery_fragment_index = Recovery - 1
        /\ \/ /\ EncodeDue /\ EncoderFull
              /\ current_block_id # 1 => LastSent(udp, enc, Regular, current_block_id - 1)
           \/ /\ ~EncodeDue /\ Len(enc) = current_regular_fragment_index
              /\ LastSent(udp, enc, current_regular_fragment_index, current_block_id)
           \/ current_block_id = 0 /\ EncoderFull

WrapInv == TypeOK /\ InStepAcrossWraps /\ WrapConfined

\* A fragment that is sent is the last of the shards and of the wire.
LEMMA FragmentIsLast ==
    ASSUME TypeOK, InStepAcrossWraps, SendFragment, NoErrors, NoErrors'
    PROVE  /\ LastSent(udp', enc', current_regular_fragment_index + 1, current_block_id)
           /\ Len(enc') = current_regular_fragment_index + 1
<1> DEFINE pkt == Head(rtp_queue)
           n == current_regular_fragment_index
           c == current_block_id
<1>1. /\ EncodeDue = EncoderFull /\ status = "running"
      /\ enc' = Append(ShardsBefore(EncodeDue), pkt)
      /\ pkt \in Packet
  BY PopPacketType DEF SendFragment, PopPacket
<1>2. /\ Len(udp) \in Nat /\ Len(udp') \in Nat
      /\ Len(udp') = Len(udp) + (IF EncodeDue THEN Recovery ELSE 0) + 1
      /\ udp'[Len(udp')] = Original(c, n, pkt)
  BY FragmentAppended DEF NoErrors
<1>3. /\ \A k \in 1 .. Len(udp) : udp'[k] = udp[k]
      /\ Len(udp) <= Len(udp')
  BY WireGrowth DEF SendNextPkt
<1>4. n \in Nat /\ enc \in Seq(Packet)
  BY DEF TypeOK, Index
<1>5. /\ ~udp'[Len(udp')].recovery_pkt /\ udp'[Len(udp')].block_id = c
      /\ udp'[Len(udp')].fragment_index = n /\ udp'[Len(udp')].body = pkt
  BY <1>2, <1>4, NewDatagramFields
<1>6. CASE EncodeDue
  <2>1. n = 0 /\ enc' = Append(<<>>, pkt)
    BY <1>1, <1>6 DEF EncodeDue, ShardsBefore
  <2>2. Len(enc') = 1 /\ enc'[1] = pkt
    BY <2>1
  <2>3. ASSUME NEW i \in 0 .. (n + 1) - 1
        PROVE  i = 0 /\ Len(udp') - (n + 1) + 1 + i = Len(udp') /\ i + 1 = 1
    BY <1>2, <2>1
  <2>4. n + 1 <= Len(udp')
    BY <1>2, <1>6, <2>1
  <2> HIDE DEF n, c, pkt
  <2>5. LastSent(udp', enc', n + 1, c)
    BY <1>5, <2>1, <2>2, <2>3, <2>4 DEF LastSent
  <2> QED
    BY <2>1, <2>2, <2>5 DEF n, c
<1>7. CASE ~EncodeDue
  <2>1. /\ Len(enc) = n /\ LastSent(udp, enc, n, c)
        /\ enc' = Append(enc, pkt)
    BY <1>1, <1>7 DEF InStepAcrossWraps, ShardsBefore
  <2>2. /\ Len(enc') = n + 1 /\ enc'[n + 1] = pkt
        /\ \A k \in 1 .. n : enc'[k] = enc[k]
    BY <1>1, <1>4, <2>1, AppendProperties
  <2>3. Len(udp') = Len(udp) + 1 /\ n <= Len(udp)
    BY <1>2, <1>7, <2>1 DEF LastSent
  <2> HIDE DEF n, c, pkt
  <2>4. ASSUME NEW i \in 0 .. (n + 1) - 1
        PROVE  /\ ~udp'[Len(udp') - (n + 1) + 1 + i].recovery_pkt
               /\ udp'[Len(udp') - (n + 1) + 1 + i].block_id = c
               /\ udp'[Len(udp') - (n + 1) + 1 + i].fragment_index = i
               /\ udp'[Len(udp') - (n + 1) + 1 + i].body = enc'[i + 1]
    <3>1. CASE i = n
      <4>1. Len(udp') - (n + 1) + 1 + i = Len(udp')
        BY <1>2, <1>4, <3>1
      <4> QED
        BY <1>5, <2>2, <3>1, <4>1
    <3>2. CASE i # n
      <4>1. /\ i \in 0 .. n - 1
            /\ Len(udp') - (n + 1) + 1 + i = Len(udp) - n + 1 + i
            /\ Len(udp) - n + 1 + i \in 1 .. Len(udp)
            /\ i + 1 \in 1 .. n
        BY <1>2, <1>4, <2>3, <3>2
      <4>2. udp'[Len(udp) - n + 1 + i] = udp[Len(udp) - n + 1 + i]
        BY <1>3, <4>1
      <4>3. /\ ~udp[Len(udp) - n + 1 + i].recovery_pkt
            /\ udp[Len(udp) - n + 1 + i].block_id = c
            /\ udp[Len(udp) - n + 1 + i].fragment_index = i
            /\ udp[Len(udp) - n + 1 + i].body = enc[i + 1]
        BY <2>1, <4>1 DEF LastSent
      <4>4. enc'[i + 1] = enc[i + 1]
        BY <2>2, <4>1
      <4> QED
        BY <4>1, <4>2, <4>3, <4>4
    <3> QED
      BY <3>1, <3>2
  <2>5. LastSent(udp', enc', n + 1, c)
    BY <1>2, <1>4, <2>3, <2>4 DEF LastSent
  <2> QED
    BY <2>2, <2>5 DEF n, c
<1> QED
  BY <1>6, <1>7

LEMMA InStepAcrossWrapsPreserved ==
    ASSUME TypeOK, InStepAcrossWraps, [Next]_packagerVars
    PROVE  InStepAcrossWraps'
<1> USE DEF queueVars, labelVars, blockVars, errorVars
<1> SUFFICES ASSUME NoErrors', status' = "running"
             PROVE  /\ current_recovery_fragment_index' = Recovery - 1
                    /\ \/ /\ EncodeDue' /\ EncoderFull'
                          /\ current_block_id' # 1 =>
                                LastSent(udp', enc', Regular, current_block_id' - 1)
                       \/ /\ ~EncodeDue' /\ Len(enc') = current_regular_fragment_index'
                          /\ LastSent(udp', enc', current_regular_fragment_index',
                                      current_block_id')
                       \/ current_block_id' = 0 /\ EncoderFull'
  BY DEF InStepAcrossWraps
<1>1. CASE UNCHANGED packagerVars \/ ProcessFrame \/ EncodeFails
  <2>1. /\ UNCHANGED <<current_block_id, current_regular_fragment_index, enc, udp,
                       current_recovery_fragment_index>>
        /\ NoErrors /\ status = "running"
    BY <1>1 DEF packagerVars, ProcessFrame, EncodeFails, NoErrors, PopPacket
  <2> QED
    BY <2>1 DEF InStepAcrossWraps, EncodeDue, EncoderFull, LastSent
<1>2. CASE RecoverySendFails
  BY <1>2 DEF RecoverySendFails, NoErrors, TypeOK
<1>3. CASE BlockIdOverflow
  BY <1>3 DEF BlockIdOverflow
<1>4. CASE SendFragment
  <2>1. NoErrors /\ status = "running" /\ EncodeDue = EncoderFull
    BY <1>4, FragmentAppended DEF SendFragment, PopPacket, NoErrors, TypeOK
  <2>2. /\ LastSent(udp', enc', current_regular_fragment_index + 1, current_block_id)
        /\ Len(enc') = current_regular_fragment_index + 1
    BY <1>4, <2>1, FragmentIsLast
  <2>3. current_recovery_fragment_index = Recovery - 1
    BY <2>1 DEF InStepAcrossWraps
  <2>4. RecoveryFragmentIndex(Recovery) = Recovery - 1
    BY <2>3, RecoveryIndexAdvances DEF TypeOK
  <2>5. /\ current_recovery_fragment_index' = Recovery - 1
        /\ current_regular_fragment_index' = NextFragmentIndex
        /\ current_block_id' = IF NextFragmentIndex # 0 THEN current_block_id
                               ELSE IF Overflows THEN 0 ELSE current_block_id + 1
    BY <1>4, <2>3, <2>4 DEF SendFragment, LabelPacket, AdvanceLabel
  <2>6. /\ current_regular_fragment_index \in Index /\ current_block_id \in Nat
        /\ NextFragmentIndex = IF current_regular_fragment_index = Regular - 1
                               THEN 0 ELSE current_regular_fragment_index + 1
    BY FragmentIndexAdvances DEF TypeOK
  <2>7. CASE NextFragmentIndex # 0
    <3>1. /\ current_regular_fragment_index' = current_regular_fragment_index + 1
          /\ current_block_id' = current_block_id
          /\ current_regular_fragment_index' # 0
      BY <2>5, <2>6, <2>7 DEF Index
    <3> QED
      BY <2>2, <2>5, <3>1 DEF EncodeDue
  <2>8. CASE NextFragmentIndex = 0
    <3>1. /\ current_regular_fragment_index + 1 = Regular /\ EncoderFull'
          /\ current_regular_fragment_index' = 0
      BY <2>2, <2>5, <2>6, <2>8 DEF Index, EncoderFull
    <3>2. CASE Overflows
      BY <2>5, <2>8, <3>1, <3>2
    <3>3. CASE ~Overflows
      <4>1. current_block_id' = current_block_id + 1 /\ current_block_id' # 0
            /\ current_block_id' - 1 = current_block_id
        BY <2>5, <2>6, <2>8, <3>3
      <4> QED
        BY <2>2, <2>5, <3>1, <4>1 DEF EncodeDue
    <3> QED
      BY <3>2, <3>3
  <2> QED
    BY <2>7, <2>8
<1>5. CASE AddShardFails
  <2>1. /\ NoErrors /\ status = "running" /\ ~EncodeDue /\ EncoderFull
        /\ enc' = enc
        /\ current_recovery_fragment_index' = current_recovery_fragment_index
        /\ current_regular_fragment_index' = NextFragmentIndex
        /\ current_block_id' = IF NextFragmentIndex # 0 THEN current_block_id
                               ELSE IF Overflows THEN 0 ELSE current_block_id + 1
    BY <1>5 DEF AddShardFails, PopPacket, NoErrors, LabelPacket, AdvanceLabel
  <2>2. current_block_id = 0 /\ current_recovery_fragment_index = Recovery - 1
    BY <2>1 DEF InStepAcrossWraps, EncoderFull, TypeOK, Index
  <2>3. EncoderFull'
    BY <2>1 DEF EncoderFull
  <2> QED
    BY <2>1, <2>2, <2>3 DEF EncodeDue
<1> QED
  BY <1>1, <1>2, <1>3, <1>4, <1>5 DEF Next, SendNextPkt

\* What WrapConfined says of one shard of the wire.
ShardMatchesWindow(wire, r) ==
    LET window == r - Regular - wire[r].fragment_index .. r - 1
        sent == {o \in window : o \in 1 .. Len(wire) /\ ~wire[o].recovery_pkt}
    IN  /\ Cardinality(sent) = Regular
        /\ \A o \in sent :
              /\ wire[o].block_id = wire[r].block_id
              /\ wire[r].body.code[wire[o].fragment_index] = wire[o].body

LEMMA WrapConfinedMeans ==
    WrapConfined <=> (NoErrors => \A r \in Shards : udp[r].block_id # 0 => ShardMatchesWindow(udp, r))
<1>1. \A r : r - Regular - udp[r].fragment_index .. r - 1 \cap Originals =
             {o \in r - Regular - udp[r].fragment_index .. r - 1 :
                 o \in 1 .. Len(udp) /\ ~udp[o].recovery_pkt}
  BY DEF Originals
<1> QED
  BY <1>1 DEF WrapConfined, NoErrors, ShardMatchesWindow

\* A shard that a call sends matches the fragments just before it.
LEMMA NewShardMatches ==
    ASSUME TypeOK, InStepAcrossWraps, NoErrors, SendNextPkt, ~RecoverySendFails,
           NEW r \in Len(udp) + 1 .. Len(udp'), udp'[r].recovery_pkt, udp'[r].block_id # 0
    PROVE  ShardMatchesWindow(udp', r)
<1> DEFINE m == r - Len(udp)
           first == Len(udp) - Regular + 1
           window == r - Regular - udp'[r].fragment_index .. r - 1
           sent == {o \in window : o \in 1 .. Len(udp') /\ ~udp'[o].recovery_pkt}
<1>1. /\ Len(udp') \in Nat /\ Len(udp) \in Nat /\ Len(udp) <= Len(udp')
      /\ \A k \in 1 .. Len(udp) : udp'[k] = udp[k]
  BY WireGrowth
<1>2. r \in 1 .. Len(udp') /\ r \notin 1 .. Len(udp)
  BY <1>1
<1>3. /\ EncodeDue /\ EncoderFull /\ m \in 1 .. Recovery
      /\ udp'[r].block_id = current_block_id - 1
      /\ udp'[r].fragment_index = RecoveryFragmentIndex(m)
      /\ udp'[r].body.code = EncodedBlock
  BY <1>2, AppendedDatagrams
<1>4. status = "running"
  BY DEF SendNextPkt, EncodeFails, RecoverySendFails, SendFragment, AddShardFails,
         BlockIdOverflow, PopPacket
<1>5. current_block_id # 0
  BY <1>3 DEF EncodeDue
<1>6. /\ LastSent(udp, enc, Regular, current_block_id - 1)
      /\ current_recovery_fragment_index = Recovery - 1
  <2>1. current_block_id # 1
    BY <1>3
  <2> QED
    BY <1>3, <1>4, <1>5, <2>1 DEF InStepAcrossWraps
<1>7. udp'[r].fragment_index = m - 1
  <2>1. m \in Nat
    BY <1>3
  <2> QED
    BY <1>3, <1>6, <2>1, RecoveryIndexAdvances DEF TypeOK
<1>8. /\ first \in 1 .. Len(udp) /\ first + Regular - 1 = Len(udp)
      /\ window = first .. r - 1
  BY <1>1, <1>3, <1>6, <1>7 DEF LastSent
<1> HIDE DEF window, first
<1>9. r \in Nat /\ r > Len(udp) /\ r <= Len(udp')
  BY <1>1
<1>10. ASSUME NEW o \in first .. Len(udp)
      PROVE  /\ o \in 1 .. Len(udp) /\ o \in 1 .. Len(udp') /\ o \in window
             /\ ~udp'[o].recovery_pkt
             /\ udp'[o].block_id = udp'[r].block_id
             /\ udp'[r].body.code[udp'[o].fragment_index] = udp'[o].body
  <2> DEFINE i == o - first
  <2>1. /\ i \in 0 .. Regular - 1 /\ Len(udp) - Regular + 1 + i = o
        /\ o \in 1 .. Len(udp) /\ o \in 1 .. Len(udp') /\ o \in first .. r - 1
    <3>1. /\ first \in Int /\ 1 <= first /\ first + Regular - 1 = Len(udp)
          /\ o \in Int /\ first <= o /\ o <= Len(udp)
          /\ Len(udp) - Regular + 1 = first
          /\ Len(udp) \in Nat /\ Len(udp') \in Nat /\ Len(udp) <= Len(udp')
      BY <1>1, <1>8 DEF first
    <3>2. i \in 0 .. Regular - 1 /\ first + i = o
      BY <3>1
    <3>3. o \in 1 .. Len(udp) /\ o \in 1 .. Len(udp') /\ o \in first .. r - 1
      BY <1>9, <3>1
    <3> QED
      BY <3>1, <3>2, <3>3
  <2>2. udp'[o] = udp[o]
    BY <1>1, <2>1
  <2> HIDE DEF i
  <2>3. /\ ~udp[o].recovery_pkt /\ udp[o].block_id = current_block_id - 1
        /\ udp[o].fragment_index = i /\ udp[o].body = enc[i + 1]
    BY <1>6, <2>1 DEF LastSent
  <2>4. EncodedBlock[i] = enc[i + 1]
    BY <2>1 DEF EncodedBlock, Index
  <2> QED
    BY <1>3, <1>8, <2>1, <2>2, <2>3, <2>4
<1>11. ASSUME NEW o \in sent
       PROVE  o \in first .. Len(udp)
  <2>1. o \in window /\ o \in 1 .. Len(udp') /\ ~udp'[o].recovery_pkt
    OBVIOUS
  <2>2. o \in first .. r - 1 /\ o # Len(udp')
    BY <1>1, <1>8, <1>9, <2>1
  <2>3. o \in 1 .. Len(udp)
    BY <2>1, <2>2, AppendedDatagrams
  <2> QED
    BY <1>8, <2>2, <2>3
<1>12. sent = first .. Len(udp)
  BY <1>10, <1>11
<1>13. Cardinality(first .. Len(udp)) = Regular
  <2>1. first \in Int /\ Len(udp) \in Int /\ first <= Len(udp)
    BY <1>1, <1>8
  <2>2. Cardinality(first .. Len(udp)) = Len(udp) - first + 1
    BY <2>1, FS_Interval
  <2> QED
    BY <1>1, <1>8, <2>2
<1>14. Cardinality(sent) = Regular /\ \A o \in sent :
          /\ udp'[o].block_id = udp'[r].block_id
          /\ udp'[r].body.code[udp'[o].fragment_index] = udp'[o].body
  BY <1>10, <1>12, <1>13
<1> QED
  BY <1>14 DEF ShardMatchesWindow, window

\* A shard sent before keeps its window.
LEMMA OldShardMatches ==
    ASSUME TypeOK, SendNextPkt, NEW r \in 1 .. Len(udp), udp[r].recovery_pkt,
           ShardMatchesWindow(udp, r)
    PROVE  ShardMatchesWindow(udp', r)
<1>1. /\ Len(udp') \in Nat /\ Len(udp) \in Nat /\ Len(udp) <= Len(udp')
      /\ \A k \in 1 .. Len(udp) : udp'[k] = udp[k]
  BY WireGrowth
<1> DEFINE window == r - Regular - udp[r].fragment_index .. r - 1
           before == {o \in window : o \in 1 .. Len(udp) /\ ~udp[o].recovery_pkt}
           after == {o \in window : o \in 1 .. Len(udp') /\ ~udp'[o].recovery_pkt}
<1>2. udp'[r] = udp[r]
  BY <1>1
<1>3. udp[r].fragment_index \in Nat
  BY SentDatagramFields DEF RecoveryIndex
<1>4. \A o \in window : o \in Int /\ o < r
  BY <1>1, <1>3
<1> HIDE DEF window
<1>5. \A o \in window : o \in 1 .. Len(udp) <=> o \in 1 .. Len(udp')
  BY <1>1, <1>4
<1>6. after = before /\ \A o \in after : udp'[o] = udp[o]
  BY <1>1, <1>5
<1>7. /\ Cardinality(before) = Regular
      /\ \A o \in before : /\ udp[o].block_id = udp[r].block_id
                           /\ udp[r].body.code[udp[o].fragment_index] = udp[o].body
  BY DEF ShardMatchesWindow, window
<1> HIDE DEF before
<1>8. /\ Cardinality(after) = Regular
      /\ \A o \in after : /\ udp'[o].block_id = udp'[r].block_id
                          /\ udp'[r].body.code[udp'[o].fragment_index] = udp'[o].body
  BY <1>2, <1>6, <1>7
<1> QED
  BY <1>2, <1>8 DEF ShardMatchesWindow, window

LEMMA WrapInvInductive == WrapInv /\ [Next]_packagerVars => WrapInv'
<1> SUFFICES ASSUME WrapInv, [Next]_packagerVars PROVE WrapInv'
  OBVIOUS
<1>1. TypeOK /\ InStepAcrossWraps /\ WrapConfined
  BY DEF WrapInv
<1>2. TypeOK' /\ InStepAcrossWraps'
  BY <1>1, TypesPreserved, InStepAcrossWrapsPreserved
<1>3. ASSUME NoErrors', NEW r \in Shards', udp'[r].block_id # 0
      PROVE  ShardMatchesWindow(udp', r)
  <2>1. CASE UNCHANGED <<udp, errorVars>>
    <3>1. NoErrors /\ r \in Shards /\ udp[r].block_id # 0
      BY <1>3, <2>1 DEF NoErrors, errorVars, Shards
    <3>2. ShardMatchesWindow(udp, r)
      BY <1>1, <3>1, WrapConfinedMeans
    <3> QED
      BY <2>1, <3>2 DEF ShardMatchesWindow
  <2>2. CASE SendNextPkt
    <3>1. NoErrors /\ ~RecoverySendFails
      <4>1. fragment_errors \in Nat /\ recovery_errors \in Nat
        BY <1>1 DEF TypeOK
      <4>2. fragment_errors' = 0 /\ recovery_errors' = 0
        BY <1>3 DEF NoErrors
      <4>3. ~RecoverySendFails
        BY <4>1, <4>2 DEF RecoverySendFails
      <4>4. CASE SendFragment
        <5>1. recovery_errors' = recovery_errors
          BY <4>4 DEF SendFragment
        <5> QED
          BY <1>1, <4>1, <4>2, <4>3, <4>4, <5>1, FragmentAppended DEF NoErrors
      <4>5. CASE EncodeFails \/ AddShardFails \/ BlockIdOverflow
        BY <4>2, <4>3, <4>5 DEF EncodeFails, AddShardFails, BlockIdOverflow, NoErrors, errorVars
      <4> QED
        BY <2>2, <4>3, <4>4, <4>5 DEF SendNextPkt
    <3>2. r \in 1 .. Len(udp') /\ udp'[r].recovery_pkt
      BY DEF Shards
    <3>3. CASE r \in 1 .. Len(udp)
      <4>1. udp'[r] = udp[r]
        BY <1>1, <2>2, <3>3, WireGrowth
      <4>2. ShardMatchesWindow(udp, r)
        BY <1>1, <1>3, <3>1, <3>2, <3>3, <4>1, WrapConfinedMeans DEF Shards
      <4> QED
        BY <1>1, <2>2, <3>2, <3>3, <4>1, <4>2, OldShardMatches
    <3>4. CASE r \notin 1 .. Len(udp)
      <4>1. r \in Len(udp) + 1 .. Len(udp')
        BY <1>1, <2>2, <3>2, <3>4, WireGrowth
      <4> QED
        BY <1>1, <1>3, <2>2, <3>1, <3>2, <4>1, NewShardMatches
    <3> QED
      BY <3>3, <3>4
  <2>3. CASE ProcessFrame \/ UNCHANGED packagerVars
    BY <2>1, <2>3 DEF ProcessFrame, packagerVars
  <2> QED
    BY <2>2, <2>3 DEF Next
<1>4. WrapConfined'
  <2>1. (WrapConfined <=>
           (NoErrors => \A r \in Shards : udp[r].block_id # 0 => ShardMatchesWindow(udp, r)))'
    BY WrapConfinedMeans, PTL
  <2> QED
    BY <1>3, <2>1
<1> QED
  BY <1>2, <1>4 DEF WrapInv

\* While no send fails only the shards labelled 0 can be wrong after a wrap of the
\* block id: every other one still carries the fragments sent just before it, for
\* any width of the id (packet.rs:81, :142) and any number of wraps.
THEOREM WrapStaysConfined == Spec => []WrapConfined
<1>1. Init => WrapInv
  <2> SUFFICES ASSUME Init PROVE WrapInv
    OBVIOUS
  <2>1. /\ current_block_id = 0 /\ current_regular_fragment_index = 0
        /\ enc = <<>> /\ udp = <<>> /\ current_recovery_fragment_index = Recovery - 1
    BY DEF Init
  <2>2. Len(enc) = 0 /\ Len(udp) = 0 /\ Shards = {}
    BY <2>1 DEF Shards
  <2>3. LastSent(udp, enc, 0, 0)
    BY <2>2 DEF LastSent
  <2> QED
    BY <2>1, <2>2, <2>3, InitTypes DEF WrapInv, InStepAcrossWraps, WrapConfined, EncodeDue
<1>2. WrapInv => WrapConfined
  BY DEF WrapInv
<1> QED
  BY <1>1, <1>2, WrapInvInductive, PTL DEF Spec
-----------------------------------------------------------------------------
\* The recovery shards of a block are computed from the same codeword, even if
\* none of its fragments could be sent.
OneCodePerBlock ==
    ~id_wrapped =>
        \A r, q \in Shards :
            udp[r].block_id = udp[q].block_id => udp[r].body.code = udp[q].body.code

LEMMA OneCodeInductive ==
    PackagerInv /\ OneCodePerBlock /\ [Next]_packagerVars => OneCodePerBlock'
<1> SUFFICES ASSUME PackagerInv, OneCodePerBlock, [Next]_packagerVars, ~id_wrapped',
                    NEW r \in Shards', NEW q \in Shards',
                    udp'[r].block_id = udp'[q].block_id
             PROVE  udp'[r].body.code = udp'[q].body.code
  BY DEF OneCodePerBlock
<1>1. TypeOK /\ LabelsUsed
  BY DEF PackagerInv
<1>2. CASE UNCHANGED <<udp, id_wrapped>>
  BY <1>2 DEF OneCodePerBlock, Shards
<1>3. CASE SendNextPkt
  <2>1. Labelling
    BY <1>1, <1>3 DEF SendNextPkt, EncodeFails, RecoverySendFails, SendFragment, AddShardFails,
       BlockIdOverflow, PopPacket, LabelPacket, AdvanceLabel, labelVars, Labelling, TypeOK
  <2>2. ASSUME NEW n \in Shards'
        PROVE  \/ n \in Shards /\ udp'[n] = udp[n]
               \/ /\ n \notin Shards
                  /\ EncodeDue /\ EncoderFull
                  /\ udp'[n].block_id = current_block_id - 1
                  /\ udp'[n].body.code = EncodedBlock
    <3>1. n \in 1 .. Len(udp') /\ udp'[n].recovery_pkt
      BY DEF Shards
    <3> QED
      BY <1>1, <1>3, <3>1, AppendedDatagrams DEF Shards
  <2>3. ASSUME NEW n \in Shards, EncodeDue, EncoderFull
        PROVE  udp[n].block_id # current_block_id - 1
    <3>1. udp[n].block_id \in Nat /\ udp[n].block_id + 1 < current_block_id
          /\ current_block_id \in Nat
      <4>1. n \in 1 .. Len(udp) /\ udp[n].recovery_pkt
        BY DEF Shards
      <4> QED
        BY <1>1, <2>1, <2>3, <4>1, SentDatagramFields DEF LabelsUsed, TypeOK
    <3> QED
      BY <3>1
  <2>4. ~id_wrapped
    BY <2>1 DEF Labelling
  <2> QED
    BY <2>2, <2>3, <2>4 DEF OneCodePerBlock
<1> QED
  BY <1>2, <1>3 DEF Next, ProcessFrame, packagerVars, labelVars
=============================================================================
