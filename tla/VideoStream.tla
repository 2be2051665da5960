----------------------------- MODULE VideoStream -----------------------------
(***************************************************************************)
(* The video path: the server's packager (LVPackager), the UDP network and *)
(* the client's decode thread (LVDecoder).                                 *)
(*                                                                         *)
(* The network may lose any datagram; with Window > 0 it may also deliver  *)
(* a datagram up to Window - 1 places after a later one, and it may deliver*)
(* datagrams again.  udp, the packager's history, is what the network      *)
(* carries and received is the set of its places that reached the decode   *)
(* thread, in one step: the client's receive buffer and its 1000-slot      *)
(* channel keep the order and lose like the network does.  The server may  *)
(* crash and be started again while the network and the client go on.  The *)
(* numbers of its new packetizer, random in the code, follow the old ones  *)
(* here, so that a packet's number names it.                               *)
(***************************************************************************)
EXTENDS LVDecoder

CONSTANTS
    BlockIdLimit, MaxSeq, MaxFrame, MaxFragmentErrors, MaxRecoveryErrors,
    Window,             \* bound: how far the network reorders (0: not at all)
    MaxDuplicates,      \* bound: datagrams delivered twice
    MaxRestarts,        \* bound: restarts of the server
    MaxRecvErrors,      \* bound: failed recv_from of the client (0 or 1)
    MaxFaults           \* bound: all of these, late arrivals and send errors

ASSUME StreamAssumption ==
    /\ BlockIdLimit \in Nat \ {0}
    /\ MaxFrame \in Nat \ {0}
    /\ {MaxSeq, MaxFragmentErrors, MaxRecoveryErrors, Window, MaxDuplicates,
        MaxRestarts, MaxRecvErrors, MaxFaults} \subseteq Nat

VARIABLES
    status, next_seq, rtp_queue, current_block_id,
    current_regular_fragment_index, current_recovery_fragment_index,
    largest_sized_payload, pkt_sizes, enc, udp,
    fragment_errors, recovery_errors, id_wrapped,
    received,           \* places of udp that have reached the client
    newest,             \* the latest of them
    last,               \* the one that reached it last
    starts,             \* Len(udp) at each restart of the server
    duplicates, late,   \* history: datagrams delivered twice, or late
    recv_errors,        \* history: failed recv_from
    collided,           \* history: a block got datagrams of two server runs
    produced            \* history: every RTP packet of the packetizer

Server == INSTANCE LVPackager
             WITH Builds <- {OverflowChecks}, overflow_checks <- OverflowChecks

networkVars == <<received, newest, last, duplicates, late, recv_errors, collided>>
serverVars == <<status, next_seq, rtp_queue, current_block_id,
                current_regular_fragment_index, current_recovery_fragment_index,
                largest_sized_payload, pkt_sizes, enc, udp,
                fragment_errors, recovery_errors, id_wrapped, produced, starts>>
vars == <<serverVars, networkVars, decoderVars>>

-----------------------------------------------------------------------------
Init ==
    /\ Server!Init
    /\ DecoderInit
    /\ received = {}
    /\ newest = 0
    /\ last = 0
    /\ starts = <<>>
    /\ duplicates = 0
    /\ late = 0
    /\ recv_errors = 0
    /\ collided = FALSE
    /\ produced = <<>>

Faults == duplicates + late + Len(starts) + recv_errors
             + fragment_errors + recovery_errors

Produce ==
    /\ Server!ProcessFrame
    /\ produced' = produced \o rtp_queue'
    /\ UNCHANGED <<starts, networkVars, decoderVars>>

Send ==
    /\ Server!SendNextPkt
    /\ UNCHANGED <<produced, starts, networkVars, decoderVars>>
    /\ Faults' <= MaxFaults

\* The server crashes between two calls and is started again; a crash in the
\* middle of a call is one after it with the unsent datagrams lost.
RestartServer ==
    /\ Len(starts) < MaxRestarts
    /\ status' = "running"
    /\ rtp_queue' = <<>>
    /\ current_block_id' = 0
    /\ current_regular_fragment_index' = 0
    /\ current_recovery_fragment_index' = Recovery - 1
    /\ largest_sized_payload' = 0
    /\ pkt_sizes' = [k \in Index |-> 0]
    /\ enc' = <<>>
    /\ id_wrapped' = FALSE
    /\ starts' = Append(starts, Len(udp))
    /\ UNCHANGED <<next_seq, udp, fragment_errors, recovery_errors, produced,
                   networkVars, decoderVars>>
    /\ Faults' <= MaxFaults

\* Place k of udp may arrive now.
MayArrive(k) ==
    /\ k + Window > newest
    /\ k \in received => duplicates < MaxDuplicates

\* The run of the server that sent the datagram at place k.
RunOf(k) == Cardinality({n \in 1 .. Len(starts) : starts[n] < k})

\* It continues a block that the client opened for another run.
Collides(k) ==
    received # {} /\ udp[k].block_id = block_id /\ RunOf(k) # RunOf(last)

Arrive ==
    \E k \in 1 .. Len(udp) :
        /\ MayArrive(k)
        /\ Receive(udp[k])
        /\ received' = received \cup {k}
        /\ newest' = IF k > newest THEN k ELSE newest
        /\ last' = k
        /\ duplicates' = IF k \in received THEN duplicates + 1 ELSE duplicates
        /\ late' = IF k < newest /\ k \notin received THEN late + 1 ELSE late
        /\ collided' = (collided \/ Collides(k))
        /\ UNCHANGED <<recv_errors, serverVars>>
        /\ Faults' <= MaxFaults

\* recv_from fails and the network thread ends.  The slot it had taken is
\* committed as the channel made it, with no bytes, and from_bytes panics.
RecvFails ==
    /\ pc = "recv"
    /\ recv_errors < MaxRecvErrors
    /\ recv_errors' = recv_errors + 1
    /\ pc' = "panicked"
    /\ UNCHANGED <<lvheader, block_id, rsShards, rs_pkt_sizes, rs_sendq, rsCounters,
                   lvheader_prev_fragment_index, delivered, received, newest, last,
                   duplicates, late, collided, serverVars>>
    /\ Faults' <= MaxFaults

Decode ==
    /\ DecoderStep
    /\ UNCHANGED <<serverVars, networkVars>>

Next == Produce \/ Send \/ RestartServer \/ Arrive \/ RecvFails \/ Decode

Spec == Init /\ [][Next]_vars

\* The send loop and the decode thread keep running, and of the datagrams that
\* can still arrive one does: the network loses only by going on to a later one.
Fairness == WF_vars(Produce) /\ WF_vars(Send) /\ WF_vars(Arrive) /\ WF_vars(Decode)

LiveSpec == Spec /\ Fairness

-----------------------------------------------------------------------------
Stream == INSTANCE RtpStream
             WITH shown <- delivered,
                  disordered <- late > 0 \/ duplicates > 0,
                  mixed <- collided

\* The client shows packets as RtpStream promises, whatever is lost, repeated or
\* late and however the server is restarted.
ImplementsRtpStream == Stream!Spec

Delivered == {delivered[n] : n \in 1 .. Len(delivered)}
FragmentsReceived(b) == {n \in received : udp[n].block_id = b}
PacketsOfBlock(b) == {p \in {produced[n] : n \in 1 .. Len(produced)} :
                        p.seq \div Regular = b}

\* net/src/packet.rs:18: min_fragment_size fragments are enough to decode a
\* block.  Once the decode thread has moved past a block of which it got
\* Regular fragments of either kind, every packet of the block was delivered.
MinimumSuffices ==
    pc \in {"recv", "fragment"} =>
        \A b \in 0 .. current_block_id :
            /\ b < block_id
            /\ Cardinality(FragmentsReceived(b)) >= Regular
            => PacketsOfBlock(b) \subseteq Delivered

\* So it is as long as the network keeps the order, repeats nothing and carries
\* the datagrams of one server.
DecodedFromMinimum ==
    duplicates = 0 /\ late = 0 /\ starts = <<>> => MinimumSuffices

\* What can end the decode thread (video.rs:344, :384, :396, :407, :422): a
\* datagram that comes twice, one of a restarted server that continues the open
\* block, a failed recv_from and, in a dev build, one that comes late.  Loss,
\* send errors and a restart alone never do, however block_id goes back.
DecoderSurvives ==
    pc \in {"exited", "panicked"} =>
        duplicates > 0 \/ collided \/ recv_errors > 0 \/ (late > 0 /\ OverflowChecks)

\* Datagrams of block b that can no longer arrive.
Lost(b) == {n \in 1 .. newest :
              udp[n].block_id = b /\ n \notin received /\ n + Window <= newest}

\* Every packet of a block is given to the depacketizer in the end once the next
\* block is on the wire, unless the network loses more than Recovery datagrams
\* of the block or there is a fault (video.rs:304-370: a block is recovered only
\* when a datagram of another one arrives).
EventuallyDelivered ==
    \A s \in 0 .. MaxSeq - 1 :
        (\E n \in 1 .. Len(udp) : udp[n].block_id > s \div Regular)
            ~> \/ \E p \in Delivered : p.seq = s
               \/ Cardinality(Lost(s \div Regular)) > Recovery
               \/ Faults > 0
=============================================================================
