-------------------------- MODULE FeedbackExchange --------------------------
(***************************************************************************)
(* How the client turns what its decode thread counts into reports.  The   *)
(* decode thread (client/src/decoder/video.rs, decode_loop) counts in      *)
(* local variables and copies them into a shared LVFeedbackPacket after    *)
(* each packet it delivers in order, if the lock is free.  The feedback    *)
(* thread (client/src/decoder/feedback.rs) sends the shared packet once    *)
(* per quantum and zeroes it; a zero total_packets tells the decode thread *)
(* to zero its own counters at its next copy.                              *)
(*                                                                         *)
(* What the block protocol (LVDecoder) decides is a free choice here: of   *)
(* each datagram, whether it opens a block, whether the block before it    *)
(* needed a recovery and whether that failed, and whether it is delivered  *)
(* in order.  lost_packets and average_buffer_occupancy, which the server  *)
(* never reads, are left out.  seen, reported and the quantum variables    *)
(* are history.                                                            *)
(***************************************************************************)
EXTENDS Naturals

CONSTANTS
    CounterLimit,       \* the counters are u16: 65536
    OverflowChecks,     \* TRUE in a dev build: arithmetic overflow panics
    NoAck,              \* the LVAck no packet was acknowledged with yet
    MaxPackets,         \* bound: datagrams decoded
    MaxQuanta,          \* bound: rounds of the feedback thread
    MaxWriteErrors      \* bound: failed writes of a report

ASSUME ExchangeAssumption ==
    /\ CounterLimit \in Nat \ {0}
    /\ OverflowChecks \in BOOLEAN
    /\ NoAck \notin Nat
    /\ MaxPackets \in Nat
    /\ MaxQuanta \in Nat
    /\ MaxWriteErrors \in Nat

VARIABLES
    decoder,            \* the decode thread: "running" or "panicked"
    counted,            \* its counters
    pkt,                \* the shared feedback packet
    ack,                \* the shared LVAck: number of the packet it names
    feedback,           \* the feedback thread: what it does next
    report, sent_ack,   \* the report and the ack written last
    write_errors,       \* failed writes of a report
    seen, reported,     \* history: everything ever counted, ever sent
    quanta,             \* history: rounds of the feedback thread
    this_quantum, last_quantum,     \* history: packets decoded in each
    published_this, published_last  \* history: was there a copy in each?

decoderVars == <<decoder, counted, seen, this_quantum>>
sharedVars == <<pkt, ack, published_this>>
feedbackVars == <<feedback, report, sent_ack, write_errors, reported, quanta,
                  last_quantum, published_last>>
vars == <<decoderVars, sharedVars, feedbackVars>>

Counters == {"total_blocks", "out_of_order_blocks", "total_packets",
             "ecc_decoder_failures"}

Zero == [c \in Counters |-> 0]
Plus(f, g) == [c \in Counters |-> f[c] + g[c]]
OneOf(S) == [c \in Counters |-> IF c \in S THEN 1 ELSE 0]

\* Faulty: out_of_order_blocks counts the recoveries that succeed.
EventsCountingSuccess ==
    {{"total_packets"},
     {"total_packets", "total_blocks"},
     {"total_packets", "total_blocks", "out_of_order_blocks"},
     {"total_packets", "total_blocks", "ecc_decoder_failures"}}

\* What one datagram can count: it stays in its block, or opens a block whose
\* predecessor needed no recovery, was recovered, or could not be.
Events == {{"total_packets"},
           {"total_packets", "total_blocks"},
           {"total_packets", "total_blocks", "out_of_order_blocks"},
           Counters}

-----------------------------------------------------------------------------
Init ==
    /\ decoder = "running"
    /\ counted = Zero
    /\ pkt = Zero
    /\ ack = NoAck
    /\ feedback = "accepting"
    /\ report = Zero
    /\ sent_ack = NoAck
    /\ write_errors = 0
    /\ seen = Zero
    /\ reported = Zero
    /\ quanta = 0
    /\ this_quantum = 0
    /\ last_quantum = 0
    /\ published_this = FALSE
    /\ published_last = FALSE

\* The feedback thread holds the lock from lock() to the end of the ack.
Locked == feedback \in {"reporting", "acking"}

\* total_packets is the largest counter and overflows first.
Overflows == counted.total_packets + 1 = CounterLimit

\* The counters after the event S (lines 301-348).
AfterEvent(S) ==
    [c \in Counters |-> Plus(counted, OneOf(S))[c] % CounterLimit]

\* A datagram that opens a block or not is counted.
CountPacket(S) ==
    /\ decoder = "running"
    /\ seen.total_packets < MaxPackets
    /\ ~(Overflows /\ OverflowChecks)
    /\ seen' = Plus(seen, OneOf(S))
    /\ this_quantum' = this_quantum + 1
    /\ UNCHANGED <<decoder, feedbackVars>>

\* It is a recovery shard or out of order, or it is in order while the
\* feedback thread holds the lock and try_lock fails: nothing is copied.
CountOnly(S) ==
    /\ CountPacket(S)
    /\ counted' = AfterEvent(S)
    /\ UNCHANGED sharedVars

\* Faulty: the counters never start again.
PublishWithoutReset(S) ==
    /\ CountPacket(S)
    /\ ~Locked
    /\ pkt' = AfterEvent(S)
    /\ counted' = AfterEvent(S)
    /\ ack' = seen'.total_packets
    /\ published_this' = TRUE

\* It is in order and try_lock succeeds: the counters are copied, and start
\* again from zero if the feedback thread has zeroed the packet.
Publish(S) ==
    /\ CountPacket(S)
    /\ ~Locked
    /\ pkt' = AfterEvent(S)
    /\ counted' = IF pkt.total_packets = 0 THEN Zero ELSE AfterEvent(S)
    /\ ack' = seen'.total_packets
    /\ published_this' = TRUE

\* total_packets += 1 overflows in a dev build.
CounterPanics ==
    /\ decoder = "running"
    /\ seen.total_packets < MaxPackets
    /\ Overflows /\ OverflowChecks
    /\ decoder' = "panicked"
    /\ UNCHANGED <<counted, seen, this_quantum, sharedVars, feedbackVars>>

\* The server connects, or the feedback thread has slept for a quantum:
\* take the lock.  The stream is never accepted again.
Lock ==
    /\ feedback \in {"accepting", "sleeping"}
    /\ quanta < MaxQuanta
    /\ feedback' = "reporting"
    /\ UNCHANGED <<decoderVars, sharedVars, report, sent_ack, write_errors,
                   reported, quanta, last_quantum, published_last>>

\* Lines 40-61: write the report, or fail to, and zero the packet.
SendReport ==
    /\ feedback = "reporting"
    /\ \/ /\ report' = pkt
          /\ reported' = Plus(reported, pkt)
          /\ UNCHANGED write_errors
       \/ /\ write_errors < MaxWriteErrors
          /\ write_errors' = write_errors + 1
          /\ UNCHANGED <<report, reported>>
    /\ pkt' = Zero
    /\ feedback' = "acking"
    /\ quanta' = quanta + 1
    /\ last_quantum' = this_quantum /\ this_quantum' = 0
    /\ published_last' = published_this /\ published_this' = FALSE
    /\ UNCHANGED <<decoder, counted, seen, ack, sent_ack>>

\* Lines 65-79: write the ack and release the lock.
SendAck ==
    /\ feedback = "acking"
    /\ sent_ack' = ack
    /\ feedback' = "sleeping"
    /\ UNCHANGED <<decoderVars, sharedVars, report, write_errors, reported,
                   quanta, last_quantum, published_last>>

Next == \/ \E S \in Events : CountOnly(S) \/ Publish(S)
        \/ CounterPanics
        \/ Lock
        \/ SendReport
        \/ SendAck

Spec == Init /\ [][Next]_vars

-----------------------------------------------------------------------------
TypeOK ==
    /\ decoder \in {"running", "panicked"}
    /\ counted \in [Counters -> Nat]
    /\ pkt \in [Counters -> Nat]
    /\ ack \in Nat \cup {NoAck}
    /\ feedback \in {"accepting", "reporting", "acking", "sleeping"}
    /\ report \in [Counters -> Nat]
    /\ sent_ack \in Nat \cup {NoAck}
    /\ write_errors \in Nat
    /\ seen \in [Counters -> Nat]
    /\ reported \in [Counters -> Nat]
    /\ quanta \in Nat
    /\ this_quantum \in Nat
    /\ last_quantum \in Nat
    /\ published_this \in BOOLEAN
    /\ published_last \in BOOLEAN

\* Every report the server gets is one it can reason about: at most one failure
\* per recovery, one recovery per block and one block per packet, although the
\* counters are zeroed by two threads at different times
\* (feedback_server.rs:100-112 divides two of them and tests a third).
ReportConsistent ==
    /\ report.ecc_decoder_failures <= report.out_of_order_blocks
    /\ report.out_of_order_blocks <= report.total_blocks
    /\ report.total_blocks <= report.total_packets

\* The counters reach the server twice at most: however the copies, the lock
\* and the two resets interleave, nothing is counted a third time.
ReportedAtMostTwice == \A c \in Counters : reported[c] <= 2 * seen[c]

\* As long as a packet is delivered in order in each quantum, the u16 counters
\* hold no more than the packets of two quanta (video.rs:301, :459, :474).
CountersSpanTwoQuanta ==
    published_this \/ published_last =>
        counted.total_packets <= last_quantum + this_quantum

\* net/src/feedback_packet.rs:48: the blocks of a report are those of its
\* quantum, so no block is reported twice.
ReportedOnce == reported.total_blocks <= seen.total_blocks
=============================================================================
