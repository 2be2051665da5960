--------------------------- MODULE BitrateControl ---------------------------
(***************************************************************************)
(* The server's bitrate loop.  The feedback thread                         *)
(* (server/src/server/feedback_server.rs, handle_feedback) turns each      *)
(* feedback packet into a bitrate, which it stores in a mutex; the send    *)
(* loop (server/src/server/streaming_server.rs) reads the mutex once per   *)
(* frame and reconfigures the encoder when the value changed.  Each holds  *)
(* the mutex for one action here.                                          *)
(*                                                                         *)
(* congestion is out_of_order_blocks / total_blocks as an f32: it exceeds  *)
(* 0.001 when the first is more than a thousandth of the second, and 0 / 0 *)
(* is NaN, which exceeds nothing.  The branch for congestion between 0.15  *)
(* and 0.2 comes after the one for more than 0.001 and is never taken.     *)
(* The raise is a u32 addition: a release build wraps it, a dev build      *)
(* panics.  The two f32 products of the code round to the integers of this *)
(* module while bitrates stay below 3.4 million and the target below 2^24  *)
(* quanta; past that the rounding of the f32, one part in 2^23, moves their*)
(* last digits, which no property here looks at.                           *)
(***************************************************************************)
EXTENDS Naturals

CONSTANTS
    InitialBitrate,     \* 900000: handle_feedback's and the encoder's first
    SharedBitrate,      \* 80000: the first value in the mutex
    MinimumBitrate,     \* 20000
    BitrateStep,        \* 100000
    BitrateLimit,       \* a bitrate is a u32: 2^32
    InitialTicks,       \* 10: clean quanta before the first raise
    TicksLimit,         \* largest u32: where the cast of the f32 saturates
    AccumulatorLimit,   \* oo_blocks and decoder_failures are u16: 65536
    Builds,             \* values overflow_checks may have
    Reports,            \* feedback packets the client may send
    MaxQuanta,          \* bound: feedback packets handled
    MaxEncoderErrors    \* bound: reconfigurations the encoder refused

ASSUME BitrateAssumption ==
    /\ InitialBitrate \in Nat /\ SharedBitrate \in Nat
    /\ MinimumBitrate \in Nat /\ MinimumBitrate >= 10
    /\ InitialBitrate >= MinimumBitrate
    /\ BitrateStep \in Nat /\ BitrateStep >= MinimumBitrate
    /\ BitrateLimit \in Nat /\ BitrateLimit > InitialBitrate
    /\ BitrateLimit > BitrateStep /\ BitrateLimit > SharedBitrate
    /\ InitialTicks \in Nat /\ InitialTicks >= 2
    /\ TicksLimit \in Nat /\ TicksLimit >= InitialTicks
    /\ AccumulatorLimit \in Nat \ {0}
    /\ Builds \subseteq BOOLEAN
    /\ Reports \subseteq [total_blocks : Nat, out_of_order_blocks : Nat,
                          ecc_decoder_failures : Nat]
    /\ MaxQuanta \in Nat
    /\ MaxEncoderErrors \in Nat

VARIABLES
    overflow_checks,    \* TRUE in a dev build: arithmetic overflow panics
    bitrate, ticks_survived, ticks_to_survive,  \* the feedback thread's
    oo_blocks, decoder_failures,                \* since the bitrate changed
    bitrate_mtx,                                \* value in the mutex
    poisoned,           \* the feedback thread panicked with the mutex locked
    sender,             \* the send loop: "running" or "panicked"
    old_bitrate,        \* last value the send loop acted on
    encoder_bitrate,    \* the encoder's setting
    wrapped,            \* history: the bitrate is what a raise past u32 left
    quanta,             \* feedback packets handled
    encoder_errors      \* reconfigurations the encoder refused

feedbackVars == <<bitrate, ticks_survived, ticks_to_survive, oo_blocks,
                  decoder_failures, wrapped, quanta>>
senderVars == <<sender, old_bitrate, encoder_bitrate, encoder_errors>>
vars == <<overflow_checks, feedbackVars, bitrate_mtx, poisoned, senderVars>>

-----------------------------------------------------------------------------
Init ==
    /\ overflow_checks \in Builds
    /\ wrapped = FALSE
    /\ bitrate = InitialBitrate
    /\ ticks_survived = 0
    /\ ticks_to_survive = InitialTicks
    /\ oo_blocks = 0
    /\ decoder_failures = 0
    /\ bitrate_mtx = SharedBitrate
    /\ poisoned = FALSE
    /\ sender = "running"
    /\ old_bitrate = InitialBitrate
    /\ encoder_bitrate = InitialBitrate
    /\ quanta = 0
    /\ encoder_errors = 0

Congested(p) ==
    \/ p.out_of_order_blocks * 1000 > p.total_blocks
    \/ p.ecc_decoder_failures > 0

\* (ticks_to_survive as f32 * 1.8) as u32
RaisedTarget ==
    IF (ticks_to_survive * 9) \div 5 < TicksLimit THEN (ticks_to_survive * 9) \div 5
                                                  ELSE TicksLimit

\* (bitrate as f32 * 0.6) as u32
ReducedBitrate == (bitrate * 6) \div 10

\* The target of clean quanta has been reached by one more.
Survives == ticks_survived + 1 = ticks_to_survive

\* The u32 addition bitrate + 100000 of a raise.
RaisedBitrate == (bitrate + BitrateStep) % BitrateLimit

\* Feedback packet p would raise the bitrate past the largest u32.
RaiseOverflows(p) ==
    ~Congested(p) /\ Survives /\ bitrate + BitrateStep >= BitrateLimit

\* Faulty: never lower than the minimum.
NextBitrateClamped(p) ==
    IF Congested(p)
    THEN IF ReducedBitrate >= MinimumBitrate THEN ReducedBitrate ELSE MinimumBitrate
    ELSE IF Survives THEN RaisedBitrate ELSE bitrate

\* Faulty: no minimum at all.
NextBitrateUnguarded(p) ==
    IF Congested(p) THEN ReducedBitrate
    ELSE IF Survives THEN RaisedBitrate ELSE bitrate

\* The bitrate after feedback packet p.
NextBitrate(p) ==
    IF Congested(p)
    THEN IF bitrate >= MinimumBitrate THEN ReducedBitrate ELSE MinimumBitrate
    ELSE IF Survives THEN RaisedBitrate ELSE bitrate

\* Faulty: a raise does not start the count of clean quanta again.
NextTicksSurvivedAcrossRaises(p) ==
    IF Congested(p) THEN 0 ELSE ticks_survived + 1

NextTicksSurvived(p) ==
    IF Congested(p) \/ Survives THEN 0 ELSE ticks_survived + 1

NextTicksToSurvive(p) ==
    IF Congested(p) /\ bitrate >= MinimumBitrate THEN RaisedTarget
                                                 ELSE ticks_to_survive

\* Adding p to the u16 accumulators overflows.
Overflows(p) ==
    \/ oo_blocks + p.out_of_order_blocks >= AccumulatorLimit
    \/ decoder_failures + p.ecc_decoder_failures >= AccumulatorLimit

\* A feedback packet was read from the stream and the mutex is held.
TakeReport(p) ==
    /\ p \in Reports
    /\ ~poisoned
    /\ quanta < MaxQuanta
    /\ quanta' = quanta + 1
    /\ ticks_survived' = NextTicksSurvived(p)

\* It sets the bitrate (feedback_server.rs, lines 105-151).
StoreBitrate(p) ==
    /\ TakeReport(p)
    /\ ~(RaiseOverflows(p) /\ overflow_checks)
    /\ ticks_to_survive' = NextTicksToSurvive(p)
    /\ bitrate_mtx' = NextBitrate(p)

HandleFeedback(p) ==
    /\ StoreBitrate(p)
    /\ ~(Overflows(p) /\ overflow_checks)
    /\ bitrate' = NextBitrate(p)
    /\ wrapped' = (RaiseOverflows(p) \/ (wrapped /\ bitrate' = bitrate))
    /\ IF bitrate' # bitrate
       THEN oo_blocks' = 0 /\ decoder_failures' = 0
       ELSE /\ oo_blocks' = (oo_blocks + p.out_of_order_blocks) % AccumulatorLimit
            /\ decoder_failures' =
                  (decoder_failures + p.ecc_decoder_failures) % AccumulatorLimit
    /\ UNCHANGED <<overflow_checks, poisoned, senderVars>>

\* A dev build panics holding the mutex, which poisons it: at the raise, before
\* anything is stored (line 144), or at the accumulators, after (154-155).
FeedbackPanics(p) ==
    /\ overflow_checks
    /\ \/ /\ TakeReport(p)
          /\ RaiseOverflows(p)
          /\ UNCHANGED <<ticks_to_survive, bitrate_mtx>>
       \/ /\ StoreBitrate(p)
          /\ Overflows(p)
    /\ poisoned' = TRUE
    /\ UNCHANGED <<overflow_checks, bitrate, oo_blocks, decoder_failures, wrapped,
                   senderVars>>

\* Faulty: the send loop forgets what it acted on.
UpdateBitrateForgets ==
    /\ sender = "running" /\ ~poisoned
    /\ old_bitrate # bitrate_mtx
    /\ encoder_bitrate # bitrate_mtx
    /\ encoder_bitrate' = bitrate_mtx
    /\ UNCHANGED <<overflow_checks, feedbackVars, bitrate_mtx, poisoned, sender, old_bitrate,
                   encoder_errors>>

\* set_bitrate of the two encoders: what the hardware or the library refuses is
\* only logged (encoder/nvidia.rs:303) or not looked at (openh264_enc.rs:173).
SetBitrate(b) ==
    \/ encoder_bitrate' = b /\ UNCHANGED encoder_errors
    \/ /\ encoder_errors < MaxEncoderErrors
       /\ encoder_errors' = encoder_errors + 1
       /\ UNCHANGED encoder_bitrate

\* The send loop, once per frame (streaming_server.rs, lines 178-200).  The new
\* value counts as acted on whatever the encoder does.
UpdateBitrate ==
    /\ sender = "running" /\ ~poisoned
    /\ old_bitrate # bitrate_mtx
    /\ old_bitrate' = bitrate_mtx
    /\ SetBitrate(bitrate_mtx)
    /\ UNCHANGED <<overflow_checks, feedbackVars, bitrate_mtx, poisoned, sender>>

\* lock() on the poisoned mutex fails and expect() panics.
SenderPanics ==
    /\ sender = "running" /\ poisoned
    /\ sender' = "panicked"
    /\ UNCHANGED <<overflow_checks, feedbackVars, bitrate_mtx, poisoned, old_bitrate,
                   encoder_bitrate, encoder_errors>>

Next == \/ \E p \in Reports : HandleFeedback(p) \/ FeedbackPanics(p)
        \/ UpdateBitrate
        \/ SenderPanics

Spec == Init /\ [][Next]_vars

\* The send loop keeps taking frames.
LiveSpec == Spec /\ WF_vars(UpdateBitrate \/ SenderPanics)

-----------------------------------------------------------------------------
TypeOK ==
    /\ overflow_checks \in BOOLEAN
    /\ wrapped \in BOOLEAN
    /\ bitrate \in 0 .. BitrateLimit - 1
    /\ ticks_survived \in Nat
    /\ ticks_to_survive \in Nat
    /\ oo_blocks \in Nat
    /\ decoder_failures \in Nat
    /\ bitrate_mtx \in 0 .. BitrateLimit - 1
    /\ poisoned \in BOOLEAN
    /\ sender \in {"running", "panicked"}
    /\ old_bitrate \in Nat
    /\ encoder_bitrate \in Nat
    /\ quanta \in Nat
    /\ encoder_errors \in Nat

\* The counter of clean quanta stays below its target, so the equality test on
\* line 142 is met and the bitrate can still be raised, however the target
\* moves in between.
TicksBelowTarget == ticks_survived < ticks_to_survive

\* Every congested quantum changes the bitrate, so both accumulators restart
\* with it and failures never add up: decoder_failures cannot overflow.
FailuresNeverAccumulate == decoder_failures = 0

\* Failures never bring the bitrate below three fifths of the minimum
\* (line 121).  Only a raise past the largest u32 does, in a release build, and
\* only until the next report that changes the bitrate.
BitrateFloor ==
    bitrate >= (MinimumBitrate * 6) \div 10 \/ (wrapped /\ ~overflow_checks)

\* Lines 121-123: a bitrate lowered after failures has to survive more quanta
\* than the one before, until the target is as large as it can be.  A raise that
\* wraps lowers the bitrate too, and lets the target as it is.
LoweredHasToLastLonger ==
    [][bitrate' < bitrate =>
          \/ ticks_to_survive' > ticks_to_survive
          \/ ticks_to_survive' = TicksLimit
          \/ wrapped' /\ ~overflow_checks]_vars

\* The send loop takes up every value of the mutex in the end: again and again
\* the encoder works with it, unless a reconfiguration has been refused or the
\* mutex is poisoned.
EncoderCatchesUp ==
    []<>(encoder_bitrate = bitrate_mtx \/ encoder_errors > 0 \/ poisoned)
=============================================================================
