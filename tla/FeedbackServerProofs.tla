------------------------- MODULE FeedbackServerProofs -------------------------
(***************************************************************************)
(* Theorems about the server's feedback thread.  First the bitrate loop    *)
(* (BitrateControl), for every choice of its constants: the invariant is   *)
(* inductive as its parts stand, and the action property follows from it.  *)
(* Then the unframed connection its reports come from (FeedbackConnection),*)
(* for messages of any two lengths and any number of them.                 *)
(***************************************************************************)
EXTENDS BitrateControl, FeedbackConnection, SequenceTheorems, TLAPS

\* Raising a target of two quanta or more adds at least one.
LEMMA NineFifths ==
    ASSUME NEW t \in Nat, t >= 2
    PROVE  (t * 9) \div 5 \in Nat /\ (t * 9) \div 5 > t
  OBVIOUS

\* Three fifths of a bitrate is a bitrate, less than it unless it is 0, and
\* grows with it.
LEMMA SixTenths ==
    ASSUME NEW b \in Nat, NEW m \in Nat, b >= m
    PROVE  /\ (b * 6) \div 10 \in Nat
           /\ (b * 6) \div 10 >= (m * 6) \div 10
           /\ (b * 6) \div 10 <= b
           /\ b >= 1 => (b * 6) \div 10 < b
  OBVIOUS

\* What a u32 addition leaves, wrapped or not.
LEMMA Wrapping ==
    ASSUME NEW x \in Nat, NEW l \in Nat, l >= 1
    PROVE  x % l \in 0 .. l - 1 /\ (x < l => x % l = x)
  OBVIOUS

\* The target never shrinks below its first value, which BitrateAssumption
\* keeps at two or more; with it the parts below are inductive.
TargetNeverShrinks == ticks_to_survive >= InitialTicks

BitrateInv ==
    /\ TypeOK
    /\ TargetNeverShrinks
    /\ TicksBelowTarget
    /\ FailuresNeverAccumulate
    /\ BitrateFloor

\* The accumulators stay numbers when a report is added to them.
LEMMA AccumulatorTypes ==
    ASSUME NEW p \in Reports, TypeOK
    PROVE  /\ (oo_blocks + p.out_of_order_blocks) % AccumulatorLimit \in Nat
           /\ (decoder_failures + p.ecc_decoder_failures) % AccumulatorLimit \in Nat
<1>1. /\ p.out_of_order_blocks \in Nat
      /\ p.ecc_decoder_failures \in Nat
  BY BitrateAssumption
<1>2. \A n \in Nat : n % AccumulatorLimit \in Nat
  BY BitrateAssumption
<1>3. /\ oo_blocks + p.out_of_order_blocks \in Nat
      /\ decoder_failures + p.ecc_decoder_failures \in Nat
  BY <1>1 DEF TypeOK
<1> QED
  BY <1>2, <1>3

\* What a feedback packet makes of the bitrate and of the target: congestion
\* changes the bitrate and keeps it above the floor, a raise above the floor or
\* past the u32, and it goes down only together with a target that grows or is
\* the largest, or with such a raise.
LEMMA NextBitrateFacts ==
    ASSUME NEW p \in Reports, BitrateInv
    PROVE  /\ NextBitrate(p) \in 0 .. BitrateLimit - 1
           /\ \/ NextBitrate(p) >= (MinimumBitrate * 6) \div 10
              \/ NextBitrate(p) = bitrate
              \/ RaiseOverflows(p)
           /\ Congested(p) => NextBitrate(p) # bitrate
           /\ NextTicksToSurvive(p) \in Nat
           /\ NextTicksToSurvive(p) >= InitialTicks
           /\ ~Congested(p) => NextTicksToSurvive(p) = ticks_to_survive
           /\ NextBitrate(p) < bitrate =>
                 \/ NextTicksToSurvive(p) > ticks_to_survive
                 \/ NextTicksToSurvive(p) = TicksLimit
                 \/ RaiseOverflows(p)
<1>1. /\ bitrate \in Nat /\ bitrate < BitrateLimit
      /\ ticks_to_survive \in Nat /\ ticks_to_survive >= InitialTicks
      /\ InitialTicks \in Nat /\ InitialTicks >= 2
      /\ TicksLimit \in Nat /\ TicksLimit >= InitialTicks
      /\ MinimumBitrate \in Nat /\ MinimumBitrate >= 10
      /\ BitrateStep \in Nat /\ BitrateStep >= MinimumBitrate
      /\ BitrateLimit \in Nat /\ BitrateLimit > BitrateStep
  BY BitrateAssumption DEF BitrateInv, TypeOK, TargetNeverShrinks
<1>2. /\ (MinimumBitrate * 6) \div 10 \in Nat
      /\ (MinimumBitrate * 6) \div 10 <= MinimumBitrate
  BY <1>1, SixTenths
<1>3. /\ RaisedTarget \in Nat /\ RaisedTarget >= InitialTicks
      /\ RaisedTarget > ticks_to_survive \/ RaisedTarget = TicksLimit
  <2>1. ticks_to_survive >= 2
    BY <1>1
  <2>2. /\ (ticks_to_survive * 9) \div 5 \in Nat
        /\ (ticks_to_survive * 9) \div 5 > ticks_to_survive
    BY <1>1, <2>1, NineFifths
  <2> HIDE <2>1
  <2>3. CASE (ticks_to_survive * 9) \div 5 < TicksLimit
    BY <1>1, <2>2, <2>3 DEF RaisedTarget
  <2>4. CASE ~((ticks_to_survive * 9) \div 5 < TicksLimit)
    BY <1>1, <2>4 DEF RaisedTarget
  <2> QED
    BY <2>3, <2>4
<1>4. CASE Congested(p) /\ bitrate >= MinimumBitrate
  <2>1. /\ ReducedBitrate \in Nat
        /\ ReducedBitrate >= (MinimumBitrate * 6) \div 10
        /\ ReducedBitrate < bitrate
    <3>1. bitrate >= 1
      BY <1>1, <1>4
    <3> QED
      BY <1>1, <1>4, <3>1, SixTenths DEF ReducedBitrate
  <2>2. NextBitrate(p) = ReducedBitrate /\ NextTicksToSurvive(p) = RaisedTarget
    BY <1>4 DEF NextBitrate, NextTicksToSurvive
  <2> QED
    BY <1>1, <1>3, <1>4, <2>1, <2>2
<1>5. CASE Congested(p) /\ ~(bitrate >= MinimumBitrate)
  <2>1. NextBitrate(p) = MinimumBitrate /\ NextTicksToSurvive(p) = ticks_to_survive
    BY <1>5 DEF NextBitrate, NextTicksToSurvive
  <2> QED
    BY <1>1, <1>2, <1>5, <2>1
<1>6. CASE ~Congested(p) /\ ~Survives
  <2>1. NextBitrate(p) = bitrate /\ NextTicksToSurvive(p) = ticks_to_survive
    BY <1>6 DEF NextBitrate, NextTicksToSurvive
  <2> QED
    BY <1>1, <1>6, <2>1
<1>7. CASE ~Congested(p) /\ Survives
  <2>1. NextBitrate(p) = RaisedBitrate /\ NextTicksToSurvive(p) = ticks_to_survive
    BY <1>7 DEF NextBitrate, NextTicksToSurvive
  <2>2. /\ RaisedBitrate \in 0 .. BitrateLimit - 1
        /\ bitrate + BitrateStep < BitrateLimit => RaisedBitrate = bitrate + BitrateStep
    <3>1. bitrate + BitrateStep \in Nat /\ BitrateLimit >= 1
      BY <1>1
    <3> QED
      BY <1>1, <3>1, Wrapping DEF RaisedBitrate
  <2>3. RaiseOverflows(p) \/ bitrate + BitrateStep < BitrateLimit
    BY <1>1, <1>7 DEF RaiseOverflows
  <2>4. RaiseOverflows(p) \/ (/\ RaisedBitrate >= (MinimumBitrate * 6) \div 10
                              /\ ~(RaisedBitrate < bitrate))
    BY <1>1, <1>2, <2>2, <2>3
  <2> QED
    BY <1>1, <1>7, <2>1, <2>2, <2>4
<1> QED
  BY <1>4, <1>5, <1>6, <1>7

\* The first state satisfies the invariant.
LEMMA BitrateInvInit == Init => BitrateInv
<1> SUFFICES ASSUME Init PROVE BitrateInv
  OBVIOUS
<1>1. InitialBitrate >= (MinimumBitrate * 6) \div 10
  <2>1. /\ (MinimumBitrate * 6) \div 10 \in Nat
        /\ (MinimumBitrate * 6) \div 10 <= MinimumBitrate
    BY BitrateAssumption, SixTenths
  <2> QED
    BY <2>1, BitrateAssumption
<1>2. TypeOK
  <2>1. overflow_checks \in BOOLEAN
    BY BitrateAssumption DEF Init
  <2>2. /\ InitialBitrate \in 0 .. BitrateLimit - 1
        /\ SharedBitrate \in 0 .. BitrateLimit - 1
    BY BitrateAssumption
  <2> QED
    BY <2>1, <2>2, BitrateAssumption DEF Init, TypeOK
<1> QED
  BY <1>1, <1>2, BitrateAssumption
     DEF Init, BitrateInv, TargetNeverShrinks, TicksBelowTarget,
         FailuresNeverAccumulate, BitrateFloor

\* The counter of clean quanta and its target after a feedback packet.
LEMMA StoreBitrateKeepsTicks ==
    ASSUME BitrateInv, NEW p \in Reports, StoreBitrate(p)
    PROVE  /\ ticks_survived' \in Nat /\ ticks_to_survive' \in Nat
           /\ bitrate_mtx' \in 0 .. BitrateLimit - 1 /\ quanta' \in Nat
           /\ TargetNeverShrinks' /\ TicksBelowTarget'
<1>1. /\ ticks_survived' = NextTicksSurvived(p)
      /\ ticks_to_survive' = NextTicksToSurvive(p)
      /\ bitrate_mtx' = NextBitrate(p)
      /\ quanta' = quanta + 1
  BY DEF StoreBitrate, TakeReport
<1>2. /\ NextBitrate(p) \in 0 .. BitrateLimit - 1
      /\ NextTicksToSurvive(p) \in Nat
      /\ NextTicksToSurvive(p) >= InitialTicks
      /\ ~Congested(p) => NextTicksToSurvive(p) = ticks_to_survive
  BY NextBitrateFacts
<1>3. /\ ticks_survived \in Nat /\ ticks_to_survive \in Nat
      /\ ticks_survived < ticks_to_survive /\ quanta \in Nat
      /\ InitialTicks \in Nat /\ InitialTicks >= 2
  BY BitrateAssumption DEF BitrateInv, TypeOK, TicksBelowTarget
<1>4. NextTicksSurvived(p) \in Nat /\ NextTicksSurvived(p) < NextTicksToSurvive(p)
  <2>1. CASE Congested(p) \/ Survives
    BY <1>2, <1>3, <2>1 DEF NextTicksSurvived
  <2>2. CASE ~Congested(p) /\ ~Survives
    <3>1. ticks_survived + 1 # ticks_to_survive
      BY <2>2 DEF Survives
    <3>2. NextTicksSurvived(p) = ticks_survived + 1
      BY <2>2 DEF NextTicksSurvived
    <3> QED
      BY <1>2, <1>3, <2>2, <3>1, <3>2
  <2> QED
    BY <2>1, <2>2
<1> QED
  BY <1>1, <1>2, <1>3, <1>4 DEF TargetNeverShrinks, TicksBelowTarget

\* Every step keeps the invariant.
LEMMA BitrateInvInductive == BitrateInv /\ [Next]_vars => BitrateInv'
<1> SUFFICES ASSUME BitrateInv, [Next]_vars PROVE BitrateInv'
  OBVIOUS
<1>1. ASSUME NEW p \in Reports, HandleFeedback(p)
      PROVE  BitrateInv'
  <2>1. /\ StoreBitrate(p)
        /\ bitrate' = NextBitrate(p)
        /\ wrapped' = (RaiseOverflows(p) \/ (wrapped /\ bitrate' = bitrate))
        /\ UNCHANGED <<overflow_checks, poisoned, senderVars>>
    BY <1>1 DEF HandleFeedback
  <2>2. /\ ticks_survived' \in Nat /\ ticks_to_survive' \in Nat
        /\ bitrate_mtx' \in 0 .. BitrateLimit - 1 /\ quanta' \in Nat
        /\ TargetNeverShrinks' /\ TicksBelowTarget'
    BY <2>1, StoreBitrateKeepsTicks
  <2>3. /\ bitrate' \in 0 .. BitrateLimit - 1
        /\ wrapped' \in BOOLEAN
        /\ BitrateFloor'
        /\ Congested(p) => bitrate' # bitrate
    <3>1. /\ bitrate' \in 0 .. BitrateLimit - 1
          /\ Congested(p) => bitrate' # bitrate
          /\ \/ bitrate' >= (MinimumBitrate * 6) \div 10
             \/ bitrate' = bitrate
             \/ RaiseOverflows(p)
      BY <2>1, NextBitrateFacts
    <3>2. wrapped' \in BOOLEAN
      BY <2>1
    <3>3. CASE RaiseOverflows(p)
      <4>1. ~overflow_checks
        BY <2>1, <3>3 DEF StoreBitrate
      <4> QED
        BY <2>1, <3>1, <3>2, <3>3, <4>1 DEF BitrateFloor
    <3>4. CASE bitrate' = bitrate
      <4>1. BitrateFloor /\ overflow_checks' = overflow_checks
        BY <2>1 DEF BitrateInv
      <4>2. wrapped => wrapped'
        BY <2>1, <3>4
      <4> QED
        BY <3>1, <3>2, <3>4, <4>1, <4>2 DEF BitrateFloor
    <3>5. CASE bitrate' >= (MinimumBitrate * 6) \div 10
      BY <3>1, <3>2, <3>5 DEF BitrateFloor
    <3> QED
      BY <3>1, <3>3, <3>4, <3>5
  <2>4. /\ oo_blocks' \in Nat /\ decoder_failures' = 0
    <3>1. CASE bitrate' # bitrate
      BY <1>1, <3>1 DEF HandleFeedback
    <3>2. CASE bitrate' = bitrate
      <4>1. /\ oo_blocks' = (oo_blocks + p.out_of_order_blocks) % AccumulatorLimit
            /\ decoder_failures' =
                  (decoder_failures + p.ecc_decoder_failures) % AccumulatorLimit
        BY <1>1, <3>2 DEF HandleFeedback
      <4>2. p.ecc_decoder_failures = 0
        <5>1. p.ecc_decoder_failures \in Nat
          BY BitrateAssumption
        <5>2. ~(p.ecc_decoder_failures > 0)
          BY <2>3, <3>2 DEF Congested
        <5> QED
          BY <5>1, <5>2
      <4>3. decoder_failures = 0
        BY DEF BitrateInv, FailuresNeverAccumulate
      <4>4. (0 + 0) % AccumulatorLimit = 0
        BY BitrateAssumption
      <4>5. oo_blocks' \in Nat
        BY <4>1, AccumulatorTypes DEF BitrateInv
      <4> QED
        BY <4>1, <4>2, <4>3, <4>4, <4>5
    <3> QED
      BY <3>1, <3>2
  <2>5. TypeOK'
    BY <2>1, <2>2, <2>3, <2>4 DEF BitrateInv, TypeOK, senderVars
  <2> QED
    BY <2>2, <2>3, <2>4, <2>5 DEF BitrateInv, FailuresNeverAccumulate
<1>2. ASSUME NEW p \in Reports, FeedbackPanics(p)
      PROVE  BitrateInv'
  <2>1. /\ poisoned' = TRUE
        /\ UNCHANGED <<overflow_checks, bitrate, oo_blocks, decoder_failures, wrapped,
                       senderVars>>
    BY <1>2 DEF FeedbackPanics
  <2>2. /\ ticks_survived' \in Nat /\ ticks_to_survive' \in Nat
        /\ bitrate_mtx' \in 0 .. BitrateLimit - 1 /\ quanta' \in Nat
        /\ TargetNeverShrinks' /\ TicksBelowTarget'
    <3>1. CASE StoreBitrate(p)
      BY <3>1, StoreBitrateKeepsTicks
    <3>2. CASE /\ TakeReport(p)
               /\ RaiseOverflows(p)
               /\ UNCHANGED <<ticks_to_survive, bitrate_mtx>>
      <4>1. /\ ticks_survived' = NextTicksSurvived(p) /\ quanta' = quanta + 1
            /\ ticks_to_survive' = ticks_to_survive /\ bitrate_mtx' = bitrate_mtx
            /\ Survives
        BY <3>2 DEF TakeReport, RaiseOverflows
      <4>2. ticks_survived' = 0
        BY <4>1 DEF NextTicksSurvived
      <4> QED
        BY <4>1, <4>2, BitrateAssumption
           DEF BitrateInv, TypeOK, TargetNeverShrinks, TicksBelowTarget
    <3> QED
      BY <1>2, <3>1, <3>2 DEF FeedbackPanics
  <2>3. TypeOK'
    BY <2>1, <2>2 DEF BitrateInv, TypeOK, senderVars
  <2> QED
    BY <2>1, <2>2, <2>3 DEF BitrateInv, FailuresNeverAccumulate, BitrateFloor
<1>3. CASE UpdateBitrate
  <2>1. TypeOK'
    BY <1>3 DEF UpdateBitrate, SetBitrate, BitrateInv, TypeOK, feedbackVars
  <2> QED
    BY <1>3, <2>1
       DEF UpdateBitrate, SetBitrate, feedbackVars, BitrateInv, TargetNeverShrinks,
           TicksBelowTarget, FailuresNeverAccumulate, BitrateFloor
<1>4. CASE SenderPanics
  <2>1. TypeOK'
    BY <1>4 DEF SenderPanics, BitrateInv, TypeOK, feedbackVars
  <2> QED
    BY <1>4, <2>1
       DEF SenderPanics, feedbackVars, BitrateInv, TargetNeverShrinks,
           TicksBelowTarget, FailuresNeverAccumulate, BitrateFloor
<1>5. CASE UNCHANGED vars
  BY <1>5
     DEF vars, feedbackVars, senderVars, BitrateInv, TypeOK, TargetNeverShrinks,
         TicksBelowTarget, FailuresNeverAccumulate, BitrateFloor
<1> QED
  BY <1>1, <1>2, <1>3, <1>4, <1>5 DEF Next

\* The invariant of the bitrate loop holds in every reachable state.
THEOREM BitrateInvariant == Spec => []BitrateInv
  BY BitrateInvInit, BitrateInvInductive, PTL DEF Spec

\* The variables of the loop keep their types.
THEOREM BitrateTypes == Spec => []TypeOK
<1>1. BitrateInv => TypeOK
  BY DEF BitrateInv
<1> QED
  BY <1>1, BitrateInvariant, PTL

\* The equality test of line 142 can never be overrun: the count of clean
\* quanta is below its target, whatever reports come and however often the
\* target is raised in between.
THEOREM TicksStayBelowTarget == Spec => []TicksBelowTarget
<1>1. BitrateInv => TicksBelowTarget
  BY DEF BitrateInv
<1> QED
  BY <1>1, BitrateInvariant, PTL

\* The u16 accumulator of decoder failures is 0 between two feedback packets,
\* for reports of any size: it cannot overflow.
THEOREM FailuresDoNotAccumulate == Spec => []FailuresNeverAccumulate
<1>1. BitrateInv => FailuresNeverAccumulate
  BY DEF BitrateInv
<1> QED
  BY <1>1, BitrateInvariant, PTL

\* Failures never bring the bitrate below three fifths of the minimum, whatever
\* the limit of the raises: below it is only what a raise past the largest u32
\* has left in a release build.
THEOREM BitrateStaysAboveFloor == Spec => []BitrateFloor
<1>1. BitrateInv => BitrateFloor
  BY DEF BitrateInv
<1> QED
  BY <1>1, BitrateInvariant, PTL

\* Each time the bitrate is lowered it has to survive more quanta than before
\* until it is raised, or as many as the counter can hold, unless it was a raise
\* that wrapped in a release build.
THEOREM LoweredBitrateHasToLastLonger == Spec => LoweredHasToLastLonger
<1> DEFINE Lasts == bitrate' < bitrate =>
                       \/ ticks_to_survive' > ticks_to_survive
                       \/ ticks_to_survive' = TicksLimit
                       \/ wrapped' /\ ~overflow_checks
<1>1. BitrateInv /\ [Next]_vars => [Lasts]_vars
  <2> SUFFICES ASSUME BitrateInv, Next PROVE Lasts
    OBVIOUS
  <2>1. ASSUME NEW p \in Reports, HandleFeedback(p) PROVE Lasts
    <3>1. /\ bitrate' = NextBitrate(p)
          /\ ticks_to_survive' = NextTicksToSurvive(p)
      BY <2>1 DEF HandleFeedback, StoreBitrate
    <3>2. RaiseOverflows(p) => wrapped' /\ ~overflow_checks
      BY <2>1 DEF HandleFeedback, StoreBitrate
    <3> QED
      BY <3>1, <3>2, NextBitrateFacts
  <2>2. ASSUME bitrate' = bitrate PROVE Lasts
    BY <2>2 DEF BitrateInv, TypeOK
  <2> QED
    BY <2>1, <2>2
       DEF Next, FeedbackPanics, UpdateBitrate, SetBitrate, SenderPanics,
           feedbackVars
<1> QED
  BY <1>1, BitrateInvariant, PTL DEF Spec, LoweredHasToLastLonger

-----------------------------------------------------------------------------
StreamByte == [message : Message, place : Nat]

\* The type invariant, and that the buffer holds bytes.
ConnectionTypes ==
    /\ ConnectionTypeOK
    /\ msg_buffer \in [1 .. BufferSize -> StreamByte \cup {Zero}]

-----------------------------------------------------------------------------
\* The facts about numbers that the reading rests on.

LEMMA MaxOfTwo ==
    ASSUME NEW a \in Nat, NEW b \in Nat
    PROVE  Max({a, b}) \in {a, b} /\ Max({a, b}) >= a /\ Max({a, b}) >= b
<1>1. \E x \in {a, b} : \A y \in {a, b} : x >= y
  OBVIOUS
<1> QED
  BY <1>1 DEF Max

LEMMA MinOfTwo ==
    ASSUME NEW a \in Nat, NEW b \in Nat
    PROVE  Min({a, b}) \in {a, b} /\ Min({a, b}) <= a /\ Min({a, b}) <= b
<1>1. \E x \in {a, b} : \A y \in {a, b} : x <= y
  OBVIOUS
<1> QED
  BY <1>1 DEF Min

\* The buffer has room for one message and its type, and never for the message
\* behind it as well: a report and an ack follow each other.
LEMMA BufferHoldsOne ==
    /\ BufferSize \in Nat \ {0}
    /\ \A m \in Nat : /\ Length(m) \in Nat
                      /\ Length(m) > 1
                      /\ Length(m) <= BufferSize
                      /\ BufferSize < Length(m) + Length(m + 1)
<1>1. BufferSize \in {FeedbackBytes + 1, AckBytes + 1}
          /\ BufferSize >= FeedbackBytes + 1 /\ BufferSize >= AckBytes + 1
  BY MaxOfTwo, ConnectionAssumption DEF BufferSize
<1>2. \A m \in Nat : m % 2 = 1 <=> (m + 1) % 2 # 1
  OBVIOUS
<1> QED
  BY <1>1, <1>2, ConnectionAssumption DEF Length

\* What a write puts on the connection.
LEMMA BytesFacts ==
    ASSUME NEW m \in Message, NEW n \in Nat
    PROVE  /\ Bytes(m, n) \in Seq(StreamByte)
           /\ Len(Bytes(m, n)) = n
           /\ \A i \in 1 .. n : Bytes(m, n)[i] = Byte(m, i - 1)
  BY DEF Bytes, Byte, StreamByte

-----------------------------------------------------------------------------
\* What stays true of unread bytes as long as every message is written whole.

\* Each byte is followed by the next of its message, the last one by the first
\* of the next message.
Adjacent(s) ==
    \A i \in 1 .. Len(s) - 1 :
        \/ s[i + 1] = Byte(s[i].message, s[i].place + 1)
        \/ /\ s[i].place + 1 = Length(s[i].message)
           /\ s[i + 1] = Byte(s[i].message + 1, 0)

\* A message lacks at most bytes that have been read: where one byte of it is,
\* all the others are at their distance from it, but for those before the
\* first.
Whole(s) ==
    \A i \in 1 .. Len(s) :
        /\ s[i].place < Length(s[i].message)
        /\ \A p \in 0 .. Length(s[i].message) - 1 :
              i - s[i].place + p >= 1 =>
                  /\ i - s[i].place + p <= Len(s)
                  /\ s[i - s[i].place + p] = Byte(s[i].message, p)

EndsWith(s, m) == s # <<>> => s[Len(s)] = Byte(m, Length(m) - 1)

LEMMA ByteOfStream ==
    ASSUME NEW s \in Seq(StreamByte), NEW i \in 1 .. Len(s)
    PROVE  /\ s[i].message \in Message
           /\ s[i].message \in Nat
           /\ s[i].place \in Nat
           /\ Length(s[i].message) \in Nat
<1>1. s[i] \in StreamByte
  BY ElementOfSeq
<1>2. s[i].message \in Message /\ s[i].place \in Nat
  BY <1>1 DEF StreamByte
<1>3. s[i].message \in Nat
  BY <1>2 DEF Message
<1> QED
  BY <1>2, <1>3, BufferHoldsOne

LEMMA Distances ==
    ASSUME NEW n \in Nat, NEW i \in Nat, NEW q \in Nat, NEW p \in Nat
    PROVE  /\ i - q + p \in Int
           /\ (n + i) - q + p = n + (i - q + p)
           /\ i - q + p >= 1 => i - q + p \in Nat /\ n + (i - q + p) >= 1
           /\ i > 0 => i - (i - 1) + p = p + 1
  OBVIOUS

\* It is kept when bytes are read,
LEMMA SuffixFacts ==
    ASSUME NEW s \in Seq(StreamByte), NEW n \in 1 .. Len(s),
           NEW t, t = SubSeq(s, n + 1, Len(s))
    PROVE  /\ t \in Seq(StreamByte)
           /\ Len(t) = Len(s) - n
           /\ \A i \in 1 .. Len(t) : t[i] = s[n + i]
<1>1. t \in Seq(StreamByte) /\ Len(t) = Len(s) - n
  OBVIOUS
<1>2. \A i \in 1 .. Len(t) : t[i] = s[n + i]
  BY <1>1
<1> QED
  BY <1>1, <1>2

LEMMA SuffixKeeps ==
    ASSUME NEW s \in Seq(StreamByte), NEW n \in 1 .. Len(s), Adjacent(s), Whole(s),
           NEW t, t = SubSeq(s, n + 1, Len(s))
    PROVE  Adjacent(t) /\ Whole(t) /\ \A m : EndsWith(s, m) => EndsWith(t, m)
<1>1. /\ t \in Seq(StreamByte)
      /\ Len(t) = Len(s) - n
      /\ \A i \in 1 .. Len(t) : t[i] = s[n + i]
  BY SuffixFacts
<1>2. Adjacent(t)
  BY <1>1 DEF Adjacent
<1>3. Whole(t)
  <2> SUFFICES ASSUME NEW i \in 1 .. Len(t)
               PROVE  /\ t[i].place < Length(t[i].message)
                      /\ \A p \in 0 .. Length(t[i].message) - 1 :
                            i - t[i].place + p >= 1 =>
                                /\ i - t[i].place + p <= Len(t)
                                /\ t[i - t[i].place + p] = Byte(t[i].message, p)
    BY DEF Whole
  <2>1. n + i \in 1 .. Len(s) /\ t[i] = s[n + i]
    BY <1>1
  <2>2. t[i].place \in Nat /\ t[i].message \in Nat /\ t[i].place < Length(t[i].message)
            /\ Length(t[i].message) \in Nat
    <3>1. s[n + i].place < Length(s[n + i].message)
      BY <2>1 DEF Whole
    <3> QED
      BY <2>1, <3>1, ByteOfStream
  <2>3. ASSUME NEW p \in 0 .. Length(t[i].message) - 1, i - t[i].place + p >= 1
        PROVE  /\ i - t[i].place + p <= Len(t)
               /\ t[i - t[i].place + p] = Byte(t[i].message, p)
    <3> DEFINE q == t[i].place
               k == i - q + p
    <3>0. q = s[n + i].place /\ q \in Nat /\ n \in Nat /\ i \in Nat
      BY <2>1, <2>2
    <3>a. i - q + p >= 1
      BY <2>3
    <3>b. p \in Nat
      BY <2>2
    <3> HIDE DEF q
    <3>1. k \in Nat /\ k >= 1 /\ (n + i) - q + p = n + k /\ n + k >= 1
      <4> HIDE DEF k
      <4>1. (n + i) - q + p = n + (i - q + p)
        BY <3>0, <3>b, Distances
      <4>2. i - q + p \in Nat /\ n + (i - q + p) >= 1
        BY <3>0, <3>a, <3>b, Distances
      <4> QED
        BY <3>a, <4>1, <4>2 DEF k
    <3> HIDE DEF k
    <3>2. n + k <= Len(s) /\ s[n + k] = Byte(t[i].message, p)
      BY <2>1, <3>0, <3>1 DEF Whole
    <3>3. k \in 1 .. Len(t)
      BY <1>1, <3>1, <3>2
    <3> QED
      BY <1>1, <3>2, <3>3 DEF k, q
  <2> QED
    BY <2>2, <2>3
<1>4. ASSUME NEW m, EndsWith(s, m) PROVE EndsWith(t, m)
  <2>1. t # <<>> => Len(t) \in 1 .. Len(t) /\ n + Len(t) = Len(s) /\ s # <<>>
    BY <1>1
  <2> QED
    BY <1>1, <1>4, <2>1 DEF EndsWith
<1> QED
  BY <1>2, <1>3, <1>4

\* and when the next message is written.
LEMMA AppendKeeps ==
    ASSUME NEW s \in Seq(StreamByte), NEW m \in Nat, m + 1 \in Message,
           Adjacent(s), Whole(s), EndsWith(s, m),
           NEW t, t = s \o Bytes(m + 1, Length(m + 1))
    PROVE  Adjacent(t) /\ Whole(t) /\ EndsWith(t, m + 1)
<1> DEFINE n == Length(m + 1)
<1>1. n \in Nat /\ n > 1
  BY BufferHoldsOne
<1>2. /\ t \in Seq(StreamByte)
      /\ Len(t) = Len(s) + n
      /\ \A i \in 1 .. Len(s) : t[i] = s[i]
      /\ \A i \in 1 .. n : t[Len(s) + i] = Byte(m + 1, i - 1)
  <2> DEFINE b == Bytes(m + 1, n)
  <2>1. b \in Seq(StreamByte) /\ Len(b) = n /\ \A i \in 1 .. n : b[i] = Byte(m + 1, i - 1)
    BY <1>1, BytesFacts
  <2> HIDE DEF n, b
  <2>2. t = s \o b
    BY DEF n, b
  <2> HIDE DEF StreamByte
  <2>3. t \in Seq(StreamByte) /\ Len(t) = Len(s) + n
    BY <1>1, <2>1, <2>2, ConcatProperties
  <2>4. \A i \in 1 .. Len(s) : t[i] = s[i]
    BY <2>1, <2>2
  <2>5. \A i \in 1 .. n : t[Len(s) + i] = b[i]
    BY <1>1, <2>1, <2>2
  <2> QED
    BY <2>1, <2>3, <2>4, <2>5
<1> HIDE DEF n
<1>3. \A i \in 1 .. Len(t) : i <= Len(s) \/ i - Len(s) \in 1 .. n
  BY <1>1, <1>2
<1>4. Adjacent(t)
  <2> SUFFICES ASSUME NEW i \in 1 .. Len(t) - 1
               PROVE  \/ t[i + 1] = Byte(t[i].message, t[i].place + 1)
                      \/ /\ t[i].place + 1 = Length(t[i].message)
                         /\ t[i + 1] = Byte(t[i].message + 1, 0)
    BY DEF Adjacent
  <2>1. CASE i < Len(s)
    BY <1>1, <1>2, <2>1 DEF Adjacent
  <2>2. CASE i = Len(s)
    <3>1. s # <<>> /\ t[i] = Byte(m, Length(m) - 1)
      BY <1>2, <2>2 DEF EndsWith
    <3>2. t[i + 1] = Byte(m + 1, 0)
      BY <1>1, <1>2, <2>2
    <3> DEFINE l == Length(m)
    <3>3. l \in Nat
      BY BufferHoldsOne
    <3>4. t[i].message = m /\ t[i].place = l - 1
      BY <3>1 DEF Byte
    <3> HIDE DEF l
    <3>5. t[i].place + 1 = l
      <4>1. (l - 1) + 1 = l
        BY <3>3
      <4> QED
        BY <3>4, <4>1
    <3> QED
      BY <3>2, <3>4, <3>5 DEF l
  <2>3. CASE i > Len(s)
    <3> DEFINE j == i - Len(s)
    <3>1. j \in 1 .. n /\ j + 1 \in 1 .. n /\ i = Len(s) + j /\ i + 1 = Len(s) + (j + 1)
      BY <1>1, <1>2, <2>3
    <3>2. t[i] = Byte(m + 1, j - 1) /\ t[i + 1] = Byte(m + 1, (j + 1) - 1)
      BY <1>2, <3>1
    <3> QED
      BY <3>1, <3>2 DEF Byte
  <2> QED
    BY <2>1, <2>2, <2>3
<1>5. Whole(t)
  <2> SUFFICES ASSUME NEW i \in 1 .. Len(t)
               PROVE  /\ t[i].place < Length(t[i].message)
                      /\ \A p \in 0 .. Length(t[i].message) - 1 :
                            i - t[i].place + p >= 1 =>
                                /\ i - t[i].place + p <= Len(t)
                                /\ t[i - t[i].place + p] = Byte(t[i].message, p)
    BY DEF Whole
  <2>1. CASE i <= Len(s)
    <3>1. i \in 1 .. Len(s) /\ t[i] = s[i]
      BY <1>2, <2>1
    <3>2. s[i].place \in Nat /\ Length(s[i].message) \in Nat
      BY <3>1, ByteOfStream
    <3>3. s[i].place < Length(s[i].message)
      BY <3>1 DEF Whole
    <3>4. ASSUME NEW p \in 0 .. Length(s[i].message) - 1, i - s[i].place + p >= 1
          PROVE  /\ i - s[i].place + p <= Len(t)
                 /\ t[i - s[i].place + p] = Byte(s[i].message, p)
      <4> DEFINE k == i - s[i].place + p
      <4>1. k <= Len(s) /\ s[k] = Byte(s[i].message, p)
        BY <3>1, <3>4 DEF Whole
      <4>2. k \in 1 .. Len(s)
        BY <3>2, <3>4, <4>1
      <4> QED
        BY <1>1, <1>2, <4>1, <4>2
    <3> QED
      BY <3>1, <3>3, <3>4
  <2>2. CASE i > Len(s)
    <3> DEFINE j == i - Len(s)
    <3>1. j \in 1 .. n /\ i = Len(s) + j
      BY <1>1, <1>2, <2>2
    <3>2. t[i].message = m + 1 /\ t[i].place = j - 1
      <4>1. t[i] = Byte(m + 1, j - 1)
        BY <1>2, <3>1
      <4> QED
        BY <4>1 DEF Byte
    <3>3. t[i].place < Length(t[i].message)
      <4>1. j - 1 < n
        BY <1>1, <3>1
      <4> QED
        BY <3>2, <4>1 DEF n
    <3>4. ASSUME NEW p \in 0 .. n - 1
          PROVE  /\ i - t[i].place + p <= Len(t)
                 /\ t[i - t[i].place + p] = Byte(m + 1, p)
      <4>1. i - t[i].place + p = Len(s) + (p + 1) /\ p + 1 \in 1 .. n
        <5>1. j \in Nat /\ j > 0 /\ j - 1 \in Nat /\ Len(s) \in Nat /\ p \in Nat
          BY <1>1, <3>1
        <5>2. i - t[i].place + p = (Len(s) + j) - (j - 1) + p
          BY <3>1, <3>2
        <5> HIDE DEF j
        <5>3. (Len(s) + j) - (j - 1) + p = Len(s) + (j - (j - 1) + p)
          BY <5>1, Distances
        <5>4. j - (j - 1) + p = p + 1
          BY <5>1, Distances
        <5>5. p + 1 \in 1 .. n
          BY <1>1
        <5> QED
          BY <5>2, <5>3, <5>4, <5>5
      <4>2. t[Len(s) + (p + 1)] = Byte(m + 1, (p + 1) - 1)
        BY <1>2, <4>1
      <4>3. (p + 1) - 1 = p /\ Len(s) + (p + 1) <= Len(t)
        BY <1>1, <1>2, <4>1
      <4> HIDE DEF j
      <4> QED
        BY <4>1, <4>2, <4>3
    <3> QED
      BY <3>2, <3>3, <3>4 DEF n
  <2>3. i <= Len(s) \/ i > Len(s)
    BY <1>2
  <2> QED
    BY <2>1, <2>2, <2>3
<1>6. EndsWith(t, m + 1)
  <2>1. Len(t) = Len(s) + n /\ n \in 1 .. n
    BY <1>1, <1>2
  <2>2. t[Len(t)] = Byte(m + 1, n - 1)
    BY <1>2, <2>1
  <2> QED
    BY <2>2 DEF EndsWith, n
<1> QED
  BY <1>4, <1>5, <1>6

\* A read that starts where a message starts has all of it before it, and of
\* what follows less than the buffer has room for: unless it takes that message
\* and nothing else, it leaves the head inside a message.
LEMMA ReadAtBoundary ==
    ASSUME NEW s \in Seq(StreamByte), Adjacent(s), Whole(s),
           s # <<>>, s[1].place = 0,
           NEW n \in 1 .. Len(s), n <= BufferSize
    PROVE  LET m == s[1].message
           IN  /\ m \in Message
               /\ Length(m) <= Len(s)
               /\ \A i \in 1 .. Length(m) : s[i] = Byte(m, i - 1)
               /\ n # Length(m) => n < Len(s) /\ s[n + 1].place # 0
               /\ n = Length(m) /\ n < Len(s) => s[n + 1] = Byte(m + 1, 0)
<1> DEFINE m == s[1].message
           l == Length(m)
<1>1. m \in Message /\ m \in Nat /\ 1 \in 1 .. Len(s)
  <2>1. 1 \in 1 .. Len(s)
    OBVIOUS
  <2>2. s[1] \in StreamByte
    BY <2>1, ElementOfSeq
  <2> QED
    BY <2>1, <2>2 DEF StreamByte, Message
<1> HIDE DEF m
<1>2. l \in Nat /\ l > 1 /\ Length(m + 1) \in Nat /\ BufferSize \in Nat
          /\ BufferSize < l + Length(m + 1)
  <2>1. m + 1 \in Nat
    BY <1>1
  <2> QED
    BY <1>1, <2>1, BufferHoldsOne
<1>3. \A p \in 0 .. l - 1 : 1 + p <= Len(s) /\ s[1 + p] = Byte(m, p)
  <2> SUFFICES ASSUME NEW p \in 0 .. l - 1
               PROVE  1 + p <= Len(s) /\ s[1 + p] = Byte(m, p)
    OBVIOUS
  <2>1. 1 - s[1].place + p = 1 + p /\ 1 + p >= 1
    OBVIOUS
  <2> QED
    BY <1>1, <2>1 DEF Whole, m
<1> HIDE DEF l
<1>4. l <= Len(s)
  <2>1. l - 1 \in 0 .. l - 1 /\ 1 + (l - 1) = l
    BY <1>2
  <2> QED
    BY <1>3, <2>1
<1>5. \A i \in 1 .. l : s[i] = Byte(m, i - 1)
  <2> SUFFICES ASSUME NEW i \in 1 .. l PROVE s[i] = Byte(m, i - 1)
    OBVIOUS
  <2>1. i - 1 \in 0 .. l - 1 /\ 1 + (i - 1) = i
    BY <1>2
  <2> QED
    BY <1>3, <2>1
<1>6. l < Len(s) => s[l + 1] = Byte(m + 1, 0)
  <2> SUFFICES ASSUME l < Len(s) PROVE s[l + 1] = Byte(m + 1, 0)
    OBVIOUS
  <2>1. l \in 1 .. Len(s) - 1 /\ l + 1 \in 1 .. Len(s)
    BY <1>2
  <2>2. s[l] = Byte(m, l - 1)
    BY <1>2, <1>5
  <2>3. s[l + 1] # Byte(m, l)
    <3>1. s[l + 1].place < Length(s[l + 1].message)
      BY <2>1 DEF Whole
    <3> QED
      BY <1>2, <3>1 DEF Byte, l
  <2> QED
    BY <1>2, <2>1, <2>2, <2>3 DEF Adjacent, Byte
<1>7. ASSUME n < l PROVE n < Len(s) /\ s[n + 1].place # 0
  <2>1. n + 1 \in 1 .. l /\ n < Len(s)
    BY <1>2, <1>4, <1>7
  <2>2. s[n + 1] = Byte(m, (n + 1) - 1)
    BY <1>5, <2>1
  <2> QED
    BY <2>1, <2>2 DEF Byte
<1>8. ASSUME n > l PROVE n < Len(s) /\ s[n + 1].place # 0
  <2>1. l < Len(s) /\ l + 1 \in 1 .. Len(s)
    BY <1>2, <1>8
  <2>2. s[l + 1].message = m + 1 /\ s[l + 1].place = 0
    BY <1>6, <2>1 DEF Byte
  <2> DEFINE p == n - l
  <2>3. p \in 0 .. Length(m + 1) - 1 /\ (l + 1) - 0 + p = n + 1 /\ n + 1 >= 1 /\ p # 0
    BY <1>2, <1>8
  <2> HIDE DEF p
  <2>4. n + 1 <= Len(s) /\ s[n + 1] = Byte(m + 1, p)
    BY <2>1, <2>2, <2>3 DEF Whole
  <2> QED
    BY <2>3, <2>4 DEF Byte
<1> QED
  BY <1>1, <1>2, <1>4, <1>5, <1>6, <1>7, <1>8 DEF l, m

-----------------------------------------------------------------------------
\* The last message the server has read something of.
Taken == IF stream = <<>> THEN messages ELSE Head(stream).message - 1

\* As long as every message is written whole the unread bytes are whole messages
\* but for the first, up to the last one written.
StreamInStep ==
    short_writes = 0 =>
        /\ Adjacent(stream)
        /\ Whole(stream)
        /\ server # "panicked" => EndsWith(stream, messages)

\* Without a write onto unread bytes one read can take them all.
RoomUnlessBacklog == ~backlog => Len(stream) <= BufferSize

\* The server is in step with the client: the buffer begins with the message
\* read last, which has been acted on as all before it and none behind it.
InStep ==
    /\ stream # <<>> => Head(stream).place = 0
    /\ Taken = 0 => msg_buffer[1] = Zero
    /\ Taken > 0 => Holds(msg_buffer, Taken)
    /\ garbled \/ server = "panicked" => client = "gone" /\ messages = 0
    /\ \A m \in Message :
          /\ m > Taken => acted[m] = 0
          /\ acted[m] > 1 => m = messages /\ client = "gone" /\ stream = <<>>

\* It stays so as long as no read ends inside a message.
InStepUnlessSplit == ~split /\ short_writes = 0 => InStep

ConnectionInv ==
    /\ ConnectionTypes
    /\ StreamInStep
    /\ SplitNeedsBacklog
    /\ RoomUnlessBacklog
    /\ InStepUnlessSplit

-----------------------------------------------------------------------------
\* A whole message at the begin of the buffer is handled as that message.
LEMMA HandleWhole ==
    ASSUME NEW buffer, NEW m \in Message, Holds(buffer, m), Handle(buffer)
    PROVE  /\ server' = server
           /\ garbled' = garbled
           /\ acted' = [acted EXCEPT ![m] = IF @ < MaxHandled THEN @ + 1 ELSE @]
<1>1. m \in Nat /\ Length(m) \in Nat /\ 1 \in 1 .. Length(m)
  <2>1. m \in Nat
    BY DEF Message
  <2> QED
    BY <2>1, BufferHoldsOne
<1>2. buffer[1] = Byte(m, 0)
  BY <1>1 DEF Holds
<1>3. buffer[1].message = m /\ buffer[1].place = 0 /\ buffer[1] # Zero
  <2>1. Byte(m, 0) \in [message : Nat, place : Nat]
    BY <1>1 DEF Byte
  <2> QED
    BY <1>2, <2>1, ConnectionAssumption DEF Byte
<1>4. Types(buffer[1]) = {Kind(m)} /\ Kind(m) # "unknown"
  BY <1>3 DEF Types, Kind
<1> QED
  BY <1>3, <1>4 DEF Handle

\* The zeros of a buffer nothing was read into are no message of the client.
LEMMA HandleZeros ==
    ASSUME NEW buffer, buffer[1] = Zero, Handle(buffer)
    PROVE  acted' = acted
<1>1. ASSUME NEW m \in Message, Holds(buffer, m) PROVE FALSE
  <2>1. m \in Nat /\ Length(m) \in Nat /\ 1 \in 1 .. Length(m)
    <3>1. m \in Nat
      BY DEF Message
    <3> QED
      BY <3>1, BufferHoldsOne
  <2>2. Zero = Byte(m, 0)
    BY <1>1, <2>1 DEF Holds
  <2>3. Byte(m, 0) \in [message : Nat, place : Nat]
    BY <2>1 DEF Byte
  <2> QED
    BY <2>2, <2>3, ConnectionAssumption
<1> QED
  BY <1>1 DEF Handle

\* Whatever the buffer holds, handling it counts a message or none, and at most
\* ends the thread.
LEMMA HandleTypes ==
    ASSUME ConnectionTypeOK, NEW buffer, Handle(buffer)
    PROVE  /\ server' \in {server, "reading", "panicked"}
           /\ garbled' \in BOOLEAN
           /\ acted' \in [Message -> 0 .. MaxHandled]
<1>1. CASE \E m \in Message : Holds(buffer, m)
  <2>1. PICK m \in Message : Holds(buffer, m)
    BY <1>1
  <2>2. /\ server' = server
        /\ garbled' = garbled
        /\ acted' = [acted EXCEPT ![m] = IF @ < MaxHandled THEN @ + 1 ELSE @]
    BY <2>1, HandleWhole
  <2>3. acted \in [Message -> 0 .. MaxHandled] /\ garbled \in BOOLEAN
    BY DEF ConnectionTypeOK
  <2>4. (IF acted[m] < MaxHandled THEN acted[m] + 1 ELSE acted[m]) \in 0 .. MaxHandled
    BY <2>3, ConnectionAssumption
  <2> QED
    BY <2>2, <2>3, <2>4
<1>2. CASE ~ \E m \in Message : Holds(buffer, m)
  <2>1. garbled \in BOOLEAN /\ acted \in [Message -> 0 .. MaxHandled]
    BY DEF ConnectionTypeOK
  <2> QED
    BY <1>2, <2>1 DEF Handle
<1> QED
  BY <1>1, <1>2

\* What a read does besides handling the buffer.
LEMMA ReadTakes ==
    ASSUME ConnectionTypes, Read
    PROVE  \E n \in 1 .. Len(stream) :
              /\ n <= BufferSize
              /\ n < Len(stream) /\ n < BufferSize => partial'
              /\ stream' = SubSeq(stream, n + 1, Len(stream))
              /\ msg_buffer' \in [1 .. BufferSize -> StreamByte \cup {Zero}]
              /\ \A i \in 1 .. n : msg_buffer'[i] = stream[i]
              /\ Handle(msg_buffer')
              /\ partial' \in BOOLEAN /\ (partial => partial')
<1>1. stream \in Seq(StreamByte) /\ partial \in BOOLEAN
          /\ msg_buffer \in [1 .. BufferSize -> StreamByte \cup {Zero}]
  BY DEF ConnectionTypes, ConnectionTypeOK, StreamByte
<1>2. BufferSize \in Nat /\ Len(stream) \in Nat
  BY <1>1, BufferHoldsOne
<1>3. /\ Min({BufferSize, Len(stream)}) \in {BufferSize, Len(stream)}
      /\ Min({BufferSize, Len(stream)}) <= BufferSize
      /\ Min({BufferSize, Len(stream)}) <= Len(stream)
  BY <1>2, MinOfTwo
<1>4. PICK n \in 1 .. Min({BufferSize, Len(stream)}) :
        /\ msg_buffer' = [i \in 1 .. BufferSize |->
                              IF i <= n THEN stream[i] ELSE msg_buffer[i]]
        /\ stream' = SubSeq(stream, n + 1, Len(stream))
        /\ Handle([i \in 1 .. BufferSize |->
                      IF i <= n THEN stream[i] ELSE msg_buffer[i]])
        /\ partial' = (partial \/ n < Min({BufferSize, Len(stream)}))
  BY DEF Read
<1>5. n \in 1 .. Len(stream) /\ n <= BufferSize /\ \A i \in 1 .. n : i \in 1 .. BufferSize
  BY <1>2, <1>3
<1>6. \A i \in 1 .. n : stream[i] \in StreamByte
  <2> SUFFICES ASSUME NEW i \in 1 .. n PROVE stream[i] \in StreamByte
    OBVIOUS
  <2>1. i \in 1 .. Len(stream)
    BY <1>2, <1>5
  <2> QED
    BY <1>1, <2>1, ElementOfSeq
<1>7. msg_buffer' \in [1 .. BufferSize -> StreamByte \cup {Zero}]
  <2> HIDE DEF StreamByte
  <2> SUFFICES ASSUME NEW i \in 1 .. BufferSize
               PROVE  (IF i <= n THEN stream[i] ELSE msg_buffer[i]) \in StreamByte \cup {Zero}
    BY <1>4
  <2> QED
    BY <1>1, <1>5, <1>6
<1>8. \A i \in 1 .. n : msg_buffer'[i] = stream[i]
  BY <1>4, <1>5
<1>9. n < Len(stream) /\ n < BufferSize => partial'
  BY <1>3, <1>4
<1> QED
  BY <1>1, <1>4, <1>5, <1>7, <1>8, <1>9

\* A read that starts where a message starts, once every message is written
\* whole: taking the message or more it acts on it, and unless it takes just
\* the message it ends inside another.
LEMMA ReadInStep ==
    ASSUME ConnectionTypes, StreamInStep, short_writes = 0, Read,
           Head(stream).place = 0
    PROVE  LET m == Head(stream).message
               n == Len(stream) - Len(stream')
           IN  /\ m \in Message
               /\ n >= Length(m) => /\ Holds(msg_buffer', m)
                                   /\ Handle(msg_buffer')
               /\ n # Length(m) => stream' # <<>> /\ Head(stream').place # 0
               /\ n = Length(m) /\ stream' # <<>> => Head(stream') = Byte(m + 1, 0)
               /\ n = Length(m) /\ stream' = <<>> => m = messages
<1> DEFINE m == Head(stream).message
           l == Length(m)
<1>1. stream \in Seq(StreamByte) /\ stream # <<>> /\ server = "reading"
  BY DEF ConnectionTypes, ConnectionTypeOK, StreamByte, Read
<1>2. stream[1].message = m /\ stream[1].place = 0
  BY <1>1
<1>3. Adjacent(stream) /\ Whole(stream) /\ EndsWith(stream, messages)
  BY <1>1 DEF StreamInStep
<1>4. PICK n \in 1 .. Len(stream) :
        /\ n <= BufferSize
        /\ stream' = SubSeq(stream, n + 1, Len(stream))
        /\ \A i \in 1 .. n : msg_buffer'[i] = stream[i]
        /\ Handle(msg_buffer')
  BY ReadTakes
<1>5. /\ stream' \in Seq(StreamByte)
      /\ Len(stream') = Len(stream) - n
      /\ \A i \in 1 .. Len(stream') : stream'[i] = stream[n + i]
  BY <1>1, <1>4, SuffixFacts
<1>6. n = Len(stream) - Len(stream') /\ n \in Nat /\ Len(stream) \in Nat
  BY <1>1, <1>5
<1>7. /\ stream' = <<>> <=> n = Len(stream)
      /\ stream' # <<>> => n < Len(stream) /\ Head(stream') = stream[n + 1]
  BY <1>1, <1>5
<1>8. /\ m \in Message
      /\ l <= Len(stream)
      /\ \A i \in 1 .. l : stream[i] = Byte(m, i - 1)
      /\ n # l => n < Len(stream) /\ stream[n + 1].place # 0
      /\ n = l /\ n < Len(stream) => stream[n + 1] = Byte(m + 1, 0)
  BY <1>1, <1>2, <1>3, <1>4, ReadAtBoundary
<1>9. l \in Nat /\ l > 1 /\ l <= BufferSize
  <2>1. m \in Nat
    BY <1>8 DEF Message
  <2> QED
    BY <2>1, BufferHoldsOne
<1> HIDE DEF m, l
<1>10. n >= l => Holds(msg_buffer', m)
  <2> SUFFICES ASSUME n >= l PROVE Holds(msg_buffer', m)
    OBVIOUS
  <2>1. \A i \in 1 .. l : i \in 1 .. n
    BY <1>6, <1>9
  <2>2. \A i \in 1 .. l : msg_buffer'[i] = Byte(m, i - 1)
    BY <1>4, <1>8, <2>1
  <2> QED
    BY <1>9, <2>2 DEF Holds, l
<1>11. n = l /\ n = Len(stream) => m = messages
  <2> SUFFICES ASSUME n = l, n = Len(stream) PROVE m = messages
    OBVIOUS
  <2>1. l \in 1 .. l
    BY <1>9
  <2>2. stream[Len(stream)] = Byte(m, l - 1)
    BY <1>8, <2>1
  <2>3. stream[Len(stream)] = Byte(messages, Length(messages) - 1)
    BY <1>1, <1>3 DEF EndsWith
  <2> QED
    BY <2>2, <2>3 DEF Byte
<1>12. n # l => stream' # <<>> /\ Head(stream').place # 0
  BY <1>6, <1>7, <1>8
<1>13. n = l /\ stream' # <<>> => Head(stream') = Byte(m + 1, 0)
  BY <1>7, <1>8
<1>14. n = l /\ stream' = <<>> => m = messages
  BY <1>7, <1>11
<1>15. m \in Message /\ (n >= l => Holds(msg_buffer', m) /\ Handle(msg_buffer'))
  BY <1>4, <1>8, <1>10
<1> HIDE DEF Holds, Handle, Byte, Length, Message
<1> QED
  BY <1>6, <1>12, <1>13, <1>14, <1>15 DEF l, m

-----------------------------------------------------------------------------
LEMMA ConnectionInvInit == ConnectionInit => ConnectionInv
<1> SUFFICES ASSUME ConnectionInit PROVE ConnectionInv
  OBVIOUS
<1>1. BufferSize \in Nat \ {0} /\ 1 \in 1 .. BufferSize
  BY BufferHoldsOne
<1>2. ConnectionTypes
  <2>1. stream \in Seq([message : Message, place : Nat])
    BY DEF ConnectionInit
  <2>2. msg_buffer \in [1 .. BufferSize -> StreamByte \cup {Zero}]
          /\ DOMAIN msg_buffer = 1 .. BufferSize
    BY DEF ConnectionInit
  <2>3. acted \in [Message -> 0 .. MaxHandled]
    BY ConnectionAssumption DEF ConnectionInit
  <2>4. messages \in 0 .. MaxMessages /\ short_writes \in 0 .. MaxShortWrites
    BY ConnectionAssumption DEF ConnectionInit
  <2> QED
    BY <2>1, <2>2, <2>3, <2>4 DEF ConnectionInit, ConnectionTypes, ConnectionTypeOK
<1>3. StreamInStep
  BY DEF ConnectionInit, StreamInStep, Adjacent, Whole, EndsWith
<1>4. SplitNeedsBacklog /\ RoomUnlessBacklog
  BY <1>1 DEF ConnectionInit, SplitNeedsBacklog, RoomUnlessBacklog
<1>5. InStepUnlessSplit
  BY <1>1, ConnectionAssumption DEF ConnectionInit, InStepUnlessSplit, InStep, Taken, Message
<1> QED
  BY <1>2, <1>3, <1>4, <1>5 DEF ConnectionInv

\* Bytes of the next message, or of a part of it, are what a write puts behind
\* those not read yet.
LEMMA WriteFacts ==
    ASSUME ConnectionTypes, Write
    PROVE  /\ messages' = messages + 1 /\ messages' \in Message /\ messages \in Nat
           /\ client \in {"reporting", "acking"} /\ client' \in {"reporting", "acking"}
           /\ short_writes' \in 0 .. MaxShortWrites /\ backlog' \in BOOLEAN
           /\ \/ /\ server = "panicked"
                 /\ stream' = stream /\ short_writes' = short_writes /\ backlog' = backlog
              \/ /\ server # "panicked"
                 /\ backlog' = (backlog \/ stream # <<>>)
                 /\ \E n \in 1 .. Length(messages + 1) :
                       /\ stream' = stream \o Bytes(messages + 1, n)
                       /\ \/ n = Length(messages + 1) /\ short_writes' = short_writes
                          \/ short_writes' = short_writes + 1
<1>1. messages \in Nat /\ messages' = messages + 1 /\ messages' \in Message
          /\ short_writes \in 0 .. MaxShortWrites /\ backlog \in BOOLEAN
  BY ConnectionAssumption DEF ConnectionTypes, ConnectionTypeOK, Write, Message
<1>2. client \in {"reporting", "acking"} /\ client' \in {"reporting", "acking"}
  BY DEF Write
<1> DEFINE l == Length(messages + 1)
<1>3. l \in Nat /\ l > 1
  BY <1>1, BufferHoldsOne
<1> HIDE DEF l
<1>4. CASE server = "panicked"
  BY <1>1, <1>2, <1>4 DEF Write
<1>5. CASE server # "panicked"
  <2>1. backlog' = (backlog \/ stream # <<>>)
    BY <1>5 DEF Write
  <2>2. CASE stream' = stream \o Bytes(messages', Length(messages')) /\ UNCHANGED short_writes
    <3>1. l \in 1 .. l
      BY <1>3
    <3>2. stream' = stream \o Bytes(messages + 1, l)
      BY <1>1, <2>2 DEF l
    <3> QED
      BY <1>1, <1>2, <1>5, <2>1, <2>2, <3>1, <3>2 DEF l
  <2>3. CASE /\ short_writes < MaxShortWrites
             /\ short_writes' = short_writes + 1
             /\ \E n \in 1 .. Length(messages') - 1 : stream' = stream \o Bytes(messages', n)
    <3>1. PICK n \in 1 .. l - 1 : stream' = stream \o Bytes(messages + 1, n)
      BY <1>1, <2>3 DEF l
    <3>2. n \in 1 .. l
      BY <1>3
    <3>3. short_writes' \in 0 .. MaxShortWrites
      BY <1>1, <2>3, ConnectionAssumption
    <3> QED
      BY <1>1, <1>2, <1>5, <2>1, <2>3, <3>1, <3>2, <3>3 DEF l
  <2> QED
    BY <1>5, <2>2, <2>3 DEF Write
<1> QED
  BY <1>4, <1>5

LEMMA TypesPreserved == ConnectionTypes /\ [ConnectionNext]_connectionVars => ConnectionTypes'
<1> SUFFICES ASSUME ConnectionTypes, [ConnectionNext]_connectionVars PROVE ConnectionTypes'
  OBVIOUS
<1> USE DEF ConnectionTypes
<1>1. CASE Bind \/ Connect \/ Accept \/ ClientEnds
  BY <1>1 DEF ConnectionTypeOK, Bind, Connect, Accept, ClientEnds, StreamByte
<1>2. CASE Write
  <2>1. stream' \in Seq(StreamByte)
    <3>1. stream \in Seq(StreamByte)
      BY DEF ConnectionTypeOK, StreamByte
    <3>2. CASE stream' = stream
      BY <3>1, <3>2
    <3>3. CASE stream' # stream
      <4>1. messages + 1 \in Message /\ messages \in Nat
        BY <1>2, WriteFacts
      <4>2. PICK n \in 1 .. Length(messages + 1) :
              stream' = stream \o Bytes(messages + 1, n)
        BY <1>2, <3>3, WriteFacts
      <4>3. n \in Nat
        BY <4>1, BufferHoldsOne
      <4>4. Bytes(messages + 1, n) \in Seq(StreamByte)
        BY <4>1, <4>3, BytesFacts
      <4> HIDE DEF StreamByte
      <4> QED
        BY <3>1, <4>2, <4>4, ConcatProperties
    <3> QED
      BY <3>2, <3>3
  <2>2. /\ client' \in {"reporting", "acking"}
        /\ messages' \in 0 .. MaxMessages
        /\ short_writes' \in 0 .. MaxShortWrites
        /\ backlog' \in BOOLEAN
    BY <1>2, WriteFacts, ConnectionAssumption DEF Message
  <2> QED
    BY <1>2, <2>1, <2>2 DEF ConnectionTypeOK, Write, StreamByte
<1>3. CASE Read
  <2>1. PICK n \in 1 .. Len(stream) :
          /\ stream' = SubSeq(stream, n + 1, Len(stream))
          /\ msg_buffer' \in [1 .. BufferSize -> StreamByte \cup {Zero}]
          /\ Handle(msg_buffer')
          /\ partial' \in BOOLEAN
    BY <1>3, ReadTakes
  <2>2. stream' \in Seq(StreamByte)
    BY <2>1, SuffixFacts DEF ConnectionTypeOK, StreamByte
  <2>3. /\ server' \in {server, "reading", "panicked"}
        /\ garbled' \in BOOLEAN
        /\ acted' \in [Message -> 0 .. MaxHandled]
    BY <2>1, HandleTypes
  <2>4. split' \in BOOLEAN /\ UNCHANGED <<client, messages, backlog, short_writes>>
    BY <1>3 DEF Read, ConnectionTypeOK
  <2> QED
    BY <2>1, <2>2, <2>3, <2>4 DEF ConnectionTypeOK, StreamByte
<1>4. CASE ReadEnd
  <2>1. Handle(msg_buffer)
    BY <1>4 DEF ReadEnd
  <2>2. /\ server' \in {server, "reading", "panicked"}
        /\ garbled' \in BOOLEAN
        /\ acted' \in [Message -> 0 .. MaxHandled]
    BY <2>1, HandleTypes
  <2> QED
    BY <1>4, <2>2 DEF ConnectionTypeOK, ReadEnd
<1>5. CASE UNCHANGED connectionVars
  BY <1>5 DEF ConnectionTypeOK, connectionVars
<1> QED
  BY <1>1, <1>2, <1>3, <1>4, <1>5 DEF ConnectionNext

LEMMA StreamPreserved ==
    ConnectionTypes /\ StreamInStep /\ [ConnectionNext]_connectionVars => StreamInStep'
<1> SUFFICES ASSUME ConnectionTypes, StreamInStep, [ConnectionNext]_connectionVars, short_writes' = 0
             PROVE  /\ Adjacent(stream')
                    /\ Whole(stream')
                    /\ server' # "panicked" => EndsWith(stream', messages')
  BY DEF StreamInStep
<1>0. stream \in Seq(StreamByte) /\ short_writes \in Nat
  BY ConnectionAssumption DEF ConnectionTypes, ConnectionTypeOK, StreamByte
<1>1. CASE Bind \/ Connect \/ Accept \/ ClientEnds \/ ReadEnd \/ UNCHANGED connectionVars
  <2>1. UNCHANGED <<stream, messages, short_writes>> /\ (server = "panicked" => server' = "panicked")
    BY <1>1 DEF Bind, Connect, Accept, ClientEnds, ReadEnd, connectionVars
  <2> QED
    BY <2>1 DEF StreamInStep
<1>2. CASE Write
  <2>1. short_writes = 0 /\ messages \in Nat /\ messages' = messages + 1 /\ messages + 1 \in Message
    BY <1>0, <1>2, WriteFacts
  <2>2. Adjacent(stream) /\ Whole(stream)
    BY <2>1 DEF StreamInStep
  <2>3. CASE server = "panicked"
    <3>1. stream' = stream /\ server' = server
      BY <1>2, <2>3 DEF Write
    <3> QED
      BY <2>2, <2>3, <3>1
  <2>4. CASE server # "panicked"
    <3>1. EndsWith(stream, messages)
      BY <2>1, <2>4 DEF StreamInStep
    <3>2. stream' = stream \o Bytes(messages + 1, Length(messages + 1))
      BY <1>0, <1>2, <2>1, <2>4, WriteFacts
    <3> QED
      BY <1>0, <2>1, <2>2, <3>1, <3>2, AppendKeeps
  <2> QED
    BY <2>3, <2>4
<1>3. CASE Read
  <2>1. short_writes = 0 /\ messages' = messages /\ server = "reading"
    BY <1>3 DEF Read
  <2>2. PICK n \in 1 .. Len(stream) : stream' = SubSeq(stream, n + 1, Len(stream))
    BY <1>3, ReadTakes
  <2>3. Adjacent(stream) /\ Whole(stream) /\ EndsWith(stream, messages)
    BY <2>1 DEF StreamInStep
  <2>4. Adjacent(stream') /\ Whole(stream')
    BY <1>0, <2>2, <2>3, SuffixKeeps
  <2>5. EndsWith(stream', messages)
    BY <1>0, <2>2, <2>3, SuffixKeeps
  <2> QED
    BY <2>1, <2>4, <2>5
<1> QED
  BY <1>1, <1>2, <1>3 DEF ConnectionNext

LEMMA BacklogPreserved ==
    ConnectionTypes /\ SplitNeedsBacklog /\ RoomUnlessBacklog /\ [ConnectionNext]_connectionVars
        => SplitNeedsBacklog' /\ RoomUnlessBacklog'
<1> SUFFICES ASSUME ConnectionTypes, SplitNeedsBacklog, RoomUnlessBacklog, [ConnectionNext]_connectionVars
             PROVE  SplitNeedsBacklog' /\ RoomUnlessBacklog'
  OBVIOUS
<1> USE DEF SplitNeedsBacklog, RoomUnlessBacklog
<1>0. stream \in Seq(StreamByte) /\ BufferSize \in Nat
  BY BufferHoldsOne DEF ConnectionTypes, ConnectionTypeOK, StreamByte
<1>1. CASE Bind \/ Connect \/ Accept \/ ClientEnds \/ ReadEnd \/ UNCHANGED connectionVars
  BY <1>1 DEF Bind, Connect, Accept, ClientEnds, ReadEnd, connectionVars
<1>2. CASE Write
  <2>1. UNCHANGED <<split, partial>> /\ (backlog => backlog')
    BY <1>2, WriteFacts DEF Write
  <2>2. ASSUME ~backlog' PROVE Len(stream') <= BufferSize
    <3>1. CASE stream' = stream
      BY <2>1, <2>2, <3>1
    <3>2. CASE stream' # stream
      <4>1. messages + 1 \in Message /\ messages \in Nat /\ stream = <<>>
        BY <1>2, <2>2, <3>2, WriteFacts
      <4>2. PICK n \in 1 .. Length(messages + 1) :
              stream' = stream \o Bytes(messages + 1, n)
        BY <1>2, <3>2, WriteFacts
      <4>3. n \in Nat /\ n <= BufferSize
        BY <4>1, BufferHoldsOne
      <4>4. Bytes(messages + 1, n) \in Seq(StreamByte) /\ Len(Bytes(messages + 1, n)) = n
        BY <4>1, <4>3, BytesFacts
      <4>5. Len(stream') = Len(stream) + n /\ Len(stream) = 0
        BY <1>0, <4>1, <4>2, <4>4, ConcatProperties
      <4> QED
        BY <4>3, <4>5
    <3> QED
      BY <3>1, <3>2
  <2> QED
    BY <2>1, <2>2
<1>3. CASE Read
  <2>1. PICK n \in 1 .. Len(stream) :
          /\ n < Len(stream) /\ n < BufferSize => partial'
          /\ n <= BufferSize
          /\ stream' = SubSeq(stream, n + 1, Len(stream))
          /\ partial => partial'
    BY <1>3, ReadTakes
  <2>2. Len(stream') = Len(stream) - n /\ Len(stream) \in Nat
    BY <1>0, <2>1, SuffixFacts
  <2>3. backlog' = backlog /\ split' = (split \/ (stream' # <<>> /\ Head(stream').place # 0))
    BY <1>3 DEF Read
  <2>4. ~backlog => Len(stream') <= BufferSize
    BY <1>0, <2>2
  <2>5. ~backlog /\ ~partial' => stream' = <<>>
    <3>1. ~backlog /\ ~partial' => n = Len(stream)
      BY <1>0, <2>1, <2>2
    <3> QED
      BY <1>0, <2>1, <3>1
  <2> QED
    BY <2>1, <2>3, <2>4, <2>5
<1> QED
  BY <1>1, <1>2, <1>3 DEF ConnectionNext

\* A read that ends where a message ends has taken the next message: it is acted
\* on for the first time, and the buffer begins with it.
LEMMA InStepAfterRead ==
    ASSUME ConnectionTypes, StreamInStep, short_writes = 0, InStep, Read, ~split'
    PROVE  InStep'
<1> DEFINE m == Head(stream).message
           n == Len(stream) - Len(stream')
<1>1. stream # <<>> /\ Head(stream).place = 0
          /\ UNCHANGED <<client, messages>> /\ server = "reading"
          /\ (stream' # <<>> => Head(stream').place = 0)
  BY DEF Read, InStep
<1>2. /\ m \in Message
      /\ n >= Length(m) => Holds(msg_buffer', m) /\ Handle(msg_buffer')
      /\ n # Length(m) => stream' # <<>> /\ Head(stream').place # 0
      /\ n = Length(m) /\ stream' # <<>> => Head(stream') = Byte(m + 1, 0)
      /\ n = Length(m) /\ stream' = <<>> => m = messages
  BY <1>1, ReadInStep
<1>3. n = Length(m) /\ m \in Nat /\ m > 0 /\ Length(m) \in Nat
  <2>1. m \in Nat /\ m > 0
    BY <1>2 DEF Message
  <2>2. n = Length(m)
    BY <1>1, <1>2
  <2> QED
    BY <2>1, <2>2, BufferHoldsOne
<1> HIDE DEF n
<1>4. Holds(msg_buffer', m) /\ Handle(msg_buffer')
  BY <1>2, <1>3
<1>5. /\ server' = server
      /\ garbled' = garbled
      /\ acted' = [acted EXCEPT ![m] = IF @ < MaxHandled THEN @ + 1 ELSE @]
  BY <1>2, <1>4, HandleWhole
<1>6. Taken = m - 1
  BY <1>1 DEF Taken
<1>7. Taken' = m
  <2>1. CASE stream' = <<>>
    BY <1>1, <1>2, <1>3, <2>1 DEF Taken
  <2>2. CASE stream' # <<>>
    <3>1. Head(stream').message = m + 1
      BY <1>2, <1>3, <2>2 DEF Byte
    <3>2. (m + 1) - 1 = m
      BY <1>3
    <3> QED
      BY <2>2, <3>1, <3>2 DEF Taken
  <2> QED
    BY <2>1, <2>2
<1> HIDE DEF m
<1>8. acted \in [Message -> 0 .. MaxHandled] /\ acted[m] = 0
  <2>1. m > m - 1
    BY <1>3
  <2> QED
    BY <1>2, <1>6, <2>1 DEF InStep, ConnectionTypes, ConnectionTypeOK
<1>9. acted'[m] = 1 /\ \A k \in Message \ {m} : acted'[k] = acted[k]
  BY <1>2, <1>5, <1>8, ConnectionAssumption
<1>10. ASSUME NEW k \in Message
       PROVE  (k > m => acted'[k] = 0) /\ ~(acted'[k] > 1)
  <2>1. CASE k = m
    BY <1>3, <1>9, <2>1
  <2>2. CASE k # m
    <3>1. acted'[k] = acted[k] /\ ~(acted[k] > 1)
      BY <1>1, <1>9, <2>2 DEF InStep
    <3>2. k > m => k > m - 1
      BY <1>3 DEF Message
    <3> QED
      BY <1>6, <3>1, <3>2 DEF InStep
  <2> QED
    BY <2>1, <2>2
<1>11. garbled' \/ server' = "panicked" => client' = "gone" /\ messages' = 0
  BY <1>1, <1>5 DEF InStep
<1> QED
  BY <1>1, <1>3, <1>4, <1>7, <1>10, <1>11 DEF InStep

LEMMA InStepPreserved ==
    ConnectionTypes /\ StreamInStep /\ InStepUnlessSplit /\ [ConnectionNext]_connectionVars => InStepUnlessSplit'
<1> SUFFICES ASSUME ConnectionTypes, StreamInStep, InStepUnlessSplit, [ConnectionNext]_connectionVars,
                    ~split', short_writes' = 0
             PROVE  InStep'
  BY DEF InStepUnlessSplit
<1>0. stream \in Seq(StreamByte) /\ short_writes \in Nat /\ messages \in 0 .. MaxMessages
          /\ acted \in [Message -> 0 .. MaxHandled]
  BY ConnectionAssumption DEF ConnectionTypes, ConnectionTypeOK, StreamByte
<1>1. CASE Bind \/ Connect \/ Accept \/ ClientEnds \/ UNCHANGED connectionVars
  <2>1. /\ UNCHANGED <<stream, msg_buffer, messages, acted, garbled, split, short_writes>>
        /\ client = "gone" => client' = "gone"
        /\ server' = "panicked" => server = "panicked"
    BY <1>1 DEF Bind, Connect, Accept, ClientEnds, connectionVars
  <2>2. InStep
    BY <2>1 DEF InStepUnlessSplit
  <2>3. Taken' = Taken
    BY <2>1 DEF Taken
  <2> QED
    BY <2>1, <2>2, <2>3 DEF InStep
<1>2. CASE Write
  <2>1. /\ short_writes = 0 /\ messages \in Nat /\ messages' = messages + 1
        /\ client \in {"reporting", "acking"}
        /\ UNCHANGED <<server, msg_buffer, acted, garbled, split>>
    BY <1>0, <1>2, WriteFacts DEF Write
  <2>2. InStep
    BY <2>1 DEF InStepUnlessSplit
  <2>3. server # "panicked" /\ ~garbled
    BY <2>1, <2>2 DEF InStep
  <2> DEFINE l == Length(messages + 1)
             b == Bytes(messages + 1, l)
  <2>4. stream' = stream \o b
    BY <1>0, <1>2, <2>1, <2>3, WriteFacts
  <2>5. b \in Seq(StreamByte) /\ Len(b) > 0 /\ b[1] = Byte(messages + 1, 0)
    <3>1. l \in Nat /\ l > 1 /\ messages + 1 \in Message
      BY <1>2, <2>1, WriteFacts, BufferHoldsOne
    <3> HIDE DEF l
    <3>2. b \in Seq(StreamByte) /\ Len(b) = l /\ \A i \in 1 .. l : b[i] = Byte(messages + 1, i - 1)
      BY <3>1, BytesFacts
    <3> HIDE DEF b
    <3>3. 1 \in 1 .. l /\ 1 - 1 = 0
      BY <3>1
    <3> QED
      BY <3>1, <3>2, <3>3
  <2> HIDE DEF b
  <2>6. /\ stream' # <<>>
        /\ stream # <<>> => Head(stream') = Head(stream)
        /\ stream = <<>> => Head(stream') = b[1]
    <3> HIDE DEF StreamByte
    <3>1. stream' \in Seq(StreamByte) /\ Len(stream') = Len(stream) + Len(b)
      BY <1>0, <2>4, <2>5, ConcatProperties
    <3>2. stream' # <<>> /\ Head(stream') = stream'[1]
      BY <1>0, <2>5, <3>1
    <3>3. 1 \in 1 .. Len(stream) + Len(b)
      BY <1>0, <2>5
    <3>4. stream # <<>> => stream'[1] = stream[1] /\ Head(stream) = stream[1]
      BY <1>0, <2>4, <2>5, <3>3, ConcatProperties
    <3>5. stream = <<>> => stream'[1] = b[1]
      BY <1>0, <2>4, <2>5, <3>3, ConcatProperties
    <3> QED
      BY <3>2, <3>4, <3>5
  <2>7. Head(stream').place = 0
    BY <2>2, <2>5, <2>6 DEF InStep, Byte
  <2>8. Taken' = Taken
    <3>1. (messages + 1) - 1 = messages
      BY <2>1
    <3> QED
      BY <2>5, <2>6, <3>1 DEF Taken, Byte
  <2>9. \A k \in Message : ~(acted[k] > 1)
    BY <2>1, <2>2 DEF InStep
  <2> QED
    BY <2>1, <2>2, <2>3, <2>7, <2>8, <2>9 DEF InStep
<1>3. CASE Read
  <2>1. short_writes = 0 /\ ~split
    BY <1>3 DEF Read
  <2> QED
    BY <1>3, <2>1, InStepAfterRead DEF InStepUnlessSplit
<1>4. CASE ReadEnd
  <2>1. /\ UNCHANGED <<client, stream, msg_buffer, messages, split, short_writes>>
        /\ stream = <<>> /\ client = "gone" /\ Handle(msg_buffer)
    BY <1>4 DEF ReadEnd
  <2>2. InStep /\ Taken = messages /\ Taken' = messages
    BY <2>1 DEF InStepUnlessSplit, Taken
  <2>3. CASE messages = 0
    <3>1. acted' = acted
      BY <2>1, <2>2, <2>3, HandleZeros DEF InStep
    <3> QED
      BY <2>1, <2>2, <2>3, <3>1 DEF InStep
  <2>4. CASE messages # 0
    <3>1. messages \in Message /\ messages > 0
      BY <1>0, <2>4 DEF Message
    <3>2. Holds(msg_buffer, messages)
      BY <2>2, <3>1 DEF InStep
    <3>3. /\ server' = server
          /\ garbled' = garbled
          /\ acted' = [acted EXCEPT ![messages] = IF @ < MaxHandled THEN @ + 1 ELSE @]
      BY <2>1, <3>1, <3>2, HandleWhole
    <3>4. \A k \in Message \ {messages} : acted'[k] = acted[k]
      BY <1>0, <3>3
    <3>5. ASSUME NEW k \in Message
          PROVE  /\ k > messages => acted'[k] = 0
                 /\ acted'[k] > 1 => k = messages
      <4>1. CASE k = messages
        BY <1>0, <4>1
      <4>2. CASE k # messages
        BY <2>2, <3>4, <4>2 DEF InStep
      <4> QED
        BY <4>1, <4>2
    <3> QED
      BY <2>1, <2>2, <3>1, <3>2, <3>3, <3>5 DEF InStep
  <2> QED
    BY <2>3, <2>4
<1> QED
  BY <1>1, <1>2, <1>3, <1>4 DEF ConnectionNext

LEMMA ConnectionInvNext == ConnectionInv /\ [ConnectionNext]_connectionVars => ConnectionInv'
  BY TypesPreserved, StreamPreserved, BacklogPreserved, InStepPreserved DEF ConnectionInv

LEMMA ConnectionInvariant == ConnectionSpec => []ConnectionInv
  BY ConnectionInvInit, ConnectionInvNext, PTL DEF ConnectionSpec

-----------------------------------------------------------------------------
\* The connection's variables keep their types: no message is counted that the
\* client did not write, whatever the reads leave in the buffer.
THEOREM ConnectionTypesKept == ConnectionSpec => []ConnectionTypeOK
<1>1. ConnectionInv => ConnectionTypeOK
  BY DEF ConnectionInv, ConnectionTypes
<1> QED
  BY <1>1, ConnectionInvariant, PTL

\* The server acts on nothing but what the client sent as long as each read ends
\* where a message ends, although nothing tells it where that is.
THEOREM GarbledOnlyBySplit == ConnectionSpec => []GarbledNeedsSplit
<1>1. ConnectionInv => GarbledNeedsSplit
  <2> SUFFICES ASSUME ConnectionInv, garbled, ~split, ~(short_writes > 0)
               PROVE  client = "gone" /\ messages = 0
    BY DEF GarbledNeedsSplit
  <2>1. short_writes = 0
    BY ConnectionAssumption DEF ConnectionInv, ConnectionTypes, ConnectionTypeOK
  <2> QED
    BY <2>1 DEF ConnectionInv, InStepUnlessSplit, InStep
<1> QED
  BY <1>1, ConnectionInvariant, PTL

\* A read ends inside a message only when TCP hands over less than it has or the
\* client is a message ahead: one message always fits the buffer.
THEOREM SplitOnlyByBacklog == ConnectionSpec => []SplitNeedsBacklog
<1>1. ConnectionInv => SplitNeedsBacklog
  BY DEF ConnectionInv
<1> QED
  BY <1>1, ConnectionInvariant, PTL

\* Unless a read is split only the last message is acted on more than once, and
\* that one only after the client has gone.
THEOREM OnlyLastRepeated == ConnectionSpec => []ActedOnOnce
<1>1. ConnectionInv => ActedOnOnce
  BY DEF ConnectionInv, InStepUnlessSplit, InStep, ActedOnOnce
<1> QED
  BY <1>1, ConnectionInvariant, PTL

\* A read that starts where a message starts and takes all of it is handled as
\* that message, whatever earlier reads left in the buffer.
THEOREM ConnectionResynchronises == ConnectionSpec => ResynchronisesAtBoundary
<1> DEFINE m == Head(stream).message
           AtBoundary == stream # <<>> /\ Head(stream).place = 0 /\ short_writes = 0
           Handled == /\ garbled' = garbled
                      /\ acted'[m] = Min({acted[m] + 1, MaxHandled})
<1>1. ConnectionInv /\ [ConnectionNext]_connectionVars =>
          [AtBoundary => (Len(stream) - Len(stream') >= Length(m) => Handled)]_connectionVars
  <2> SUFFICES ASSUME ConnectionInv, [ConnectionNext]_connectionVars, AtBoundary,
                      Len(stream) - Len(stream') >= Length(m)
               PROVE  Handled
    OBVIOUS
  <2>1. stream \in Seq(StreamByte) /\ acted \in [Message -> 0 .. MaxHandled]
    BY DEF ConnectionInv, ConnectionTypes, ConnectionTypeOK, StreamByte
  <2>2. m \in Message /\ m \in Nat /\ Length(m) \in Nat /\ Length(m) > 1
    <3>1. 1 \in 1 .. Len(stream) /\ Head(stream) = stream[1]
      BY <2>1
    <3> QED
      BY <2>1, <3>1, ByteOfStream, BufferHoldsOne
  <2>3. CASE Read
    <3>1. Holds(msg_buffer', m) /\ Handle(msg_buffer')
      BY <2>3, ReadInStep DEF ConnectionInv
    <3>2. /\ garbled' = garbled
          /\ acted' = [acted EXCEPT ![m] = IF @ < MaxHandled THEN @ + 1 ELSE @]
      BY <2>2, <3>1, HandleWhole
    <3> HIDE DEF m
    <3>3. acted'[m] = IF acted[m] < MaxHandled THEN acted[m] + 1 ELSE acted[m]
      BY <2>1, <2>2, <3>2
    <3>4. acted[m] \in 0 .. MaxHandled /\ acted[m] + 1 \in Nat /\ MaxHandled \in Nat
      BY <2>1, <2>2, ConnectionAssumption
    <3>5. /\ Min({acted[m] + 1, MaxHandled}) \in {acted[m] + 1, MaxHandled}
          /\ Min({acted[m] + 1, MaxHandled}) <= acted[m] + 1
          /\ Min({acted[m] + 1, MaxHandled}) <= MaxHandled
      BY <3>4, MinOfTwo
    <3> QED
      BY <3>2, <3>3, <3>4, <3>5
  <2>4. CASE ~Read
    <3>1. CASE Write
      <4>1. Len(stream') >= Len(stream)
        <5>1. CASE stream' = stream
          BY <2>1, <5>1
        <5>2. CASE stream' # stream
          <6>1. messages + 1 \in Message /\ messages \in Nat
            BY <3>1, WriteFacts DEF ConnectionInv
          <6>2. PICK n \in 1 .. Length(messages + 1) :
                  stream' = stream \o Bytes(messages + 1, n)
            BY <3>1, <5>2, WriteFacts DEF ConnectionInv
          <6>3. n \in Nat
            BY <6>1, BufferHoldsOne
          <6>4. Bytes(messages + 1, n) \in Seq(StreamByte) /\ Len(Bytes(messages + 1, n)) = n
            BY <6>1, <6>3, BytesFacts
          <6> HIDE DEF StreamByte, m
          <6>5. stream \in Seq(StreamByte)
            BY <2>1
          <6>6. Len(stream') = Len(stream) + n
            BY <6>2, <6>4, <6>5, ConcatProperties
          <6>7. Len(stream) \in Nat
            BY <6>5
          <6> QED
            BY <6>3, <6>6, <6>7
        <5> QED
          BY <5>1, <5>2
      <4>2. stream' \in Seq(StreamByte)
        BY TypesPreserved DEF ConnectionInv, ConnectionTypes, ConnectionTypeOK, StreamByte
      <4>3. Len(stream) \in Nat /\ Len(stream') \in Nat
        BY <2>1, <4>2
      <4> QED
        BY <2>2, <4>1, <4>3
    <3>2. CASE ~Write
      <4>1. stream' = stream
        BY <2>4, <3>2 DEF ConnectionNext, Bind, Connect, Accept, ClientEnds, ReadEnd, connectionVars
      <4>2. Len(stream) - Len(stream') = 0
        BY <2>1, <4>1
      <4> QED
        BY <2>2, <4>2
    <3> QED
      BY <3>1, <3>2
  <2> QED
    BY <2>3, <2>4
<1> QED
  BY <1>1, ConnectionInvariant, PTL DEF ConnectionSpec, ResynchronisesAtBoundary
=============================================================================
