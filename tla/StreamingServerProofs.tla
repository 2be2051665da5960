------------------------- MODULE StreamingServerProofs -------------------------
(***************************************************************************)
(* Theorems about the server's threads in StreamingServer, for a frame     *)
(* queue of any size, any names and any number of messages and of ctrl-c.  *)
(***************************************************************************)
EXTENDS StreamingServer, StatisticsCollectorProofs

\* A frame in the queue is as old as the frames taken since, which were before
\* it: its age and its place in the queue together never exceed the size.
QueueInv ==
    /\ frames \in Seq(Nat)
    /\ Len(frames) <= FrameQueueSize
    /\ \A n \in 1 .. Len(frames) : frames[n] + n <= FrameQueueSize
    /\ frame_age \in Nat
    /\ LagBounded

LEMMA QueueInit == Init => QueueInv
BY StreamingAssumption DEF Init, QueueInv, LagBounded

LEMMA CaptureKeepsQueue ==
    ASSUME QueueInv, CaptureFrame
    PROVE  QueueInv'
<1>1. /\ frames' = Append(frames, 0)
      /\ Len(frames) < FrameQueueSize
      /\ frame_age' = frame_age
  BY DEF CaptureFrame
<1>2. /\ frames' \in Seq(Nat)
      /\ Len(frames') = Len(frames) + 1
      /\ \A n \in 1 .. Len(frames) : frames'[n] = frames[n]
      /\ frames'[Len(frames) + 1] = 0
  BY <1>1, AppendProperties DEF QueueInv
<1>3. Len(frames') <= FrameQueueSize
  BY <1>1, <1>2, StreamingAssumption DEF QueueInv
<1>4. ASSUME NEW n \in 1 .. Len(frames')
      PROVE  frames'[n] + n <= FrameQueueSize
  <2>1. CASE n \in 1 .. Len(frames)
    BY <1>2, <2>1 DEF QueueInv
  <2>2. CASE n = Len(frames) + 1
    BY <1>1, <1>2, <2>2, StreamingAssumption DEF QueueInv
  <2> QED
    BY <1>2, <2>1, <2>2 DEF QueueInv
<1> QED
  BY <1>1, <1>2, <1>3, <1>4 DEF QueueInv, LagBounded

LEMMA EncodeKeepsQueue ==
    ASSUME QueueInv, EncodeFrame
    PROVE  QueueInv'
<1> DEFINE rest == Tail(frames)
<1>1. /\ frames # <<>>
      /\ frame_age' = Head(frames)
      /\ frames' = [n \in DOMAIN rest |-> rest[n] + 1]
  BY DEF EncodeFrame, Older
<1>2. /\ Len(frames) \in Nat /\ Len(frames) >= 1
      /\ Head(frames) = frames[1]
  BY <1>1 DEF QueueInv
<1>3. /\ rest \in Seq(Nat)
      /\ Len(rest) = Len(frames) - 1
      /\ \A n \in 1 .. Len(rest) : rest[n] = frames[n + 1]
  BY <1>1, HeadTailProperties DEF QueueInv
<1>4. DOMAIN rest = 1 .. Len(rest) /\ Len(rest) \in Nat
  BY <1>3
<1>5. \A n \in 1 .. Len(rest) : rest[n] \in Nat
  BY <1>3, ElementOfSeq
<1> HIDE DEF rest
<1>6. /\ frames' \in [1 .. Len(rest) -> Nat]
      /\ \A n \in 1 .. Len(rest) : frames'[n] = frames[n + 1] + 1
  BY <1>1, <1>3, <1>4, <1>5
<1>7. frames' \in Seq(Nat) /\ Len(frames') = Len(rest)
  BY <1>4, <1>6, IsASeq, LenProperties
<1>8. ASSUME NEW n \in 1 .. Len(frames')
      PROVE  frames'[n] + n <= FrameQueueSize
  <2>1. n + 1 \in 1 .. Len(frames)
    BY <1>2, <1>3, <1>7
  <2>2. frames[n + 1] \in Nat /\ frames[n + 1] + (n + 1) <= FrameQueueSize
    BY <2>1, ElementOfSeq DEF QueueInv
  <2> QED
    BY <1>6, <1>7, <2>2, StreamingAssumption
<1>9. frame_age' \in Nat /\ frame_age' < FrameQueueSize
  <2>1. 1 \in 1 .. Len(frames)
    BY <1>2
  <2>2. frames[1] \in Nat /\ frames[1] + 1 <= FrameQueueSize
    BY <2>1, ElementOfSeq DEF QueueInv
  <2> QED
    BY <1>1, <1>2, <2>2, StreamingAssumption
<1>10. Len(frames') <= FrameQueueSize
  BY <1>2, <1>3, <1>7, StreamingAssumption DEF QueueInv
<1> QED
  BY <1>7, <1>8, <1>9, <1>10 DEF QueueInv, LagBounded

LEMMA QueueNext == QueueInv /\ [Next]_vars => QueueInv'
<1> SUFFICES ASSUME QueueInv, [Next]_vars PROVE QueueInv'
  OBVIOUS
<1>1. CASE CaptureFrame
  BY <1>1, CaptureKeepsQueue
<1>2. CASE EncodeFrame
  BY <1>2, EncodeKeepsQueue
<1>3. CASE ~CaptureFrame /\ ~EncodeFrame
  <2>1. frames' = frames /\ frame_age' = frame_age
    BY <1>3 DEF Next, CaptureStep, StartCapture, CaptureBreaks, MainStep, Setup,
                LookForQuit, NoFrame, TakeBitrate, SendPackets, FeedbackStep,
                Connect, HandleFeedback, serverVars, vars
  <2> QED
    BY <2>1 DEF QueueInv, LagBounded
<1> QED
  BY <1>1, <1>2, <1>3

\* However slow the encoder and however fast the capture, a frame that is encoded
\* was captured after the frame FrameQueueSize before it was taken
\* (streaming_server.rs:88), for a queue of any size.
THEOREM LagStaysBounded == Spec => []LagBounded
<1>1. QueueInv => LagBounded
  BY DEF QueueInv
<1> QED
  BY <1>1, QueueInit, QueueNext, PTL DEF Spec

-----------------------------------------------------------------------------
\* Only ctrl-c asks the statistics thread to quit, and it writes before it
\* signals; the send loop leaves at the signal.
QuitInv ==
    /\ ctrl_c \in Nat
    /\ stat_ch \in Seq(Messages(ctrl_c > 0))
    /\ WrittenBeforeSignal
    /\ quit_rx = "true" \/ statistics = "aggregated" => ctrl_c > 0
    /\ StatisticsBeforeQuit

LEMMA QuitInit == Init => QuitInv
<1> SUFFICES ASSUME Init PROVE QuitInv
  OBVIOUS
<1>1. /\ ctrl_c = 0 /\ stat_ch = <<>> /\ main = "setup"
      /\ quit_rx = "empty" /\ statistics = "running"
  BY DEF Init, StatisticsInit
<1>2. stat_ch \in Seq(Messages(ctrl_c > 0))
  BY <1>1
<1> QED
  BY <1>1, <1>2 DEF QuitInv, WrittenBeforeSignal, StatisticsBeforeQuit

\* The messages the send loop and the feedback thread send hold no request to quit.
LEMMA DataAreMessages ==
    ASSUME NEW quits \in BOOLEAN
    PROVE  /\ <<Register(Encoding, "TimeSeries"), Register(PacketSending, "TimeSeries"),
                Register(QueueOccupancy, "XYData")>> \in Seq(Messages(quits))
           /\ <<Register(OoBlocks, "XYData")>> \in Seq(Messages(quits))
           /\ <<Update(Encoding, "TimeElapsed")>> \in Seq(Messages(quits))
           /\ <<Update(PacketSending, "TimeElapsed")>> \in Seq(Messages(quits))
           /\ <<Update(QueueOccupancy, "XYValue")>> \in Seq(Messages(quits))
           /\ <<Update(OoBlocks, "XYValue")>> \in Seq(Messages(quits))
<1>1. /\ Encoding \in Keys /\ PacketSending \in Keys
      /\ QueueOccupancy \in Keys /\ OoBlocks \in Keys
  BY StreamingAssumption
<1>2. \A k \in Keys, t \in {"TimeSeries", "XYData"} : Register(k, t) \in Messages(quits)
  BY DEF Messages, DataType
<1>3. \A k \in Keys, p \in {"TimeElapsed", "XYValue"} : Update(k, p) \in Messages(quits)
  BY DEF Messages, DataPoint
<1> QED
  BY <1>1, <1>2, <1>3

\* A step of these threads sends some of those messages, or none.
LEMMA ServerStepSends ==
    ASSUME CaptureStep \/ MainStep \/ FeedbackStep, NEW quits \in BOOLEAN
    PROVE  stat_ch' = stat_ch \/ \E ms \in Seq(Messages(quits)) : SendAll(ms)
<1>1. CASE Setup /\ stat_ch' # stat_ch
  <2>1. SendAll(<<Register(Encoding, "TimeSeries"), Register(PacketSending, "TimeSeries"),
                  Register(QueueOccupancy, "XYData")>>)
    BY <1>1 DEF Setup
  <2> QED
    BY <2>1, DataAreMessages
<1>2. CASE EncodeFrame /\ stat_ch' # stat_ch
  <2>1. SendAll(<<Update(Encoding, "TimeElapsed")>>)
    BY <1>2 DEF EncodeFrame
  <2> QED
    BY <2>1, DataAreMessages
<1>3. CASE TakeBitrate /\ stat_ch' # stat_ch
  <2>1. SendAll(<<Update(QueueOccupancy, "XYValue")>>)
    BY <1>3 DEF TakeBitrate
  <2> QED
    BY <2>1, DataAreMessages
<1>4. CASE SendPackets /\ stat_ch' # stat_ch
  <2>1. SendAll(<<Update(PacketSending, "TimeElapsed")>>)
    BY <1>4 DEF SendPackets
  <2> QED
    BY <2>1, DataAreMessages
<1>5. CASE Connect /\ stat_ch' # stat_ch
  <2>1. SendAll(<<Register(OoBlocks, "XYData")>>)
    BY <1>5 DEF Connect
  <2> QED
    BY <2>1, DataAreMessages
<1>6. CASE HandleFeedback /\ stat_ch' # stat_ch
  <2>1. SendAll(<<Update(OoBlocks, "XYValue")>>)
    BY <1>6 DEF HandleFeedback
  <2> QED
    BY <2>1, DataAreMessages
<1>7. CASE CaptureStep \/ LookForQuit \/ NoFrame
  BY <1>7 DEF CaptureStep, StartCapture, CaptureFrame, CaptureBreaks, LookForQuit, NoFrame,
              statisticsVars
<1> QED
  BY <1>1, <1>2, <1>3, <1>4, <1>5, <1>6, <1>7 DEF MainStep, FeedbackStep

\* A step of the threads that send data: it leaves the statistics thread alone
\* and ends in "done" only at the signal.
LEMMA ServerStepKeepsQuit ==
    ASSUME QuitInv, CaptureStep \/ MainStep \/ FeedbackStep
    PROVE  QuitInv'
<1>1. UNCHANGED <<statistics, files, ctrl_c, quit_rx>>
  BY DEF CaptureStep, StartCapture, CaptureFrame, CaptureBreaks, MainStep, Setup,
         LookForQuit, EncodeFrame, NoFrame, TakeBitrate, SendPackets, FeedbackStep,
         Connect, HandleFeedback, statisticsVars
<1>2. (ctrl_c > 0) \in BOOLEAN /\ stat_ch \in Seq(Messages(ctrl_c > 0))
  BY DEF QuitInv
<1>3. stat_ch' \in Seq(Messages(ctrl_c > 0))
  BY <1>2, ServerStepSends, SendAllKeepsMessages
<1>4. main' = "done" => main = "done" \/ quit_rx = "true"
  BY DEF CaptureStep, StartCapture, CaptureFrame, CaptureBreaks, MainStep, Setup,
         LookForQuit, EncodeFrame, NoFrame, TakeBitrate, SendPackets, FeedbackStep,
         Connect, HandleFeedback
<1>5. StatisticsBeforeQuit'
  BY <1>1, <1>4 DEF QuitInv, StatisticsBeforeQuit, WrittenBeforeSignal
<1>6. WrittenBeforeSignal'
  BY <1>1 DEF QuitInv, WrittenBeforeSignal
<1> QED
  BY <1>1, <1>3, <1>5, <1>6 DEF QuitInv

LEMMA StatisticsStepKeepsQuit ==
    ASSUME QuitInv, StatisticsStep, UNCHANGED serverVars
    PROVE  QuitInv'
<1>1. WrittenBeforeSignal' /\ (files # "none" => files' # "none")
  BY StatisticsStepWrites DEF QuitInv
<1>2. ctrl_c' = ctrl_c
  BY DEF StatisticsStep, HandleRegister, HandleUpdate, HandleQuit, SignalQuit
<1>3. stat_ch' \in Seq(Messages(ctrl_c > 0))
  BY StatisticsStepKeepsMessages DEF QuitInv
<1>4. HandleQuit => ctrl_c > 0
  <2> SUFFICES ASSUME HandleQuit PROVE ctrl_c > 0
    OBVIOUS
  <2>1. stat_ch # <<>> /\ Head(stat_ch) = Quit
    BY DEF HandleQuit, ReceivedQuit
  <2>2. Quit \in Messages(ctrl_c > 0)
    BY <2>1, HeadTailProperties DEF QuitInv
  <2>3. (ctrl_c > 0) \in BOOLEAN
    OBVIOUS
  <2> QED
    BY <2>2, <2>3, NoQuitWithoutRequest
<1>5. quit_rx' = "true" \/ statistics' = "aggregated" =>
         HandleQuit \/ quit_rx = "true" \/ statistics = "aggregated"
  BY DEF StatisticsStep, HandleRegister, HandleUpdate, SignalQuit
<1>6. quit_rx' = "true" \/ statistics' = "aggregated" => ctrl_c > 0
  BY <1>4, <1>5 DEF QuitInv
<1>7. StatisticsBeforeQuit'
  BY <1>1, <1>2 DEF QuitInv, StatisticsBeforeQuit, serverVars
<1> QED
  BY <1>1, <1>2, <1>3, <1>6, <1>7 DEF QuitInv

LEMMA CtrlCKeepsQuit ==
    ASSUME QuitInv, CtrlC, UNCHANGED serverVars
    PROVE  QuitInv'
<1>1. ctrl_c' \in Nat /\ ctrl_c' > 0
  BY DEF QuitInv, CtrlC
<1> DEFINE S == Messages(ctrl_c > 0)
           T == Messages(TRUE)
<1>2. stat_ch' \in Seq(T)
  <2>1. S \subseteq T /\ Quit \in T
    BY DEF Messages
  <2>2. stat_ch \in Seq(S)
    BY DEF QuitInv
  <2> HIDE DEF S, T
  <2>3. stat_ch \in Seq(T)
    BY <2>1, <2>2
  <2>4. <<Quit>> \in Seq(T)
    BY <2>1
  <2> QED
    BY <2>3, <2>4, SendAllKeepsMessages DEF CtrlC
<1>3. (ctrl_c' > 0) = TRUE
  BY <1>1
<1>4. stat_ch' \in Seq(Messages(ctrl_c > 0))'
  BY <1>2, <1>3 DEF Messages
<1>5. WrittenBeforeSignal' /\ StatisticsBeforeQuit'
  BY <1>1 DEF QuitInv, CtrlC, WrittenBeforeSignal, StatisticsBeforeQuit, serverVars
<1> QED
  BY <1>1, <1>4, <1>5 DEF QuitInv

LEMMA QuitNext == QuitInv /\ [Next]_vars => QuitInv'
<1> SUFFICES ASSUME QuitInv, [Next]_vars PROVE QuitInv'
  OBVIOUS
<1>1. CASE CaptureStep \/ MainStep \/ FeedbackStep
  BY <1>1, ServerStepKeepsQuit
<1>2. CASE StatisticsStep /\ UNCHANGED serverVars
  BY <1>2, StatisticsStepKeepsQuit
<1>3. CASE CtrlC /\ UNCHANGED serverVars
  BY <1>3, CtrlCKeepsQuit
<1>4. CASE UNCHANGED vars
  BY <1>4 DEF vars, serverVars, statisticsVars, QuitInv, WrittenBeforeSignal,
              StatisticsBeforeQuit, Messages
<1> QED
  BY <1>1, <1>2, <1>3, <1>4 DEF Next

\* When the send loop leaves after ctrl-c (streaming_server.rs:155), ctrl-c was
\* pressed and the statistics are on the disk or could not be written, for any
\* number of messages in the channel and of times ctrl-c is pressed.
THEOREM StatisticsAreWrittenFirst == Spec => []StatisticsBeforeQuit
<1>1. QuitInv => StatisticsBeforeQuit
  BY DEF QuitInv
<1> QED
  BY <1>1, QuitInit, QuitNext, PTL DEF Spec

-----------------------------------------------------------------------------
LEMMA ServerTypesInit == Init => TypeOK
<1> SUFFICES ASSUME Init PROVE TypeOK
  OBVIOUS
<1>1. stat_ch = <<>> /\ frames = <<>> /\ data = <<>>
  BY DEF Init, StatisticsInit
<1>2. Len(stat_ch) = 0 /\ Len(frames) = 0 /\ frames \in Seq(Nat)
  BY <1>1
<1>3. DOMAIN data \subseteq Keys
      /\ Range(data) \subseteq [type : DataType, points : DataPoint \cup {"none", "mixed"}]
  BY <1>1 DEF Range
<1>4. Len(stat_ch) <= MaxBacklog /\ Len(frames) <= FrameQueueSize
  BY <1>2, StatisticsAssumption, StreamingAssumption
<1>5. 0 \in 0 .. MaxCtrlC
  BY StatisticsAssumption
<1> QED
  BY <1>2, <1>3, <1>4, <1>5 DEF Init, StatisticsInit, TypeOK, StatisticsTypeOK, Ended

\* The types are kept where the queue and the channel are as QueueInv and QuitInv say.
LEMMA ServerTypesNext ==
    TypeOK /\ QueueInv /\ QuitInv /\ [Next]_vars /\ QueueInv' => TypeOK'
<1> SUFFICES ASSUME TypeOK, QueueInv, QuitInv, [Next]_vars, QueueInv' PROVE TypeOK'
  OBVIOUS
<1>1. (ctrl_c > 0) \in BOOLEAN /\ stat_ch \in Seq(Messages(ctrl_c > 0))
  BY DEF QuitInv
<1>2. frames' \in Seq(Nat) /\ Len(frames') <= FrameQueueSize /\ frame_age' \in Nat
  BY DEF QueueInv
<1>3. CASE CaptureStep \/ MainStep \/ FeedbackStep
  <2>1. UNCHANGED <<statistics, data, files, ctrl_c, quit_rx>>
    BY <1>3 DEF CaptureStep, StartCapture, CaptureFrame, CaptureBreaks, MainStep, Setup,
                LookForQuit, EncodeFrame, NoFrame, TakeBitrate, SendPackets, FeedbackStep,
                Connect, HandleFeedback, statisticsVars
  <2>2. Len(stat_ch') <= MaxBacklog
    <3>1. Len(stat_ch) <= MaxBacklog
      BY DEF TypeOK, StatisticsTypeOK
    <3> QED
      BY <1>1, <1>3, <3>1, ServerStepSends, SendAllKeepsBacklog
  <2>3. StatisticsTypeOK'
    BY <2>1, <2>2 DEF TypeOK, StatisticsTypeOK
  <2>4. /\ main' \in {"setup", "top", "recv", "bitrate", "send"} \cup Ended
        /\ capture' \in {"starting", "capturing", "failing", "dead"}
        /\ feedback' \in {"connecting", "connected", "panicked"}
        /\ new_bitrate' \in BOOLEAN
        /\ poisoned' \in BOOLEAN
    BY <1>3 DEF TypeOK, Ended, CaptureStep, StartCapture, CaptureFrame, CaptureBreaks,
                MainStep, Setup, LookForQuit, EncodeFrame, NoFrame, TakeBitrate, SendPackets,
                FeedbackStep, Connect, HandleFeedback
  <2> QED
    BY <1>2, <2>3, <2>4 DEF TypeOK, Ended
<1>4. CASE UNCHANGED serverVars /\ StatisticsTypeOK'
  BY <1>2, <1>4 DEF TypeOK, serverVars, Ended
<1>5. CASE StatisticsStep /\ UNCHANGED serverVars
  BY <1>1, <1>4, <1>5, StatisticsStepTypes DEF TypeOK
<1>6. CASE CtrlC /\ UNCHANGED serverVars
  <2>1. Len(stat_ch) <= MaxBacklog /\ ctrl_c \in 0 .. MaxCtrlC /\ MaxCtrlC \in Nat
    BY StatisticsAssumption DEF TypeOK, StatisticsTypeOK
  <2>2. /\ ctrl_c < MaxCtrlC /\ ctrl_c' = ctrl_c + 1
        /\ SendAll(<<Quit>>)
        /\ UNCHANGED <<statistics, data, files, quit_rx>>
    BY <1>6 DEF CtrlC
  <2>3. ctrl_c' \in 0 .. MaxCtrlC
    BY <2>1, <2>2
  <2>4. Len(stat_ch') <= MaxBacklog
    <3> DEFINE T == Messages(ctrl_c > 0) \cup {Quit}
    <3>1. stat_ch \in Seq(Messages(ctrl_c > 0)) /\ Messages(ctrl_c > 0) \subseteq T
      BY <1>1
    <3> HIDE DEF T
    <3>2. stat_ch \in Seq(T)
      BY <3>1
    <3>3. <<Quit>> \in Seq(T)
      BY DEF T
    <3> QED
      BY <2>1, <2>2, <3>2, <3>3, SendAllKeepsBacklog
  <2>5. StatisticsTypeOK'
    BY <2>2, <2>3, <2>4 DEF TypeOK, StatisticsTypeOK
  <2> QED
    BY <1>4, <1>6, <2>5
<1>7. CASE UNCHANGED vars
  BY <1>7 DEF TypeOK, StatisticsTypeOK, vars, serverVars, statisticsVars, Ended
<1> QED
  BY <1>3, <1>5, <1>6, <1>7 DEF Next

\* Every reachable state of the server's threads is of its types, the queue and the
\* channel within their sizes.
THEOREM ServerTypes == Spec => []TypeOK
<1>1. Spec => [](QueueInv /\ QuitInv)
  BY QueueInit, QueueNext, QuitInit, QuitNext, PTL DEF Spec
<1> QED
  BY <1>1, ServerTypesInit, ServerTypesNext, PTL DEF Spec
-----------------------------------------------------------------------------
\* What the server's threads use the names for.
ServerUse ==
    [k \in Keys |-> IF k \in {Encoding, PacketSending}
                    THEN [type |-> "TimeSeries", point |-> "TimeElapsed"]
                    ELSE [type |-> "XYData", point |-> "XYValue"]]

\* Past its setup a thread has sent the registrations of the names it updates.
ServerPointsInv ==
    /\ PointsInv(ServerUse)
    /\ statistics = "running" =>
          /\ main \in {"top", "recv", "bitrate", "send"} =>
                Known(Encoding) /\ Known(PacketSending) /\ Known(QueueOccupancy)
          /\ feedback = "connected" => Known(OoBlocks)

LEMMA ServerUsePrintable ==
    /\ ServerUse \in [Keys -> Printable]
    /\ UsedMessages(ServerUse) =
          {Quit} \cup {Register(k, "TimeSeries") : k \in {Encoding, PacketSending}}
                 \cup {Register(k, "XYData") : k \in {QueueOccupancy, OoBlocks}}
                 \cup {Update(k, "TimeElapsed") : k \in {Encoding, PacketSending}}
                 \cup {Update(k, "XYValue") : k \in {QueueOccupancy, OoBlocks}}
<1> DEFINE series == {Encoding, PacketSending}
           values == {QueueOccupancy, OoBlocks}
<1>1. Keys = series \cup values /\ series \cap values = {}
  BY StreamingAssumption
<1> HIDE DEF series, values
<1>2. /\ \A k \in series : k \in Keys /\ ServerUse[k] = [type |-> "TimeSeries", point |-> "TimeElapsed"]
      /\ \A k \in values : k \in Keys /\ ServerUse[k] = [type |-> "XYData", point |-> "XYValue"]
  BY <1>1 DEF ServerUse, series
<1>3. ServerUse \in [Keys -> Printable]
  BY DEF ServerUse, Printable
<1>4. {Register(k, ServerUse[k].type) : k \in Keys} =
         {Register(k, "TimeSeries") : k \in series} \cup {Register(k, "XYData") : k \in values}
  BY <1>1, <1>2
<1>5. {Update(k, ServerUse[k].point) : k \in Keys} =
         {Update(k, "TimeElapsed") : k \in series} \cup {Update(k, "XYValue") : k \in values}
  BY <1>1, <1>2
<1> QED
  BY <1>3, <1>4, <1>5 DEF UsedMessages, series, values

LEMMA ServerPointsInit == Init => ServerPointsInv
<1> SUFFICES ASSUME Init PROVE ServerPointsInv
  OBVIOUS
<1>1. /\ stat_ch = <<>> /\ data = <<>> /\ statistics = "running"
      /\ main = "setup" /\ feedback = "connecting"
  BY DEF Init, StatisticsInit
<1>2. stat_ch \in Seq(UsedMessages(ServerUse)) /\ Len(stat_ch) = 0 /\ DOMAIN data = {}
  BY <1>1
<1> QED
  BY <1>1, <1>2 DEF ServerPointsInv, PointsInv

\* The messages the threads send are as ServerUse says.
LEMMA ServerMessages ==
    LET S == UsedMessages(ServerUse)
    IN  /\ <<Register(Encoding, "TimeSeries"), Register(PacketSending, "TimeSeries"),
             Register(QueueOccupancy, "XYData")>> \in Seq(S)
        /\ <<Register(OoBlocks, "XYData")>> \in Seq(S)
        /\ \A k \in {Encoding, PacketSending} : <<Update(k, "TimeElapsed")>> \in Seq(S)
        /\ \A k \in {QueueOccupancy, OoBlocks} : <<Update(k, "XYValue")>> \in Seq(S)
        /\ <<Quit>> \in Seq(S)
<1> DEFINE S == UsedMessages(ServerUse)
<1>1. /\ Register(Encoding, "TimeSeries") \in S /\ Register(PacketSending, "TimeSeries") \in S
      /\ Register(QueueOccupancy, "XYData") \in S /\ Register(OoBlocks, "XYData") \in S
      /\ \A k \in {Encoding, PacketSending} : Update(k, "TimeElapsed") \in S
      /\ \A k \in {QueueOccupancy, OoBlocks} : Update(k, "XYValue") \in S
      /\ Quit \in S
  BY ServerUsePrintable
<1> HIDE DEF S
<1>2. /\ <<Register(Encoding, "TimeSeries"), Register(PacketSending, "TimeSeries"),
           Register(QueueOccupancy, "XYData")>> \in Seq(S)
      /\ <<Register(OoBlocks, "XYData")>> \in Seq(S)
      /\ \A k \in {Encoding, PacketSending} : <<Update(k, "TimeElapsed")>> \in Seq(S)
      /\ \A k \in {QueueOccupancy, OoBlocks} : <<Update(k, "XYValue")>> \in Seq(S)
      /\ <<Quit>> \in Seq(S)
  BY <1>1
<1> QED
  BY <1>2 DEF S

\* Setup and Connect register what their threads will update.
LEMMA RegistrationsKeepPoints ==
    ASSUME ServerPointsInv, Setup \/ Connect
    PROVE  ServerPointsInv'
<1>1. UNCHANGED <<statistics, data>>
  BY DEF Setup, Connect
<1>2. CASE stat_ch' = stat_ch /\ main' \in {main, "panicked"} /\ feedback' \in {feedback, "panicked"}
  BY <1>1, <1>2 DEF ServerPointsInv, PointsInv, Known, RegisteredIn
<1>3. CASE Setup /\ main' = "top" /\
           SendAll(<<Register(Encoding, "TimeSeries"), Register(PacketSending, "TimeSeries"),
                     Register(QueueOccupancy, "XYData")>>)
  <2> DEFINE ms == <<Register(Encoding, "TimeSeries"), Register(PacketSending, "TimeSeries"),
                     Register(QueueOccupancy, "XYData")>>
  <2>1. /\ Len(ms) = 3 /\ \A n \in 1 .. 3 : ms[n].op = "register"
        /\ ms[1].key = Encoding /\ ms[2].key = PacketSending /\ ms[3].key = QueueOccupancy
    BY DEF Register
  <2>2. ms \in Seq(UsedMessages(ServerUse)) /\ SendAll(ms)
    BY <1>3, ServerMessages
  <2>3. feedback' = feedback
    BY <1>3 DEF Setup
  <2> HIDE DEF ms
  <2>4. 1 \in 1 .. Len(ms) /\ 2 \in 1 .. Len(ms) /\ 3 \in 1 .. Len(ms)
    BY <2>1
  <2>5. /\ PointsInv(ServerUse)' /\ \A k : Known(k) => Known(k)'
        /\ statistics = "running" => \A n \in 1 .. Len(ms) :
              ms[n].op = "register" => Known(ms[n].key)'
    BY <1>1, <2>1, <2>2, OthersKeepPoints DEF ServerPointsInv
  <2>6. statistics = "running" =>
           Known(Encoding)' /\ Known(PacketSending)' /\ Known(QueueOccupancy)'
    BY <2>1, <2>4, <2>5
  <2> QED
    BY <1>1, <2>3, <2>5, <2>6 DEF ServerPointsInv
<1>4. CASE Connect /\ feedback' = "connected" /\ SendAll(<<Register(OoBlocks, "XYData")>>)
  <2> DEFINE ms == <<Register(OoBlocks, "XYData")>>
  <2>1. Len(ms) = 1 /\ ms[1].op = "register" /\ ms[1].key = OoBlocks
    BY DEF Register
  <2>2. ms \in Seq(UsedMessages(ServerUse)) /\ SendAll(ms)
    BY <1>4, ServerMessages
  <2>3. main' = main
    BY <1>4 DEF Connect
  <2> HIDE DEF ms
  <2>4. 1 \in 1 .. Len(ms) /\ \A n \in 1 .. Len(ms) : n = 1
    BY <2>1
  <2>5. /\ PointsInv(ServerUse)' /\ \A k : Known(k) => Known(k)'
        /\ statistics = "running" => \A n \in 1 .. Len(ms) :
              ms[n].op = "register" => Known(ms[n].key)'
    BY <1>1, <2>1, <2>2, <2>4, OthersKeepPoints DEF ServerPointsInv
  <2>6. statistics = "running" => Known(OoBlocks)'
    BY <2>1, <2>4, <2>5
  <2> QED
    BY <1>1, <2>3, <2>5, <2>6 DEF ServerPointsInv
<1> QED
  BY <1>2, <1>3, <1>4 DEF Setup, Connect

\* A thread that updates a name has registered it.
LEMMA UpdatesKeepPoints ==
    ASSUME ServerPointsInv, EncodeFrame \/ TakeBitrate \/ SendPackets \/ HandleFeedback
    PROVE  ServerPointsInv'
<1>1. /\ UNCHANGED <<statistics, data>>
      /\ main' \in {"top", "recv", "bitrate", "send"} => main \in {"top", "recv", "bitrate", "send"}
      /\ feedback' = "connected" => feedback = "connected"
  BY DEF EncodeFrame, TakeBitrate, SendPackets, HandleFeedback
<1>2. CASE stat_ch' = stat_ch
  BY <1>1, <1>2 DEF ServerPointsInv, PointsInv, Known, RegisteredIn
<1>3. ASSUME NEW k \in {Encoding, PacketSending, QueueOccupancy, OoBlocks}, NEW p,
             <<Update(k, p)>> \in Seq(UsedMessages(ServerUse)),
             SendAll(<<Update(k, p)>>),
             statistics = "running" => Known(k)
      PROVE  ServerPointsInv'
  <2>1. PointsInv(ServerUse)' /\ \A n : Known(n) => Known(n)'
    BY <1>1, <1>3, ServerUsePrintable, PointKeepsPoints DEF ServerPointsInv
  <2> QED
    BY <1>1, <2>1 DEF ServerPointsInv
<1>4. CASE EncodeFrame /\ stat_ch' # stat_ch
  <2>1. SendAll(<<Update(Encoding, "TimeElapsed")>>) /\ main = "recv"
    BY <1>4 DEF EncodeFrame
  <2> QED
    BY <1>3, <2>1, ServerMessages DEF ServerPointsInv
<1>5. CASE TakeBitrate /\ stat_ch' # stat_ch
  <2>1. SendAll(<<Update(QueueOccupancy, "XYValue")>>) /\ main = "bitrate"
    BY <1>5 DEF TakeBitrate
  <2> QED
    BY <1>3, <2>1, ServerMessages DEF ServerPointsInv
<1>6. CASE SendPackets
  <2>1. SendAll(<<Update(PacketSending, "TimeElapsed")>>) /\ main = "send"
    BY <1>6 DEF SendPackets
  <2> QED
    BY <1>3, <2>1, ServerMessages DEF ServerPointsInv
<1>7. CASE HandleFeedback /\ stat_ch' # stat_ch
  <2>1. SendAll(<<Update(OoBlocks, "XYValue")>>) /\ feedback = "connected"
    BY <1>7 DEF HandleFeedback
  <2> QED
    BY <1>3, <2>1, ServerMessages DEF ServerPointsInv
<1> QED
  BY <1>2, <1>4, <1>5, <1>6, <1>7

LEMMA ServerPointsNext == ServerPointsInv /\ [Next]_vars => ServerPointsInv'
<1> SUFFICES ASSUME ServerPointsInv, [Next]_vars PROVE ServerPointsInv'
  OBVIOUS
<1>1. CASE Setup \/ Connect
  BY <1>1, RegistrationsKeepPoints
<1>2. CASE EncodeFrame \/ TakeBitrate \/ SendPackets \/ HandleFeedback
  BY <1>2, UpdatesKeepPoints
<1>3. CASE CaptureStep \/ LookForQuit \/ NoFrame \/ UNCHANGED vars
  <2>1. /\ UNCHANGED <<stat_ch, statistics, data, feedback>>
        /\ main' \in {"top", "recv", "bitrate", "send"} =>
              main \in {"top", "recv", "bitrate", "send"}
    BY <1>3 DEF CaptureStep, StartCapture, CaptureFrame, CaptureBreaks, LookForQuit, NoFrame,
                vars, serverVars, statisticsVars
  <2> QED
    BY <2>1 DEF ServerPointsInv, PointsInv, Known, RegisteredIn
<1>4. CASE StatisticsStep /\ UNCHANGED serverVars
  <2>1. /\ PointsInv(ServerUse)'
        /\ statistics' = "running" => /\ statistics = "running"
                                      /\ \A k : Known(k) => Known(k)'
    BY <1>4, ServerUsePrintable, StatisticsStepKeepsPoints DEF ServerPointsInv
  <2> QED
    BY <1>4, <2>1 DEF ServerPointsInv, serverVars
<1>5. CASE CtrlC /\ UNCHANGED serverVars
  <2> DEFINE ms == <<Quit>>
  <2>1. Len(ms) = 1 /\ ms[1].op = "quit"
    BY DEF Quit
  <2>2. ms \in Seq(UsedMessages(ServerUse)) /\ SendAll(ms) /\ UNCHANGED <<statistics, data>>
    BY <1>5, ServerMessages DEF CtrlC
  <2> HIDE DEF ms
  <2>3. \A n \in 1 .. Len(ms) : ms[n].op # "update"
    BY <2>1
  <2>4. PointsInv(ServerUse)' /\ \A k : Known(k) => Known(k)'
    BY <2>2, <2>3, OthersKeepPoints DEF ServerPointsInv
  <2> QED
    BY <1>5, <2>2, <2>4 DEF ServerPointsInv, serverVars
<1> QED
  BY <1>1, <1>2, <1>3, <1>4, <1>5 DEF Next, MainStep, FeedbackStep

\* No point the server takes is refused and none is of a kind that cannot be
\* printed (statistics.rs:70-106, :130-144), in whatever order the threads register
\* and update and ctrl-c comes.
THEOREM ServerPointsKept == Spec => []PointsKept
<1>1. ServerPointsInv => PointsKept
  BY ServerUsePrintable, PointsInvKeeps DEF ServerPointsInv
<1> QED
  BY <1>1, ServerPointsInit, ServerPointsNext, PTL DEF Spec
=============================================================================
