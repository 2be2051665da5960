-------------------------- MODULE ClientWindowProofs --------------------------
(***************************************************************************)
(* Theorems about the client's window: first about the display path of     *)
(* DoubleBuffer by itself, then about ClientWindow, where the same is      *)
(* shown of the whole window, for any number of frames, errors, messages   *)
(* and of ctrl-c.                                                          *)
(***************************************************************************)
EXTENDS ClientWindow, StatisticsCollectorProofs

\* Who holds which lock follows from what the two threads do, and only the
\* back buffer is ever half converted.
LocksInStep ==
    /\ back_lock = "decoder" <=> decoder \in {"convert", "converting", "swap_front"}
    /\ front_lock = "renderer" <=> renderer = "upload"
    /\ back = Torn <=> decoder = "converting"
    /\ renderer = "upload" => front # NoFrame

\* initialize runs once: both buffers are made together, and stay.
InitializedTogether ==
    /\ decoder = "idle" => (back = NoFrame <=> front = NoFrame)
    /\ decoder = "initialize" => back = NoFrame /\ front = NoFrame
    /\ decoder = "initialize_front" => back = 0 /\ front = NoFrame
    /\ decoder \notin {"idle", "initialize", "initialize_front"} =>
          back # NoFrame /\ front # NoFrame

\* Until a conversion fails the front buffer has the newest finished frame, the
\* decode thread works on the one after it, and what it is about to swap is it.
FrontIsNewest ==
    conversion_errors = 0 =>
        /\ screen \in Nat /\ screen <= finished
        /\ front # NoFrame => front = finished
        /\ front = NoFrame => finished = 0
        /\ decoder = "idle" => decoded = finished
        /\ decoder # "idle" => decoded = finished + 1
        /\ decoder \in {"swap", "swap_front"} => back = decoded

\* After failures too: no buffer and no screen has a frame that is not finished,
\* but for the one that the decode thread is about to swap.
OnlyFinishedFrames ==
    /\ screen \in 0 .. finished
    /\ front \in (0 .. finished) \cup {NoFrame}
    /\ \/ back \in (0 .. finished) \cup {NoFrame, Torn}
       \/ back = decoded /\ decoder \in {"swap", "swap_front"}
    /\ finished <= decoded
    /\ decoder # "idle" => finished < decoded

BufferInv ==
    /\ TypeOK
    /\ BuffersNeverContended
    /\ LocksInStep
    /\ InitializedTogether
    /\ FrontIsNewest
    /\ OnlyFinishedFrames

\* The invariant holds of the empty buffers the program starts with.
LEMMA BufferInvInit == Init => BufferInv
  BY BufferAssumption, SMT
  DEF Init, BufferInv, TypeOK, Content, BuffersNeverContended, LocksInStep,
      InitializedTogether, FrontIsNewest, OnlyFinishedFrames

\* No step of either thread leaves the types.
LEMMA BufferTypesPreserved == BufferInv /\ [Next]_vars => TypeOK'
<1> SUFFICES ASSUME BufferInv, [Next]_vars PROVE TypeOK'
  OBVIOUS
<1> USE BufferAssumption DEF BufferInv, TypeOK, Content
<1>1. CASE DecodeFrame
  BY <1>1 DEF DecodeFrame, rendererVars
<1>2. CASE InitializeBack \/ InitializeFront
  BY <1>2 DEF InitializeBack, InitializeFront, rendererVars
<1>3. CASE LockBack
  BY <1>3 DEF LockBack, rendererVars
<1>4. CASE Convert
  BY <1>4 DEF Convert, rendererVars
<1>5. CASE Converted
  BY <1>5 DEF Converted, rendererVars
<1>6. CASE SwapLockBack
  BY <1>6 DEF SwapLockBack, rendererVars
<1>7. CASE Swap
  BY <1>7 DEF Swap, rendererVars
<1>8. CASE RendererStep
  BY <1>8 DEF RendererStep, BeginUpload, EndUpload, decoderVars
<1>9. CASE UNCHANGED vars
  BY <1>9 DEF vars, decoderVars, rendererVars
<1> QED
  BY <1>1, <1>2, <1>3, <1>4, <1>5, <1>6, <1>7, <1>8, <1>9
  DEF Next, DecoderStep

\* The locks stay in step with the threads, and no thread finds a buffer taken
\* or half written that it must not.
LEMMA LocksPreserved ==
  BufferInv /\ [Next]_vars => BuffersNeverContended' /\ LocksInStep'
<1> SUFFICES ASSUME BufferInv, [Next]_vars
             PROVE  BuffersNeverContended' /\ LocksInStep'
  OBVIOUS
<1> USE BufferAssumption
    DEF BufferInv, TypeOK, Content, BuffersNeverContended, LocksInStep,
        InitializedTogether
<1>1. CASE DecodeFrame
  BY <1>1 DEF DecodeFrame, rendererVars
<1>2. CASE InitializeBack \/ InitializeFront
  BY <1>2 DEF InitializeBack, InitializeFront, rendererVars
<1>3. CASE LockBack
  BY <1>3 DEF LockBack, rendererVars
<1>4. CASE Convert
  BY <1>4 DEF Convert, rendererVars
<1>5. CASE Converted
  BY <1>5 DEF Converted, rendererVars
<1>6. CASE SwapLockBack
  BY <1>6 DEF SwapLockBack, rendererVars
<1>7. CASE Swap
  BY <1>7 DEF Swap, rendererVars
<1>8. CASE RendererStep
  BY <1>8 DEF RendererStep, BeginUpload, EndUpload, decoderVars
<1>9. CASE UNCHANGED vars
  BY <1>9 DEF vars, decoderVars, rendererVars
<1> QED
  BY <1>1, <1>2, <1>3, <1>4, <1>5, <1>6, <1>7, <1>8, <1>9
  DEF Next, DecoderStep

\* The buffers are initialized once and never become None again.
LEMMA InitializedPreserved ==
  BufferInv /\ [Next]_vars => InitializedTogether'
<1> SUFFICES ASSUME BufferInv, [Next]_vars PROVE InitializedTogether'
  OBVIOUS
<1> USE BufferAssumption
    DEF BufferInv, TypeOK, Content, BuffersNeverContended, LocksInStep,
        InitializedTogether
<1>1. CASE DecodeFrame
  BY <1>1 DEF DecodeFrame, rendererVars
<1>2. CASE InitializeBack \/ InitializeFront
  BY <1>2 DEF InitializeBack, InitializeFront, rendererVars
<1>3. CASE LockBack
  BY <1>3 DEF LockBack, rendererVars
<1>4. CASE Convert
  BY <1>4 DEF Convert, rendererVars
<1>5. CASE Converted
  BY <1>5 DEF Converted, rendererVars
<1>6. CASE SwapLockBack
  BY <1>6 DEF SwapLockBack, rendererVars
<1>7. CASE Swap
  BY <1>7 DEF Swap, rendererVars
<1>8. CASE RendererStep
  BY <1>8 DEF RendererStep, BeginUpload, EndUpload, decoderVars
<1>9. CASE UNCHANGED vars
  BY <1>9 DEF vars, decoderVars, rendererVars
<1> QED
  BY <1>1, <1>2, <1>3, <1>4, <1>5, <1>6, <1>7, <1>8, <1>9
  DEF Next, DecoderStep

\* The front buffer keeps the newest finished frame until a conversion fails.
LEMMA NewestPreserved == BufferInv /\ [Next]_vars => FrontIsNewest'
<1> SUFFICES ASSUME BufferInv, [Next]_vars PROVE FrontIsNewest'
  OBVIOUS
<1> USE BufferAssumption
    DEF BufferInv, TypeOK, Content, BuffersNeverContended, LocksInStep,
        InitializedTogether, FrontIsNewest
<1>1. CASE DecodeFrame
  BY <1>1 DEF DecodeFrame, rendererVars
<1>2. CASE InitializeBack \/ InitializeFront
  BY <1>2 DEF InitializeBack, InitializeFront, rendererVars
<1>3. CASE LockBack
  BY <1>3 DEF LockBack, rendererVars
<1>4. CASE Convert
  BY <1>4 DEF Convert, rendererVars
<1>5. CASE Converted
  BY <1>5 DEF Converted, rendererVars
<1>6. CASE SwapLockBack
  BY <1>6 DEF SwapLockBack, rendererVars
<1>7. CASE Swap
  BY <1>7 DEF Swap, rendererVars
<1>8. CASE RendererStep
  BY <1>8 DEF RendererStep, BeginUpload, EndUpload, decoderVars
<1>9. CASE UNCHANGED vars
  BY <1>9 DEF vars, decoderVars, rendererVars
<1> QED
  BY <1>1, <1>2, <1>3, <1>4, <1>5, <1>6, <1>7, <1>8, <1>9
  DEF Next, DecoderStep

\* A frame that is not finished stays in the decode thread's hands.
LEMMA OnlyFinishedPreserved == BufferInv /\ [Next]_vars => OnlyFinishedFrames'
<1> SUFFICES ASSUME BufferInv, [Next]_vars PROVE OnlyFinishedFrames'
  OBVIOUS
<1> USE BufferAssumption
    DEF BufferInv, TypeOK, Content, BuffersNeverContended, LocksInStep,
        InitializedTogether, OnlyFinishedFrames
<1>1. CASE DecodeFrame
  BY <1>1 DEF DecodeFrame, rendererVars
<1>2. CASE InitializeBack \/ InitializeFront
  BY <1>2 DEF InitializeBack, InitializeFront, rendererVars
<1>3. CASE LockBack
  BY <1>3 DEF LockBack, rendererVars
<1>4. CASE Convert
  BY <1>4 DEF Convert, rendererVars
<1>5. CASE Converted
  BY <1>5 DEF Converted, rendererVars
<1>6. CASE SwapLockBack
  BY <1>6 DEF SwapLockBack, rendererVars
<1>7. CASE Swap
  BY <1>7 DEF Swap, rendererVars
<1>8. CASE RendererStep
  BY <1>8 DEF RendererStep, BeginUpload, EndUpload, decoderVars
<1>9. CASE UNCHANGED vars
  BY <1>9 DEF vars, decoderVars, rendererVars
<1> QED
  BY <1>1, <1>2, <1>3, <1>4, <1>5, <1>6, <1>7, <1>8, <1>9
  DEF Next, DecoderStep

\* The inductive invariant of the display path.
THEOREM BufferInvariant == Spec => []BufferInv
<1>1. BufferInv /\ [Next]_vars => BufferInv'
  BY BufferTypesPreserved, LocksPreserved, InitializedPreserved, NewestPreserved,
     OnlyFinishedPreserved
  DEF BufferInv
<1> QED
  BY <1>1, BufferInvInit, PTL DEF Spec

\* Every reachable state of the display path is of its types.
THEOREM BufferTypes == Spec => []TypeOK
<1>1. BufferInv => TypeOK
  BY DEF BufferInv
<1> QED
  BY <1>1, BufferInvariant, PTL

\* back() never finds the buffer locked, so its unwrap never ends the decode
\* thread, and the UI never sees a half converted frame.
THEOREM NeverContended == Spec => []BuffersNeverContended
<1>1. BufferInv => BuffersNeverContended
  BY DEF BufferInv
<1> QED
  BY <1>1, BufferInvariant, PTL

\* The buffer an upload reads is neither swapped nor written meanwhile.
THEOREM FrontIsStableDuringUpload == Spec => FrontStableDuringUpload
<1>1. BufferInv /\ [Next]_vars => [renderer = "upload" => front' = front]_vars
  <2> SUFFICES ASSUME BufferInv, [Next]_vars, renderer = "upload"
               PROVE  front' = front
    OBVIOUS
  <2>1. front_lock = "renderer"
    BY DEF BufferInv, LocksInStep
  <2> QED
    BY <2>1 DEF Next, DecoderStep, RendererStep, DecodeFrame, InitializeBack,
       InitializeFront, LockBack, Convert, Converted, SwapLockBack, Swap,
       BeginUpload, EndUpload, vars, decoderVars, rendererVars
<1> QED
  BY <1>1, BufferInvariant, PTL DEF Spec, FrontStableDuringUpload

\* What a step may do to the screen: nothing, or show the front buffer.
LEMMA ScreenStep ==
  ASSUME BufferInv, [Next]_vars
  PROVE  \/ screen' = screen
         \/ screen' = front /\ front # NoFrame /\ UNCHANGED finished
  BY DEF BufferInv, LocksInStep, Next, DecoderStep, RendererStep, DecodeFrame,
     InitializeBack, InitializeFront, LockBack, Convert, Converted,
     SwapLockBack, Swap, BeginUpload, EndUpload, vars, decoderVars, rendererVars

\* What a step may do to the failure history: a failed conversion sets it and
\* leaves the screen and the finished frames alone.
LEMMA FailureStep ==
  ASSUME BufferInv, [Next]_vars
  PROVE  \/ UNCHANGED conversion_errors
         \/ /\ conversion_errors' = conversion_errors + 1
            /\ UNCHANGED <<finished, screen>>
  BY DEF Next, DecoderStep, RendererStep, DecodeFrame, InitializeBack,
     InitializeFront, LockBack, Convert, Converted, SwapLockBack, Swap,
     BeginUpload, EndUpload, vars, decoderVars, rendererVars

\* finished only grows, and only where the screen is left alone.
LEMMA FinishedStep ==
  ASSUME BufferInv, [Next]_vars
  PROVE  \/ finished' = finished
         \/ finished' > finished /\ UNCHANGED <<screen, conversion_errors>>
<1>1. CASE Swap
  <2>1. finished \in Nat /\ decoded \in Nat /\ finished < decoded
    BY <1>1, BufferAssumption DEF Swap, BufferInv, TypeOK, OnlyFinishedFrames
  <2> QED
    BY <1>1, <2>1 DEF Swap, rendererVars
<1>2. CASE ~ Swap
  BY <1>2 DEF Next, DecoderStep, RendererStep, DecodeFrame, InitializeBack,
     InitializeFront, LockBack, Convert, Converted, SwapLockBack,
     BeginUpload, EndUpload, vars, decoderVars
<1> QED
  BY <1>1, <1>2

\* The two buffers and their locks implement the register of finished frames:
\* the screen shows whole frames, finished ones, and goes back to an older one
\* only after a conversion has failed.
THEOREM BuffersImplementRegister == Spec => ImplementsFrameRegister
<1>1. Init => Display!Init
  BY DEF Init, Display!Init
<1>2. BufferInv /\ [Next]_vars =>
         [Display!Finish \/ Display!Fail \/ Display!Show]_(Display!vars)
  <2> SUFFICES ASSUME BufferInv, [Next]_vars
               PROVE  \/ Display!Finish
                      \/ Display!Fail
                      \/ Display!Show
                      \/ UNCHANGED <<finished, screen, conversion_errors>>
    BY DEF Display!vars
  <2>1. /\ conversion_errors \in Nat
        /\ finished \in Nat
        /\ screen \in 0 .. finished
        /\ front # NoFrame => front \in 0 .. finished
    BY BufferAssumption DEF BufferInv, TypeOK, OnlyFinishedFrames
  <2>2. CASE conversion_errors' # conversion_errors
    <3>1. /\ conversion_errors' = conversion_errors + 1
          /\ UNCHANGED <<finished, screen>>
      BY <2>2, FailureStep
    <3>2. (conversion_errors > 0)' = TRUE
      BY <2>1, <3>1
    <3> QED
      BY <3>1, <3>2 DEF Display!Fail
  <2>3. CASE UNCHANGED <<conversion_errors, screen>>
    BY <2>3, FinishedStep DEF Display!Finish
  <2>4. CASE UNCHANGED conversion_errors /\ screen' # screen
    <3>1. screen' = front /\ front # NoFrame /\ UNCHANGED finished
      BY <2>4, ScreenStep
    <3>2. screen' \in 0 .. finished
      BY <2>1, <3>1
    <3>3. conversion_errors > 0 \/ screen' > screen
      <4>1. CASE conversion_errors = 0
        <5>1. screen' = finished
          BY <3>1, <4>1 DEF BufferInv, FrontIsNewest
        <5> QED
          BY <2>1, <2>4, <5>1
      <4>2. CASE conversion_errors # 0
        BY <2>1, <4>2
      <4> QED
        BY <4>1, <4>2
    <3> QED
      BY <2>4, <3>1, <3>2, <3>3 DEF Display!Show
  <2> QED
    BY <2>2, <2>3, <2>4
<1> QED
  BY <1>1, <1>2, BufferInvariant, PTL
  DEF Spec, ImplementsFrameRegister, Display!Spec

-----------------------------------------------------------------------------
\* A step of the window is a step of the double buffer or leaves it alone.
LEMMA WindowStepIsBufferStep == [WindowNext]_allVars => [Next]_vars
<1> SUFFICES ASSUME [WindowNext]_allVars PROVE [Next]_vars
  OBVIOUS
<1>1. CASE DecodeStep
  BY <1>1 DEF DecodeStep, Next
<1>2. CASE Redraw \/ RedrawEnds
  BY <1>2 DEF Redraw, RedrawEnds, Next, RendererStep
<1>3. CASE RegisterData \/ DecodeFails \/ OtherEvent \/ AskForStatistics \/ Return
              \/ CloseWindow \/ LeaveLoop \/ LoopFails
  BY <1>3 DEF RegisterData, DecodeFails, OtherEvent, AskForStatistics, Return,
              CloseWindow, LeaveLoop, LoopFails
<1>4. CASE UNCHANGED vars
  BY <1>4
<1>5. CASE UNCHANGED allVars
  BY <1>5 DEF allVars
<1> QED
  BY <1>1, <1>2, <1>3, <1>4, <1>5 DEF WindowNext, UIStep

\* The window's threads together behave as the double buffer's two threads do
\* alone, whenever the event loop draws, exits or stops.
THEOREM WindowImplementsDoubleBuffer == WindowSpec => Spec
<1>1. WindowInit => Init
  BY DEF WindowInit
<1> QED
  BY <1>1, WindowStepIsBufferStep, PTL DEF WindowSpec, Spec

\* The screen of the whole client shows whole, finished frames, an older one
\* again only after a failed conversion (double_buffer.rs:64-73, wgpu_state.rs).
THEOREM WindowImplementsRegister == WindowSpec => ImplementsFrameRegister
BY WindowImplementsDoubleBuffer, BuffersImplementRegister

\* back().unwrap() (video.rs:131) finds the buffer free in the whole client.
THEOREM WindowNeverContended == WindowSpec => []BuffersNeverContended
BY WindowImplementsDoubleBuffer, NeverContended, PTL

-----------------------------------------------------------------------------
\* The loop ends in one of three ways: the window was closed, an error came, or
\* the signal, and before the signal the statistics were written.
LossInv ==
    /\ WrittenBeforeSignal
    /\ window # "open" => files # "none" \/ closed \/ loop_failed

LEMMA LossInit == WindowInit => LossInv
BY DEF WindowInit, StatisticsInit, LossInv, WrittenBeforeSignal

LEMMA LossNext == LossInv /\ [WindowNext]_allVars => LossInv'
<1> SUFFICES ASSUME LossInv, [WindowNext]_allVars PROVE LossInv'
  OBVIOUS
<1>1. CASE StatisticsStep /\ UNCHANGED <<vars, windowVars>>
  <2>1. WrittenBeforeSignal' /\ (files # "none" => files' # "none")
    BY <1>1, StatisticsStepWrites DEF LossInv
  <2>2. UNCHANGED <<window, closed, loop_failed>>
    BY <1>1 DEF windowVars
  <2> QED
    BY <2>1, <2>2 DEF LossInv
<1>2. CASE CtrlC /\ UNCHANGED <<vars, windowVars>>
  BY <1>2 DEF CtrlC, windowVars, LossInv, WrittenBeforeSignal
<1>3. CASE RegisterData \/ DecodeFails \/ AskForStatistics
  BY <1>3 DEF RegisterData, DecodeFails, AskForStatistics, SenderUnchanged,
              LossInv, WrittenBeforeSignal
<1>4. CASE DecodeStep
  BY <1>4 DEF DecodeStep, SenderUnchanged, windowVars, LossInv, WrittenBeforeSignal
<1>5. CASE Redraw \/ OtherEvent
  <2>1. /\ UNCHANGED <<statistics, files, closed, loop_failed>>
        /\ quit_rx' = "true" => quit_rx = "true"
        /\ window' = window \/ (window' = "exiting" /\ quit_rx = "true")
    BY <1>5 DEF Redraw, OtherEvent, LookForQuit
  <2> QED
    BY <2>1 DEF LossInv, WrittenBeforeSignal
<1>6. CASE RedrawEnds
  BY <1>6 DEF RedrawEnds, statisticsVars, LossInv, WrittenBeforeSignal
<1>7. CASE CloseWindow \/ LeaveLoop \/ LoopFails
  BY <1>7 DEF CloseWindow, LeaveLoop, LoopFails, LossInv, WrittenBeforeSignal
<1>8. CASE Return
  BY <1>8 DEF Return, statisticsVars, LossInv, WrittenBeforeSignal
<1>9. CASE UNCHANGED allVars
  BY <1>9 DEF allVars, statisticsVars, windowVars, LossInv, WrittenBeforeSignal
<1> QED
  BY <1>1, <1>2, <1>3, <1>4, <1>5, <1>6, <1>7, <1>8, <1>9 DEF WindowNext, UIStep

\* When the process ends the statistics have been written or could not be, unless
\* the window was closed or the event loop failed (ui/mod.rs:48, :101, main.rs:56,
\* :61), in whatever order ctrl-c, the statistics thread and the event loop come.
THEOREM StatisticsKeptOnQuit == WindowSpec => []QuitKeepsStatistics
<1>1. LossInv => QuitKeepsStatistics
  BY DEF LossInv, QuitKeepsStatistics
<1> QED
  BY <1>1, LossInit, LossNext, PTL DEF WindowSpec

-----------------------------------------------------------------------------
\* Every step but the statistics thread's sends known messages, or none.
LEMMA WindowStepSends ==
    ASSUME WindowNext, ~(StatisticsStep /\ UNCHANGED <<vars, windowVars>>)
    PROVE  stat_ch' = stat_ch \/ \E ms \in Seq(Messages(TRUE)) : SendAll(ms)
<1>1. DecodePacket \in Keys /\ FailedDecode \in Keys
  BY WindowAssumption
<1>2. /\ Register(DecodePacket, "TimeSeries") \in Messages(TRUE)
      /\ Register(FailedDecode, "Aggregate") \in Messages(TRUE)
  BY <1>1 DEF Messages, DataType
<1>3. /\ Update(FailedDecode, "Increment") \in Messages(TRUE)
      /\ Update(DecodePacket, "TimeElapsed") \in Messages(TRUE)
  BY <1>1 DEF Messages, DataPoint
<1>4. Quit \in Messages(TRUE)
  BY DEF Messages
<1> DEFINE S == Messages(TRUE)
<1>5. /\ <<Register(DecodePacket, "TimeSeries"), Register(FailedDecode, "Aggregate")>> \in Seq(S)
      /\ <<Update(FailedDecode, "Increment"), Update(DecodePacket, "TimeElapsed")>> \in Seq(S)
      /\ <<Update(DecodePacket, "TimeElapsed")>> \in Seq(S)
      /\ <<Quit>> \in Seq(S)
  <2>1. /\ Register(DecodePacket, "TimeSeries") \in S
        /\ Register(FailedDecode, "Aggregate") \in S
        /\ Update(FailedDecode, "Increment") \in S
        /\ Update(DecodePacket, "TimeElapsed") \in S
        /\ Quit \in S
    BY <1>2, <1>3, <1>4
  <2> HIDE DEF S
  <2> QED
    BY <2>1
<1> HIDE DEF S
<1>6. CASE RegisterData \/ DecodeFails \/ DecodeStep
  BY <1>5, <1>6 DEF RegisterData, DecodeFails, DecodeStep, S
<1>7. CASE AskForStatistics \/ (CtrlC /\ UNCHANGED <<vars, windowVars>>)
  BY <1>5, <1>7 DEF AskForStatistics, CtrlC, S
<1>8. CASE \/ Redraw \/ RedrawEnds \/ OtherEvent \/ Return \/ CloseWindow \/ LeaveLoop
           \/ LoopFails
  BY <1>8 DEF Redraw, RedrawEnds, OtherEvent, Return, CloseWindow, LeaveLoop, LoopFails,
              LookForQuit,
              statisticsVars
<1> QED
  BY <1>6, <1>7, <1>8 DEF WindowNext, UIStep

WindowTypesInv == WindowTypeOK /\ stat_ch \in Seq(Messages(TRUE))

LEMMA WindowTypesInit == WindowInit => WindowTypesInv
<1> SUFFICES ASSUME WindowInit PROVE WindowTypesInv
  OBVIOUS
<1>1. stat_ch = <<>> /\ data = <<>>
  BY DEF WindowInit, StatisticsInit
<1>2. Len(stat_ch) = 0 /\ stat_ch \in Seq(Messages(TRUE))
  BY <1>1
<1>3. DOMAIN data \subseteq Keys
      /\ Range(data) \subseteq [type : DataType, points : DataPoint \cup {"none", "mixed"}]
  BY <1>1 DEF Range
<1>4. Len(stat_ch) <= MaxBacklog /\ 0 \in 0 .. MaxCtrlC /\ 0 \in 0 .. MaxDecodeErrors
  BY <1>2, StatisticsAssumption, WindowAssumption
<1> QED
  BY <1>2, <1>3, <1>4 DEF WindowInit, StatisticsInit, WindowTypeOK, StatisticsTypeOK,
                          WindowTypesInv

LEMMA WindowTypesNext == WindowTypesInv /\ [WindowNext]_allVars => WindowTypesInv'
<1> SUFFICES ASSUME WindowTypesInv, [WindowNext]_allVars PROVE WindowTypesInv'
  OBVIOUS
<1>1. /\ stat_ch \in Seq(Messages(TRUE)) /\ Len(stat_ch) <= MaxBacklog
      /\ ctrl_c \in 0 .. MaxCtrlC /\ MaxCtrlC \in Nat
      /\ decode_errors \in 0 .. MaxDecodeErrors /\ MaxDecodeErrors \in Nat
  BY StatisticsAssumption, WindowAssumption DEF WindowTypesInv, WindowTypeOK, StatisticsTypeOK
<1>2. CASE UNCHANGED allVars
  BY <1>2 DEF allVars, statisticsVars, windowVars, WindowTypesInv, WindowTypeOK,
              StatisticsTypeOK
<1>3. CASE StatisticsStep /\ UNCHANGED <<vars, windowVars>>
  <2>1. StatisticsTypeOK'
    BY <1>1, <1>3, StatisticsStepTypes DEF WindowTypesInv, WindowTypeOK
  <2>2. stat_ch' \in Seq(Messages(TRUE))
    BY <1>1, <1>3, StatisticsStepKeepsMessages
  <2>3. UNCHANGED windowVars
    BY <1>3
  <2> QED
    BY <2>1, <2>2, <2>3 DEF WindowTypesInv, WindowTypeOK, windowVars
<1>4. CASE WindowNext /\ ~(StatisticsStep /\ UNCHANGED <<vars, windowVars>>)
  <2>1. Len(stat_ch') <= MaxBacklog /\ stat_ch' \in Seq(Messages(TRUE))
    BY <1>1, <1>4, WindowStepSends, SendAllKeepsBacklog, SendAllKeepsMessages
  <2>2. UNCHANGED <<statistics, data, files>>
    BY <1>4 DEF WindowNext, UIStep, RegisterData, DecodeFails, DecodeStep, Redraw, RedrawEnds,
                OtherEvent, AskForStatistics, Return, CloseWindow, LeaveLoop, LoopFails,
                LookForQuit,
                CtrlC, SenderUnchanged, statisticsVars
  <2>3. quit_rx' \in {quit_rx, "disconnected", "dropped"}
    BY <1>4 DEF WindowNext, UIStep, RegisterData, DecodeFails, DecodeStep, Redraw, RedrawEnds,
                OtherEvent, AskForStatistics, Return, CloseWindow, LeaveLoop, LoopFails,
                LookForQuit,
                CtrlC, SenderUnchanged, statisticsVars
  <2>4. ctrl_c' = ctrl_c \/ (ctrl_c < MaxCtrlC /\ ctrl_c' = ctrl_c + 1)
    BY <1>4 DEF WindowNext, UIStep, RegisterData, DecodeFails, DecodeStep, Redraw, RedrawEnds,
                OtherEvent, AskForStatistics, Return, CloseWindow, LeaveLoop, LoopFails,
                LookForQuit,
                CtrlC, SenderUnchanged, statisticsVars
  <2>5. \/ decode_errors' = decode_errors
        \/ decode_errors < MaxDecodeErrors /\ decode_errors' = decode_errors + 1
    BY <1>4 DEF WindowNext, UIStep, RegisterData, DecodeFails, DecodeStep, Redraw, RedrawEnds,
                OtherEvent, AskForStatistics, Return, CloseWindow, LeaveLoop, LoopFails,
                LookForQuit,
                CtrlC, windowVars
  <2>6. /\ window' \in {window, "exiting", "left", "quitting", "failed", "gone"}
        /\ closed' \in {closed, TRUE} /\ loop_failed' \in {loop_failed, TRUE}
        /\ registered' \in {registered, TRUE}
    BY <1>4 DEF WindowNext, UIStep, RegisterData, DecodeFails, DecodeStep, Redraw, RedrawEnds,
                OtherEvent, AskForStatistics, Return, CloseWindow, LeaveLoop, LoopFails,
                LookForQuit,
                CtrlC, windowVars
  <2>7. ctrl_c' \in 0 .. MaxCtrlC /\ decode_errors' \in 0 .. MaxDecodeErrors
    BY <1>1, <2>4, <2>5
  <2>8. StatisticsTypeOK'
    BY <2>1, <2>2, <2>3, <2>7 DEF WindowTypesInv, WindowTypeOK, StatisticsTypeOK
  <2>9. /\ window' \in {"open", "exiting", "left", "quitting", "failed", "gone"}
        /\ closed' \in BOOLEAN /\ loop_failed' \in BOOLEAN /\ registered' \in BOOLEAN
    BY <2>6 DEF WindowTypesInv, WindowTypeOK
  <2> QED
    BY <2>1, <2>7, <2>8, <2>9 DEF WindowTypesInv, WindowTypeOK
<1> QED
  BY <1>2, <1>3, <1>4

\* Every reachable state of the client's window is of its types.
THEOREM WindowTypes == WindowSpec => []WindowTypeOK
<1>1. WindowTypesInv => WindowTypeOK
  BY DEF WindowTypesInv
<1> QED
  BY <1>1, WindowTypesInit, WindowTypesNext, PTL DEF WindowSpec
-----------------------------------------------------------------------------
\* What the client's decode thread uses the names for.
WindowUse ==
    [k \in Keys |-> IF k = DecodePacket THEN [type |-> "TimeSeries", point |-> "TimeElapsed"]
                                        ELSE [type |-> "Aggregate", point |-> "Increment"]]

\* Once it has registered, both names are known.
WindowPointsInv ==
    /\ PointsInv(WindowUse)
    /\ statistics = "running" /\ registered => Known(DecodePacket) /\ Known(FailedDecode)

LEMMA WindowUsePrintable ==
    LET S == UsedMessages(WindowUse)
    IN  /\ WindowUse \in [Keys -> Printable]
        /\ Register(DecodePacket, "TimeSeries") \in S /\ Register(FailedDecode, "Aggregate") \in S
        /\ Update(DecodePacket, "TimeElapsed") \in S /\ Update(FailedDecode, "Increment") \in S
        /\ Quit \in S
<1>1. DecodePacket \in Keys /\ FailedDecode \in Keys /\ FailedDecode # DecodePacket
  BY WindowAssumption
<1>2. WindowUse \in [Keys -> Printable]
  BY DEF WindowUse, Printable
<1>3. /\ WindowUse[DecodePacket] = [type |-> "TimeSeries", point |-> "TimeElapsed"]
      /\ WindowUse[FailedDecode] = [type |-> "Aggregate", point |-> "Increment"]
  BY <1>1 DEF WindowUse
<1>4. /\ Register(DecodePacket, WindowUse[DecodePacket].type) \in UsedMessages(WindowUse)
      /\ Register(FailedDecode, WindowUse[FailedDecode].type) \in UsedMessages(WindowUse)
      /\ Update(DecodePacket, WindowUse[DecodePacket].point) \in UsedMessages(WindowUse)
      /\ Update(FailedDecode, WindowUse[FailedDecode].point) \in UsedMessages(WindowUse)
      /\ Quit \in UsedMessages(WindowUse)
  BY <1>1 DEF UsedMessages
<1> QED
  BY <1>2, <1>3, <1>4

LEMMA WindowPointsInit == WindowInit => WindowPointsInv
<1> SUFFICES ASSUME WindowInit PROVE WindowPointsInv
  OBVIOUS
<1>1. stat_ch = <<>> /\ data = <<>> /\ statistics = "running" /\ registered = FALSE
  BY DEF WindowInit, StatisticsInit
<1>2. stat_ch \in Seq(UsedMessages(WindowUse)) /\ Len(stat_ch) = 0 /\ DOMAIN data = {}
  BY <1>1
<1> QED
  BY <1>1, <1>2 DEF WindowPointsInv, PointsInv

\* The decode thread's steps: it registers before it updates.
LEMMA DecodePoints ==
    ASSUME WindowPointsInv, RegisterData \/ DecodeFails \/ DecodeStep
    PROVE  WindowPointsInv'
<1> DEFINE S == UsedMessages(WindowUse)
<1>1. /\ Register(DecodePacket, "TimeSeries") \in S /\ Register(FailedDecode, "Aggregate") \in S
      /\ Update(DecodePacket, "TimeElapsed") \in S /\ Update(FailedDecode, "Increment") \in S
  BY WindowUsePrintable
<1>2. PointsInv(WindowUse) /\ UNCHANGED <<statistics, data>>
  BY DEF WindowPointsInv, RegisterData, DecodeFails, DecodeStep, SenderUnchanged
<1>3. CASE RegisterData
  <2> DEFINE ms == <<Register(DecodePacket, "TimeSeries"), Register(FailedDecode, "Aggregate")>>
  <2>1. /\ Len(ms) = 2 /\ ms[1].op = "register" /\ ms[2].op = "register"
        /\ ms[1].key = DecodePacket /\ ms[2].key = FailedDecode
    BY DEF Register
  <2> HIDE DEF S
  <2>2. ms \in Seq(S) /\ SendAll(ms)
    BY <1>1, <1>3 DEF RegisterData
  <2> HIDE DEF ms
  <2>3. /\ 1 \in 1 .. Len(ms) /\ 2 \in 1 .. Len(ms)
        /\ \A n \in 1 .. Len(ms) : n = 1 \/ n = 2
    BY <2>1
  <2>4. \A n \in 1 .. Len(ms) : ms[n].op # "update"
    BY <2>1, <2>3
  <2>5. /\ PointsInv(WindowUse)'
        /\ statistics = "running" => \A n \in 1 .. Len(ms) :
              ms[n].op = "register" => Known(ms[n].key)'
    BY <1>2, <2>2, <2>4, OthersKeepPoints DEF S
  <2>6. statistics = "running" => Known(DecodePacket)' /\ Known(FailedDecode)'
    BY <2>1, <2>3, <2>5
  <2> QED
    BY <1>2, <2>5, <2>6 DEF WindowPointsInv
<1>4. CASE DecodeFails
  <2> DEFINE ms == <<Update(FailedDecode, "Increment"), Update(DecodePacket, "TimeElapsed")>>
  <2>1. Len(ms) = 2 /\ ms[1].key = FailedDecode /\ ms[2].key = DecodePacket
    BY DEF Update
  <2> HIDE DEF S
  <2>2. ms \in Seq(S) /\ SendAll(ms) /\ registered /\ registered' = registered
    BY <1>1, <1>4 DEF DecodeFails
  <2> HIDE DEF ms
  <2>3. \A n \in 1 .. Len(ms) : n = 1 \/ n = 2
    BY <2>1
  <2>4. statistics = "running" => Known(DecodePacket) /\ Known(FailedDecode)
    BY <2>2 DEF WindowPointsInv
  <2>5. \A n \in 1 .. Len(ms) : ms[n].op = "update" => Known(ms[n].key) \/ statistics # "running"
    BY <2>1, <2>3, <2>4
  <2>6. PointsInv(WindowUse)' /\ \A k : Known(k) => Known(k)'
    BY <1>2, <2>2, <2>5, SendAllKeepsPoints DEF S
  <2> QED
    BY <1>2, <2>2, <2>4, <2>6 DEF WindowPointsInv
<1>5. CASE DecodeStep
  <2>1. /\ registered /\ registered' = registered
        /\ stat_ch' = stat_ch \/ SendAll(<<Update(DecodePacket, "TimeElapsed")>>)
    BY <1>5 DEF DecodeStep, windowVars
  <2>2. CASE stat_ch' = stat_ch
    BY <1>2, <2>1, <2>2 DEF WindowPointsInv, PointsInv, Known, RegisteredIn
  <2>3. CASE SendAll(<<Update(DecodePacket, "TimeElapsed")>>)
    <3> HIDE DEF S
    <3>1. <<Update(DecodePacket, "TimeElapsed")>> \in Seq(S)
      BY <1>1
    <3>2. statistics = "running" => Known(DecodePacket) /\ Known(FailedDecode)
      BY <2>1 DEF WindowPointsInv
    <3>3. PointsInv(WindowUse)' /\ \A k : Known(k) => Known(k)'
      BY <1>2, <2>3, <3>1, <3>2, PointKeepsPoints DEF S
    <3> QED
      BY <1>2, <3>2, <3>3 DEF WindowPointsInv
  <2> QED
    BY <2>1, <2>2, <2>3
<1> QED
  BY <1>3, <1>4, <1>5

LEMMA WindowPointsNext == WindowPointsInv /\ [WindowNext]_allVars => WindowPointsInv'
<1> SUFFICES ASSUME WindowPointsInv, [WindowNext]_allVars PROVE WindowPointsInv'
  OBVIOUS
<1>1. CASE RegisterData \/ DecodeFails \/ DecodeStep
  BY <1>1, DecodePoints
<1>2. CASE \/ Redraw \/ RedrawEnds \/ OtherEvent \/ Return \/ CloseWindow \/ LeaveLoop
           \/ LoopFails \/ UNCHANGED allVars
  <2>1. UNCHANGED <<stat_ch, statistics, data, registered>>
    BY <1>2 DEF Redraw, RedrawEnds, OtherEvent, Return, CloseWindow, LeaveLoop, LoopFails,
                LookForQuit,
                allVars, statisticsVars, windowVars
  <2> QED
    BY <2>1 DEF WindowPointsInv, PointsInv, Known, RegisteredIn
<1>3. CASE AskForStatistics \/ (CtrlC /\ UNCHANGED <<vars, windowVars>>)
  <2> DEFINE ms == <<Quit>>
             S == UsedMessages(WindowUse)
  <2>1. Len(ms) = 1 /\ ms[1].op = "quit"
    BY DEF Quit
  <2>2. Quit \in S
    BY WindowUsePrintable
  <2> HIDE DEF S
  <2>3. ms \in Seq(S)
    BY <2>2
  <2>4. SendAll(ms) /\ UNCHANGED <<statistics, data, registered>>
    BY <1>3 DEF AskForStatistics, CtrlC, SenderUnchanged, windowVars
  <2> HIDE DEF ms
  <2>5. \A n \in 1 .. Len(ms) : ms[n].op # "update"
    BY <2>1
  <2>6. PointsInv(WindowUse)' /\ \A k : Known(k) => Known(k)'
    BY <2>3, <2>4, <2>5, OthersKeepPoints DEF WindowPointsInv, S
  <2> QED
    BY <2>4, <2>6 DEF WindowPointsInv
<1>4. CASE StatisticsStep /\ UNCHANGED <<vars, windowVars>>
  <2>1. /\ PointsInv(WindowUse)'
        /\ statistics' = "running" => /\ statistics = "running"
                                      /\ \A k : Known(k) => Known(k)'
    BY <1>4, WindowUsePrintable, StatisticsStepKeepsPoints DEF WindowPointsInv
  <2> QED
    BY <1>4, <2>1 DEF WindowPointsInv, windowVars
<1> QED
  BY <1>1, <1>2, <1>3, <1>4 DEF WindowNext, UIStep

\* The client's points too are all kept and can be printed, whenever the window
\* closes or ctrl-c comes.
THEOREM ClientPointsKept == WindowSpec => []PointsKept
<1>1. WindowPointsInv => PointsKept
  BY WindowUsePrintable, PointsInvKeeps DEF WindowPointsInv
<1> QED
  BY <1>1, WindowPointsInit, WindowPointsNext, PTL DEF WindowSpec
=============================================================================
