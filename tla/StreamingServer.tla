--------------------------- MODULE StreamingServer ---------------------------
(***************************************************************************)
(* The threads of the server and how ctrl-c ends them: the capture thread, *)
(* which fills a queue of two frames, the send loop on the main thread     *)
(* (server/src/server/streaming_server.rs), the feedback thread, which sets*)
(* the bitrate, and the statistics thread.  When main returns or panics    *)
(* the process is gone.                                                    *)
(*                                                                         *)
(* A frame in the queue is the number of frames the send loop has taken    *)
(* since it was captured.  What the packager does with a frame (LVPackager)*)
(* and the feedback thread with a report (BitrateControl) is left to those *)
(* modules: here they send statistics, change the bitrate or panic.  Of    *)
(* the names of one thread with the same type and the same use one stands  *)
(* for all.                                                                *)
(***************************************************************************)
EXTENDS StatisticsCollector

CONSTANTS
    FrameQueueSize,         \* 2
    Encoding, PacketSending, QueueOccupancy, OoBlocks

ASSUME StreamingAssumption ==
    /\ FrameQueueSize \in Nat \ {0}
    /\ Keys = {Encoding, PacketSending, QueueOccupancy, OoBlocks}
    /\ {Encoding, PacketSending} \cap {QueueOccupancy, OoBlocks} = {}

VARIABLES
    main,           \* what the main thread does next, or how it ended
    capture,        \* the capture thread
    frames,         \* the queue, oldest frame first
    frame_age,      \* the frame taken last
    feedback,       \* the feedback thread
    new_bitrate,    \* the value in bitrate_mtx is not old_bitrate
    poisoned        \* bitrate_mtx is poisoned

serverVars == <<main, capture, frames, frame_age, feedback, new_bitrate, poisoned>>
vars == <<serverVars, statisticsVars>>

Ended == {"done", "failed", "panicked"}

-----------------------------------------------------------------------------
\* begin has spawned the capture thread (line 90).
Init ==
    /\ StatisticsInit
    /\ main = "setup"
    /\ capture = "starting"
    /\ frames = <<>>
    /\ frame_age = 0
    /\ feedback = "connecting"
    /\ new_bitrate = TRUE
    /\ poisoned = FALSE

\* The shared memory is attached, or the capturer or its first frame panics.
StartCapture ==
    /\ capture = "starting"
    /\ capture' \in {"capturing", "dead"}
    /\ UNCHANGED <<main, frames, frame_age, feedback, new_bitrate, poisoned,
                   statisticsVars>>

\* Faulty: one frame more than intended fits into the queue.
CaptureFrameLarger ==
    /\ capture = "capturing"
    /\ Len(frames) <= FrameQueueSize
    /\ frames' = Append(frames, 0)
    /\ UNCHANGED <<main, capture, frame_age, feedback, new_bitrate, poisoned,
                   statisticsVars>>

\* A frame goes into the queue; while that is full new frames are dropped.
CaptureFrame ==
    /\ capture = "capturing"
    /\ Len(frames) < FrameQueueSize
    /\ frames' = Append(frames, 0)
    /\ UNCHANGED <<main, capture, frame_age, feedback, new_bitrate, poisoned,
                   statisticsVars>>

\* From now on capture() only returns errors (the X server is gone), which the
\* thread logs, and goes on.
CaptureBreaks ==
    /\ capture = "capturing"
    /\ capture' = "failing"
    /\ UNCHANGED <<main, frames, frame_age, feedback, new_bitrate, poisoned,
                   statisticsVars>>

CaptureStep == StartCapture \/ CaptureFrame \/ CaptureBreaks

-----------------------------------------------------------------------------
\* start_send_loop up to the loop: the encoder, the packager and the loop
\* register their data; the socket, the encoder or the packager may fail.
Setup ==
    /\ main = "setup"
    /\ \/ /\ main' = "top"
          /\ SendAll(<<Register(Encoding, "TimeSeries"),
                       Register(PacketSending, "TimeSeries"),
                       Register(QueueOccupancy, "XYData")>>)
       \/ main' = "panicked" /\ UNCHANGED stat_ch
    /\ UNCHANGED <<capture, frames, frame_age, feedback, new_bitrate, poisoned,
                   statistics, data, files, quit_rx, ctrl_c>>

\* The top of the loop: the ioctl on the socket may fail and end the loop, and
\* so does a signal from the statistics thread.
LookForQuit ==
    /\ main = "top"
    /\ \/ main' = "failed"
       \/ main' = IF quit_rx = "true" THEN "done" ELSE "recv"
    /\ UNCHANGED <<capture, frames, frame_age, feedback, new_bitrate, poisoned,
                   statisticsVars>>

Older(fs) == [n \in DOMAIN fs |-> fs[n] + 1]

\* frame_recv.recv() waits for a frame.  The encoder or the packetizer may
\* fail, which is logged, without an update.
EncodeFrame ==
    /\ main = "recv"
    /\ frames # <<>>
    /\ frame_age' = Head(frames)
    /\ frames' = Older(Tail(frames))
    /\ \/ SendAll(<<Update(Encoding, "TimeElapsed")>>)
       \/ UNCHANGED stat_ch
    /\ main' = "bitrate"
    /\ UNCHANGED <<capture, feedback, new_bitrate, poisoned,
                   statistics, data, files, quit_rx, ctrl_c>>

\* The queue is empty and its sender gone: the loop goes on without a frame.
NoFrame ==
    /\ main = "recv"
    /\ frames = <<>>
    /\ capture = "dead"
    /\ main' = "bitrate"
    /\ UNCHANGED <<capture, frames, frame_age, feedback, new_bitrate, poisoned,
                   statisticsVars>>

\* Lines 178-200; lock().expect() panics on a poisoned mutex.
TakeBitrate ==
    /\ main = "bitrate"
    /\ main' = IF poisoned THEN "panicked" ELSE "send"
    /\ IF ~poisoned /\ new_bitrate
       THEN SendAll(<<Update(QueueOccupancy, "XYValue")>>) /\ new_bitrate' = FALSE
       ELSE UNCHANGED <<stat_ch, new_bitrate>>
    /\ UNCHANGED <<capture, frames, frame_age, feedback, poisoned,
                   statistics, data, files, quit_rx, ctrl_c>>

\* Faulty: the time is sent as a number.
SendPacketsFloat ==
    /\ main = "send"
    /\ SendAll(<<Update(PacketSending, "FloatValue"), Update(PacketSending, "TimeElapsed")>>)
    /\ main' = "top"
    /\ UNCHANGED <<capture, frames, frame_age, feedback, new_bitrate, poisoned,
                   statistics, data, files, quit_rx, ctrl_c>>

\* The packets of the frame are sent (LVPackager's SendNextPkt) and timed.
SendPackets ==
    /\ main = "send"
    /\ SendAll(<<Update(PacketSending, "TimeElapsed")>>)
    /\ main' = "top"
    /\ UNCHANGED <<capture, frames, frame_age, feedback, new_bitrate, poisoned,
                   statistics, data, files, quit_rx, ctrl_c>>

MainStep == Setup \/ LookForQuit \/ EncodeFrame \/ NoFrame \/ TakeBitrate \/ SendPackets

-----------------------------------------------------------------------------
\* The feedback thread connects and registers its data, or panics.
Connect ==
    /\ feedback = "connecting"
    /\ \/ /\ feedback' = "connected"
          /\ SendAll(<<Register(OoBlocks, "XYData")>>)
       \/ feedback' = "panicked" /\ UNCHANGED stat_ch
    /\ UNCHANGED <<main, capture, frames, frame_age, new_bitrate, poisoned,
                   statistics, data, files, quit_rx, ctrl_c>>

\* An ack or a report: points are sent or not, and a report stores a bitrate,
\* another one than the send loop took last or the same again, also while the one
\* before has not been taken.  In a dev build an overflow panics the thread, at
\* the time of an ack (line 60) or, with the mutex held, in a report.
HandleFeedback ==
    /\ feedback = "connected"
    /\ \/ /\ new_bitrate' \in BOOLEAN
          /\ \/ SendAll(<<Update(OoBlocks, "XYValue")>>)
             \/ UNCHANGED stat_ch
          /\ UNCHANGED <<feedback, poisoned>>
       \/ /\ feedback' = "panicked"
          /\ \/ poisoned' = TRUE /\ new_bitrate' \in BOOLEAN
             \/ UNCHANGED <<poisoned, new_bitrate>>
          /\ UNCHANGED stat_ch
    /\ UNCHANGED <<main, capture, frames, frame_age,
                   statistics, data, files, quit_rx, ctrl_c>>

FeedbackStep == Connect \/ HandleFeedback

Next ==
    /\ main \notin Ended
    /\ \/ CaptureStep
       \/ MainStep
       \/ FeedbackStep
       \/ StatisticsStep /\ UNCHANGED serverVars
       \/ CtrlC /\ UNCHANGED serverVars

Spec == Init /\ [][Next]_vars

\* Every thread that can go on does so in the end; nothing makes the X server
\* fail, the feedback arrive or a user press ctrl-c.
LiveSpec ==
    /\ Spec
    /\ WF_vars(MainStep /\ main \notin Ended)
    /\ WF_vars((StartCapture \/ CaptureFrame) /\ main \notin Ended)
    /\ WF_vars(StatisticsStep /\ UNCHANGED serverVars /\ main \notin Ended)

-----------------------------------------------------------------------------
TypeOK ==
    /\ StatisticsTypeOK
    /\ main \in {"setup", "top", "recv", "bitrate", "send"} \cup Ended
    /\ capture \in {"starting", "capturing", "failing", "dead"}
    /\ frames \in Seq(Nat) /\ Len(frames) <= FrameQueueSize
    /\ frame_age \in Nat
    /\ feedback \in {"connecting", "connected", "panicked"}
    /\ new_bitrate \in BOOLEAN
    /\ poisoned \in BOOLEAN

\* The comment on line 88, "HUGE lag because frame backlog exists": however slow
\* the encoder is and however fast the screen is captured, a frame that is
\* encoded was captured after the frame FrameQueueSize before it was taken.
LagBounded == frame_age < FrameQueueSize

\* The log on line 155, "Ctrl-c received, statistics logged, quitting": when
\* the send loop leaves after ctrl-c, every datum is on the disk, unless a file
\* could not be written.
StatisticsBeforeQuit ==
    main = "done" => ctrl_c > 0 /\ files # "none"

\* Ctrl-c ends the server, although the send loop looks at the signal only
\* between two frames, unless the capture thread goes on without frames: then
\* recv on line 166 waits forever and the signal is never seen.
EventuallyQuits == ctrl_c > 0 ~> (main \in Ended \/ capture = "failing")
=============================================================================
