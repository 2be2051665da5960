----------------------------- MODULE ClientWindow -----------------------------
(***************************************************************************)
(* The client's main thread and how it ends (client/src/main.rs and        *)
(* client/src/ui/mod.rs): the event loop that draws what the decode thread *)
(* puts into the double buffer (DoubleBuffer), looks for the signal of the *)
(* statistics thread (StatisticsCollector) with every event, and leaves at *)
(* the signal or when the window is closed.  Then main asks for the        *)
(* statistics and returns, which ends the process and with it every thread.*)
(* When the window or the event loop fails main returns the error at once  *)
(* (ui/mod.rs:34-43 and :101, main.rs:56) and asks for nothing.            *)
(*                                                                         *)
(* Of the decode thread's two counters one stands for both.                *)
(***************************************************************************)
EXTENDS DoubleBuffer, StatisticsCollector

CONSTANTS
    DecodePacket, FailedDecode,
    MaxDecodeErrors         \* bound: packets the video decoder refuses

ASSUME WindowAssumption ==
    /\ Keys = {DecodePacket, FailedDecode} /\ DecodePacket # FailedDecode
    /\ MaxDecodeErrors \in Nat

VARIABLES
    window,         \* the main thread: in ui.run or past it
    closed,         \* history: the window was closed or its memory ran out
    loop_failed,    \* history: ui.run returned an error
    registered,     \* the decode thread has registered its data
    decode_errors   \* packets the video decoder refused

windowVars == <<window, closed, loop_failed, registered, decode_errors>>
allVars == <<vars, statisticsVars, windowVars>>

-----------------------------------------------------------------------------
WindowInit ==
    /\ Init
    /\ StatisticsInit
    /\ window = "open"
    /\ closed = FALSE
    /\ loop_failed = FALSE
    /\ registered = FALSE
    /\ decode_errors = 0

\* What sending leaves alone of the statistics thread.
SenderUnchanged == UNCHANGED <<statistics, data, files, quit_rx, ctrl_c>>

\* The decode thread starts (decode_loop, lines 229-231).
RegisterData ==
    /\ ~registered
    /\ registered' = TRUE
    /\ SendAll(<<Register(DecodePacket, "TimeSeries"), Register(FailedDecode, "Aggregate")>>)
    /\ SenderUnchanged
    /\ UNCHANGED <<vars, window, closed, loop_failed, decode_errors>>

\* The video decoder refuses a packet: it is counted, and timed (lines 176-216).
DecodeFails ==
    /\ registered /\ decoder = "idle"
    /\ decode_errors < MaxDecodeErrors
    /\ decode_errors' = decode_errors + 1
    /\ SendAll(<<Update(FailedDecode, "Increment"), Update(DecodePacket, "TimeElapsed")>>)
    /\ SenderUnchanged
    /\ UNCHANGED <<vars, window, closed, loop_failed, registered>>

\* A decoded frame is timed once it has been swapped to the front.
DecodeStep ==
    /\ registered
    /\ \/ DecodeFrame /\ UNCHANGED stat_ch
       \/ DecoderStep /\ IF decoder' = "idle"
                         THEN SendAll(<<Update(DecodePacket, "TimeElapsed")>>)
                         ELSE UNCHANGED stat_ch
    /\ SenderUnchanged
    /\ UNCHANGED windowVars

-----------------------------------------------------------------------------
InLoop == window \in {"open", "exiting"} /\ renderer = "idle"

\* The begin of every event (ui/mod.rs:46-57): a signal ends the loop after the
\* event.  The statistics thread is gone after it, and the channel closed.
LookForQuit ==
    /\ InLoop
    /\ IF quit_rx = "true" THEN window' = "exiting" /\ quit_rx' = "disconnected"
                           ELSE UNCHANGED <<window, quit_rx>>
    /\ UNCHANGED <<stat_ch, statistics, data, files, ctrl_c, loop_failed, registered,
                   decode_errors>>

\* The window is redrawn (line 83) while there is a frame to draw.
Redraw == LookForQuit /\ BeginUpload /\ UNCHANGED closed

\* The drawing ends.  When it fails that is only logged, but for a surface
\* without memory, which ends the loop (ui/mod.rs:85-92).
RedrawEnds ==
    /\ EndUpload
    /\ \/ UNCHANGED <<window, closed>>
       \/ /\ surface_errors' > surface_errors
          /\ window' = "exiting"
          /\ closed' = TRUE
    /\ UNCHANGED <<statisticsVars, loop_failed, registered, decode_errors>>

\* Any other event; only the signal matters to it.
OtherEvent == LookForQuit /\ quit_rx = "true" /\ UNCHANGED <<vars, closed>>

\* The window is closed or Escape pressed (lines 70-81), or there is no memory
\* for the surface before there is a frame.  The loop ends in this way once,
\* although the event may come again.
CloseWindow ==
    /\ InLoop /\ ~closed
    /\ window' = "exiting"
    /\ closed' = TRUE
    /\ quit_rx' = IF quit_rx = "true" THEN "disconnected" ELSE quit_rx
    /\ UNCHANGED <<vars, stat_ch, statistics, data, files, ctrl_c, loop_failed, registered,
                   decode_errors>>

\* The loop returns after the events at hand, and main drops the window and
\* with it quit_rx.
LeaveLoop ==
    /\ window = "exiting" /\ renderer = "idle"
    /\ window' = "left"
    /\ quit_rx' = "dropped"
    /\ UNCHANGED <<vars, stat_ch, statistics, data, files, ctrl_c, closed, loop_failed,
                   registered, decode_errors>>

\* The event loop returns an error (ui/mod.rs:101), or the window could not be
\* made (lines 34-43): main.rs:56 passes the error on, and main returns.
LoopFails ==
    /\ InLoop
    /\ window' = "failed"
    /\ loop_failed' = TRUE
    /\ quit_rx' = "dropped"
    /\ UNCHANGED <<vars, stat_ch, statistics, data, files, ctrl_c, closed, registered,
                   decode_errors>>

\* main.rs:61: the statistics are asked for, by then for nothing after ctrl-c.
AskForStatistics ==
    /\ window = "left"
    /\ window' = "quitting"
    /\ SendAll(<<Quit>>)
    /\ SenderUnchanged
    /\ UNCHANGED <<vars, closed, loop_failed, registered, decode_errors>>

\* main returns at once: the process is gone.
Return ==
    /\ window \in {"quitting", "failed"}
    /\ window' = "gone"
    /\ UNCHANGED <<vars, statisticsVars, closed, loop_failed, registered, decode_errors>>

UIStep == Redraw \/ RedrawEnds \/ OtherEvent \/ AskForStatistics \/ Return

WindowNext ==
    /\ window # "gone"
    /\ \/ RegisterData
       \/ DecodeFails
       \/ DecodeStep
       \/ UIStep
       \/ CloseWindow
       \/ LeaveLoop
       \/ LoopFails
       \/ StatisticsStep /\ UNCHANGED <<vars, windowVars>>
       \/ CtrlC /\ UNCHANGED <<vars, windowVars>>

WindowSpec == WindowInit /\ [][WindowNext]_allVars

\* While the process lives every thread goes on.  The UI requests a redraw
\* whenever it is idle (ui/mod.rs:98), and parking_lot lets a waiting writer have
\* the lock between two readers.  winit returns from the loop after finitely many
\* more events.
WindowLiveSpec ==
    /\ WindowSpec
    /\ SF_allVars(DecodeStep /\ decoder # "idle" /\ window # "gone")
    /\ WF_allVars(UIStep)
    /\ SF_allVars(LeaveLoop)
    /\ WF_allVars(StatisticsStep /\ UNCHANGED <<vars, windowVars>> /\ window # "gone")

-----------------------------------------------------------------------------
WindowTypeOK ==
    /\ StatisticsTypeOK
    /\ window \in {"open", "exiting", "left", "quitting", "failed", "gone"}
    /\ closed \in BOOLEAN
    /\ loop_failed \in BOOLEAN
    /\ registered \in BOOLEAN
    /\ decode_errors \in 0 .. MaxDecodeErrors

\* The log on ui/mod.rs:48, "Ctrl-c received, statistics logged, quitting": when
\* the process ends the statistics have been written, but for a window that was
\* closed, where main returns without waiting for them (main.rs:61-63), and for
\* an event loop that failed, where it does not even ask for them (line 56).
QuitKeepsStatistics ==
    window = "gone" => files # "none" \/ closed \/ loop_failed

\* Ctrl-c ends the client whatever the decode thread does, with or without
\* frames: the UI's own redraws bring it to look at the signal.
CtrlCEnds == ctrl_c > 0 ~> window = "gone"

\* Every decoded frame reaches the screen, or a newer one does, unless a
\* conversion fails, the surface does, which nothing configures again but a
\* resize (ui/mod.rs:62, :91), or the window goes.
EventuallyDrawn ==
    \A n \in 1 .. MaxFrames :
        decoded = n ~> \/ screen >= n
                       \/ conversion_errors > 0 \/ surface_errors > 0
                       \/ window # "open"
=============================================================================
