------------------------- MODULE StatisticsCollector -------------------------
(***************************************************************************)
(* The statistics thread both programs start first, and through which      *)
(* ctrl-c ends them (statistics/src/collector.rs and statistics.rs).  Every*)
(* other thread registers data and sends points over one unbounded channel;*)
(* ctrl-c and the client's main function send Quit over it too.  On Quit   *)
(* the thread writes one file per datum, signals quit_rx and ends.         *)
(*                                                                         *)
(* Of the points of a time series only what aggregate tells apart is kept: *)
(* none, all of the kind of the first, or some it cannot print.  Of the    *)
(* files it matters whether all are complete.  Once the thread no longer   *)
(* reads, what the channel holds is not kept.                              *)
(***************************************************************************)
EXTENDS Naturals, Sequences, Functions

CONSTANTS
    Keys,               \* names of the data
    MaxBacklog,         \* bound: messages in the channel
    MaxCtrlC            \* bound: times ctrl-c is pressed

ASSUME StatisticsAssumption == MaxBacklog \in Nat /\ MaxCtrlC \in Nat

VARIABLES
    stat_ch,            \* the channel
    statistics,         \* the thread
    data,               \* for each registered name its type and its points
    files,              \* "none", "partial" after an error, or "complete"
    quit_rx,            \* the program's end of the quit channel
    ctrl_c              \* times ctrl-c was pressed

statisticsVars == <<stat_ch, statistics, data, files, quit_rx, ctrl_c>>

DataType == {"XYData", "TimeSeries", "Aggregate"}
DataPoint == {"XYValue", "TimeElapsed", "FloatValue", "Increment"}

Register(k, t) == [op |-> "register", key |-> k, type |-> t]
Update(k, p) == [op |-> "update", key |-> k, point |-> p]
Quit == [op |-> "quit"]

StatisticsInit ==
    /\ stat_ch = <<>>
    /\ statistics = "running"
    /\ data = <<>>
    /\ files = "none"
    /\ quit_rx = "empty"
    /\ ctrl_c = 0

\* The messages ms are sent, one after the other.
SendAll(ms) ==
    IF statistics = "running"
    THEN Len(stat_ch) + Len(ms) <= MaxBacklog /\ stat_ch' = stat_ch \o ms
    ELSE UNCHANGED stat_ch

CtrlC ==
    /\ ctrl_c < MaxCtrlC
    /\ ctrl_c' = ctrl_c + 1
    /\ SendAll(<<Quit>>)
    /\ UNCHANGED <<statistics, data, files, quit_rx>>

-----------------------------------------------------------------------------
Received(op) ==
    /\ statistics = "running"
    /\ stat_ch # <<>>
    /\ Head(stat_ch).op = op
    /\ stat_ch' = Tail(stat_ch)

\* A name that is registered again starts without points.
HandleRegister ==
    /\ Received("register")
    /\ LET m == Head(stat_ch)
       IN  data' = [k \in DOMAIN data \cup {m.key} |->
                       IF k = m.key THEN [type |-> m.type, points |-> "none"]
                                    ELSE data[k]]
    /\ UNCHANGED <<statistics, files, quit_rx, ctrl_c>>

\* A point goes only into a datum that is known and of a type that takes it.
Accepts(k, p) ==
    /\ k \in DOMAIN data
    /\ CASE data[k].type = "TimeSeries" -> p # "Increment"
         [] data[k].type = "Aggregate" -> p = "Increment"
         [] data[k].type = "XYData" -> p = "XYValue"

\* The points of datum d with one more, p.  A time series that starts with an
\* XYValue, or has points of two kinds, cannot be printed.
Stored(d, p) ==
    IF d.type # "TimeSeries" THEN p
    ELSE IF d.points \in {"none", p} /\ p # "XYValue" THEN p ELSE "mixed"

\* Other points are refused with a warning.
HandleUpdate ==
    /\ Received("update")
    /\ LET m == Head(stat_ch)
       IN  data' = [k \in DOMAIN data |->
                       IF k = m.key /\ Accepts(k, m.point)
                       THEN [data[k] EXCEPT !.points = Stored(data[k], m.point)]
                       ELSE data[k]]
    /\ UNCHANGED <<statistics, files, quit_rx, ctrl_c>>

Unprintable == {k \in DOMAIN data : data[k].points = "mixed"}

ReceivedQuit ==
    /\ statistics = "running"
    /\ stat_ch # <<>> /\ Head(stat_ch) = Quit
    /\ stat_ch' = <<>>

\* Faulty: the quit signal goes out before the files are written.
HandleQuitFirst ==
    /\ ReceivedQuit
    /\ statistics' = "ended"
    /\ quit_rx' = "true"
    /\ UNCHANGED <<data, files, ctrl_c>>

\* Faulty: an error of aggregate ends the thread.
HandleQuitPropagates ==
    /\ ReceivedQuit
    /\ \/ files' = "complete" /\ statistics' = "aggregated" /\ UNCHANGED quit_rx
       \/ files' = "partial" /\ statistics' = "panicked" /\ quit_rx' = "disconnected"
    /\ UNCHANGED <<data, ctrl_c>>

\* aggregate writes the data in any order.  An error ends it and is ignored; a
\* time series it cannot print panics the thread, which drops quit_tx.
HandleQuit ==
    /\ ReceivedQuit
    /\ \/ Unprintable = {} /\ files' = "complete" /\ statistics' = "aggregated"
       \/ files' = "partial" /\ statistics' = "aggregated"
       \/ Unprintable # {} /\ files' = "partial" /\ statistics' = "panicked"
    /\ quit_rx' = IF statistics' = "panicked" /\ quit_rx # "dropped"
                  THEN "disconnected" ELSE quit_rx
    /\ UNCHANGED <<data, ctrl_c>>

\* quit_tx.send(true), which panics when the program has dropped quit_rx.  The
\* data go with the thread.
SignalQuit ==
    /\ statistics = "aggregated"
    /\ IF quit_rx = "dropped"
       THEN statistics' = "panicked" /\ UNCHANGED quit_rx
       ELSE statistics' = "ended" /\ quit_rx' = "true"
    /\ data' = <<>>
    /\ UNCHANGED <<stat_ch, files, ctrl_c>>

StatisticsStep == HandleRegister \/ HandleUpdate \/ HandleQuit \/ SignalQuit

-----------------------------------------------------------------------------
StatisticsTypeOK ==
    /\ Len(stat_ch) <= MaxBacklog
    /\ statistics \in {"running", "aggregated", "ended", "panicked"}
    /\ DOMAIN data \subseteq Keys
    /\ Range(data) \subseteq [type : DataType,
                              points : DataPoint \cup {"none", "mixed"}]
    /\ files \in {"none", "partial", "complete"}
    /\ quit_rx \in {"empty", "true", "disconnected", "dropped"}
    /\ ctrl_c \in 0 .. MaxCtrlC

\* Every point is kept and can be printed: its name was registered before and
\* with a type that takes it, whichever threads send and in whatever order
\* (statistics.rs:70-106 only warns and drops the point; lines 130 to 144 panic
\* the thread, and with it the way to quit).
PointsKept ==
    /\ Unprintable = {}
    /\ statistics = "running" /\ stat_ch # <<>> =>
          \/ Head(stat_ch).op # "update"
          \/ Accepts(Head(stat_ch).key, Head(stat_ch).point)
=============================================================================
