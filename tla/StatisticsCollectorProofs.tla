----------------------- MODULE StatisticsCollectorProofs -----------------------
(***************************************************************************)
(* Facts about the steps of the statistics thread and of those who send to *)
(* it, for any names; used by the proofs about the two programs.           *)
(***************************************************************************)
EXTENDS StatisticsCollector, SequenceTheorems, TLAPS

\* The thread has written what it could when it signals, or is about to.
WrittenBeforeSignal ==
    quit_rx = "true" \/ statistics = "aggregated" => files # "none"

\* Every step of the thread keeps that, and what is written stays.
LEMMA StatisticsStepWrites ==
    ASSUME WrittenBeforeSignal, StatisticsStep
    PROVE  WrittenBeforeSignal' /\ (files # "none" => files' # "none")
<1>1. CASE HandleRegister \/ HandleUpdate
  BY <1>1 DEF HandleRegister, HandleUpdate, Received, WrittenBeforeSignal
<1>2. CASE HandleQuit
  <2>1. files' \in {"complete", "partial"}
    BY <1>2 DEF HandleQuit
  <2> QED
    BY <2>1 DEF WrittenBeforeSignal
<1>3. CASE SignalQuit
  BY <1>3 DEF SignalQuit, WrittenBeforeSignal
<1> QED
  BY <1>1, <1>2, <1>3 DEF StatisticsStep

\* What the channel can hold: data and, where quits says so, a request to quit.
Messages(quits) ==
    {Register(k, t) : k \in Keys, t \in DataType}
        \cup {Update(k, p) : k \in Keys, p \in DataPoint}
        \cup (IF quits THEN {Quit} ELSE {})

LEMMA NoQuitWithoutRequest ==
    ASSUME NEW quits \in BOOLEAN, Quit \in Messages(quits)
    PROVE  quits
<1>1. \A k \in Keys, t \in DataType : Register(k, t) # Quit
  <2> SUFFICES ASSUME NEW k \in Keys, NEW t \in DataType PROVE Register(k, t) # Quit
    OBVIOUS
  <2>1. Register(k, t).op = "register" /\ Quit.op = "quit"
    BY DEF Register, Quit
  <2> QED
    BY <2>1
<1>2. \A k \in Keys, p \in DataPoint : Update(k, p) # Quit
  <2> SUFFICES ASSUME NEW k \in Keys, NEW p \in DataPoint PROVE Update(k, p) # Quit
    OBVIOUS
  <2>1. Update(k, p).op = "update" /\ Quit.op = "quit"
    BY DEF Update, Quit
  <2> QED
    BY <2>1
<1> QED
  BY <1>1, <1>2 DEF Messages

\* Messages of a set that are sent, in whatever order, leave only such messages
\* in the channel.
LEMMA SendAllKeepsMessages ==
    ASSUME NEW S, stat_ch \in Seq(S), NEW ms \in Seq(S), SendAll(ms)
    PROVE  stat_ch' \in Seq(S)
<1>1. stat_ch' = stat_ch \o ms \/ stat_ch' = stat_ch
  BY DEF SendAll
<1> QED
  BY <1>1, ConcatProperties

\* The thread only takes messages out.
LEMMA StatisticsStepKeepsMessages ==
    ASSUME NEW S, stat_ch \in Seq(S), StatisticsStep
    PROVE  stat_ch' \in Seq(S)
<1>1. CASE HandleRegister \/ HandleUpdate
  <2>1. stat_ch # <<>> /\ stat_ch' = Tail(stat_ch)
    BY <1>1 DEF HandleRegister, HandleUpdate, Received
  <2> QED
    BY <2>1, HeadTailProperties
<1>2. CASE HandleQuit
  BY <1>2 DEF HandleQuit, ReceivedQuit
<1>3. CASE SignalQuit
  BY <1>3 DEF SignalQuit
<1> QED
  BY <1>1, <1>2, <1>3 DEF StatisticsStep

-----------------------------------------------------------------------------
LEMMA MessageTypes ==
    ASSUME NEW quits \in BOOLEAN, NEW m \in Messages(quits)
    PROVE  /\ m.op = "register" => m.key \in Keys /\ m.type \in DataType
           /\ m.op = "update" => m.key \in Keys /\ m.point \in DataPoint
<1>1. CASE \E k \in Keys, t \in DataType : m = Register(k, t)
  BY <1>1 DEF Register
<1>2. CASE \E k \in Keys, p \in DataPoint : m = Update(k, p)
  BY <1>2 DEF Update
<1>3. CASE m = Quit
  BY <1>3 DEF Quit
<1> QED
  BY <1>1, <1>2, <1>3 DEF Messages

\* What the thread keeps: for names of Keys, points of the kinds there are.
DataTypeOK ==
    /\ DOMAIN data \subseteq Keys
    /\ \A k \in DOMAIN data :
          data[k] \in [type : DataType, points : DataPoint \cup {"none", "mixed"}]

LEMMA DataTypeOKMeans ==
    DataTypeOK <=> /\ DOMAIN data \subseteq Keys
                   /\ Range(data) \subseteq [type : DataType,
                                             points : DataPoint \cup {"none", "mixed"}]
BY DEF DataTypeOK, Range

LEMMA ReceivedMessage ==
    ASSUME NEW quits \in BOOLEAN, stat_ch \in Seq(Messages(quits)), stat_ch # <<>>
    PROVE  /\ Head(stat_ch) \in Messages(quits)
           /\ Len(Tail(stat_ch)) <= Len(stat_ch)
           /\ Len(stat_ch) \in Nat /\ Len(Tail(stat_ch)) \in Nat
<1>1. /\ Head(stat_ch) \in Messages(quits)
      /\ Tail(stat_ch) \in Seq(Messages(quits))
      /\ Len(Tail(stat_ch)) = Len(stat_ch) - 1
  BY HeadTailProperties
<1>2. Len(stat_ch) \in Nat /\ Len(Tail(stat_ch)) \in Nat
  BY <1>1, LenProperties
<1> QED
  BY <1>1, <1>2

\* Every step of the thread keeps its types.
LEMMA StatisticsStepTypes ==
    ASSUME StatisticsTypeOK, NEW quits \in BOOLEAN, stat_ch \in Seq(Messages(quits)),
           StatisticsStep
    PROVE  StatisticsTypeOK'
<1> DEFINE Kept == [type : DataType, points : DataPoint \cup {"none", "mixed"}]
<1>1. DataTypeOK
  BY DataTypeOKMeans DEF StatisticsTypeOK
<1>2. Len(stat_ch') <= MaxBacklog
  <2>1. CASE HandleRegister \/ HandleUpdate
    <3>1. stat_ch # <<>> /\ stat_ch' = Tail(stat_ch)
      BY <2>1 DEF HandleRegister, HandleUpdate, Received
    <3> QED
      BY <3>1, ReceivedMessage, StatisticsAssumption DEF StatisticsTypeOK
  <2>2. CASE HandleQuit \/ SignalQuit
    <3>1. stat_ch' = <<>> \/ stat_ch' = stat_ch
      BY <2>2 DEF HandleQuit, ReceivedQuit, SignalQuit
    <3>2. stat_ch' = <<>> => Len(stat_ch') = 0
      OBVIOUS
    <3> QED
      BY <3>1, <3>2, StatisticsAssumption DEF StatisticsTypeOK
  <2> QED
    BY <2>1, <2>2 DEF StatisticsStep
<1>3. DataTypeOK'
  <2>1. CASE HandleRegister
    <3> DEFINE m == Head(stat_ch)
    <3>1. /\ stat_ch # <<>> /\ m.op = "register"
          /\ data' = [k \in DOMAIN data \cup {m.key} |->
                        IF k = m.key THEN [type |-> m.type, points |-> "none"]
                                     ELSE data[k]]
      BY <2>1 DEF HandleRegister, Received
    <3>2. m.key \in Keys /\ m.type \in DataType
      BY <3>1, ReceivedMessage, MessageTypes
    <3> HIDE DEF m
    <3>3. [type |-> m.type, points |-> "none"] \in Kept
      BY <3>2
    <3> QED
      BY <1>1, <3>1, <3>2, <3>3 DEF DataTypeOK
  <2>2. CASE HandleUpdate
    <3> DEFINE m == Head(stat_ch)
               new(k) == [data[k] EXCEPT !.points = Stored(data[k], m.point)]
    <3>1. /\ stat_ch # <<>> /\ m.op = "update"
          /\ data' = [k \in DOMAIN data |->
                        IF k = m.key /\ Accepts(k, m.point) THEN new(k) ELSE data[k]]
      BY <2>2 DEF HandleUpdate, Received
    <3>2. m.point \in DataPoint
      BY <3>1, ReceivedMessage, MessageTypes
    <3>3. ASSUME NEW k \in DOMAIN data
          PROVE  new(k) \in Kept
      <4>1. data[k] \in Kept
        BY <1>1 DEF DataTypeOK
      <4>2. Stored(data[k], m.point) \in DataPoint \cup {"none", "mixed"}
        BY <3>2 DEF Stored
      <4> QED
        BY <4>1, <4>2
    <3> HIDE DEF m, new
    <3> QED
      BY <1>1, <3>1, <3>3 DEF DataTypeOK
  <2>3. CASE HandleQuit
    BY <1>1, <2>3 DEF HandleQuit, DataTypeOK
  <2>4. CASE SignalQuit
    BY <2>4 DEF SignalQuit, DataTypeOK
  <2> QED
    BY <2>1, <2>2, <2>3, <2>4 DEF StatisticsStep
<1>4. /\ statistics' \in {"running", "aggregated", "ended", "panicked"}
      /\ files' \in {"none", "partial", "complete"}
      /\ quit_rx' \in {"empty", "true", "disconnected", "dropped"}
      /\ ctrl_c' \in 0 .. MaxCtrlC
  <2>1. CASE HandleRegister \/ HandleUpdate
    BY <2>1 DEF HandleRegister, HandleUpdate, Received, StatisticsTypeOK
  <2>2. CASE HandleQuit
    BY <2>2 DEF HandleQuit, StatisticsTypeOK
  <2>3. CASE SignalQuit
    BY <2>3 DEF SignalQuit, StatisticsTypeOK
  <2> QED
    BY <2>1, <2>2, <2>3 DEF StatisticsStep
<1>5. (DOMAIN data \subseteq Keys /\ Range(data) \subseteq Kept)'
  <2>1. DataTypeOK' <=> (DOMAIN data \subseteq Keys /\ Range(data) \subseteq Kept)'
    BY DEF DataTypeOK, Range
  <2> QED
    BY <1>3, <2>1
<1> QED
  BY <1>2, <1>4, <1>5 DEF StatisticsTypeOK

\* A sender that the bound leaves room keeps the length.
LEMMA SendAllKeepsBacklog ==
    ASSUME NEW S, stat_ch \in Seq(S), NEW ms \in Seq(S), SendAll(ms),
           Len(stat_ch) <= MaxBacklog
    PROVE  Len(stat_ch') <= MaxBacklog
<1>1. \/ stat_ch' = stat_ch \o ms /\ Len(stat_ch) + Len(ms) <= MaxBacklog
      \/ stat_ch' = stat_ch
  BY DEF SendAll
<1>2. Len(stat_ch \o ms) = Len(stat_ch) + Len(ms)
  BY ConcatProperties
<1> QED
  BY <1>1, <1>2
-----------------------------------------------------------------------------
\* A use gives each name the one type it is registered with and the one kind of
\* its points; these are the uses whose points are kept and can be printed.
Printable ==
    {[type |-> "TimeSeries", point |-> "TimeElapsed"],
     [type |-> "TimeSeries", point |-> "FloatValue"],
     [type |-> "XYData", point |-> "XYValue"],
     [type |-> "Aggregate", point |-> "Increment"]}

UsedMessages(use) ==
    {Quit} \cup {Register(k, use[k].type) : k \in Keys}
           \cup {Update(k, use[k].point) : k \in Keys}

\* Name k is registered by one of the first n of the messages ms.
RegisteredIn(ms, n, k) == \E j \in 1 .. n : ms[j].op = "register" /\ ms[j].key = k

\* Name k is registered, or will be by the messages in the channel.
Known(k) == k \in DOMAIN data \/ RegisteredIn(stat_ch, Len(stat_ch), k)

\* Every point in the channel comes after the registration of its name, every
\* message and datum is as the use says, and the channel of a thread that no longer
\* reads is empty.
PointsInv(use) ==
    /\ stat_ch \in Seq(UsedMessages(use))
    /\ \A n \in 1 .. Len(stat_ch) : stat_ch[n].op = "update" =>
          \/ stat_ch[n].key \in DOMAIN data
          \/ RegisteredIn(stat_ch, n, stat_ch[n].key)
    /\ DOMAIN data \subseteq Keys
    /\ \A k \in DOMAIN data :
          data[k] \in [type : {use[k].type}, points : {"none", use[k].point}]
    /\ statistics # "running" => stat_ch = <<>>

LEMMA UsedMessage ==
    ASSUME NEW use, NEW m \in UsedMessages(use)
    PROVE  /\ m.op \in {"quit", "register", "update"}
           /\ m.op = "register" => m.key \in Keys /\ m.type = use[m.key].type
           /\ m.op = "update" => m.key \in Keys /\ m.point = use[m.key].point
<1>1. CASE \E k \in Keys : m = Register(k, use[k].type)
  BY <1>1 DEF Register
<1>2. CASE \E k \in Keys : m = Update(k, use[k].point)
  BY <1>2 DEF Update
<1>3. CASE m = Quit
  BY <1>3 DEF Quit
<1> QED
  BY <1>1, <1>2, <1>3 DEF UsedMessages

\* At the head of the channel is a point only of a datum that takes it.
LEMMA UseIsAccepted ==
    ASSUME NEW use \in [Keys -> Printable], NEW k \in DOMAIN data, k \in Keys,
           data[k] \in [type : {use[k].type}, points : {"none", use[k].point}]
    PROVE  /\ Accepts(k, use[k].point)
           /\ Stored(data[k], use[k].point) = use[k].point
           /\ data[k].points # "mixed"
<1>1. use[k] \in Printable
  OBVIOUS
<1>2. data[k].type = use[k].type /\ data[k].points \in {"none", use[k].point}
  OBVIOUS
<1> DEFINE t == use[k].type
           p == use[k].point
<1>3. \/ t = "TimeSeries" /\ p \in {"TimeElapsed", "FloatValue"}
      \/ t = "XYData" /\ p = "XYValue"
      \/ t = "Aggregate" /\ p = "Increment"
  BY <1>1 DEF Printable
<1>4. data[k].type = t /\ data[k].points \in {"none", p}
  BY <1>2
<1> HIDE DEF t, p
<1>5. Accepts(k, p)
  BY <1>3, <1>4 DEF Accepts
<1>6. Stored(data[k], p) = p /\ data[k].points # "mixed"
  BY <1>3, <1>4 DEF Stored
<1> QED
  BY <1>5, <1>6 DEF t, p

LEMMA HeadIsKnown ==
    ASSUME NEW use, PointsInv(use), stat_ch # <<>>
    PROVE  /\ Head(stat_ch) \in UsedMessages(use)
           /\ Head(stat_ch).op = "update" => Head(stat_ch).key \in DOMAIN data
<1> DEFINE S == UsedMessages(use)
<1>1. stat_ch \in Seq(S)
  BY DEF PointsInv
<1> HIDE DEF S
<1>2. /\ 1 \in 1 .. Len(stat_ch) /\ Head(stat_ch) = stat_ch[1]
      /\ Head(stat_ch) \in S
  BY <1>1, HeadTailProperties
<1>3. ASSUME stat_ch[1].op = "update"
      PROVE  stat_ch[1].key \in DOMAIN data
  <2>1. ~RegisteredIn(stat_ch, 1, stat_ch[1].key)
    <3>1. \A j \in 1 .. 1 : j = 1
      OBVIOUS
    <3> QED
      BY <1>3, <3>1 DEF RegisteredIn
  <2> QED
    BY <1>2, <1>3, <2>1 DEF PointsInv
<1> QED
  BY <1>2, <1>3 DEF S

LEMMA PointsInvKeeps ==
    ASSUME NEW use \in [Keys -> Printable], PointsInv(use)
    PROVE  PointsKept
<1>1. Unprintable = {}
  <2>1. \A k \in DOMAIN data : data[k].points # "mixed"
    BY UseIsAccepted DEF PointsInv
  <2> QED
    BY <2>1 DEF Unprintable
<1>2. ASSUME stat_ch # <<>>, Head(stat_ch).op = "update"
      PROVE  Accepts(Head(stat_ch).key, Head(stat_ch).point)
  <2> DEFINE m == Head(stat_ch)
  <2>1. m \in UsedMessages(use) /\ m.key \in DOMAIN data
    BY <1>2, HeadIsKnown
  <2>2. m.point = use[m.key].point /\ m.key \in Keys
    BY <1>2, <2>1, UsedMessage
  <2> HIDE DEF m
  <2>3. Accepts(m.key, use[m.key].point)
    BY <2>1, <2>2, UseIsAccepted DEF PointsInv
  <2> QED
    BY <2>2, <2>3 DEF m
<1> QED
  BY <1>1, <1>2 DEF PointsKept

\* The message at the head is taken: what was known stays known.
LEMMA TakenMessage ==
    ASSUME NEW use, PointsInv(use), stat_ch # <<>>, stat_ch' = Tail(stat_ch),
           DOMAIN data' = IF Head(stat_ch).op = "register"
                          THEN DOMAIN data \cup {Head(stat_ch).key} ELSE DOMAIN data
    PROVE  /\ stat_ch' \in Seq(UsedMessages(use))
           /\ \A n \in 1 .. Len(stat_ch') : stat_ch'[n].op = "update" =>
                 \/ stat_ch'[n].key \in DOMAIN data'
                 \/ RegisteredIn(stat_ch', n, stat_ch'[n].key)
           /\ \A k : Known(k) => Known(k)'
<1> DEFINE S == UsedMessages(use)
           rest == Tail(stat_ch)
<1>1. stat_ch \in Seq(S)
  BY DEF PointsInv
<1> HIDE DEF S
<1>2. /\ rest \in Seq(S) /\ Len(rest) = Len(stat_ch) - 1
      /\ \A n \in 1 .. Len(rest) : rest[n] = stat_ch[n + 1]
      /\ Head(stat_ch) = stat_ch[1]
      /\ Len(stat_ch) \in Nat /\ Len(rest) \in Nat
  <2>1. /\ rest \in Seq(S) /\ Len(rest) = Len(stat_ch) - 1
        /\ \A n \in 1 .. Len(rest) : rest[n] = stat_ch[n + 1]
        /\ Head(stat_ch) = stat_ch[1]
    BY <1>1, HeadTailProperties
  <2> QED
    BY <1>1, <2>1, LenProperties
<1> HIDE DEF rest
<1>3. ASSUME NEW n \in 0 .. Len(rest), NEW k, RegisteredIn(stat_ch, n + 1, k)
      PROVE  k \in DOMAIN data' \/ RegisteredIn(rest, n, k)
  <2>1. PICK j \in 1 .. n + 1 : stat_ch[j].op = "register" /\ stat_ch[j].key = k
    BY <1>3 DEF RegisteredIn
  <2>2. CASE j = 1
    BY <1>2, <2>1, <2>2
  <2>3. CASE j # 1
    <3>1. j - 1 \in 1 .. n /\ j - 1 \in 1 .. Len(rest) /\ (j - 1) + 1 = j
      BY <1>2, <2>3
    <3>2. rest[j - 1] = stat_ch[j]
      BY <1>2, <3>1
    <3> QED
      BY <2>1, <3>1, <3>2 DEF RegisteredIn
  <2> QED
    BY <2>2, <2>3
<1>4. ASSUME NEW n \in 1 .. Len(rest), rest[n].op = "update"
      PROVE  rest[n].key \in DOMAIN data' \/ RegisteredIn(rest, n, rest[n].key)
  <2>1. n + 1 \in 1 .. Len(stat_ch) /\ rest[n] = stat_ch[n + 1]
    BY <1>2
  <2>2. rest[n].key \in DOMAIN data \/ RegisteredIn(stat_ch, n + 1, rest[n].key)
    BY <1>4, <2>1 DEF PointsInv
  <2> QED
    BY <1>3, <2>2
<1>5. ASSUME NEW k, Known(k)
      PROVE  k \in DOMAIN data' \/ RegisteredIn(rest, Len(rest), k)
  <2>1. CASE k \in DOMAIN data
    BY <2>1
  <2>2. CASE RegisteredIn(stat_ch, Len(stat_ch), k)
    <3>1. Len(rest) \in 0 .. Len(rest) /\ Len(stat_ch) = Len(rest) + 1
      BY <1>2
    <3> QED
      BY <1>3, <2>2, <3>1
  <2> QED
    BY <1>5, <2>1, <2>2 DEF Known
<1>6. stat_ch' = rest
  BY DEF rest
<1> QED
  BY <1>2, <1>4, <1>5, <1>6 DEF Known, S

\* Every step of the thread keeps the invariant, and while it runs what was known
\* stays known.
LEMMA StatisticsStepKeepsPoints ==
    ASSUME NEW use \in [Keys -> Printable], PointsInv(use), StatisticsStep
    PROVE  /\ PointsInv(use)'
           /\ statistics' = "running" => /\ statistics = "running"
                                         /\ \A k : Known(k) => Known(k)'
<1>1. CASE HandleRegister
  <2> DEFINE m == Head(stat_ch)
  <2>1. /\ stat_ch # <<>> /\ m.op = "register" /\ stat_ch' = Tail(stat_ch)
        /\ statistics = "running" /\ statistics' = statistics
        /\ data' = [k \in DOMAIN data \cup {m.key} |->
                      IF k = m.key THEN [type |-> m.type, points |-> "none"] ELSE data[k]]
    BY <1>1 DEF HandleRegister, Received
  <2>2. m.key \in Keys /\ m.type = use[m.key].type
    BY <2>1, HeadIsKnown, UsedMessage
  <2>3. DOMAIN data' = DOMAIN data \cup {m.key}
    BY <2>1
  <2>4. /\ stat_ch' \in Seq(UsedMessages(use))
        /\ \A n \in 1 .. Len(stat_ch') : stat_ch'[n].op = "update" =>
              \/ stat_ch'[n].key \in DOMAIN data'
              \/ RegisteredIn(stat_ch', n, stat_ch'[n].key)
        /\ \A k : Known(k) => Known(k)'
    BY <2>1, <2>3, TakenMessage
  <2> HIDE DEF m
  <2>5. \A k \in DOMAIN data' :
           data'[k] \in [type : {use[k].type}, points : {"none", use[k].point}]
    BY <2>1, <2>2, <2>3 DEF PointsInv
  <2> QED
    BY <2>1, <2>2, <2>3, <2>4, <2>5 DEF PointsInv
<1>2. CASE HandleUpdate
  <2> DEFINE m == Head(stat_ch)
             new(k) == [data[k] EXCEPT !.points = Stored(data[k], m.point)]
  <2>1. /\ stat_ch # <<>> /\ m.op = "update" /\ stat_ch' = Tail(stat_ch)
        /\ statistics = "running" /\ statistics' = statistics
        /\ data' = [k \in DOMAIN data |->
                      IF k = m.key /\ Accepts(k, m.point) THEN new(k) ELSE data[k]]
    BY <1>2 DEF HandleUpdate, Received
  <2>2. DOMAIN data' = DOMAIN data
    BY <2>1
  <2>3. /\ stat_ch' \in Seq(UsedMessages(use))
        /\ \A n \in 1 .. Len(stat_ch') : stat_ch'[n].op = "update" =>
              \/ stat_ch'[n].key \in DOMAIN data'
              \/ RegisteredIn(stat_ch', n, stat_ch'[n].key)
        /\ \A k : Known(k) => Known(k)'
    BY <2>1, <2>2, TakenMessage
  <2>4. m.key \in Keys /\ m.point = use[m.key].point
    BY <2>1, HeadIsKnown, UsedMessage
  <2>5. ASSUME NEW k \in DOMAIN data
        PROVE  data'[k] \in [type : {use[k].type}, points : {"none", use[k].point}]
    <3>1. k \in Keys /\ data[k] \in [type : {use[k].type}, points : {"none", use[k].point}]
      BY DEF PointsInv
    <3>2. Stored(data[k], use[k].point) = use[k].point
      BY <3>1, UseIsAccepted
    <3>3. CASE data'[k] = data[k]
      BY <3>1, <3>3
    <3>4. CASE k = m.key /\ data'[k] = new(k)
      <4>1. m.point = use[k].point
        BY <2>4, <3>4
      <4>2. data'[k] = [data[k] EXCEPT !.points = use[k].point]
        BY <3>2, <3>4, <4>1
      <4> QED
        BY <3>1, <4>2
    <3> HIDE DEF m, new
    <3> QED
      BY <2>1, <3>3, <3>4
  <2> QED
    BY <2>1, <2>2, <2>3, <2>5 DEF PointsInv
<1>3. CASE HandleQuit
  <2>1. stat_ch' = <<>> /\ statistics' # "running" /\ data' = data
    BY <1>3 DEF HandleQuit, ReceivedQuit
  <2>2. stat_ch' \in Seq(UsedMessages(use)) /\ Len(stat_ch') = 0
    BY <2>1
  <2> QED
    BY <2>1, <2>2 DEF PointsInv
<1>4. CASE SignalQuit
  <2>1. stat_ch' = <<>> /\ statistics' # "running" /\ data' = <<>>
    BY <1>4 DEF SignalQuit, PointsInv
  <2>2. stat_ch' \in Seq(UsedMessages(use)) /\ Len(stat_ch') = 0
    BY <2>1
  <2> QED
    BY <2>1, <2>2 DEF PointsInv
<1> QED
  BY <1>1, <1>2, <1>3, <1>4 DEF StatisticsStep

\* Messages that are as the use says, and update only names known or registered
\* among them, keep the invariant.
LEMMA SendAllKeepsPoints ==
    ASSUME NEW use, PointsInv(use), NEW ms \in Seq(UsedMessages(use)), SendAll(ms),
           UNCHANGED <<statistics, data>>,
           \A n \in 1 .. Len(ms) : ms[n].op = "update" => Known(ms[n].key) \/ statistics # "running"
    PROVE  /\ PointsInv(use)'
           /\ \A k : Known(k) => Known(k)'
           /\ statistics = "running" =>
                 \A k : RegisteredIn(ms, Len(ms), k) => Known(k)'
<1>1. CASE statistics # "running"
  <2>1. stat_ch' = stat_ch
    BY <1>1 DEF SendAll
  <2> QED
    BY <1>1, <2>1 DEF PointsInv, Known, RegisteredIn
<1>2. CASE statistics = "running"
  <2> DEFINE S == UsedMessages(use)
             all == stat_ch \o ms
  <2>1. stat_ch' = all
    BY <1>2 DEF SendAll
  <2>2. stat_ch \in Seq(S) /\ ms \in Seq(S)
    BY DEF PointsInv
  <2> HIDE DEF S
  <2>3. /\ all \in Seq(S) /\ Len(all) = Len(stat_ch) + Len(ms)
        /\ Len(stat_ch) \in Nat /\ Len(ms) \in Nat
        /\ \A n \in 1 .. Len(stat_ch) : all[n] = stat_ch[n]
        /\ \A n \in 1 .. Len(ms) : all[Len(stat_ch) + n] = ms[n]
    BY <2>2
  <2> HIDE DEF all
  <2>4. ASSUME NEW n \in 0 .. Len(stat_ch), NEW i \in n .. Len(all), NEW k,
               RegisteredIn(stat_ch, n, k)
        PROVE  RegisteredIn(all, i, k)
    <3>1. PICK j \in 1 .. n : stat_ch[j].op = "register" /\ stat_ch[j].key = k
      BY <2>4 DEF RegisteredIn
    <3>2. j \in 1 .. i /\ j \in 1 .. Len(stat_ch)
      BY <2>3
    <3> QED
      BY <2>3, <3>1, <3>2 DEF RegisteredIn
  <2>5. ASSUME NEW k, Known(k), NEW i \in Len(stat_ch) .. Len(all)
        PROVE  k \in DOMAIN data \/ RegisteredIn(all, i, k)
    BY <2>3, <2>4, <2>5 DEF Known
  <2>6. ASSUME NEW k, RegisteredIn(ms, Len(ms), k)
        PROVE  RegisteredIn(all, Len(all), k)
    <3>1. PICK j \in 1 .. Len(ms) : ms[j].op = "register" /\ ms[j].key = k
      BY <2>6 DEF RegisteredIn
    <3>2. Len(stat_ch) + j \in 1 .. Len(all) /\ all[Len(stat_ch) + j] = ms[j]
      BY <2>3
    <3> QED
      BY <3>1, <3>2 DEF RegisteredIn
  <2>7. ASSUME NEW n \in 1 .. Len(all), all[n].op = "update"
        PROVE  all[n].key \in DOMAIN data \/ RegisteredIn(all, n, all[n].key)
    <3>1. CASE n \in 1 .. Len(stat_ch)
      <4>1. all[n] = stat_ch[n] /\ n \in 0 .. Len(stat_ch) /\ n \in n .. Len(all)
        BY <2>3, <3>1
      <4>2. stat_ch[n].key \in DOMAIN data \/ RegisteredIn(stat_ch, n, stat_ch[n].key)
        BY <2>7, <3>1, <4>1 DEF PointsInv
      <4> QED
        BY <2>4, <4>1, <4>2
    <3>2. CASE n \notin 1 .. Len(stat_ch)
      <4>1. /\ n - Len(stat_ch) \in 1 .. Len(ms)
            /\ Len(stat_ch) + (n - Len(stat_ch)) = n
            /\ n \in Len(stat_ch) .. Len(all)
        BY <2>3, <3>2
      <4>2. all[n] = ms[n - Len(stat_ch)]
        BY <2>3, <4>1
      <4>3. Known(all[n].key)
        BY <1>2, <2>7, <4>1, <4>2
      <4> QED
        BY <2>5, <4>1, <4>3
    <3> QED
      BY <3>1, <3>2
  <2>8. Len(all) \in Len(stat_ch) .. Len(all)
    BY <2>3
  <2>9. PointsInv(use)'
    BY <1>2, <2>1, <2>3, <2>7 DEF PointsInv, S
  <2> QED
    BY <2>1, <2>5, <2>6, <2>8, <2>9 DEF Known
<1> QED
  BY <1>1, <1>2
\* A point alone is sent only of a name that is known.
LEMMA PointKeepsPoints ==
    ASSUME NEW use, PointsInv(use), NEW k, NEW p,
           <<Update(k, p)>> \in Seq(UsedMessages(use)),
           SendAll(<<Update(k, p)>>), UNCHANGED <<statistics, data>>,
           statistics = "running" => Known(k)
    PROVE  PointsInv(use)' /\ \A n : Known(n) => Known(n)'
<1> DEFINE ms == <<Update(k, p)>>
<1>1. \A n \in 1 .. Len(ms) : ms[n].key = k
  BY DEF Update
<1>2. \A n \in 1 .. Len(ms) : ms[n].op = "update" => Known(ms[n].key) \/ statistics # "running"
  BY <1>1
<1>3. ms \in Seq(UsedMessages(use)) /\ SendAll(ms)
  OBVIOUS
<1> HIDE DEF ms
<1> QED
  BY <1>2, <1>3, SendAllKeepsPoints

\* Registrations and requests to quit may be sent at any time.
LEMMA OthersKeepPoints ==
    ASSUME NEW use, PointsInv(use), NEW ms \in Seq(UsedMessages(use)),
           SendAll(ms), UNCHANGED <<statistics, data>>,
           \A n \in 1 .. Len(ms) : ms[n].op # "update"
    PROVE  /\ PointsInv(use)' /\ \A k : Known(k) => Known(k)'
           /\ statistics = "running" => \A n \in 1 .. Len(ms) :
                 ms[n].op = "register" => Known(ms[n].key)'
<1>1. \A n \in 1 .. Len(ms) : ms[n].op = "register" => RegisteredIn(ms, Len(ms), ms[n].key)
  BY DEF RegisteredIn
<1> QED
  BY <1>1, SendAllKeepsPoints
=============================================================================
