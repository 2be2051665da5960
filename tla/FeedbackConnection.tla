-------------------------- MODULE FeedbackConnection --------------------------
(***************************************************************************)
(* The TCP connection of the feedback path, byte by byte.  The client      *)
(* listens, accepts once and then writes a report and an ack per quantum   *)
(* (client/src/decoder/feedback.rs); the server connects once and reads    *)
(* into one buffer, which it takes for a whole message after each read,    *)
(* however many bytes came (server/src/server/feedback_server.rs,          *)
(* handle_feedback).  Messages have no length and are not framed.          *)
(*                                                                         *)
(* The bytes the client has written are in stream until the server reads   *)
(* them; TCP may hand over as few as it likes.  A byte is its message and  *)
(* its place in it; place 0 is the type.  Odd messages are reports, even   *)
(* ones acks.  A byte that is not a type may have any value, so the server *)
(* may take it for either type or for none.  What a report does to the     *)
(* bitrate is in BitrateControl, what it holds in FeedbackExchange.        *)
(***************************************************************************)
EXTENDS Naturals, Sequences, FiniteSetsExt

CONSTANTS
    FeedbackBytes,      \* LVFeedbackPacket::no_bytes(): 16
    AckBytes,           \* LVAck::no_bytes(): 18
    Checked,            \* TRUE in a dev build: arithmetic overflow panics
    Zero,               \* a byte of the buffer before the first read
    MaxMessages,        \* bound: messages the client writes
    MaxShortWrites,     \* bound: writes that take a part of the message
    MaxHandled          \* bound: how far handled messages are counted

ASSUME ConnectionAssumption ==
    /\ FeedbackBytes \in Nat \ {0}
    /\ AckBytes \in Nat \ {0}
    /\ Checked \in BOOLEAN
    /\ Zero \notin [message : Nat, place : Nat]
    /\ MaxMessages \in Nat
    /\ MaxShortWrites \in Nat
    /\ MaxHandled \in Nat \ {0, 1}

VARIABLES
    client,         \* the client's feedback thread
    server,         \* the server's feedback thread
    stream,         \* the bytes written and not read yet
    msg_buffer,     \* the server's buffer
    messages,       \* messages the client has written
    acted,          \* history: times each message was handled whole
    garbled,        \* history: something else was handled as a message
    split,          \* history: a read ended inside a message
    backlog,        \* history: a message was written onto unread bytes
    partial,        \* history: a read returned less than there was room for
    short_writes    \* history: messages that were written in part

connectionVars == <<client, server, stream, msg_buffer, messages, acted, garbled,
                    split, backlog, partial, short_writes>>

Message == 1 .. MaxMessages
Kind(m) == IF m % 2 = 1 THEN "report" ELSE "ack"

\* The length of message m with its type.
Length(m) == IF m % 2 = 1 THEN FeedbackBytes + 1 ELSE AckBytes + 1

\* Faulty: no room for the type.
BufferSizeWithoutType == Max({FeedbackBytes, AckBytes})

BufferSize == Max({FeedbackBytes, AckBytes}) + 1

Byte(m, i) == [message |-> m, place |-> i]
Bytes(m, n) == [i \in 1 .. n |-> Byte(m, i - 1)]

-----------------------------------------------------------------------------
ConnectionInit ==
    /\ client = "starting"
    /\ server = "connecting"
    /\ stream = <<>>
    /\ msg_buffer = [i \in 1 .. BufferSize |-> Zero]
    /\ messages = 0
    /\ acted = [m \in Message |-> 0]
    /\ garbled = FALSE
    /\ split = FALSE
    /\ backlog = FALSE
    /\ partial = FALSE
    /\ short_writes = 0

\* start: from now on a connection waits to be accepted.
Bind ==
    /\ client = "starting"
    /\ client' = "listening"
    /\ UNCHANGED <<server, stream, msg_buffer, messages, acted, garbled, split,
                   backlog, partial, short_writes>>

\* Faulty: a refused connection only ends the thread.
ConnectGivesUp ==
    /\ server = "connecting"
    /\ server' = IF client = "listening" THEN "reading" ELSE "ended"
    /\ UNCHANGED <<client, stream, msg_buffer, messages, acted, garbled, split,
                   backlog, partial, short_writes>>

\* start_receive_loop: without a listener the connection is refused, and the
\* expect of begin (line 211) ends the thread.
Connect ==
    /\ server = "connecting"
    /\ server' = IF client = "listening" THEN "reading" ELSE "refused"
    /\ UNCHANGED <<client, stream, msg_buffer, messages, acted, garbled, split,
                   backlog, partial, short_writes>>

\* The connection is accepted.  The loop inside never ends, and no other is.
Accept ==
    /\ client = "listening" /\ server = "reading"
    /\ client' = "reporting"
    /\ UNCHANGED <<server, stream, msg_buffer, messages, acted, garbled, split,
                   backlog, partial, short_writes>>

\* A report is written at the begin of a quantum, an ack right behind it.
\* write may take a part, and fails when the server has gone; both are only
\* logged.
Write ==
    /\ client = IF Kind(messages + 1) = "report" THEN "reporting" ELSE "acking"
    /\ messages < MaxMessages
    /\ messages' = messages + 1
    /\ client' = IF client = "reporting" THEN "acking" ELSE "reporting"
    /\ IF server = "panicked"
       THEN UNCHANGED <<stream, backlog, short_writes>>
       ELSE /\ \/ stream' = stream \o Bytes(messages', Length(messages'))
                  /\ UNCHANGED short_writes
               \/ /\ short_writes < MaxShortWrites
                  /\ short_writes' = short_writes + 1
                  /\ \E n \in 1 .. Length(messages') - 1 :
                        stream' = stream \o Bytes(messages', n)
            /\ backlog' = (backlog \/ stream # <<>>)
    /\ UNCHANGED <<server, msg_buffer, acted, garbled, split, partial>>

\* The client ends; what it has written still arrives.
ClientEnds ==
    /\ client \in {"reporting", "acking"}
    /\ client' = "gone"
    /\ UNCHANGED <<server, stream, msg_buffer, messages, acted, garbled, split,
                   backlog, partial, short_writes>>

-----------------------------------------------------------------------------
\* Faulty: acks are not known.
TypesWithoutAck(b) ==
    IF b = Zero \/ (b.place = 0 /\ Kind(b.message) = "ack") THEN {"unknown"}
    ELSE IF b.place = 0 THEN {"report"} ELSE {"report", "unknown"}

\* The types that the first byte of the buffer may be.
Types(b) ==
    IF b = Zero THEN {"ack"}
    ELSE IF b.place = 0 THEN {Kind(b.message)}
    ELSE {"ack", "report", "unknown"}

\* The buffer begins with the whole of message m.
Holds(buffer, m) ==
    /\ Length(m) <= BufferSize
    /\ \A i \in 1 .. Length(m) : buffer[i] = Byte(m, i - 1)

\* The buffer is handled as one message.  A message put together of other bytes
\* makes the subtraction of the rtt (line 60) or the accumulators (lines 154
\* and 155) overflow, or not.
Handle(buffer) ==
    \E type \in Types(buffer[1]) :
        IF type = "unknown" THEN UNCHANGED <<server, acted, garbled>>
        ELSE IF \E m \in Message : Holds(buffer, m)
        THEN /\ LET m == buffer[1].message
                IN  acted' = [acted EXCEPT ![m] = IF @ < MaxHandled THEN @ + 1 ELSE @]
             /\ UNCHANGED <<server, garbled>>
        ELSE /\ garbled' = TRUE
             /\ server' \in IF Checked THEN {"reading", "panicked"} ELSE {"reading"}
             /\ UNCHANGED acted

\* Faulty: the bytes are put behind those of the read before.
ReadBehind ==
    /\ server = "reading" /\ stream # <<>>
    /\ LET n == Min({BufferSize, Len(stream)})
           buffer == [i \in 1 .. BufferSize |->
                         IF i <= BufferSize - n THEN msg_buffer[n + i]
                                                ELSE stream[i - BufferSize + n]]
       IN  /\ msg_buffer' = buffer
           /\ stream' = SubSeq(stream, n + 1, Len(stream))
           /\ Handle(buffer)
    /\ split' = (split \/ (stream' # <<>> /\ Head(stream').place # 0))
    /\ UNCHANGED <<client, messages, backlog, partial, short_writes>>

\* read returns some of the bytes, over what the buffer held before.
Read ==
    /\ server = "reading" /\ stream # <<>>
    /\ \E n \in 1 .. Min({BufferSize, Len(stream)}) :
          LET buffer == [i \in 1 .. BufferSize |->
                            IF i <= n THEN stream[i] ELSE msg_buffer[i]]
          IN  /\ msg_buffer' = buffer
              /\ stream' = SubSeq(stream, n + 1, Len(stream))
              /\ Handle(buffer)
              /\ partial' = (partial \/ n < Min({BufferSize, Len(stream)}))
    /\ split' = (split \/ (stream' # <<>> /\ Head(stream').place # 0))
    /\ UNCHANGED <<client, messages, backlog, short_writes>>

\* Faulty: the socket does not block.
ReadEndUnblocked ==
    /\ server = "reading" /\ stream = <<>> /\ messages > 0
    /\ Handle(msg_buffer)
    /\ UNCHANGED <<client, stream, msg_buffer, messages, split, backlog, partial,
                   short_writes>>

\* The client has gone: read returns Ok(0), again and again, and the buffer is
\* handled as it is.
ReadEnd ==
    /\ server = "reading" /\ stream = <<>> /\ client = "gone"
    /\ Handle(msg_buffer)
    /\ UNCHANGED <<client, stream, msg_buffer, messages, split, backlog, partial,
                   short_writes>>

ConnectionNext == \/ Bind \/ Connect \/ Accept \/ Write \/ ClientEnds
                  \/ Read \/ ReadEnd

ConnectionSpec == ConnectionInit /\ [][ConnectionNext]_connectionVars

\* What is written arrives.
ConnectionLiveSpec == ConnectionSpec /\ WF_connectionVars(Read)

-----------------------------------------------------------------------------
ConnectionTypeOK ==
    /\ client \in {"starting", "listening", "reporting", "acking", "gone"}
    /\ server \in {"connecting", "refused", "reading", "panicked"}
    /\ stream \in Seq([message : Message, place : Nat])
    /\ DOMAIN msg_buffer = 1 .. BufferSize
    /\ messages \in 0 .. MaxMessages
    /\ acted \in [Message -> 0 .. MaxHandled]
    /\ {garbled, split, backlog, partial} \subseteq BOOLEAN
    /\ short_writes \in 0 .. MaxShortWrites

\* Although reports and acks differ in length and the buffer is never cleared,
\* the server acts on nothing but what the client sent as long as each read ends
\* where a message ends (feedback.rs:37-39): the old bytes behind a report are
\* not read.  A client that goes before its first message leaves an ack of zeros.
GarbledNeedsSplit ==
    garbled => split \/ short_writes > 0 \/ (client = "gone" /\ messages = 0)

\* A read ends inside a message only when TCP hands over less than it has, or
\* when the client wrote a message before the one before was read: the buffer
\* has room for each of them (feedback_server.rs:24-26).
SplitNeedsBacklog == split => backlog \/ partial

\* Unless reads are split the server acts on a message once, but for the last
\* one: that is acted on without end when the client goes (Ok(0) on line 43), so
\* a last report moves the bitrate again and again.
ActedOnOnce ==
    ~split /\ short_writes = 0 =>
        \A m \in Message :
            acted[m] > 1 => m = messages /\ client = "gone" /\ stream = <<>>

\* A read that starts where a message starts and takes all of it is handled as
\* that message, whatever an earlier garbled read has left in the buffer: once
\* the server has caught up with the client the connection is in order again.
ResynchronisesAtBoundary ==
    [][stream # <<>> /\ Head(stream).place = 0 /\ short_writes = 0
          => LET m == Head(stream).message
             IN  Len(stream) - Len(stream') >= Length(m) =>
                    /\ garbled' = garbled
                    /\ acted'[m] = Min({acted[m] + 1, MaxHandled})
      ]_connectionVars

\* Every message is acted on in the end, unless a read is split.
EventuallyActedOn ==
    \A m \in Message :
        (messages = m /\ server = "reading") ~>
            (acted[m] > 0 \/ split \/ short_writes > 0 \/ server = "panicked")
=============================================================================
