------------------------------ MODULE InputPath ------------------------------
(***************************************************************************)
(* The way of the user's input to the server: the client's window handler  *)
(* (input, client/src/ui/wgpu_state.rs) puts events into a bounded         *)
(* channel; the input thread (client/src/decoder/input.rs), once a ping    *)
(* has told it the server's address, writes each into its one buffer and   *)
(* sends the buffer in a datagram; the server's input thread               *)
(* (server/src/server/input_server.rs) turns datagrams into X11 requests   *)
(* (write_event, server/src/input/x11.rs).                                 *)
(*                                                                         *)
(* An event is its number in the order the user made it and its kind.  The *)
(* ping's bytes are those of a press of the left button, number 0.  made,  *)
(* accepted, sent and requests are histories; coordinates, key codes and   *)
(* the padding of the datagrams are left out.                              *)
(***************************************************************************)
EXTENDS Naturals, Sequences, SequencesExt

CONSTANTS
    QueueLimit,     \* capacity of the channel: 10
    Details,        \* X11 button and key codes, with Left
    Left,           \* the code of the left button
    Window,         \* bound: how far the network reorders (0: not at all)
    MaxEvents,      \* bound: events of the user
    MaxResends      \* bound: datagrams sent after the channel has closed

ASSUME InputAssumption ==
    /\ QueueLimit \in Nat \ {0}
    /\ Details \subseteq Nat \ {0}
    /\ Left \in Details
    /\ Window \in Nat
    /\ MaxEvents \in Nat
    /\ MaxResends \in Nat

\* "unknown" is a button or key the server has no code for, "wheel" a turn of
\* the mouse wheel.
Kinds == {"move", "press", "release", "unknown", "wheel"}
XTypes == {"motion", "press", "release"}
Event == [number : Nat, kind : Kinds, detail : Details \cup {0}]
Ping == [number |-> 0, kind |-> "press", detail |-> Left]

VARIABLES
    ui,             \* the main thread: "running", "closed", or the process "gone"
    queue,          \* the channel
    input_thread,   \* "unbound", "waiting", "connected", or "ended" with an error
    inp_buffer,     \* its buffer: the ping at first
    server,         \* input server: "stopped", "running", "panicked"
    ping_arrived,
    received, newest,   \* places of sent that arrived, and the latest
    fake_input,     \* the server's X11 request: type and detail
    made,           \* history: the user's events
    accepted,       \* history: the events the channel took
    sent,           \* history: datagrams, as they were given to send_to
    resends,        \* history: datagrams sent after the channel closed
    requests        \* history: requests made, with the number of the event

uiVars == <<ui, made, accepted>>
threadVars == <<input_thread, inp_buffer, sent, resends>>
serverVars == <<server, received, newest, fake_input, requests>>
vars == <<queue, ping_arrived, uiVars, threadVars, serverVars>>

-----------------------------------------------------------------------------
Init ==
    /\ ui = "running"
    /\ queue = <<>>
    /\ input_thread = "unbound"
    /\ inp_buffer = Ping
    /\ server = "stopped"
    /\ ping_arrived = FALSE
    /\ received = {}
    /\ newest = 0
    /\ fake_input = [type |-> "none", detail |-> 0]
    /\ made = <<>>
    /\ accepted = <<>>
    /\ sent = <<>>
    /\ resends = 0
    /\ requests = <<>>

\* The event the user makes next.
NextEvent(kind, detail) ==
    [number |-> Len(made) + 1, kind |-> kind,
     detail |-> IF kind \in {"press", "release"} THEN detail ELSE 0]

\* The handler ignores the wheel.
Forwarded(kind) == kind # "wheel"

Accepted(kind) == Forwarded(kind) /\ Len(queue) < QueueLimit

\* input(): try_send drops the event when the channel is full.
UserInput ==
    /\ ui = "running"
    /\ Len(made) < MaxEvents
    /\ \E kind \in Kinds, detail \in Details :
          LET event == NextEvent(kind, detail)
          IN  /\ made' = Append(made, event)
              /\ IF Accepted(kind)
                 THEN /\ queue' = Append(queue, event)
                      /\ accepted' = Append(accepted, event)
                 ELSE UNCHANGED <<queue, accepted>>
    /\ UNCHANGED <<ui, ping_arrived, threadVars, serverVars>>

\* The event loop ends, in whatever way, and drops the only sender of the channel.
CloseWindow ==
    /\ ui = "running"
    /\ ui' = "closed"
    /\ UNCHANGED <<queue, ping_arrived, made, accepted, threadVars, serverVars>>

\* main returns without waiting for its threads (client/src/main.rs:61-63): the
\* input thread is gone with it, whatever the channel still holds.
ProcessEnds ==
    /\ ui = "closed"
    /\ ui' = "gone"
    /\ UNCHANGED <<queue, ping_arrived, made, accepted, threadVars, serverVars>>

-----------------------------------------------------------------------------
\* input::start binds the socket the pings are sent to.
BindSocket ==
    /\ ui # "gone"
    /\ input_thread = "unbound"
    /\ input_thread' = "waiting"
    /\ UNCHANGED <<queue, ping_arrived, uiVars, inp_buffer, sent, resends, serverVars>>

\* start_receive_loop sends five pings and no more: one arrives if the socket
\* is bound and the network does not lose them all.
StartServer ==
    /\ server = "stopped"
    /\ server' = "running"
    /\ \/ ping_arrived' = (input_thread # "unbound" /\ ui # "gone")
       \/ UNCHANGED ping_arrived
    /\ UNCHANGED <<queue, uiVars, threadVars, received, newest, fake_input, requests>>

\* recv_from writes the ping into the buffer, or fails and ends the thread.
ReceivePing ==
    /\ ui # "gone"
    /\ input_thread = "waiting"
    /\ \/ ping_arrived /\ input_thread' = "connected" /\ inp_buffer' = Ping
       \/ input_thread' = "ended" /\ UNCHANGED inp_buffer
    /\ UNCHANGED <<queue, ping_arrived, uiVars, sent, resends, serverVars>>

\* Faulty: only the newest event that waits is sent.
SendNewest ==
    /\ ui # "gone" /\ input_thread = "connected"
    /\ queue # <<>>
    /\ inp_buffer' = Last(queue)
    /\ queue' = <<>>
    /\ sent' = Append(sent, Last(queue))
    /\ UNCHANGED <<ping_arrived, uiVars, input_thread, resends, serverVars>>

\* Faulty: events are sent once the channel is full.
SendWhenFull ==
    /\ ui # "gone" /\ input_thread = "connected"
    /\ Len(queue) = QueueLimit
    /\ inp_buffer' = Head(queue)
    /\ queue' = Tail(queue)
    /\ sent' = Append(sent, Head(queue))
    /\ UNCHANGED <<ping_arrived, uiVars, input_thread, resends, serverVars>>

\* recv() gives the oldest event; it is written into the buffer and sent.  A
\* send_to that fails is only logged (line 72) and the event not sent again: its
\* datagram is then one of those that never arrive.
SendEvent ==
    /\ ui # "gone" /\ input_thread = "connected"
    /\ queue # <<>>
    /\ inp_buffer' = Head(queue)
    /\ queue' = Tail(queue)
    /\ sent' = Append(sent, Head(queue))
    /\ UNCHANGED <<ping_arrived, uiVars, input_thread, resends, serverVars>>

\* Faulty: recv() with a timeout, after which the buffer is sent as well.
ResendOnTimeout ==
    /\ ui # "gone" /\ input_thread = "connected"
    /\ queue = <<>>
    /\ resends < MaxResends
    /\ resends' = resends + 1
    /\ sent' = Append(sent, inp_buffer)
    /\ UNCHANGED <<queue, ping_arrived, uiVars, input_thread, inp_buffer, serverVars>>

\* recv() fails on the closed channel; the buffer is sent all the same, and
\* again, until the process is gone (input.rs:67-73).
ResendBuffer ==
    /\ ui # "gone" /\ input_thread = "connected"
    /\ queue = <<>> /\ ui = "closed"
    /\ resends < MaxResends
    /\ resends' = resends + 1
    /\ sent' = Append(sent, inp_buffer)
    /\ UNCHANGED <<queue, ping_arrived, uiVars, input_thread, inp_buffer, serverVars>>

-----------------------------------------------------------------------------
\* Place k of sent may arrive: the network loses, and reorders within Window.
MayArrive(k) == k \notin received /\ k + Window > newest

XType(kind) == CASE kind = "move"    -> "motion"
                 [] kind = "release" -> "release"
                 [] OTHER            -> "press"

\* Faulty: the detail of an earlier button stays in a motion request.
FakeInputStale(event) ==
    [type |-> XType(event.kind),
     detail |-> IF event.kind \in {"press", "release"} THEN event.detail
                ELSE fake_input.detail]

\* write_event: what becomes of the request that is used again for each event.
\* An unknown button or key is refused after the type is set.
FakeInput(event) ==
    [type |-> XType(event.kind),
     detail |-> IF event.kind = "unknown" THEN fake_input.detail ELSE event.detail]

\* recv_from, then write_event; a wheel event is unimplemented!().
HandleDatagram ==
    /\ server = "running"
    /\ \E k \in 1 .. Len(sent) :
          /\ MayArrive(k)
          /\ received' = received \cup {k}
          /\ newest' = IF k > newest THEN k ELSE newest
          /\ IF sent[k].kind = "wheel"
             THEN server' = "panicked" /\ UNCHANGED <<fake_input, requests>>
             ELSE /\ fake_input' = FakeInput(sent[k])
                  /\ requests' =
                        IF sent[k].kind = "unknown" THEN requests
                        ELSE Append(requests, [number |-> sent[k].number,
                                               request |-> fake_input'])
                  /\ UNCHANGED server
    /\ UNCHANGED <<queue, ping_arrived, uiVars, threadVars>>

Next == \/ UserInput
        \/ CloseWindow
        \/ ProcessEnds
        \/ BindSocket
        \/ StartServer
        \/ ReceivePing
        \/ SendEvent
        \/ ResendBuffer
        \/ HandleDatagram

Spec == Init /\ [][Next]_vars

\* The input thread runs whenever it can, as long as the process lives.
LiveSpec ==
    /\ Spec
    /\ WF_vars(ReceivePing /\ ping_arrived)
    /\ WF_vars(SendEvent)

-----------------------------------------------------------------------------
TypeOK ==
    /\ ui \in {"running", "closed", "gone"}
    /\ queue \in Seq(Event) /\ Len(queue) <= QueueLimit
    /\ input_thread \in {"unbound", "waiting", "connected", "ended"}
    /\ inp_buffer \in Event
    /\ server \in {"stopped", "running", "panicked"}
    /\ ping_arrived \in BOOLEAN
    /\ received \subseteq 1 .. Len(sent)
    /\ newest \in Nat
    /\ fake_input \in [type : XTypes \cup {"none"}, detail : Nat]
    /\ made \in Seq(Event)
    /\ accepted \in Seq(Event)
    /\ sent \in Seq(Event)
    /\ resends \in Nat
    /\ requests \in Seq([number : Nat, request : [type : XTypes, detail : Nat]])

\* Every request the server makes is the one its event asks for: a motion is
\* absolute (x11.rs:91) and a button or key its own, although one request
\* object is filled in again for every event and left half filled by a refused
\* one.
RequestsFaithful ==
    \A k \in 1 .. Len(requests) : LET n == requests[k].number IN
        n > 0 => requests[k].request =
                    [type |-> XType(made[n].kind), detail |-> made[n].detail]

\* While the window is open and the network keeps the order, the server repeats
\* no event and none out of order, and never takes the ping for a press of the
\* left button (input.rs:27, :67-73), however the channel fills up.
RequestsInOrder ==
    ui = "running" =>
        /\ \A k \in 1 .. Len(requests) : requests[k].number > 0
        /\ \A j, k \in 1 .. Len(requests) :
              j < k => requests[j].number < requests[k].number

\* The client itself drops no event it accepted and sends none twice, until
\* the channel is closed and drained: what it gave to send_to and what waits,
\* or was left when the process ended, is what it accepted.
NothingLostInClient == resends = 0 => sent \o queue = accepted

\* While the window stays open every event the channel took is sent, once a ping
\* has arrived: the first ones also when the window outran the input thread and
\* the channel filled up before the ping.  What still waits when the window
\* closes may be lost with the process.
EventuallySent ==
    \A n \in 1 .. MaxEvents :
        (ping_arrived /\ Len(accepted) >= n)
            ~> (Len(sent) >= n \/ ui # "running" \/ input_thread = "ended")
=============================================================================
