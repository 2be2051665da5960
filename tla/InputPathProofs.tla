---------------------------- MODULE InputPathProofs ----------------------------
(***************************************************************************)
(* Theorems about the way of the user's input in InputPath, for channels   *)
(* of any size, any buttons and keys, any number of events and a network   *)
(* that loses and reorders as it likes.                                    *)
(***************************************************************************)
EXTENDS InputPath, SequenceTheorems, TLAPS

XRequest == [type : XTypes, detail : Nat]

LEMMA PingType == Ping \in Event
<1>1. Left \in Details /\ Details \subseteq Nat
  BY InputAssumption
<1> QED
  BY <1>1 DEF Ping, Event, Kinds

LEMMA EventTypes ==
    ASSUME made \in Seq(Event), NEW kind \in Kinds, NEW detail \in Details
    PROVE  NextEvent(kind, detail) \in Event
<1>1. Len(made) + 1 \in Nat
  OBVIOUS
<1> QED
  BY <1>1 DEF NextEvent, Event

LEMMA RequestTypes ==
    ASSUME fake_input \in [type : XTypes \cup {"none"}, detail : Nat],
           NEW event \in Event
    PROVE  FakeInput(event) \in XRequest
<1>1. event.kind \in Kinds /\ event.detail \in Nat
  <2>1. event.kind \in Kinds /\ event.detail \in Details \cup {0}
    BY DEF Event
  <2>2. \A d \in Details \cup {0} : d \in Nat
    BY InputAssumption
  <2> QED
    BY <2>1, <2>2
<1>2. XType(event.kind) \in XTypes
  BY <1>1 DEF XType, XTypes, Kinds
<1>3. fake_input.detail \in Nat
  OBVIOUS
<1> QED
  BY <1>1, <1>2, <1>3 DEF FakeInput, XRequest

LEMMA InputTypesInit == Init => TypeOK
<1> SUFFICES ASSUME Init PROVE TypeOK
  OBVIOUS
<1>1. /\ queue = <<>> /\ made = <<>> /\ accepted = <<>> /\ sent = <<>> /\ requests = <<>>
      /\ received = {} /\ inp_buffer = Ping
      /\ fake_input = [type |-> "none", detail |-> 0]
  BY DEF Init
<1>2. /\ \A S : <<>> \in Seq(S)
      /\ Len(queue) = 0
  BY <1>1
<1>3. fake_input \in [type : XTypes \cup {"none"}, detail : Nat]
  BY <1>1
<1>4. /\ queue \in Seq(Event) /\ made \in Seq(Event) /\ accepted \in Seq(Event)
      /\ sent \in Seq(Event)
  BY <1>1, <1>2
<1>5. requests \in Seq([number : Nat, request : [type : XTypes, detail : Nat]])
  BY <1>1, <1>2
<1>6. inp_buffer \in Event
  BY <1>1, PingType
<1>7. Len(queue) <= QueueLimit
  BY <1>2, InputAssumption
<1>8. received \subseteq 1 .. Len(sent)
  BY <1>1
<1> QED
  BY <1>3, <1>4, <1>5, <1>6, <1>7, <1>8 DEF Init, TypeOK

\* A datagram that is handled is one that was sent.
LEMMA HandledWasSent ==
    ASSUME TypeOK, NEW k \in 1 .. Len(sent)
    PROVE  sent[k] \in Event
BY ElementOfSeq DEF TypeOK

LEMMA UserInputTypes == TypeOK /\ UserInput => TypeOK'
<1> SUFFICES ASSUME TypeOK, UserInput PROVE TypeOK'
  OBVIOUS
<1>1. PICK kind \in Kinds, detail \in Details :
         /\ made' = Append(made, NextEvent(kind, detail))
         /\ IF Accepted(kind)
            THEN /\ queue' = Append(queue, NextEvent(kind, detail))
                 /\ accepted' = Append(accepted, NextEvent(kind, detail))
            ELSE UNCHANGED <<queue, accepted>>
  BY DEF UserInput
<1> DEFINE event == NextEvent(kind, detail)
<1>2. event \in Event
  BY EventTypes DEF TypeOK
<1> HIDE DEF event
<1>3. made' \in Seq(Event)
  BY <1>1, <1>2 DEF TypeOK, event
<1>4. accepted' \in Seq(Event)
  <2>1. accepted' = Append(accepted, event) \/ accepted' = accepted
    BY <1>1 DEF event
  <2>2. accepted \in Seq(Event)
    BY DEF TypeOK
  <2> QED
    BY <1>2, <2>1, <2>2
<1>5. queue' \in Seq(Event) /\ Len(queue') <= QueueLimit
  <2>1. \/ queue' = Append(queue, event) /\ Len(queue) < QueueLimit
        \/ queue' = queue
    BY <1>1 DEF event, Accepted
  <2>2. queue \in Seq(Event) /\ Len(queue) <= QueueLimit /\ QueueLimit \in Nat
    BY InputAssumption DEF TypeOK
  <2>3. ASSUME queue' = Append(queue, event), Len(queue) < QueueLimit
        PROVE  queue' \in Seq(Event) /\ Len(queue') <= QueueLimit
    <3>1. queue' \in Seq(Event) /\ Len(queue') = Len(queue) + 1
      BY <1>2, <2>2, <2>3, AppendProperties
    <3> QED
      BY <2>2, <2>3, <3>1
  <2> QED
    BY <2>1, <2>2, <2>3
<1> QED
  BY <1>3, <1>4, <1>5 DEF TypeOK, UserInput, threadVars, serverVars

LEMMA SendEventTypes == TypeOK /\ SendEvent => TypeOK'
<1> SUFFICES ASSUME TypeOK, SendEvent PROVE TypeOK'
  OBVIOUS
<1>1. /\ queue \in Seq(Event) /\ queue # <<>>
      /\ queue' = Tail(queue) /\ inp_buffer' = Head(queue)
      /\ sent \in Seq(Event) /\ sent' = Append(sent, Head(queue))
  BY DEF SendEvent, TypeOK
<1>2. Head(queue) \in Event /\ Tail(queue) \in Seq(Event) /\ Len(Tail(queue)) = Len(queue) - 1
  BY <1>1, HeadTailProperties
<1>3. Len(queue') <= QueueLimit
  BY <1>1, <1>2, InputAssumption DEF TypeOK
<1>4. sent' \in Seq(Event) /\ Len(sent') = Len(sent) + 1
  BY <1>1, <1>2
<1>5. received' \subseteq 1 .. Len(sent')
  BY <1>1, <1>4 DEF TypeOK, SendEvent, serverVars
<1> QED
  BY <1>1, <1>2, <1>3, <1>4, <1>5 DEF TypeOK, SendEvent, uiVars, serverVars

LEMMA ResendBufferTypes == TypeOK /\ ResendBuffer => TypeOK'
<1> SUFFICES ASSUME TypeOK, ResendBuffer PROVE TypeOK'
  OBVIOUS
<1>1. sent \in Seq(Event) /\ sent' \in Seq(Event) /\ Len(sent') = Len(sent) + 1
  BY DEF ResendBuffer, TypeOK
<1>2. received' \subseteq 1 .. Len(sent')
  BY <1>1 DEF TypeOK, ResendBuffer, serverVars
<1> QED
  BY <1>1, <1>2 DEF TypeOK, ResendBuffer, uiVars, serverVars

LEMMA HandleDatagramTypes == TypeOK /\ HandleDatagram => TypeOK'
<1> SUFFICES ASSUME TypeOK, HandleDatagram PROVE TypeOK'
  OBVIOUS
<1>1. PICK k \in 1 .. Len(sent) :
         /\ received' = received \cup {k}
         /\ newest' = IF k > newest THEN k ELSE newest
         /\ IF sent[k].kind = "wheel"
            THEN server' = "panicked" /\ UNCHANGED <<fake_input, requests>>
            ELSE /\ fake_input' = FakeInput(sent[k])
                 /\ requests' =
                       IF sent[k].kind = "unknown" THEN requests
                       ELSE Append(requests, [number |-> sent[k].number,
                                              request |-> fake_input'])
                 /\ UNCHANGED server
  BY DEF HandleDatagram
<1>2. sent[k] \in Event
  BY HandledWasSent
<1>3. UNCHANGED <<sent, queue, ping_arrived, uiVars, threadVars>>
  BY DEF HandleDatagram, threadVars
<1>4. /\ received' \subseteq 1 .. Len(sent')
      /\ newest' \in Nat
      /\ server' \in {"stopped", "running", "panicked"}
  BY <1>1, <1>3 DEF TypeOK
<1>5. FakeInput(sent[k]) \in XRequest
  BY <1>2, RequestTypes DEF TypeOK
<1>6. fake_input' \in [type : XTypes \cup {"none"}, detail : Nat]
  BY <1>1, <1>5 DEF TypeOK, XRequest
<1>7. requests' \in Seq([number : Nat, request : XRequest])
  <2> DEFINE Made == [number : Nat, request : XRequest]
             new == [number |-> sent[k].number, request |-> FakeInput(sent[k])]
  <2>1. sent[k].number \in Nat
    BY <1>2 DEF Event
  <2>2. new \in Made
    BY <1>5, <2>1
  <2>3. requests \in Seq(Made)
    BY DEF TypeOK, XRequest
  <2>4. requests' = requests \/ requests' = Append(requests, new)
    BY <1>1
  <2> HIDE DEF Made, new
  <2>5. requests' \in Seq(Made)
    BY <2>2, <2>3, <2>4, AppendProperties
  <2> QED
    BY <2>5 DEF Made
<1> QED
  BY <1>3, <1>4, <1>6, <1>7 DEF TypeOK, XRequest, uiVars, threadVars

LEMMA InputTypesNext == TypeOK /\ [Next]_vars => TypeOK'
<1> SUFFICES ASSUME TypeOK, [Next]_vars PROVE TypeOK'
  OBVIOUS
<1>1. CASE CloseWindow \/ ProcessEnds
  BY <1>1 DEF TypeOK, CloseWindow, ProcessEnds, threadVars, serverVars
<1>2. CASE BindSocket
  BY <1>2 DEF TypeOK, BindSocket, uiVars, serverVars
<1>3. CASE StartServer
  BY <1>3 DEF TypeOK, StartServer, uiVars, threadVars
<1>4. CASE ReceivePing
  BY <1>4, PingType DEF TypeOK, ReceivePing, uiVars, serverVars
<1>5. CASE UNCHANGED vars
  BY <1>5 DEF TypeOK, vars, uiVars, threadVars, serverVars
<1> QED
  BY <1>1, <1>2, <1>3, <1>4, <1>5, UserInputTypes, SendEventTypes, ResendBufferTypes,
     HandleDatagramTypes DEF Next

\* Every reachable state of the input path is of its types; the channel never
\* holds more than its capacity.
THEOREM InputTypes == Spec => []TypeOK
BY InputTypesInit, InputTypesNext, PTL DEF Spec

-----------------------------------------------------------------------------
\* The event at the head of the channel may as well be the last datagram.
LEMMA HeadMoves ==
    ASSUME NEW S, NEW s \in Seq(S), NEW q \in Seq(S), q # <<>>
    PROVE  Append(s, Head(q)) \o Tail(q) = s \o q
<1>1. /\ Head(q) \in S /\ Tail(q) \in Seq(S)
      /\ Len(Tail(q)) = Len(q) - 1 /\ Len(q) \in Nat \ {0} /\ Len(s) \in Nat
      /\ Head(q) = q[1] /\ \A i \in 1 .. Len(Tail(q)) : Tail(q)[i] = q[i + 1]
  BY HeadTailProperties
<1> QED
  BY <1>1

LEMMA NothingLostNext ==
    TypeOK /\ NothingLostInClient /\ [Next]_vars => NothingLostInClient'
<1> SUFFICES ASSUME TypeOK, NothingLostInClient, [Next]_vars PROVE NothingLostInClient'
  OBVIOUS
<1>1. sent \in Seq(Event) /\ queue \in Seq(Event) /\ accepted \in Seq(Event)
  BY DEF TypeOK
<1>2. CASE UserInput
  <2>1. PICK kind \in Kinds, detail \in Details :
           IF Accepted(kind)
           THEN /\ queue' = Append(queue, NextEvent(kind, detail))
                /\ accepted' = Append(accepted, NextEvent(kind, detail))
           ELSE UNCHANGED <<queue, accepted>>
    BY <1>2 DEF UserInput
  <2> DEFINE event == NextEvent(kind, detail)
  <2>2. event \in Event
    BY EventTypes DEF TypeOK
  <2> HIDE DEF event
  <2>3. sent \o Append(queue, event) = Append(sent \o queue, event)
    BY <1>1, <2>2
  <2>4. sent' = sent /\ resends' = resends
    BY <1>2 DEF UserInput, threadVars
  <2> QED
    BY <2>1, <2>3, <2>4 DEF NothingLostInClient, event
<1>3. CASE SendEvent
  <2>1. /\ queue # <<>> /\ queue' = Tail(queue) /\ sent' = Append(sent, Head(queue))
        /\ resends' = resends /\ accepted' = accepted
    BY <1>3 DEF SendEvent, uiVars
  <2>2. Append(sent, Head(queue)) \o Tail(queue) = sent \o queue
    BY <1>1, <2>1, HeadMoves
  <2> QED
    BY <2>1, <2>2 DEF NothingLostInClient
<1>4. CASE ResendBuffer
  BY <1>4 DEF ResendBuffer, TypeOK, NothingLostInClient
<1>5. CASE \/ CloseWindow \/ ProcessEnds \/ BindSocket \/ StartServer \/ ReceivePing
           \/ HandleDatagram \/ UNCHANGED vars
  <2>1. UNCHANGED <<sent, queue, accepted, resends>>
    BY <1>5 DEF CloseWindow, ProcessEnds, BindSocket, StartServer, ReceivePing, HandleDatagram,
                vars, uiVars, threadVars
  <2> QED
    BY <2>1 DEF NothingLostInClient
<1> QED
  BY <1>2, <1>3, <1>4, <1>5 DEF Next

\* Until its channel is closed and drained the client has sent or still holds
\* exactly the events it accepted, in their order, however full the channel was.
THEOREM ClientLosesNothing == Spec => []NothingLostInClient
<1>1. Init => NothingLostInClient
  BY DEF Init, NothingLostInClient
<1> QED
  BY <1>1, InputTypes, NothingLostNext, PTL DEF Spec

-----------------------------------------------------------------------------
\* An event that is not the ping is the one the user made under its number.
FromUser(events, event) ==
    event.number > 0 => event.number \in 1 .. Len(events) /\ events[event.number] = event

\* Whatever is under way comes from the user.
EventsFromUser ==
    /\ \A k \in 1 .. Len(queue) : FromUser(made, queue[k])
    /\ \A k \in 1 .. Len(sent) : FromUser(made, sent[k])
    /\ FromUser(made, inp_buffer)

RequestsFromUser ==
    \A k \in 1 .. Len(requests) :
        requests[k].number > 0 => requests[k].number \in 1 .. Len(made)

FaithfulInv == EventsFromUser /\ RequestsFromUser /\ RequestsFaithful

LEMMA FaithfulInit == Init => FaithfulInv
BY DEF Init, FaithfulInv, EventsFromUser, FromUser, RequestsFromUser, RequestsFaithful, Ping

\* The user makes an event: it carries the next number, and the others keep theirs.
LEMMA UserInputFaithful == TypeOK /\ FaithfulInv /\ UserInput => FaithfulInv'
<1> SUFFICES ASSUME TypeOK, FaithfulInv, UserInput PROVE FaithfulInv'
  OBVIOUS
<1>1. PICK kind \in Kinds, detail \in Details :
         /\ made' = Append(made, NextEvent(kind, detail))
         /\ IF Accepted(kind)
            THEN /\ queue' = Append(queue, NextEvent(kind, detail))
                 /\ accepted' = Append(accepted, NextEvent(kind, detail))
            ELSE UNCHANGED <<queue, accepted>>
  BY DEF UserInput
<1> DEFINE event == NextEvent(kind, detail)
<1>2. event \in Event /\ event.number = Len(made) + 1
  BY EventTypes DEF TypeOK, NextEvent
<1> HIDE DEF event
<1>3. /\ made \in Seq(Event) /\ queue \in Seq(Event)
      /\ UNCHANGED <<sent, inp_buffer, requests>>
  BY DEF TypeOK, UserInput, threadVars, serverVars
<1>4. /\ Len(made') = Len(made) + 1 /\ Len(made) \in Nat
      /\ \A n \in 1 .. Len(made) : made'[n] = made[n]
      /\ made'[Len(made) + 1] = event
  BY <1>1, <1>2, <1>3, AppendProperties DEF event
<1>5. 1 .. Len(made) \subseteq 1 .. Len(made')
  BY <1>4
<1>6. \A e : FromUser(made, e) => FromUser(made', e)
  BY <1>4, <1>5 DEF FromUser
<1>7. FromUser(made', event)
  BY <1>2, <1>4 DEF FromUser
<1>8. \A k \in 1 .. Len(queue') : FromUser(made', queue'[k])
  <2>1. CASE queue' = queue
    BY <1>6, <2>1 DEF FaithfulInv, EventsFromUser
  <2>2. CASE queue' = Append(queue, event)
    <3>1. /\ Len(queue') = Len(queue) + 1 /\ Len(queue) \in Nat
          /\ \A k \in 1 .. Len(queue) : queue'[k] = queue[k]
          /\ queue'[Len(queue) + 1] = event
      BY <1>2, <1>3, <2>2, AppendProperties
    <3>2. \A k \in 1 .. Len(queue') : k \in 1 .. Len(queue) \/ k = Len(queue) + 1
      BY <3>1
    <3>3. \A k \in 1 .. Len(queue) : FromUser(made', queue[k])
      BY <1>6 DEF FaithfulInv, EventsFromUser
    <3> QED
      BY <1>7, <3>1, <3>2, <3>3
  <2> QED
    BY <1>1, <2>1, <2>2 DEF event
<1>9. EventsFromUser'
  BY <1>3, <1>6, <1>8 DEF FaithfulInv, EventsFromUser
<1>10. RequestsFromUser'
  BY <1>3, <1>5 DEF FaithfulInv, RequestsFromUser
<1>11. RequestsFaithful'
  BY <1>3, <1>4 DEF FaithfulInv, RequestsFromUser, RequestsFaithful
<1> QED
  BY <1>9, <1>10, <1>11 DEF FaithfulInv

\* The input thread sends what it takes from the channel, or its buffer again.
LEMMA SendFaithful ==
    TypeOK /\ FaithfulInv /\ (SendEvent \/ ResendBuffer) => FaithfulInv'
<1> SUFFICES ASSUME TypeOK, FaithfulInv, SendEvent \/ ResendBuffer PROVE FaithfulInv'
  OBVIOUS
<1>1. sent \in Seq(Event) /\ queue \in Seq(Event) /\ inp_buffer \in Event
  BY DEF TypeOK
<1>2. UNCHANGED <<made, requests>>
  BY DEF SendEvent, ResendBuffer, uiVars, serverVars
<1>3. \A e : FromUser(made, e) => FromUser(made', e)
  BY <1>2 DEF FromUser
<1>4. PICK e \in Event : FromUser(made, e) /\ inp_buffer' = e /\ sent' = Append(sent, e)
  <2>1. CASE SendEvent
    <3>1. queue # <<>> /\ Head(queue) \in Event /\ Head(queue) = queue[1]
          /\ 1 \in 1 .. Len(queue)
      BY <1>1, <2>1, HeadTailProperties DEF SendEvent
    <3> QED
      BY <2>1, <3>1 DEF SendEvent, FaithfulInv, EventsFromUser
  <2>2. CASE ResendBuffer
    BY <1>1, <2>2 DEF ResendBuffer, FaithfulInv, EventsFromUser
  <2> QED
    BY <2>1, <2>2
<1>5. \A k \in 1 .. Len(sent') : FromUser(made', sent'[k])
  <2>1. /\ Len(sent') = Len(sent) + 1 /\ Len(sent) \in Nat
        /\ \A k \in 1 .. Len(sent) : sent'[k] = sent[k]
        /\ sent'[Len(sent) + 1] = e
    BY <1>1, <1>4, AppendProperties
  <2>2. \A k \in 1 .. Len(sent') : k \in 1 .. Len(sent) \/ k = Len(sent) + 1
    BY <2>1
  <2>3. \A k \in 1 .. Len(sent) : FromUser(made', sent[k])
    BY <1>3 DEF FaithfulInv, EventsFromUser
  <2> QED
    BY <1>3, <1>4, <2>1, <2>2, <2>3
<1>6. \A k \in 1 .. Len(queue') : FromUser(made', queue'[k])
  <2>1. CASE SendEvent
    <3>1. queue # <<>> /\ queue' = Tail(queue)
      BY <2>1 DEF SendEvent
    <3>2. /\ Len(queue') = Len(queue) - 1 /\ Len(queue) \in Nat
          /\ \A k \in 1 .. Len(queue') : queue'[k] = queue[k + 1]
      BY <1>1, <3>1, HeadTailProperties
    <3>3. \A k \in 1 .. Len(queue') : k + 1 \in 1 .. Len(queue)
      BY <3>2
    <3> QED
      BY <1>3, <3>2, <3>3 DEF FaithfulInv, EventsFromUser
  <2>2. CASE ResendBuffer
    BY <1>3, <2>2 DEF ResendBuffer, FaithfulInv, EventsFromUser
  <2> QED
    BY <2>1, <2>2
<1>7. EventsFromUser'
  BY <1>3, <1>4, <1>5, <1>6 DEF EventsFromUser
<1> QED
  BY <1>2, <1>7 DEF FaithfulInv, RequestsFromUser, RequestsFaithful

\* The request made of an event has the event's type and detail, whatever the
\* request object held before.
LEMMA HandleFaithful == TypeOK /\ FaithfulInv /\ HandleDatagram => FaithfulInv'
<1> SUFFICES ASSUME TypeOK, FaithfulInv, HandleDatagram PROVE FaithfulInv'
  OBVIOUS
<1>1. PICK k \in 1 .. Len(sent) :
         IF sent[k].kind \in {"wheel", "unknown"}
         THEN requests' = requests
         ELSE requests' = Append(requests, [number |-> sent[k].number,
                                            request |-> FakeInput(sent[k])])
  BY DEF HandleDatagram
<1>2. UNCHANGED <<made, queue, sent, inp_buffer>>
  BY DEF HandleDatagram, uiVars, threadVars
<1>3. EventsFromUser'
  BY <1>2 DEF FaithfulInv, EventsFromUser, FromUser
<1> DEFINE n == sent[k].number
           new == [number |-> n, request |-> FakeInput(sent[k])]
<1>4. n \in Nat /\ FromUser(made, sent[k])
  BY HandledWasSent DEF Event, FaithfulInv, EventsFromUser
<1>5. ASSUME sent[k].kind # "unknown", n > 0
      PROVE  /\ n \in 1 .. Len(made)
             /\ FakeInput(sent[k]) = [type |-> XType(made[n].kind), detail |-> made[n].detail]
  BY <1>4, <1>5 DEF FromUser, FakeInput
<1>6. CASE requests' = requests
  BY <1>2, <1>3, <1>6 DEF FaithfulInv, RequestsFromUser, RequestsFaithful
<1>7. CASE requests' # requests
  <2>1. requests' = Append(requests, new) /\ sent[k].kind # "unknown"
    BY <1>1, <1>7
  <2>2. new.number = n /\ new.request = FakeInput(sent[k])
    OBVIOUS
  <2>3. n > 0 => /\ n \in 1 .. Len(made)
                 /\ new.request = [type |-> XType(made[n].kind), detail |-> made[n].detail]
    BY <1>5, <2>1, <2>2
  <2> HIDE DEF n, new
  <2>4. /\ Len(requests') = Len(requests) + 1 /\ Len(requests) \in Nat
        /\ \A j \in 1 .. Len(requests) : requests'[j] = requests[j]
        /\ requests'[Len(requests) + 1] = new
    BY <2>1, AppendProperties DEF TypeOK
  <2>5. \A j \in 1 .. Len(requests') : j \in 1 .. Len(requests) \/ j = Len(requests) + 1
    BY <2>4
  <2>6. RequestsFromUser'
    BY <1>2, <2>2, <2>3, <2>4, <2>5 DEF FaithfulInv, RequestsFromUser
  <2>7. RequestsFaithful'
    BY <1>2, <2>2, <2>3, <2>4, <2>5 DEF FaithfulInv, RequestsFaithful
  <2> QED
    BY <1>3, <2>6, <2>7 DEF FaithfulInv
<1> QED
  BY <1>6, <1>7

LEMMA FaithfulNext == TypeOK /\ FaithfulInv /\ [Next]_vars => FaithfulInv'
<1> SUFFICES ASSUME TypeOK, FaithfulInv, [Next]_vars PROVE FaithfulInv'
  OBVIOUS
<1>1. CASE CloseWindow \/ ProcessEnds \/ BindSocket \/ StartServer \/ UNCHANGED vars
  <2>1. UNCHANGED <<made, queue, sent, inp_buffer, requests>>
    BY <1>1 DEF CloseWindow, ProcessEnds, BindSocket, StartServer, vars, uiVars, threadVars,
                serverVars
  <2> QED
    BY <2>1 DEF FaithfulInv, EventsFromUser, FromUser, RequestsFromUser, RequestsFaithful
<1>2. CASE ReceivePing
  <2>1. /\ UNCHANGED <<made, queue, sent, requests>>
        /\ inp_buffer' = Ping \/ inp_buffer' = inp_buffer
    BY <1>2 DEF ReceivePing, uiVars, serverVars
  <2>2. FromUser(made', Ping)
    BY DEF FromUser, Ping
  <2> QED
    BY <2>1, <2>2 DEF FaithfulInv, EventsFromUser, FromUser, RequestsFromUser,
                      RequestsFaithful
<1> QED
  BY <1>1, <1>2, UserInputFaithful, SendFaithful, HandleFaithful DEF Next

\* Every X11 request is the one its event asks for, although one request object is
\* filled in again and again (x11.rs:45), whatever the network loses or reorders.
THEOREM RequestsAreFaithful == Spec => []RequestsFaithful
<1>1. FaithfulInv => RequestsFaithful
  BY DEF FaithfulInv
<1> QED
  BY <1>1, FaithfulInit, FaithfulNext, InputTypes, PTL DEF Spec
-----------------------------------------------------------------------------
\* Events that bear numbers the user has reached, each later than the one before.
InOrder(events, bound) ==
    /\ \A k \in 1 .. Len(events) : events[k].number \in 1 .. bound
    /\ \A j, k \in 1 .. Len(events) : j < k => events[j].number < events[k].number

\* No request is for an event at a later place, or a later event than one there.
Behind(made_requests, events, place) ==
    \A j \in 1 .. Len(made_requests), k \in 1 .. Len(events) :
        k > place => made_requests[j].number < events[k].number

\* While the window is open the datagrams and the channel together hold events in
\* the user's order, and what is still to be handled is later than every request.
OrderInv ==
    ui = "running" =>
        /\ resends = 0
        /\ InOrder(sent \o queue, Len(made))
        /\ Behind(requests, sent \o queue, newest)
        /\ RequestsInOrder

LEMMA OrderInit == Init => OrderInv
<1> SUFFICES ASSUME Init PROVE OrderInv
  OBVIOUS
<1>1. resends = 0 /\ Len(sent \o queue) = 0 /\ requests = <<>>
  BY DEF Init
<1> QED
  BY <1>1 DEF OrderInv, InOrder, Behind, RequestsInOrder

LEMMA UserInputOrder == TypeOK /\ RequestsFromUser /\ OrderInv /\ UserInput => OrderInv'
<1> SUFFICES ASSUME TypeOK, RequestsFromUser, OrderInv, UserInput PROVE OrderInv'
  OBVIOUS
<1>1. PICK kind \in Kinds, detail \in Details :
         /\ made' = Append(made, NextEvent(kind, detail))
         /\ IF Accepted(kind) THEN queue' = Append(queue, NextEvent(kind, detail))
            ELSE UNCHANGED queue
  BY DEF UserInput
<1> DEFINE event == NextEvent(kind, detail)
           events == sent \o queue
           later == sent \o queue'
<1>2. event \in Event /\ event.number = Len(made) + 1
  BY EventTypes DEF TypeOK, NextEvent
<1>3. events \in Seq(Event) /\ sent \in Seq(Event) /\ queue \in Seq(Event) /\ made \in Seq(Event)
  BY DEF TypeOK
<1>4. /\ UNCHANGED <<ui, sent, resends, requests, newest>>
      /\ ui = "running"
  BY DEF UserInput, threadVars, serverVars
<1>5. /\ InOrder(events, Len(made)) /\ Behind(requests, events, newest)
      /\ RequestsInOrder /\ resends = 0
  BY <1>4 DEF OrderInv
<1>6. later = events \/ later = Append(events, event)
  <2>1. queue' = queue \/ queue' = Append(queue, event)
    BY <1>1
  <2> HIDE DEF event
  <2>2. sent \o Append(queue, event) = Append(sent \o queue, event)
    BY <1>2, <1>3
  <2> QED
    BY <2>1, <2>2
<1>7. Len(made) \in Nat /\ Len(made') = Len(made) + 1
  BY <1>1, <1>3, AppendProperties
<1> HIDE DEF event, events, later
<1>8. CASE later = events
  <2>1. InOrder(events, Len(made'))
    BY <1>5, <1>7 DEF InOrder
  <2> QED
    BY <1>4, <1>5, <1>8, <2>1 DEF OrderInv, later, RequestsInOrder
<1>9. CASE later = Append(events, event)
  <2>1. /\ Len(later) = Len(events) + 1 /\ Len(events) \in Nat
        /\ \A k \in 1 .. Len(events) : later[k] = events[k]
        /\ later[Len(events) + 1] = event
    BY <1>2, <1>3, <1>9, AppendProperties
  <2>2. \A k \in 1 .. Len(later) : k \in 1 .. Len(events) \/ k = Len(events) + 1
    BY <2>1
  <2>3. \A j \in 1 .. Len(requests) : requests[j].number > 0 /\ requests[j].number \in 1 .. Len(made)
    BY <1>4, <1>5 DEF RequestsInOrder, RequestsFromUser
  <2>4. InOrder(later, Len(made'))
    <3>1. \A k \in 1 .. Len(later) : later[k].number \in 1 .. Len(made')
      BY <1>2, <1>5, <1>7, <2>1, <2>2 DEF InOrder
    <3>2. ASSUME NEW j \in 1 .. Len(later), NEW k \in 1 .. Len(later), j < k
          PROVE  later[j].number < later[k].number
      <4>1. j \in 1 .. Len(events) /\ later[j].number \in 1 .. Len(made)
        BY <1>5, <2>1, <2>2, <3>2 DEF InOrder
      <4>2. CASE k \in 1 .. Len(events)
        BY <1>5, <2>1, <3>2, <4>1, <4>2 DEF InOrder
      <4>3. CASE k = Len(events) + 1
        BY <1>2, <1>7, <2>1, <4>1, <4>3
      <4> QED
        BY <2>2, <4>2, <4>3
    <3> QED
      BY <3>1, <3>2 DEF InOrder
  <2>5. Behind(requests, later, newest)
    BY <1>2, <1>5, <1>7, <2>1, <2>2, <2>3 DEF Behind
  <2> QED
    BY <1>4, <1>5, <2>4, <2>5 DEF OrderInv, later, RequestsInOrder
<1> QED
  BY <1>6, <1>8, <1>9

\* An event that is sent moves from the channel to the datagrams, at the same place.
LEMMA SendOrder == TypeOK /\ OrderInv /\ SendEvent => OrderInv'
<1> SUFFICES ASSUME TypeOK, OrderInv, SendEvent PROVE OrderInv'
  OBVIOUS
<1>1. sent' \o queue' = sent \o queue
  <2>1. sent \in Seq(Event) /\ queue \in Seq(Event)
    BY DEF TypeOK
  <2>2. queue # <<>> /\ queue' = Tail(queue) /\ sent' = Append(sent, Head(queue))
    BY DEF SendEvent
  <2>3. Append(sent, Head(queue)) \o Tail(queue) = sent \o queue
    BY <2>1, <2>2, HeadMoves
  <2> QED
    BY <2>2, <2>3
<1>2. UNCHANGED <<ui, made, resends, requests, newest>>
  BY DEF SendEvent, uiVars, serverVars
<1> QED
  BY <1>1, <1>2 DEF OrderInv, RequestsInOrder

\* On a network that keeps the order, what is handled is later than what was.
LEMMA HandleOrder == Window = 0 /\ TypeOK /\ OrderInv /\ HandleDatagram => OrderInv'
<1> SUFFICES ASSUME Window = 0, TypeOK, OrderInv, HandleDatagram PROVE OrderInv'
  OBVIOUS
<1>1. UNCHANGED <<ui, made, resends, sent, queue>>
  BY DEF HandleDatagram, uiVars, threadVars
<1>2. CASE ui # "running"
  BY <1>1, <1>2 DEF OrderInv
<1>3. CASE ui = "running"
  <2> DEFINE events == sent \o queue
  <2>1. PICK k \in 1 .. Len(sent) :
           /\ k + Window > newest
           /\ newest' = IF k > newest THEN k ELSE newest
           /\ \/ requests' = requests
              \/ \E r : requests' = Append(requests, [number |-> sent[k].number, request |-> r])
    BY DEF HandleDatagram, MayArrive
  <2>2. k > newest /\ newest' = k
    BY <2>1 DEF TypeOK
  <2>3. sent \in Seq(Event) /\ queue \in Seq(Event)
    BY DEF TypeOK
  <2>4. /\ k \in 1 .. Len(events) /\ events[k] = sent[k]
        /\ events \in Seq(Event)
    BY <2>3
  <2> HIDE DEF events
  <2>5. /\ InOrder(events, Len(made)) /\ Behind(requests, events, newest)
        /\ RequestsInOrder /\ resends = 0
    BY <1>3 DEF OrderInv, events
  <2>6. /\ \A i \in 1 .. Len(events) : events[i].number \in Nat
        /\ k \in Nat /\ newest \in Nat
        /\ Len(events) \in Nat
    <3>1. \A i \in 1 .. Len(events) : events[i] \in Event
      BY <2>4, ElementOfSeq
    <3>2. k \in Nat /\ newest \in Nat /\ Len(events) \in Nat
      BY <2>4 DEF TypeOK
    <3> QED
      BY <3>1, <3>2 DEF Event
  <2>7. CASE requests' = requests
    <3>1. Behind(requests, events, k)
      BY <2>2, <2>5, <2>6 DEF Behind
    <3> QED
      BY <1>1, <2>2, <2>5, <2>7, <3>1 DEF OrderInv, events, RequestsInOrder
  <2>8. ASSUME NEW r, requests' = Append(requests, [number |-> sent[k].number, request |-> r])
        PROVE  OrderInv'
    <3> DEFINE new == [number |-> sent[k].number, request |-> r]
    <3>1. new.number = events[k].number
      BY <2>4
    <3> HIDE DEF new
    <3>2. /\ Len(requests') = Len(requests) + 1 /\ Len(requests) \in Nat
          /\ \A j \in 1 .. Len(requests) : requests'[j] = requests[j]
          /\ requests'[Len(requests) + 1] = new
      BY <2>8, AppendProperties DEF TypeOK, new
    <3>3. \A j \in 1 .. Len(requests') : j \in 1 .. Len(requests) \/ j = Len(requests) + 1
      BY <3>2
    <3>4. \A j \in 1 .. Len(requests) : /\ requests[j].number \in Nat
                                        /\ requests[j].number < events[k].number
      <4>1. \A j \in 1 .. Len(requests) : requests[j].number \in Nat
        <5>1. requests \in Seq([number : Nat, request : [type : XTypes, detail : Nat]])
          BY DEF TypeOK
        <5>2. ASSUME NEW j \in 1 .. Len(requests)
              PROVE  requests[j] \in [number : Nat, request : [type : XTypes, detail : Nat]]
          BY <5>1, ElementOfSeq
        <5> QED
          BY <5>2
      <4> QED
        BY <2>2, <2>4, <2>5, <4>1 DEF Behind
    <3>5. \A i \in 1 .. Len(events) : i > k => events[k].number < events[i].number
      BY <2>4, <2>5 DEF InOrder
    <3>6. Behind(requests', events, k)
      <4> SUFFICES ASSUME NEW j \in 1 .. Len(requests'), NEW i \in 1 .. Len(events), i > k
                   PROVE  requests'[j].number < events[i].number
        BY DEF Behind
      <4>1. events[k].number < events[i].number
        BY <3>5
      <4>2. CASE j \in 1 .. Len(requests)
        BY <2>4, <2>6, <3>2, <3>4, <4>1, <4>2
      <4>3. CASE j = Len(requests) + 1
        BY <3>1, <3>2, <4>1, <4>3
      <4> QED
        BY <3>3, <4>2, <4>3
    <3>7. \A j \in 1 .. Len(requests') : requests'[j].number > 0
      <4>1. events[k].number > 0
        BY <2>4, <2>5 DEF InOrder
      <4> QED
        BY <1>3, <2>5, <3>1, <3>2, <3>3, <4>1 DEF RequestsInOrder
    <3>8. \A j, i \in 1 .. Len(requests') : j < i => requests'[j].number < requests'[i].number
      <4> SUFFICES ASSUME NEW j \in 1 .. Len(requests'), NEW i \in 1 .. Len(requests'), j < i
                   PROVE  requests'[j].number < requests'[i].number
        OBVIOUS
      <4>1. j \in 1 .. Len(requests)
        BY <3>2, <3>3
      <4>2. CASE i \in 1 .. Len(requests)
        BY <1>3, <2>5, <3>2, <4>1, <4>2 DEF RequestsInOrder
      <4>3. CASE i = Len(requests) + 1
        BY <3>1, <3>2, <3>4, <4>1, <4>3
      <4> QED
        BY <3>3, <4>2, <4>3
    <3> QED
      BY <1>1, <2>2, <2>5, <3>6, <3>7, <3>8 DEF OrderInv, events, RequestsInOrder
  <2> QED
    BY <2>1, <2>7, <2>8
<1> QED
  BY <1>2, <1>3

LEMMA OrderNext ==
    Window = 0 /\ TypeOK /\ RequestsFromUser /\ OrderInv /\ [Next]_vars => OrderInv'
<1> SUFFICES ASSUME Window = 0, TypeOK, RequestsFromUser, OrderInv, [Next]_vars PROVE OrderInv'
  OBVIOUS
<1>1. CASE CloseWindow \/ ProcessEnds \/ ResendBuffer
  <2>1. ui' # "running"
    BY <1>1 DEF CloseWindow, ProcessEnds, ResendBuffer, uiVars
  <2> QED
    BY <2>1 DEF OrderInv
<1>2. CASE BindSocket \/ StartServer \/ ReceivePing \/ UNCHANGED vars
  <2>1. UNCHANGED <<ui, made, resends, sent, queue, requests, newest>>
    BY <1>2 DEF BindSocket, StartServer, ReceivePing, vars, uiVars, threadVars, serverVars
  <2> QED
    BY <2>1 DEF OrderInv, RequestsInOrder
<1> QED
  BY <1>1, <1>2, UserInputOrder, SendOrder, HandleOrder DEF Next

\* Over a network that keeps the order, as long as the window is open the server
\* acts on no event twice, on none out of order and never on the ping, however
\* full the channel was and whatever was lost (input.rs:27, :67-73).
THEOREM InputInOrder ==
    ASSUME Window = 0
    PROVE  Spec => []RequestsInOrder
<1>1. OrderInv => RequestsInOrder
  BY DEF OrderInv, RequestsInOrder
<1>2. TypeOK /\ FaithfulInv /\ OrderInv /\ [Next]_vars => OrderInv'
  BY OrderNext DEF FaithfulInv
<1> QED
  BY <1>1, <1>2, OrderInit, FaithfulInit, FaithfulNext, InputTypes, PTL DEF Spec
=============================================================================
