----------------------- MODULE FeedbackExchangeProofs -----------------------
(***************************************************************************)
(* The reports of the client in a dev build, where a counter that would    *)
(* wrap ends the decode thread instead: consistent, and nothing in them    *)
(* a third time, for every number of packets and quanta.                   *)
(***************************************************************************)
EXTENDS FeedbackExchange, TLAPS

\* Counters one event at a time cannot get out of: the chain ReportConsistent
\* asks of a report.
Consistent(f) ==
    /\ f["ecc_decoder_failures"] <= f["out_of_order_blocks"]
    /\ f["out_of_order_blocks"] <= f["total_blocks"]
    /\ f["total_blocks"] <= f["total_packets"]

CountersConsistent == Consistent(counted) /\ Consistent(pkt) /\ Consistent(report)

\* No counter has wrapped.
BelowLimit == counted["total_packets"] < CounterLimit

\* The shared packet is zero exactly until the decode thread's first copy.
ZeroUntilPublished == published_this <=> pkt["total_packets"] # 0

\* What is still held counts towards what may yet be reported: between a
\* zeroing and the next copy the decode thread's counters may be reported once
\* more; after it, the packet now and the counters up to twice.
HeldOnceOrTwice ==
    \A c \in Counters :
        /\ ~published_this => reported[c] + counted[c] <= 2 * seen[c]
        /\ published_this => /\ reported[c] + pkt[c] + counted[c] <= 2 * seen[c]
                             /\ reported[c] + 2 * counted[c] <= 2 * seen[c]

\* After a copy the counters hold packets of this quantum only.
SpanOfCounters ==
    /\ published_this => counted["total_packets"] <= this_quantum
    /\ published_last => counted["total_packets"] <= last_quantum + this_quantum

ExchangeInv ==
    /\ TypeOK
    /\ CountersConsistent
    /\ BelowLimit
    /\ ZeroUntilPublished
    /\ HeldOnceOrTwice
    /\ SpanOfCounters

\* An event counts each counter at most once, total_packets always, and no
\* counter without the ones it is part of.
LEMMA EventFacts ==
    ASSUME NEW S \in Events
    PROVE  /\ OneOf(S) \in [Counters -> 0 .. 1]
           /\ OneOf(S)["total_packets"] = 1
           /\ Consistent(OneOf(S))
  BY DEF Events, OneOf, Counters, Consistent

\* Short of the limit no counter wraps: the counters after an event are the
\* sums, and as consistent as before it.
LEMMA AfterEventFacts ==
    ASSUME ExchangeInv, NEW S \in Events, ~Overflows
    PROVE  /\ AfterEvent(S) = Plus(counted, OneOf(S))
           /\ AfterEvent(S) \in [Counters -> Nat]
           /\ Consistent(AfterEvent(S))
           /\ AfterEvent(S)["total_packets"] = counted["total_packets"] + 1
           /\ AfterEvent(S)["total_packets"] < CounterLimit
<1> DEFINE sum == Plus(counted, OneOf(S))
<1>1. /\ counted \in [Counters -> Nat]
      /\ Consistent(counted)
      /\ counted["total_packets"] < CounterLimit
      /\ counted["total_packets"] + 1 # CounterLimit
      /\ CounterLimit \in Nat
  BY ExchangeAssumption
     DEF ExchangeInv, TypeOK, CountersConsistent, BelowLimit, Overflows
<1>2. /\ OneOf(S) \in [Counters -> 0 .. 1]
      /\ OneOf(S)["total_packets"] = 1
      /\ Consistent(OneOf(S))
  BY EventFacts
<1>3. \A c \in Counters : sum[c] = counted[c] + OneOf(S)[c]
  BY DEF Plus
<1>4. sum \in [Counters -> Nat]
  BY <1>1, <1>2 DEF Plus
<1>5. Consistent(sum) /\ sum["total_packets"] = counted["total_packets"] + 1
  BY <1>1, <1>2, <1>3 DEF Consistent, Counters
<1>6. \A c \in Counters : sum[c] <= sum["total_packets"]
  BY <1>4, <1>5 DEF Consistent, Counters
<1>7. sum["total_packets"] < CounterLimit
  BY <1>1, <1>5 DEF Counters
<1>8. \A c \in Counters : sum[c] \in Nat /\ sum[c] < CounterLimit
  <2> HIDE DEF sum
  <2>1. "total_packets" \in Counters
    BY DEF Counters
  <2>2. sum["total_packets"] \in Nat
    BY <1>4, <2>1
  <2> SUFFICES ASSUME NEW c \in Counters
               PROVE  sum[c] \in Nat /\ sum[c] < CounterLimit
    OBVIOUS
  <2>3. sum[c] \in Nat /\ sum[c] <= sum["total_packets"]
    BY <1>4, <1>6
  <2> QED
    BY <1>1, <1>7, <2>2, <2>3
<1>9. AfterEvent(S) = [c \in Counters |-> sum[c] % CounterLimit]
  BY DEF AfterEvent
<1>10. \A n \in Nat : n < CounterLimit => n % CounterLimit = n
  BY <1>1
<1>11. AfterEvent(S) = [c \in Counters |-> sum[c]]
  <2> HIDE DEF sum
  <2> QED
    BY <1>8, <1>9, <1>10
<1>12. AfterEvent(S) = sum
  <2> HIDE DEF sum
  <2> QED
    BY <1>4, <1>11
<1> QED
  BY <1>4, <1>5, <1>7, <1>12

\* The first state satisfies the invariant.
LEMMA ExchangeInvInit == Init => ExchangeInv
<1> SUFFICES ASSUME Init PROVE ExchangeInv
  OBVIOUS
<1>1. Zero \in [Counters -> Nat] /\ \A c \in Counters : Zero[c] = 0
  BY DEF Zero
<1>2. Consistent(Zero) /\ Zero["total_packets"] = 0
  BY <1>1 DEF Consistent, Counters
<1>3. TypeOK
  BY <1>1 DEF Init, TypeOK
<1>4. CountersConsistent
  BY <1>2 DEF Init, CountersConsistent
<1>5. BelowLimit /\ ZeroUntilPublished /\ SpanOfCounters
  BY <1>2, ExchangeAssumption DEF Init, BelowLimit, ZeroUntilPublished, SpanOfCounters
<1>6. HeldOnceOrTwice
  BY <1>1 DEF Init, HeldOnceOrTwice
<1> QED
  BY <1>3, <1>4, <1>5, <1>6 DEF ExchangeInv

\* A datagram that is counted and not copied keeps the invariant.
LEMMA CountOnlyKeepsInv ==
    ASSUME OverflowChecks, ExchangeInv, NEW S \in Events, CountOnly(S)
    PROVE  ExchangeInv'
<1>1. /\ ~Overflows
      /\ seen' = Plus(seen, OneOf(S))
      /\ this_quantum' = this_quantum + 1
      /\ counted' = AfterEvent(S)
      /\ UNCHANGED <<decoder, feedbackVars, sharedVars>>
  BY DEF CountOnly, CountPacket
<1>2. /\ AfterEvent(S) = Plus(counted, OneOf(S))
      /\ AfterEvent(S) \in [Counters -> Nat]
      /\ Consistent(AfterEvent(S))
      /\ AfterEvent(S)["total_packets"] = counted["total_packets"] + 1
      /\ AfterEvent(S)["total_packets"] < CounterLimit
  BY <1>1, AfterEventFacts
<1>3. OneOf(S) \in [Counters -> 0 .. 1]
  BY EventFacts
<1>4. /\ seen' \in [Counters -> Nat]
      /\ \A c \in Counters : /\ seen'[c] = seen[c] + OneOf(S)[c]
                             /\ counted'[c] = counted[c] + OneOf(S)[c]
  BY <1>1, <1>2, <1>3 DEF Plus, ExchangeInv, TypeOK
<1>5. TypeOK'
  BY <1>1, <1>2, <1>4 DEF ExchangeInv, TypeOK, feedbackVars, sharedVars
<1>6. CountersConsistent' /\ BelowLimit' /\ ZeroUntilPublished'
  BY <1>1, <1>2
     DEF ExchangeInv, CountersConsistent, Consistent, BelowLimit,
         ZeroUntilPublished, feedbackVars, sharedVars
<1>7. HeldOnceOrTwice'
  <2> SUFFICES ASSUME NEW c \in Counters
               PROVE  /\ ~published_this => reported[c] + counted'[c] <= 2 * seen'[c]
                      /\ published_this =>
                            /\ reported[c] + pkt[c] + counted'[c] <= 2 * seen'[c]
                            /\ reported[c] + 2 * counted'[c] <= 2 * seen'[c]
    BY <1>1 DEF HeldOnceOrTwice, feedbackVars, sharedVars
  <2>1. /\ ~published_this => reported[c] + counted[c] <= 2 * seen[c]
        /\ published_this => /\ reported[c] + pkt[c] + counted[c] <= 2 * seen[c]
                             /\ reported[c] + 2 * counted[c] <= 2 * seen[c]
    BY DEF ExchangeInv, HeldOnceOrTwice
  <2>2. /\ reported[c] \in Nat /\ counted[c] \in Nat /\ seen[c] \in Nat
        /\ pkt[c] \in Nat /\ OneOf(S)[c] \in 0 .. 1
    BY <1>3 DEF ExchangeInv, TypeOK
  <2> QED
    BY <1>4, <2>1, <2>2
<1>8. SpanOfCounters'
  BY <1>1, <1>2
     DEF ExchangeInv, TypeOK, SpanOfCounters, feedbackVars, sharedVars, Counters
<1> QED
  BY <1>5, <1>6, <1>7, <1>8 DEF ExchangeInv

\* A datagram that is counted and copied keeps the invariant: the first copy
\* after a zeroing moves the counters, later ones repeat them.
LEMMA PublishKeepsInv ==
    ASSUME OverflowChecks, ExchangeInv, NEW S \in Events, Publish(S)
    PROVE  ExchangeInv'
<1>1. /\ ~Overflows
      /\ seen' = Plus(seen, OneOf(S))
      /\ this_quantum' = this_quantum + 1
      /\ pkt' = AfterEvent(S)
      /\ counted' = IF pkt["total_packets"] = 0 THEN Zero ELSE AfterEvent(S)
      /\ ack' = seen'["total_packets"]
      /\ published_this' = TRUE
      /\ UNCHANGED <<decoder, feedbackVars>>
  BY DEF Publish, CountPacket
<1>2. /\ AfterEvent(S) = Plus(counted, OneOf(S))
      /\ AfterEvent(S) \in [Counters -> Nat]
      /\ Consistent(AfterEvent(S))
      /\ AfterEvent(S)["total_packets"] = counted["total_packets"] + 1
      /\ AfterEvent(S)["total_packets"] < CounterLimit
  BY <1>1, AfterEventFacts
<1>3. OneOf(S) \in [Counters -> 0 .. 1]
  BY EventFacts
<1>4. /\ Zero \in [Counters -> Nat] /\ Consistent(Zero)
      /\ \A c \in Counters : Zero[c] = 0
  BY DEF Zero, Consistent, Counters
<1>5. /\ seen' \in [Counters -> Nat]
      /\ \A c \in Counters : /\ seen'[c] = seen[c] + OneOf(S)[c]
                             /\ pkt'[c] = counted[c] + OneOf(S)[c]
  BY <1>1, <1>2, <1>3 DEF Plus, ExchangeInv, TypeOK
<1>6. pkt["total_packets"] = 0 <=> ~published_this
  BY DEF ExchangeInv, ZeroUntilPublished
<1>7. counted' = IF published_this THEN pkt' ELSE Zero
  BY <1>1, <1>6
<1>8. TypeOK'
  <2>1. counted' \in [Counters -> Nat] /\ pkt' \in [Counters -> Nat]
    BY <1>1, <1>2, <1>4
  <2>2. ack' \in Nat
    BY <1>1, <1>5 DEF Counters
  <2> QED
    BY <1>1, <1>5, <2>1, <2>2 DEF ExchangeInv, TypeOK, feedbackVars
<1>9. CountersConsistent'
  <2>1. Consistent(counted)' /\ Consistent(pkt)'
    BY <1>1, <1>2, <1>4 DEF Consistent
  <2>2. Consistent(report)'
    BY <1>1 DEF ExchangeInv, CountersConsistent, Consistent, feedbackVars
  <2> QED
    BY <2>1, <2>2 DEF CountersConsistent
<1>10. BelowLimit' /\ ZeroUntilPublished'
  <2>1. counted["total_packets"] \in Nat /\ Zero["total_packets"] = 0
    BY <1>4 DEF ExchangeInv, TypeOK, Counters
  <2> QED
    BY <1>1, <1>2, <2>1, ExchangeAssumption DEF BelowLimit, ZeroUntilPublished
<1>11. HeldOnceOrTwice'
  <2> SUFFICES ASSUME NEW c \in Counters
               PROVE  /\ reported[c] + pkt'[c] + counted'[c] <= 2 * seen'[c]
                      /\ reported[c] + 2 * counted'[c] <= 2 * seen'[c]
    BY <1>1 DEF HeldOnceOrTwice, feedbackVars
  <2>1. /\ ~published_this => reported[c] + counted[c] <= 2 * seen[c]
        /\ published_this => /\ reported[c] + pkt[c] + counted[c] <= 2 * seen[c]
                             /\ reported[c] + 2 * counted[c] <= 2 * seen[c]
    BY DEF ExchangeInv, HeldOnceOrTwice
  <2>2. /\ reported[c] \in Nat /\ counted[c] \in Nat /\ seen[c] \in Nat
        /\ pkt[c] \in Nat /\ OneOf(S)[c] \in 0 .. 1
    BY <1>3 DEF ExchangeInv, TypeOK
  <2>3. /\ seen'[c] = seen[c] + OneOf(S)[c]
        /\ pkt'[c] = counted[c] + OneOf(S)[c]
    BY <1>5
  <2>4. CASE published_this
    <3>1. counted'[c] = pkt'[c]
      BY <1>7, <2>4
    <3> QED
      BY <2>1, <2>2, <2>3, <2>4, <3>1
  <2>5. CASE ~published_this
    <3>1. counted'[c] = 0
      BY <1>4, <1>7, <2>5
    <3> QED
      BY <2>1, <2>2, <2>3, <2>5, <3>1
  <2> QED
    BY <2>4, <2>5
<1>12. SpanOfCounters'
  <2>1. /\ counted["total_packets"] \in Nat /\ Zero["total_packets"] = 0
        /\ this_quantum \in Nat /\ last_quantum \in Nat
    BY <1>4 DEF ExchangeInv, TypeOK, Counters
  <2>2. published_this => counted["total_packets"] <= this_quantum
    BY DEF ExchangeInv, SpanOfCounters
  <2>3. counted'["total_packets"] <= this_quantum'
    BY <1>1, <1>2, <1>6, <2>1, <2>2
  <2>4. last_quantum' = last_quantum
    BY <1>1 DEF feedbackVars
  <2>5. counted'["total_packets"] \in Nat /\ this_quantum' \in Nat
    BY <1>1, <1>2, <2>1
  <2> QED
    BY <2>1, <2>3, <2>4, <2>5 DEF SpanOfCounters
<1> QED
  BY <1>8, <1>9, <1>10, <1>11, <1>12 DEF ExchangeInv

\* A report that is sent, or lost in a failed write, keeps the invariant.
LEMMA SendReportKeepsInv ==
    ASSUME ExchangeInv, SendReport
    PROVE  ExchangeInv'
<1>1. /\ \/ report' = pkt /\ reported' = Plus(reported, pkt)
         \/ UNCHANGED <<report, reported>>
      /\ write_errors' \in Nat
      /\ pkt' = Zero
      /\ feedback' = "acking"
      /\ quanta' = quanta + 1
      /\ last_quantum' = this_quantum /\ this_quantum' = 0
      /\ published_last' = published_this /\ published_this' = FALSE
      /\ UNCHANGED <<decoder, counted, seen, ack, sent_ack>>
  BY DEF SendReport, ExchangeInv, TypeOK
<1>2. /\ Zero \in [Counters -> Nat] /\ Consistent(Zero)
      /\ Zero["total_packets"] = 0
  BY DEF Zero, Consistent, Counters
<1>3. report' \in [Counters -> Nat] /\ reported' \in [Counters -> Nat]
  BY <1>1 DEF ExchangeInv, TypeOK, Plus
<1>4. TypeOK'
  <2>1. TypeOK
    BY DEF ExchangeInv
  <2>2. quanta' \in Nat /\ last_quantum' \in Nat /\ this_quantum' \in Nat
    BY <1>1, <2>1 DEF TypeOK
  <2>3. published_last' \in BOOLEAN /\ published_this' \in BOOLEAN
    <3>1. published_this \in BOOLEAN
      BY <2>1 DEF TypeOK
    <3>2. published_last' = published_this /\ published_this' = FALSE
      BY <1>1
    <3> QED
      BY <3>1, <3>2, Zenon
  <2>4. feedback' \in {"accepting", "reporting", "acking", "sleeping"}
    BY <1>1
  <2>5. /\ decoder' \in {"running", "panicked"}
        /\ counted' \in [Counters -> Nat] /\ seen' \in [Counters -> Nat]
        /\ ack' \in Nat \cup {NoAck} /\ sent_ack' \in Nat \cup {NoAck}
    BY <1>1, <2>1 DEF TypeOK
  <2>6. pkt' \in [Counters -> Nat] /\ write_errors' \in Nat
    BY <1>1, <1>2
  <2> QED
    BY <1>3, <2>2, <2>3, <2>4, <2>5, <2>6 DEF TypeOK
<1>5. CountersConsistent' /\ BelowLimit' /\ ZeroUntilPublished'
  BY <1>1, <1>2
     DEF ExchangeInv, CountersConsistent, Consistent, BelowLimit,
         ZeroUntilPublished
<1>6. HeldOnceOrTwice'
  <2> SUFFICES ASSUME NEW c \in Counters
               PROVE  reported'[c] + counted[c] <= 2 * seen[c]
    BY <1>1 DEF HeldOnceOrTwice
  <2>1. /\ ~published_this => reported[c] + counted[c] <= 2 * seen[c]
        /\ published_this => /\ reported[c] + pkt[c] + counted[c] <= 2 * seen[c]
                             /\ reported[c] + 2 * counted[c] <= 2 * seen[c]
    BY DEF ExchangeInv, HeldOnceOrTwice
  <2>2. /\ reported[c] \in Nat /\ counted[c] \in Nat /\ seen[c] \in Nat
        /\ pkt[c] \in Nat
    BY DEF ExchangeInv, TypeOK
  <2>3. ~published_this => pkt[c] = 0
    BY DEF ExchangeInv, TypeOK, ZeroUntilPublished, CountersConsistent,
           Consistent, Counters
  <2>4. reported'[c] = reported[c] + pkt[c] \/ reported'[c] = reported[c]
    BY <1>1 DEF Plus
  <2> QED
    BY <2>1, <2>2, <2>3, <2>4
<1>7. SpanOfCounters'
  BY <1>1 DEF ExchangeInv, TypeOK, SpanOfCounters, Counters
<1> QED
  BY <1>4, <1>5, <1>6, <1>7 DEF ExchangeInv

\* Every step of a dev build keeps the invariant.
LEMMA ExchangeInvInductive ==
    OverflowChecks /\ ExchangeInv /\ [Next]_vars => ExchangeInv'
<1> SUFFICES ASSUME OverflowChecks, ExchangeInv, [Next]_vars PROVE ExchangeInv'
  OBVIOUS
<1>1. ASSUME UNCHANGED <<counted, pkt, report, seen, reported, this_quantum,
                         last_quantum, published_this, published_last>>,
             TypeOK'
      PROVE  ExchangeInv'
  BY <1>1
     DEF ExchangeInv, CountersConsistent, Consistent, BelowLimit,
         ZeroUntilPublished, HeldOnceOrTwice, SpanOfCounters
<1>2. ASSUME NEW S \in Events, CountOnly(S) PROVE ExchangeInv'
  BY <1>2, CountOnlyKeepsInv
<1>3. ASSUME NEW S \in Events, Publish(S) PROVE ExchangeInv'
  BY <1>3, PublishKeepsInv
<1>4. CASE CounterPanics
  <2>1. TypeOK'
    BY <1>4 DEF CounterPanics, ExchangeInv, TypeOK, sharedVars, feedbackVars
  <2> QED
    BY <1>1, <1>4, <2>1 DEF CounterPanics, sharedVars, feedbackVars
<1>5. CASE Lock
  <2>1. TypeOK'
    BY <1>5 DEF Lock, ExchangeInv, TypeOK, decoderVars, sharedVars
  <2> QED
    BY <1>1, <1>5, <2>1 DEF Lock, decoderVars, sharedVars
<1>6. CASE SendReport
  BY <1>6, SendReportKeepsInv
<1>7. CASE SendAck
  <2>1. TypeOK'
    BY <1>7 DEF SendAck, ExchangeInv, TypeOK, decoderVars, sharedVars
  <2> QED
    BY <1>1, <1>7, <2>1 DEF SendAck, decoderVars, sharedVars
<1>8. CASE UNCHANGED vars
  <2>1. TypeOK'
    BY <1>8 DEF ExchangeInv, TypeOK, vars, decoderVars, sharedVars, feedbackVars
  <2> QED
    BY <1>1, <1>8, <2>1 DEF vars, decoderVars, sharedVars, feedbackVars
<1> QED
  BY <1>2, <1>3, <1>4, <1>5, <1>6, <1>7, <1>8 DEF Next

\* In a dev build the invariant holds in every reachable state.
THEOREM ExchangeInvariant == OverflowChecks /\ Spec => []ExchangeInv
<1>1. OverflowChecks /\ ExchangeInv /\ [Next]_vars => ExchangeInv'
  BY ExchangeInvInductive
<1>2. Init => ExchangeInv
  BY ExchangeInvInit
<1>3. CASE OverflowChecks
  <2>1. ExchangeInv /\ [Next]_vars => ExchangeInv'
    BY <1>1, <1>3
  <2> QED
    BY <1>2, <2>1, PTL DEF Spec
<1> QED
  BY <1>3

\* The variables of the exchange keep their types in a dev build.
THEOREM ExchangeTypes == OverflowChecks /\ Spec => []TypeOK
<1>1. ExchangeInv => TypeOK
  BY DEF ExchangeInv
<1> QED
  BY <1>1, ExchangeInvariant, PTL

\* Every report a dev build sends is consistent: the counters it was copied from
\* are, and both threads zero them together.
THEOREM ReportsAreConsistent == OverflowChecks /\ Spec => []ReportConsistent
<1>1. ExchangeInv => ReportConsistent
  BY DEF ExchangeInv, CountersConsistent, Consistent, ReportConsistent
<1> QED
  BY <1>1, ExchangeInvariant, PTL

\* Nothing a dev build counts reaches the server a third time, however copies
\* and zeroings interleave.
THEOREM NothingReportedThrice == OverflowChecks /\ Spec => []ReportedAtMostTwice
<1>1. ExchangeInv => ReportedAtMostTwice
  <2> SUFFICES ASSUME ExchangeInv, NEW c \in Counters
               PROVE  reported[c] <= 2 * seen[c]
    BY DEF ReportedAtMostTwice
  <2>1. /\ ~published_this => reported[c] + counted[c] <= 2 * seen[c]
        /\ published_this => reported[c] + 2 * counted[c] <= 2 * seen[c]
    BY DEF ExchangeInv, HeldOnceOrTwice
  <2>2. reported[c] \in Nat /\ counted[c] \in Nat /\ seen[c] \in Nat
    BY DEF ExchangeInv, TypeOK
  <2> QED
    BY <2>1, <2>2
<1> QED
  BY <1>1, ExchangeInvariant, PTL

\* In a dev build the counters span two quanta at most while each quantum has a
\* packet delivered in order.
THEOREM CountersStayShort == OverflowChecks /\ Spec => []CountersSpanTwoQuanta
<1>1. ExchangeInv => CountersSpanTwoQuanta
  <2> SUFFICES ASSUME ExchangeInv, published_this \/ published_last
               PROVE  counted["total_packets"] <= last_quantum + this_quantum
    BY DEF CountersSpanTwoQuanta
  <2>1. /\ counted["total_packets"] \in Nat
        /\ this_quantum \in Nat /\ last_quantum \in Nat
    BY DEF ExchangeInv, TypeOK, Counters
  <2> QED
    BY <2>1 DEF ExchangeInv, SpanOfCounters
<1> QED
  BY <1>1, ExchangeInvariant, PTL

=============================================================================
