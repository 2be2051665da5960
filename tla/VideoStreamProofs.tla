-------------------------- MODULE VideoStreamProofs --------------------------
(***************************************************************************)
(* Theorems about the video path, for every block ratio, every set of      *)
(* packet sizes, every reordering window and every bound on the faults:    *)
(* the types of the decode thread, what can end it, that it shows the      *)
(* depacketizer what RtpStream promises, and that Regular fragments of a   *)
(* block are enough to show all of it.                                     *)
(***************************************************************************)
EXTENDS VideoStream, FiniteSetTheorems, SequenceTheorems, TLAPS

USE RatioAssumption, DecoderAssumption, StreamAssumption

\* Where the datagrams of the server's present run begin, and what they are.
LastStart == IF starts = <<>> THEN 0 ELSE starts[Len(starts)]
Wire == SubSeq(udp, LastStart + 1, Len(udp))

\* The packager of the present run, whose wire is empty when it starts.
Run == INSTANCE LVPackagerProofs
          WITH Builds <- {OverflowChecks}, overflow_checks <- OverflowChecks,
               udp <- Wire

\* No restart of the server lies between two places.
SameRun(j, k) == \A n \in 1 .. Len(starts) : starts[n] < j <=> starts[n] < k

StartsInStep ==
    /\ starts \in Seq(Nat)
    /\ LastStart \in 0 .. Len(udp)
    /\ \A n \in 1 .. Len(starts) : starts[n] <= LastStart

\* The present run of the server is one of the packager.
WireInStep ==
    /\ udp \in Seq(Datagram)
    /\ StartsInStep
    /\ Run!PackagerInv

\* Of one run of the server no label is used twice, and labels only grow.
LabelsOrdered ==
    \A j, k \in 1 .. Len(udp) : j < k /\ SameRun(j, k) => Before(udp[j], udp[k])

-----------------------------------------------------------------------------
\* The packager's theorems hold of each run: its constants are as assumed.
LEMMA RunAssumptions == Run!RatioAssumption /\ Run!PackagerAssumption
BY DEF Run!RatioAssumption, Run!PackagerAssumption

\* Datagrams are datagrams in each run.
LEMMA RunDatagrams == Run!Datagram = Datagram
BY DEF Run!Datagram, Run!OriginalDatagram, Run!RecoveryDatagram, Run!Index,
       Run!RecoveryIndex, Run!Packet, Run!Codeword, Datagram, OriginalDatagram,
       RecoveryDatagram, Index, RecoveryIndex, Packet, Codeword

\* A sequence cut behind its first n elements grows as the sequence does.
LEMMA SuffixOfLonger ==
    ASSUME NEW S, NEW s \in Seq(S), NEW x \in Seq(S), NEW n \in 0 .. Len(s)
    PROVE  SubSeq(s \o x, n + 1, Len(s \o x)) = SubSeq(s, n + 1, Len(s)) \o x
<1> DEFINE a == SubSeq(s, n + 1, Len(s))
           c == s \o x
           b == SubSeq(c, n + 1, Len(c))
<1>1. /\ Len(s) \in Nat /\ Len(x) \in Nat /\ n \in Nat /\ n <= Len(s)
      /\ c \in Seq(S) /\ Len(c) = Len(s) + Len(x)
      /\ \A i \in 1 .. Len(s) + Len(x) :
            c[i] = IF i <= Len(s) THEN s[i] ELSE x[i - Len(s)]
  BY ConcatProperties
<1>2. \A i \in n + 1 .. Len(s) : s[i] \in S
  BY <1>1
<1>3. /\ a \in Seq(S) /\ Len(a) = Len(s) - n
      /\ \A i \in 1 .. Len(s) - n : a[i] = s[n + i]
  <2>1. n + 1 \in Int /\ Len(s) \in Int
    BY <1>1
  <2>2. /\ a \in Seq(S)
        /\ Len(a) = IF n + 1 <= Len(s) THEN Len(s) - (n + 1) + 1 ELSE 0
        /\ \A i \in 1 .. Len(s) - (n + 1) + 1 : a[i] = s[(n + 1) + i - 1]
    BY <1>2, <2>1, SubSeqProperties
  <2> HIDE DEF a
  <2> QED
    BY <1>1, <2>2
<1>4. /\ b \in Seq(S) /\ Len(b) = Len(s) + Len(x) - n
      /\ \A i \in 1 .. Len(s) + Len(x) - n : b[i] = c[n + i]
  <2> HIDE DEF c
  <2>1. n + 1 \in Int /\ Len(c) \in Int
    BY <1>1
  <2>2. \A i \in n + 1 .. Len(c) : c[i] \in S
    BY <1>1
  <2>3. /\ b \in Seq(S)
        /\ Len(b) = IF n + 1 <= Len(c) THEN Len(c) - (n + 1) + 1 ELSE 0
        /\ \A i \in 1 .. Len(c) - (n + 1) + 1 : b[i] = c[(n + 1) + i - 1]
    BY <2>1, <2>2, SubSeqProperties
  <2> HIDE DEF b
  <2>4. Len(b) = Len(s) + Len(x) - n
    BY <1>1, <2>3
  <2>5. ASSUME NEW i \in 1 .. Len(s) + Len(x) - n PROVE b[i] = c[n + i]
    <3>1. i \in 1 .. Len(c) - (n + 1) + 1 /\ (n + 1) + i - 1 = n + i
      BY <1>1
    <3> QED
      BY <2>3, <3>1
  <2> QED
    BY <2>3, <2>4, <2>5
<1> HIDE DEF a, b, c
<1>5. /\ a \o x \in Seq(S) /\ Len(a \o x) = Len(s) - n + Len(x)
      /\ \A i \in 1 .. Len(s) - n + Len(x) :
            (a \o x)[i] = IF i <= Len(s) - n THEN a[i] ELSE x[i - (Len(s) - n)]
  <2>1. /\ a \o x \in Seq(S) /\ Len(a \o x) = Len(a) + Len(x)
        /\ \A i \in 1 .. Len(a) + Len(x) :
              (a \o x)[i] = IF i <= Len(a) THEN a[i] ELSE x[i - Len(a)]
    BY <1>3, ConcatProperties
  <2> QED
    BY <1>3, <2>1
<1>6. ASSUME NEW i \in 1 .. Len(b)
      PROVE  b[i] = (a \o x)[i]
  <2>1. i \in Int /\ 1 <= i /\ i <= Len(s) + Len(x) - n
    BY <1>1, <1>4
  <2>2. b[i] = c[n + i] /\ c[n + i] = IF n + i <= Len(s) THEN s[n + i] ELSE x[n + i - Len(s)]
    BY <1>1, <1>4, <2>1
  <2>3. (a \o x)[i] = IF i <= Len(s) - n THEN a[i] ELSE x[i - (Len(s) - n)]
    <3>1. i \in 1 .. Len(s) - n + Len(x)
      BY <1>1, <2>1
    <3> QED
      BY <1>5, <3>1
  <2>4. CASE i <= Len(s) - n
    BY <1>1, <1>3, <2>1, <2>2, <2>3, <2>4
  <2>5. CASE ~(i <= Len(s) - n)
    <3>1. n + i - Len(s) = i - (Len(s) - n) /\ ~(n + i <= Len(s))
      BY <1>1, <2>1, <2>5
    <3> QED
      BY <2>2, <2>3, <2>5, <3>1
  <2> QED
    BY <2>4, <2>5
<1>7. Len(b) = Len(a \o x)
  BY <1>1, <1>4, <1>5
<1>8. b = a \o x
  BY <1>4, <1>5, <1>6, <1>7, SeqEqual
<1> QED
  BY <1>8 DEF a, b, c

\* The datagrams of the present run, by their places.
WireByPlace ==
    /\ LastStart \in Nat /\ Len(udp) \in Nat
    /\ Len(Wire) = Len(udp) - LastStart
    /\ \A m \in LastStart + 1 .. Len(udp) : Wire[m - LastStart] = udp[m]

\* So the places of udp and of the present run's wire correspond.
LEMMA WireElements == udp \in Seq(Datagram) /\ StartsInStep => WireByPlace
<1> SUFFICES ASSUME udp \in Seq(Datagram), StartsInStep
             PROVE  WireByPlace
  OBVIOUS
<1>1. LastStart \in Nat /\ Len(udp) \in Nat /\ LastStart <= Len(udp)
  BY DEF StartsInStep
<1>2. \A k \in LastStart + 1 .. Len(udp) : udp[k] \in Datagram
  BY <1>1
<1> DEFINE n == LastStart
<1>3. n + 1 \in Int /\ Len(udp) \in Int /\ n \in Nat
  BY <1>1
<1> HIDE DEF n
<1> DEFINE w == SubSeq(udp, n + 1, Len(udp))
<1>4. /\ Len(w) = IF n + 1 <= Len(udp) THEN Len(udp) - (n + 1) + 1 ELSE 0
      /\ \A i \in 1 .. Len(udp) - (n + 1) + 1 : w[i] = udp[(n + 1) + i - 1]
  BY <1>2, <1>3, SubSeqProperties DEF n
<1> HIDE DEF w
<1>5. n <= Len(udp)
  BY <1>1 DEF n
<1>6. Len(w) = Len(udp) - n /\ \A k \in n + 1 .. Len(udp) : w[k - n] = udp[k]
  <2>1. ASSUME NEW k \in n + 1 .. Len(udp) PROVE w[k - n] = udp[k]
    <3>1. k - n \in 1 .. Len(udp) - (n + 1) + 1 /\ (n + 1) + (k - n) - 1 = k
      BY <1>3, <1>5
    <3> QED
      BY <1>4, <3>1
  <2> QED
    BY <1>3, <1>4, <1>5, <2>1
<1>7. Wire = w /\ LastStart = n
  BY DEF Wire, w, n
<1> QED
  BY <1>1, <1>6, <1>7 DEF WireByPlace

\* Between restarts the operators of the server are those of its present run.
LEMMA SameOperators ==
    /\ Server!EncodeDue <=> Run!EncodeDue
    /\ Server!EncoderFull <=> Run!EncoderFull
    /\ Server!PopPacket <=> Run!PopPacket
    /\ \A n \in Nat : /\ Server!RecoveryShards(n) = Run!RecoveryShards(n)
                      /\ Server!RecoveryFragmentIndex(n) = Run!RecoveryFragmentIndex(n)
    /\ Server!RecoveryDue = Run!RecoveryDue
    /\ \A pkt : Server!LabelPacket(pkt) <=> Run!LabelPacket(pkt)
    /\ Server!ShardsBefore(Server!EncodeDue) = Run!ShardsBefore(Run!EncodeDue)
    /\ Server!NextFragmentIndex = Run!NextFragmentIndex
    /\ Server!Overflows <=> Run!Overflows
    /\ \A b, i, pkt : Server!Original(b, i, pkt) = Run!Original(b, i, pkt)
<1>1. /\ Server!EncodeDue <=> Run!EncodeDue
      /\ Server!EncoderFull <=> Run!EncoderFull
      /\ Server!PopPacket <=> Run!PopPacket
      /\ Server!NextFragmentIndex = Run!NextFragmentIndex
  BY DEF Server!EncodeDue, Run!EncodeDue, Server!EncoderFull, Run!EncoderFull,
         Server!PopPacket, Run!PopPacket, Server!NextFragmentIndex,
         Run!NextFragmentIndex
<1>2. Server!Overflows <=> Run!Overflows
  BY <1>1 DEF Server!Overflows, Run!Overflows
<1>3. \A n : Server!RecoveryFragmentIndex(n) = Run!RecoveryFragmentIndex(n)
  BY DEF Server!RecoveryFragmentIndex, Run!RecoveryFragmentIndex
<1>4. Server!EncodedBlock = Run!EncodedBlock
  BY DEF Server!EncodedBlock, Run!EncodedBlock, Server!Index, Run!Index
<1>5. \A n : Server!DueShard(n) = Run!DueShard(n)
  BY <1>3, <1>4 DEF Server!DueShard, Run!DueShard, Server!RecoveryShard,
                    Run!RecoveryShard
<1>6. \A n : Server!RecoveryShards(n) = Run!RecoveryShards(n)
  BY <1>5 DEF Server!RecoveryShards, Run!RecoveryShards
<1>7. Server!RecoveryDue = Run!RecoveryDue
  BY <1>1, <1>6 DEF Server!RecoveryDue, Run!RecoveryDue
<1>8. Server!ShardsBefore(Server!EncodeDue) = Run!ShardsBefore(Run!EncodeDue)
  BY <1>1 DEF Server!ShardsBefore, Run!ShardsBefore
<1>9. \A b, i, pkt : Server!Original(b, i, pkt) = Run!Original(b, i, pkt)
  BY DEF Server!Original, Run!Original, Server!Index, Run!Index
<1>10. Server!AdvanceLabel <=> Run!AdvanceLabel
  BY <1>1, <1>2 DEF Server!AdvanceLabel, Run!AdvanceLabel
<1>11. ASSUME NEW pkt
       PROVE  Server!LabelPacket(pkt) <=> Run!LabelPacket(pkt)
  <2>1. Server!LargestAfter(pkt.size, Server!EncodeDue)
           = Run!LargestAfter(pkt.size, Run!EncodeDue)
    BY <1>1 DEF Server!LargestAfter, Run!LargestAfter
  <2> QED
    BY <1>1, <1>2, <1>3, <1>10, <2>1 DEF Server!LabelPacket, Run!LabelPacket
<1> QED
  BY <1>1, <1>2, <1>3, <1>6, <1>7, <1>8, <1>9, <1>11

\* What is appended to udp is appended to the wire of the present run.
LEMMA WireGrows ==
    ASSUME udp \in Seq(Datagram), StartsInStep, UNCHANGED starts,
           NEW x \in Seq(Datagram), udp' = udp \o x
    PROVE  Wire' = Wire \o x
<1>1. LastStart' = LastStart /\ LastStart \in 0 .. Len(udp)
  BY DEF LastStart, StartsInStep
<1>2. Wire' = SubSeq(udp \o x, LastStart + 1, Len(udp \o x))
  BY <1>1 DEF Wire
<1>3. SubSeq(udp \o x, LastStart + 1, Len(udp \o x)) = Wire \o x
  <2> DEFINE n == LastStart
             D == Datagram
  <2>1. n \in 0 .. Len(udp) /\ udp \in Seq(D) /\ x \in Seq(D)
    BY <1>1
  <2> HIDE DEF n, D
  <2>2. SubSeq(udp \o x, n + 1, Len(udp \o x)) = SubSeq(udp, n + 1, Len(udp)) \o x
    BY <2>1, SuffixOfLonger
  <2> QED
    BY <2>2 DEF n, Wire
<1> QED
  BY <1>2, <1>3

\* The shards a call sends are datagrams.
LEMMA ShardsAreDatagrams ==
    ASSUME WireInStep, Run!EncodeDue, Run!EncoderFull, NEW n \in Nat
    PROVE  Run!RecoveryShards(n) \in Seq(Datagram)
<1>1. Run!TypeOK
  BY DEF WireInStep, Run!PackagerInv
<1>2. Run!RecoveryShards(n) \in Seq(Run!RecoveryDatagram)
  BY <1>1, RunAssumptions, Run!RecoveryShardsType
<1>3. Run!RecoveryDatagram \subseteq Datagram
  BY RunDatagrams DEF Run!Datagram
<1> DEFINE R == Run!RecoveryDatagram
           D == Datagram
           s == Run!RecoveryShards(n)
<1>4. s \in Seq(R) /\ R \subseteq D
  BY <1>2, <1>3
<1> HIDE DEF R, D, s
<1>5. s \in Seq(D)
  BY <1>4, SeqMonotonic
<1> QED
  BY <1>5 DEF D, s

\* A call of the server is one of its present run.
LEMMA ServerCall ==
    ASSUME WireInStep, Server!ProcessFrame \/ Server!SendNextPkt, UNCHANGED starts
    PROVE  /\ Run!Next
           /\ \E x \in Seq(Datagram) : udp' = udp \o x
<1>1. udp \in Seq(Datagram) /\ StartsInStep /\ Run!TypeOK
  BY DEF WireInStep, Run!PackagerInv
<1>2. OverflowChecks' = OverflowChecks
  OBVIOUS
<1>3. /\ UNCHANGED udp => UNCHANGED Wire
      /\ UNCHANGED udp => udp' = udp \o <<>>
      /\ <<>> \in Seq(Datagram)
  <2>1. UNCHANGED udp => UNCHANGED Wire
    BY DEF Wire, LastStart
  <2>2. udp \o <<>> = udp
    BY <1>1, ConcatEmptySeq
  <2>3. <<>> \in Seq(Datagram)
    BY EmptySeq
  <2>4. UNCHANGED udp => udp' = udp \o <<>>
    BY <2>2
  <2> QED
    BY <2>1, <2>3, <2>4
<1>4. Run!RecoveryDue \in Seq(Datagram) \/ (Run!EncodeDue /\ ~Run!EncoderFull)
  <2>1. CASE Run!EncodeDue /\ Run!EncoderFull
    BY <2>1, ShardsAreDatagrams DEF Run!RecoveryDue
  <2>2. CASE ~Run!EncodeDue
    BY <1>3, <2>2 DEF Run!RecoveryDue
  <2> QED
    BY <2>1, <2>2
<1>5. CASE Server!ProcessFrame
  <2>1. Run!ProcessFrame
    BY <1>3, <1>5 DEF Server!ProcessFrame, Run!ProcessFrame,
       Server!labelVars, Run!labelVars, Server!blockVars, Run!blockVars,
       Server!errorVars, Run!errorVars
  <2> QED
    BY <1>2, <1>3, <1>5, <2>1 DEF Server!ProcessFrame, Run!Next
<1>6. CASE Server!EncodeFails
  <2>1. Run!EncodeFails
    BY <1>3, <1>6, SameOperators DEF Server!EncodeFails, Run!EncodeFails,
       Server!labelVars, Run!labelVars, Server!blockVars, Run!blockVars,
       Server!errorVars, Run!errorVars
  <2> QED
    BY <1>2, <1>3, <1>6, <2>1 DEF Server!EncodeFails, Run!Next, Run!SendNextPkt
<1>7. CASE Server!RecoverySendFails
  <2>1. PICK n \in 0 .. Recovery - 1 :
           /\ udp' = udp \o Server!RecoveryShards(n)
           /\ current_recovery_fragment_index' = Server!RecoveryFragmentIndex(n + 1)
    BY <1>7 DEF Server!RecoverySendFails
  <2>2. n \in Nat /\ n + 1 \in Nat
    OBVIOUS
  <2>3. Run!EncodeDue /\ Run!EncoderFull
    BY <1>7, SameOperators DEF Server!RecoverySendFails
  <2>4. Run!RecoveryShards(n) \in Seq(Datagram)
    BY <2>2, <2>3, ShardsAreDatagrams
  <2>5. udp' = udp \o Run!RecoveryShards(n)
    BY <2>1, <2>2, SameOperators
  <2>6. Wire' = Wire \o Run!RecoveryShards(n)
    BY <1>1, <2>4, <2>5, WireGrows
  <2>7. current_recovery_fragment_index' = Run!RecoveryFragmentIndex(n + 1)
    BY <2>1, <2>2, SameOperators
  <2>8. Run!RecoverySendFails
    BY <1>7, <2>3, <2>6, <2>7, SameOperators
    DEF Server!RecoverySendFails, Run!RecoverySendFails, Server!labelVars, Run!labelVars
  <2> QED
    BY <1>2, <2>4, <2>5, <2>8 DEF Run!Next, Run!SendNextPkt
<1>8. CASE Server!SendFragment
  <2> DEFINE pk == Run!Original(current_block_id, current_regular_fragment_index,
                                Head(rtp_queue))
             due == Run!RecoveryDue
  <2>1. /\ Run!PopPacket /\ (Run!EncodeDue <=> Run!EncoderFull)
        /\ Run!LabelPacket(Head(rtp_queue))
        /\ enc' = Append(Run!ShardsBefore(Run!EncodeDue), Head(rtp_queue))
        /\ UNCHANGED <<status, recovery_errors>>
        /\ \/ /\ udp' = udp \o Append(due, pk)
              /\ UNCHANGED fragment_errors
           \/ /\ fragment_errors < MaxFragmentErrors
              /\ fragment_errors' = fragment_errors + 1
              /\ udp' = udp \o due
    BY <1>8, SameOperators DEF Server!SendFragment
  <2>2. due \in Seq(Datagram)
    BY <1>4, <2>1
  <2>3. pk \in Datagram
    <3>1. Head(rtp_queue) \in Run!Packet
      BY <1>1, <2>1, RunAssumptions, Run!PopPacketType
    <3>2. /\ current_block_id \in Nat /\ current_regular_fragment_index \in Run!Index
      BY <1>1 DEF Run!TypeOK
    <3>3. pk \in Run!OriginalDatagram
      BY <3>1, <3>2 DEF Run!Original, Run!OriginalDatagram
    <3> QED
      BY <3>3, RunDatagrams DEF Run!Datagram
  <2> DEFINE D == Datagram
  <2>4. Append(due, pk) \in Seq(Datagram)
    <3> HIDE DEF due, pk, D
    <3>1. due \in Seq(D) /\ pk \in D
      BY <2>2, <2>3 DEF D
    <3>2. Append(due, pk) \in Seq(D)
      BY <3>1
    <3> QED
      BY <3>2 DEF D
  <2> HIDE DEF due, pk, D
  <2>5. \/ /\ Wire' = Wire \o Append(due, pk)
           /\ UNCHANGED fragment_errors
        \/ /\ fragment_errors < MaxFragmentErrors
           /\ fragment_errors' = fragment_errors + 1
           /\ Wire' = Wire \o due
    BY <1>1, <2>1, <2>2, <2>4, WireGrows
  <2>6. Run!SendFragment
    <3>1. Run!EncodeDue = Run!EncoderFull
      BY <2>1 DEF Run!EncodeDue, Run!EncoderFull
    <3> QED
      BY <2>1, <2>5, <3>1, Zenon DEF Run!SendFragment, due, pk
  <2>7. \E x \in Seq(Datagram) : udp' = udp \o x
    BY <2>1, <2>2, <2>4
  <2> QED
    BY <1>2, <2>6, <2>7 DEF Run!Next, Run!SendNextPkt
<1>9. CASE Server!AddShardFails
  <2>1. Run!AddShardFails
    BY <1>3, <1>9, SameOperators DEF Server!AddShardFails, Run!AddShardFails,
       Server!errorVars, Run!errorVars
  <2> QED
    BY <1>2, <1>3, <1>9, <2>1 DEF Server!AddShardFails, Run!Next, Run!SendNextPkt
<1>10. CASE Server!BlockIdOverflow
  <2>1. udp' = udp \o Run!RecoveryDue /\ (Run!EncodeDue => Run!EncoderFull)
    BY <1>10, SameOperators DEF Server!BlockIdOverflow
  <2>2. Run!RecoveryDue \in Seq(Datagram)
    BY <1>4, <2>1
  <2>3. Wire' = Wire \o Run!RecoveryDue
    BY <1>1, <2>1, <2>2, WireGrows
  <2>4. Run!BlockIdOverflow
    <3>1. Recovery \in Nat
      OBVIOUS
    <3> QED
      BY <1>10, <2>1, <2>3, <3>1, SameOperators
      DEF Server!BlockIdOverflow, Run!BlockIdOverflow, Server!errorVars, Run!errorVars
  <2> QED
    BY <1>2, <2>1, <2>2, <2>4 DEF Run!Next, Run!SendNextPkt
<1> QED
  BY <1>5, <1>6, <1>7, <1>8, <1>9, <1>10 DEF Server!SendNextPkt

\* A restart begins a run with an empty wire.
LEMMA RestartInStep ==
    ASSUME WireInStep, RestartServer
    PROVE  WireInStep'
<1>1. /\ udp \in Seq(Datagram) /\ StartsInStep /\ Run!TypeOK
      /\ udp' = udp /\ starts' = Append(starts, Len(udp))
  BY DEF WireInStep, Run!PackagerInv, RestartServer
<1>2. starts \in Seq(Nat) /\ Len(udp) \in Nat /\ Len(starts) \in Nat
  BY <1>1 DEF StartsInStep
<1>3. /\ starts' \in Seq(Nat) /\ Len(starts') = Len(starts) + 1
      /\ starts'[Len(starts) + 1] = Len(udp)
      /\ \A n \in 1 .. Len(starts) : starts'[n] = starts[n]
  BY <1>1, <1>2
<1>4. LastStart' = Len(udp)
  <2>1. starts' # <<>> /\ LastStart' = starts'[Len(starts')]
    BY <1>2, <1>3 DEF LastStart
  <2> QED
    BY <1>3, <2>1
<1>5. StartsInStep'
  <2>1. LastStart' \in 0 .. Len(udp')
    BY <1>1, <1>2, <1>4
  <2>2. ASSUME NEW n \in 1 .. Len(starts') PROVE starts'[n] <= LastStart'
    <3>1. CASE n \in 1 .. Len(starts)
      <4>1. /\ starts[n] <= LastStart /\ LastStart <= Len(udp)
            /\ starts[n] \in Nat /\ LastStart \in Nat
        BY <1>1, <1>2, <3>1 DEF StartsInStep
      <4>2. starts'[n] = starts[n]
        BY <1>3, <3>1
      <4>3. starts[n] <= Len(udp)
        BY <1>2, <4>1
      <4> QED
        BY <1>4, <4>2, <4>3
    <3>2. CASE n = Len(starts) + 1
      BY <1>2, <1>3, <1>4, <3>2
    <3> QED
      BY <1>2, <1>3, <3>1, <3>2
  <2> QED
    BY <1>3, <2>1, <2>2 DEF StartsInStep
<1>6. Wire' = <<>>
  <2>1. Wire' = SubSeq(udp, Len(udp) + 1, Len(udp))
    BY <1>1, <1>4 DEF Wire
  <2> QED
    BY <1>2, <2>1, SubSeqEmpty
<1>7. Run!PackagerInv'
  <2>1. /\ status' = "running" /\ rtp_queue' = <<>> /\ current_block_id' = 0
        /\ current_regular_fragment_index' = 0
        /\ current_recovery_fragment_index' = Recovery - 1
        /\ largest_sized_payload' = 0 /\ pkt_sizes' = [k \in Index |-> 0]
        /\ enc' = <<>> /\ id_wrapped' = FALSE
        /\ next_seq' = next_seq /\ UNCHANGED <<fragment_errors, recovery_errors>>
    BY DEF RestartServer
  <2>2. Run!TypeOK'
    <3>1. /\ OverflowChecks \in BOOLEAN /\ next_seq \in Nat
          /\ fragment_errors \in Nat /\ recovery_errors \in Nat
      BY <1>1 DEF Run!TypeOK
    <3>2. /\ current_regular_fragment_index' \in Run!Index
          /\ current_recovery_fragment_index' \in Run!RecoveryIndex
      BY <2>1 DEF Run!Index, Run!RecoveryIndex
    <3>3. pkt_sizes' \in [Run!Index -> Sizes \cup {0}]
      BY <2>1 DEF Run!Index, Index
    <3>4. /\ rtp_queue' \in Seq(Run!Packet) /\ enc' \in Seq(Run!Packet)
          /\ Wire' \in Seq(Run!Datagram)
      BY <1>6, <2>1, EmptySeq
    <3> QED
      BY <2>1, <3>1, <3>2, <3>3, <3>4 DEF Run!TypeOK
  <2>3. Run!Originals' = {} /\ Run!Shards' = {} /\ Len(Wire') = 0
    BY <1>6 DEF Run!Originals, Run!Shards
  <2>4. ~Run!EncodeDue' /\ Len(enc') = 0 /\ Len(rtp_queue') = 0
    BY <2>1 DEF Run!EncodeDue
  <2>5. /\ Run!EncoderInStep' /\ Run!NumberingInStep' /\ Run!SizesInStep'
    BY <2>1, <2>4 DEF Run!EncoderInStep, Run!NumberingInStep, Run!SizesInStep, Run!Index
  <2>6. /\ Run!QueueOrdered' /\ Run!LabelsUsed' /\ Run!WireOrdered'
    BY <2>3, <2>4 DEF Run!QueueOrdered, Run!LabelsUsed, Run!WireOrdered
  <2>7. /\ Run!EncoderMatchesWire' /\ Run!RecoveryCoversBlock'
    BY <2>3 DEF Run!EncoderMatchesWire, Run!RecoveryCoversBlock
  <2> QED
    BY <2>2, <2>5, <2>6, <2>7 DEF Run!PackagerInv
<1> QED
  BY <1>1, <1>5, <1>7 DEF WireInStep

\* In the first state nothing is on the wire.
LEMMA WireInStepInit == Init => WireInStep
<1> SUFFICES ASSUME Init PROVE WireInStep
  OBVIOUS
<1>1. Server!Init /\ udp = <<>> /\ starts = <<>>
  BY DEF Init, Server!Init
<1>2. udp \in Seq(Datagram) /\ starts \in Seq(Nat) /\ Len(udp) = 0 /\ Len(starts) = 0
  BY <1>1, EmptySeq
<1>3. LastStart = 0 /\ Wire = <<>>
  BY <1>1, <1>2, SubSeqEmpty DEF LastStart, Wire
<1>4. Run!Init
  BY <1>1, <1>3 DEF Server!Init, Run!Init, Server!Index, Run!Index
<1>5. Run!PackagerInv
  BY <1>4, RunAssumptions, Run!PackagerInvInit
<1> QED
  BY <1>2, <1>3, <1>5 DEF WireInStep, StartsInStep

\* No step of the server, the network or the client puts the wire out of step.
LEMMA WireInStepPreserved ==
    ASSUME WireInStep, [Next]_vars
    PROVE  WireInStep'
<1> USE DEF WireInStep
<1>1. CASE Produce \/ Send
  <2>1. /\ Server!ProcessFrame \/ Server!SendNextPkt
        /\ UNCHANGED starts
    BY <1>1 DEF Produce, Send
  <2>2. PICK x \in Seq(Datagram) : udp' = udp \o x
    BY <2>1, ServerCall
  <2>3. Run!PackagerInv'
    BY <2>1, ServerCall, RunAssumptions, Run!PackagerInvInductive
  <2>4. udp' \in Seq(Datagram) /\ Len(udp) <= Len(udp') /\ Len(udp) \in Nat /\ Len(udp') \in Nat
    <3> DEFINE D == Datagram
    <3>1. udp \in Seq(D) /\ x \in Seq(D)
      OBVIOUS
    <3> HIDE DEF D
    <3>2. /\ udp \o x \in Seq(D) /\ Len(udp \o x) = Len(udp) + Len(x)
          /\ Len(udp) \in Nat /\ Len(x) \in Nat
      BY <3>1, ConcatProperties
    <3> QED
      BY <2>2, <3>2 DEF D
  <2>5. StartsInStep'
    BY <2>1, <2>4 DEF StartsInStep, LastStart
  <2> QED
    BY <2>3, <2>4, <2>5
<1>2. CASE RestartServer
  BY <1>2, RestartInStep
<1>3. CASE Arrive \/ RecvFails \/ Decode \/ UNCHANGED vars
  <2>1. UNCHANGED serverVars
    BY <1>3 DEF Arrive, RecvFails, Decode, vars
  <2>2. UNCHANGED <<udp, starts, Wire>>
    BY <2>1 DEF serverVars, Wire, LastStart
  <2>3. StartsInStep'
    BY <2>2 DEF StartsInStep, LastStart
  <2>4. UNCHANGED Run!packagerVars
    BY <2>1, <2>2 DEF serverVars, Run!packagerVars, Run!queueVars, Run!labelVars,
                      Run!blockVars, Run!errorVars
  <2>5. Run!PackagerInv'
    BY <2>4, RunAssumptions, Run!PackagerInvInductive
  <2> QED
    BY <2>2, <2>3, <2>5
<1> QED
  BY <1>1, <1>2, <1>3 DEF Next

\* Of a run the labels of the present one grow as the packager's theorem says,
\* and nothing is added to the earlier ones.
LEMMA LabelsOrderedPreserved ==
    ASSUME WireInStep, LabelsOrdered, [Next]_vars, ~id_wrapped'
    PROVE  LabelsOrdered'
<1>1. CASE UNCHANGED <<udp, starts>>
  BY <1>1 DEF LabelsOrdered, SameRun
<1>2. CASE RestartServer
  <2>1. udp' = udp /\ starts' = Append(starts, Len(udp)) /\ starts \in Seq(Nat)
    BY <1>2 DEF RestartServer, WireInStep, StartsInStep
  <2>2. /\ Len(starts) \in Nat /\ Len(starts') = Len(starts) + 1
        /\ \A n \in 1 .. Len(starts) : starts'[n] = starts[n]
    BY <2>1
  <2>3. \A j, k : SameRun(j, k)' => SameRun(j, k)
    BY <2>2 DEF SameRun
  <2> QED
    BY <2>1, <2>3 DEF LabelsOrdered
<1>3. CASE Produce \/ Send
  <2>1. /\ Server!ProcessFrame \/ Server!SendNextPkt
        /\ UNCHANGED starts
    BY <1>3 DEF Produce, Send
  <2>2. PICK x \in Seq(Datagram) : udp' = udp \o x
    BY <2>1, ServerCall
  <2>3. WireInStep'
    BY WireInStepPreserved
  <2>4. /\ Len(udp) \in Nat /\ Len(udp') \in Nat
        /\ \A k \in 1 .. Len(udp) : udp'[k] = udp[k]
    <3> DEFINE D == Datagram
    <3>1. udp \in Seq(D) /\ x \in Seq(D)
      BY DEF WireInStep
    <3> HIDE DEF D
    <3>2. /\ Len(udp \o x) = Len(udp) + Len(x)
          /\ Len(udp) \in Nat /\ Len(x) \in Nat
          /\ \A i \in 1 .. Len(udp) + Len(x) :
                (udp \o x)[i] = IF i <= Len(udp) THEN udp[i] ELSE x[i - Len(udp)]
      BY <3>1, ConcatProperties
    <3> QED
      BY <2>2, <3>2 DEF D
  <2>5. ASSUME NEW j \in 1 .. Len(udp'), NEW k \in 1 .. Len(udp'),
               j < k, SameRun(j, k)'
        PROVE  Before(udp'[j], udp'[k])
    <3>1. CASE k <= Len(udp)
      <4>1. j \in 1 .. Len(udp) /\ k \in 1 .. Len(udp) /\ SameRun(j, k)
        BY <2>1, <2>4, <2>5, <3>1 DEF SameRun
      <4> QED
        BY <2>4, <2>5, <4>1 DEF LabelsOrdered
    <3>2. CASE k > Len(udp)
      <4>1. /\ starts' = starts /\ starts \in Seq(Nat) /\ LastStart' = LastStart
            /\ LastStart \in Nat /\ LastStart <= Len(udp)
        BY <2>1, <2>4 DEF WireInStep, StartsInStep, LastStart
      <4>2. k > LastStart /\ j > LastStart
        <5>1. CASE starts = <<>>
          BY <2>4, <3>2, <4>1, <5>1 DEF LastStart
        <5>2. CASE starts # <<>>
          <6>1. Len(starts) \in 1 .. Len(starts) /\ LastStart = starts[Len(starts)]
            BY <4>1, <5>2 DEF LastStart
          <6>2. k > LastStart
            BY <2>4, <3>2, <4>1
          <6>3. starts[Len(starts)] < j
            BY <2>5, <4>1, <6>1, <6>2 DEF SameRun
          <6> QED
            BY <6>1, <6>2, <6>3
        <5> QED
          BY <5>1, <5>2
      <4>3. /\ j - LastStart \in 1 .. Len(Wire') /\ k - LastStart \in 1 .. Len(Wire')
            /\ Wire'[j - LastStart] = udp'[j] /\ Wire'[k - LastStart] = udp'[k]
        <5>1. WireByPlace'
          <6>1. (udp \in Seq(Datagram) /\ StartsInStep)'
            BY <2>3 DEF WireInStep
          <6>2. (udp \in Seq(Datagram) /\ StartsInStep => WireByPlace)'
            BY WireElements, PTL
          <6> QED
            BY <6>1, <6>2
        <5>2. j \in LastStart + 1 .. Len(udp') /\ k \in LastStart + 1 .. Len(udp')
          BY <2>4, <4>1, <4>2
        <5> QED
          BY <2>4, <4>1, <4>2, <5>1, <5>2 DEF WireByPlace
      <4>4. Run!WireOrdered'
        BY <2>3 DEF WireInStep, Run!PackagerInv
      <4>5. Run!Before(Wire'[j - LastStart], Wire'[k - LastStart])
        <5>1. j - LastStart < k - LastStart
          BY <2>5, <4>1
        <5> QED
          BY <4>3, <4>4, <5>1 DEF Run!WireOrdered
      <4> QED
        BY <4>3, <4>5 DEF Run!Before, Before, Run!Position, Position
    <3> QED
      BY <2>4, <3>1, <3>2
  <2> QED
    BY <2>5 DEF LabelsOrdered
<1>4. CASE Arrive \/ RecvFails \/ Decode \/ UNCHANGED vars
  BY <1>1, <1>4 DEF Arrive, RecvFails, Decode, vars, serverVars
<1> QED
  BY <1>2, <1>3, <1>4 DEF Next

-----------------------------------------------------------------------------
(***************************************************************************)
(* The decoder.  Its counters count its shards; every slot it would hand   *)
(* over behind the packets delivered in order is filled, although slots    *)
(* are kept from block to block and delivery may go on where the last      *)
(* block ended.                                                            *)
(***************************************************************************)
Running == pc \in {"recv", "new_block", "fragment"}

CountersInStep ==
    Running =>
        /\ rs_inorder_packets + rs_oorder_packets = Cardinality(DOMAIN rs_original)
        /\ rs_recovery_packets = Cardinality(DOMAIN rs_recovery)
        /\ rs_total_packets = Cardinality(DOMAIN rs_original) + Cardinality(DOMAIN rs_recovery)

HeaderInStep ==
    /\ pc \in {"new_block", "fragment"} => lvheader \in Datagram
    /\ pc = "fragment" => lvheader.block_id = block_id

Filled(k) == rs_sendq[k] # NoPacket

\* Fragments delivered in order, from index s on and on from 0 behind the last.
InOrderFrom(s) ==
    /\ s = 0 \/ \A k \in s .. Regular - 1 : Filled(k)
    /\ DOMAIN rs_original = {k \in Index : \/ s <= k /\ k < s + rs_inorder_packets
                                           \/ k + Regular < s + rs_inorder_packets}
    /\ ExpectedIndex = IF s + rs_inorder_packets < Regular
                       THEN s + rs_inorder_packets
                       ELSE s + rs_inorder_packets - Regular

SlotsInStep ==
    Running =>
        /\ \A k \in DOMAIN rs_original :
              ~Filled(k) => k < rs_inorder_packets /\ 0 .. k \subseteq DOMAIN rs_original
        /\ rs_oorder_packets = 0 => \E s \in Index : InOrderFrom(s)
        /\ rs_oorder_packets > 0 =>
              \A k \in DOMAIN rs_original :
                  k > lvheader_prev_fragment_index => Filled(k)

DecoderInv ==
    /\ DecoderTypeOK
    /\ CountersInStep
    /\ HeaderInStep
    /\ SlotsInStep

\* The decoder holds finitely many shards, and all of a block if it holds
\* Regular.
LEMMA ShardCounts ==
    ASSUME DecoderTypeOK
    PROVE  /\ IsFiniteSet(DOMAIN rs_original) /\ IsFiniteSet(DOMAIN rs_recovery)
           /\ Cardinality(DOMAIN rs_original) \in Nat
           /\ Cardinality(DOMAIN rs_recovery) \in Nat
           /\ Cardinality(DOMAIN rs_original) <= Regular
           /\ Cardinality(DOMAIN rs_recovery) <= Recovery
           /\ Cardinality(DOMAIN rs_original) = Regular => DOMAIN rs_original = Index
<1> DEFINE S == DOMAIN rs_original
           R == DOMAIN rs_recovery
<1>1. S \in SUBSET Index /\ R \in SUBSET RecoveryIndex
  BY DEF DecoderTypeOK
<1> HIDE DEF S, R
<1>2. /\ 0 \in Int /\ Regular - 1 \in Int /\ Recovery - 1 \in Int
      /\ Regular \in Nat /\ Recovery \in Nat /\ Regular > 0 /\ Recovery > 0
  OBVIOUS
<1>3. /\ IsFiniteSet(Index) /\ Cardinality(Index) = Regular
      /\ IsFiniteSet(RecoveryIndex) /\ Cardinality(RecoveryIndex) = Recovery
  <2>1. /\ IsFiniteSet(0 .. Regular - 1)
        /\ Cardinality(0 .. Regular - 1) = IF 0 > Regular - 1 THEN 0 ELSE Regular - 1 - 0 + 1
    BY <1>2, FS_Interval
  <2>2. /\ IsFiniteSet(0 .. Recovery - 1)
        /\ Cardinality(0 .. Recovery - 1) = IF 0 > Recovery - 1 THEN 0 ELSE Recovery - 1 - 0 + 1
    BY <1>2, FS_Interval
  <2> QED
    BY <1>2, <2>1, <2>2 DEF Index, RecoveryIndex
<1>4. /\ IsFiniteSet(S) /\ Cardinality(S) <= Regular
      /\ Cardinality(S) = Regular => S = Index
  BY <1>1, <1>3, FS_Subset
<1>5. IsFiniteSet(R) /\ Cardinality(R) <= Recovery
  BY <1>1, <1>3, FS_Subset
<1>6. Cardinality(S) \in Nat /\ Cardinality(R) \in Nat
  BY <1>4, <1>5, FS_CardinalityType
<1> QED
  BY <1>4, <1>5, <1>6 DEF S, R

\* A shard more.
LEMMA ShardAdded ==
    ASSUME NEW shards, NEW index, NEW body, index \notin DOMAIN shards,
           IsFiniteSet(DOMAIN shards)
    PROVE  /\ DOMAIN AddShard(shards, index, body) = DOMAIN shards \cup {index}
           /\ AddShard(shards, index, body)[index] = body
           /\ \A k \in DOMAIN shards : AddShard(shards, index, body)[k] = shards[k]
           /\ Cardinality(DOMAIN AddShard(shards, index, body))
                 = Cardinality(DOMAIN shards) + 1
<1>1. /\ DOMAIN AddShard(shards, index, body) = DOMAIN shards \cup {index}
      /\ AddShard(shards, index, body)[index] = body
      /\ \A k \in DOMAIN shards : AddShard(shards, index, body)[k] = shards[k]
  BY DEF AddShard
<1>2. Cardinality(DOMAIN shards \cup {index}) = Cardinality(DOMAIN shards) + 1
  BY FS_AddElement
<1> QED
  BY <1>1, <1>2

\* Indices advance modulo Regular.
LEMMA NextIndex ==
    ASSUME NEW i \in Index
    PROVE  /\ (i + 1) % Regular = IF i = Regular - 1 THEN 0 ELSE i + 1
           /\ i # Regular - 1 => i + 1 \in Index
BY DEF Index

\* The next index expected.
LEMMA ExpectedIndexValue ==
    ASSUME lvheader_prev_fragment_index \in Index
    PROVE  /\ ExpectedIndex \in Index
           /\ ExpectedIndex = IF lvheader_prev_fragment_index = Regular - 1
                              THEN 0 ELSE lvheader_prev_fragment_index + 1
BY DEF ExpectedIndex, Index

\* What is restored is a packet, or damaged, but never an empty slot.
LEMMA RestoredPackets ==
    ASSUME DecoderTypeOK, NEW k \in Index
    PROVE  Restored(k) \in Packet \cup {Damaged} /\ Restored(k) # NoPacket
<1> DEFINE codes == {rs_recovery[j].code : j \in DOMAIN rs_recovery}
           code == CHOOSE c \in codes : TRUE
<1>1. \A c \in codes : c \in Codeword
  BY DEF DecoderTypeOK
<1>2. CASE \E c \in codes : TRUE
  <2>1. code \in codes
    BY <1>2
  <2>2. code[k] \in Packet
    BY <1>1, <2>1 DEF Codeword
  <2>3. Restored(k) \in {code[k], Damaged}
    BY DEF Restored
  <2> QED
    BY <2>2, <2>3
<1>3. CASE ~ \E c \in codes : TRUE
  <2>1. Restored(k) = Damaged
    BY <1>3 DEF Restored
  <2> QED
    BY <2>1
<1> QED
  BY <1>2, <1>3

\* The fields of a datagram.
LEMMA DatagramFields ==
    ASSUME NEW d \in Datagram
    PROVE  /\ d.block_id \in Nat /\ d.recovery_pkt \in BOOLEAN
           /\ ~d.recovery_pkt => d.fragment_index \in Index /\ d.body \in Packet
           /\ d.recovery_pkt => /\ d.fragment_index \in RecoveryIndex
                                /\ d.pkt_sizes \in [Index -> Sizes \cup {0}]
                                /\ d.body \in [code : Codeword, len : Nat]
<1>1. CASE d \in OriginalDatagram
  BY <1>1 DEF OriginalDatagram
<1>2. CASE d \in RecoveryDatagram
  BY <1>2 DEF RecoveryDatagram
<1> QED
  BY <1>1, <1>2 DEF Datagram

\* No slot that a recovery hands over is empty: RecoverBlock does not end the
\* thread.
LEMMA RecoveredSlotsFilled ==
    ASSUME DecoderInv, pc = "new_block"
    PROVE  \A k \in rs_inorder_packets .. Regular - 1 : RestoredQueue[k] # NoPacket
<1> SUFFICES ASSUME NEW k \in rs_inorder_packets .. Regular - 1
             PROVE  RestoredQueue[k] # NoPacket
  OBVIOUS
<1>1. DecoderTypeOK /\ SlotsInStep /\ Running
  BY DEF DecoderInv, Running
<1>2. rs_inorder_packets \in Nat /\ k \in Index /\ k >= rs_inorder_packets
  BY <1>1 DEF DecoderTypeOK, Index
<1>3. CASE k \in DOMAIN rs_original
  <2>1. Filled(k)
    BY <1>1, <1>2, <1>3 DEF SlotsInStep, Index
  <2> QED
    BY <1>2, <1>3, <2>1 DEF RestoredQueue, Filled
<1>4. CASE k \notin DOMAIN rs_original
  BY <1>1, <1>2, <1>4, RestoredPackets DEF RestoredQueue
<1> QED
  BY <1>3, <1>4

\* A block that needs no recovery has come whole.
LEMMA SkippedBlockWhole ==
    ASSUME DecoderTypeOK, CountersInStep, Running, ~NeedsRecovery
    PROVE  DOMAIN rs_original = Index /\ Cardinality(DOMAIN rs_original) = Regular
<1> DEFINE s == Cardinality(DOMAIN rs_original)
           r == Cardinality(DOMAIN rs_recovery)
<1>1. /\ s \in Nat /\ r \in Nat /\ s <= Regular /\ r <= Recovery
      /\ s = Regular => DOMAIN rs_original = Index
  BY ShardCounts
<1>2. rs_recovery_packets = r /\ rs_total_packets = s + r
  BY DEF CountersInStep
<1> HIDE DEF s, r
<1>3. ~(s + r < Recovery + Regular /\ s + r - r # Regular)
  BY <1>1, <1>2 DEF NeedsRecovery
<1>4. s = Regular
  BY <1>1, <1>3
<1> QED
  BY <1>1, <1>4 DEF s

\* The next datagram only waits in lvheader.
LEMMA ReceiveInStep ==
    ASSUME DecoderInv, NEW d \in Datagram, Receive(d)
    PROVE  DecoderInv'
<1>1. /\ DecoderTypeOK /\ CountersInStep /\ SlotsInStep /\ Running
      /\ lvheader' = d /\ pc' \in {"new_block", "fragment"}
      /\ pc' = "fragment" => d.block_id = block_id
      /\ UNCHANGED <<block_id, rs_original, rs_recovery, rs_pkt_sizes, rs_sendq,
                     rs_total_packets, rs_inorder_packets, rs_oorder_packets,
                     rs_recovery_packets, lvheader_prev_fragment_index, delivered>>
  BY DEF DecoderInv, Receive, Running, rsShards, rsCounters
<1>2. DecoderTypeOK'
  BY <1>1 DEF DecoderTypeOK
<1>3. CountersInStep' /\ HeaderInStep'
  BY <1>1 DEF CountersInStep, HeaderInStep
<1>4. SlotsInStep'
  BY <1>1 DEF SlotsInStep, InOrderFrom, Filled, ExpectedIndex
<1> QED
  BY <1>2, <1>3, <1>4 DEF DecoderInv

\* A new block starts without shards, at the index the decoder expects.
LEMMA EmptyBlockInStep ==
    ASSUME StartBlock, lvheader_prev_fragment_index' \in Index,
           \/ lvheader_prev_fragment_index' = Regular - 1
           \/ \A k \in lvheader_prev_fragment_index' + 1 .. Regular - 1 : Filled(k)'
    PROVE  CountersInStep' /\ SlotsInStep'
<1>1. /\ rs_original' = NoShards /\ rs_recovery' = NoShards
      /\ DOMAIN rs_original' = {} /\ DOMAIN rs_recovery' = {}
      /\ rs_inorder_packets' = 0 /\ rs_oorder_packets' = 0
      /\ rs_recovery_packets' = 0 /\ rs_total_packets' = 0
  BY DEF StartBlock, NoShards
<1>2. CountersInStep'
  BY <1>1, FS_EmptySet DEF CountersInStep
<1>3. \E s \in Index : InOrderFrom(s)'
  <2>1. PICK e \in Index :
           /\ ExpectedIndex' = e
           /\ e = 0 \/ \A k \in e .. Regular - 1 : Filled(k)'
    <3>1. CASE lvheader_prev_fragment_index' = Regular - 1
      <4>1. 0 \in Index /\ ExpectedIndex' = 0
        BY <3>1 DEF ExpectedIndex, Index
      <4> QED
        BY <4>1
    <3>2. CASE lvheader_prev_fragment_index' # Regular - 1
      <4>1. lvheader_prev_fragment_index' + 1 \in Index
        BY <3>2, NextIndex
      <4>2. ExpectedIndex' = lvheader_prev_fragment_index' + 1
        <5>1. (lvheader_prev_fragment_index' + 1) % Regular
                 = lvheader_prev_fragment_index' + 1
          BY <3>2, NextIndex
        <5> QED
          BY <5>1 DEF ExpectedIndex
      <4> QED
        BY <3>2, <4>1, <4>2
    <3> QED
      BY <3>1, <3>2
  <2>2. InOrderFrom(e)'
    <3>1. \A k \in Index : ~(e <= k /\ k < e + 0) /\ ~(k + Regular < e + 0)
      BY <2>1 DEF Index
    <3>2. e = IF e + 0 < Regular THEN e + 0 ELSE e + 0 - Regular
      BY <2>1 DEF Index
    <3> QED
      BY <1>1, <2>1, <3>1, <3>2 DEF InOrderFrom
  <2> QED
    BY <2>1, <2>2
<1>4. SlotsInStep'
  BY <1>1, <1>3 DEF SlotsInStep
<1> QED
  BY <1>2, <1>4

\* Closing a block: the thread goes on, and the slots behind the expected index
\* are filled.
LEMMA CloseBlockInStep ==
    ASSUME DecoderInv, CloseBlock
    PROVE  DecoderInv' /\ pc' = "fragment"
<1>1. /\ DecoderTypeOK /\ CountersInStep /\ SlotsInStep /\ Running
      /\ pc = "new_block" /\ lvheader \in Datagram /\ StartBlock
  BY DEF DecoderInv, CloseBlock, SkipRecovery, RecoverBlock, RecoveryFails, Running,
         HeaderInStep
<1>2. pc' = "fragment"
  BY <1>1, RecoveredSlotsFilled DEF CloseBlock, SkipRecovery, RecoverBlock, RecoveryFails
<1>3. /\ lvheader_prev_fragment_index' \in Index
      /\ \/ lvheader_prev_fragment_index' = Regular - 1
         \/ \A k \in lvheader_prev_fragment_index' + 1 .. Regular - 1 : Filled(k)'
  <2>1. CASE SkipRecovery
    <3>1. /\ UNCHANGED <<rs_sendq, lvheader_prev_fragment_index>>
          /\ lvheader_prev_fragment_index \in Index
      BY <1>1, <2>1 DEF SkipRecovery, DecoderTypeOK
    <3>2. /\ DOMAIN rs_original = Index
          /\ rs_inorder_packets + rs_oorder_packets = Regular
          /\ rs_inorder_packets \in Nat /\ rs_oorder_packets \in Nat
      BY <1>1, <2>1, SkippedBlockWhole DEF SkipRecovery, CountersInStep, DecoderTypeOK
    <3>3. CASE rs_oorder_packets > 0
      <4>1. \A k \in Index : k > lvheader_prev_fragment_index => Filled(k)
        BY <1>1, <3>2, <3>3 DEF SlotsInStep
      <4>2. \A k \in lvheader_prev_fragment_index + 1 .. Regular - 1 : Filled(k)
        BY <3>1, <4>1 DEF Index
      <4> QED
        BY <3>1, <4>2 DEF Filled
    <3>4. CASE rs_oorder_packets = 0
      <4>1. PICK s \in Index : InOrderFrom(s)
        BY <1>1, <3>4 DEF SlotsInStep
      <4>2. ExpectedIndex = s
        BY <3>2, <3>4, <4>1 DEF InOrderFrom, Index
      <4>3. \/ lvheader_prev_fragment_index = Regular - 1
            \/ s = lvheader_prev_fragment_index + 1 /\ s # 0
        BY <3>1, <4>2, ExpectedIndexValue DEF Index
      <4> QED
        BY <3>1, <4>1, <4>3 DEF InOrderFrom, Filled
    <3> QED
      BY <3>2, <3>3, <3>4
  <2>2. CASE RecoverBlock \/ RecoveryFails
    BY <2>2 DEF RecoverBlock, RecoveryFails, Index
  <2> QED
    BY <2>1, <2>2 DEF CloseBlock
<1>4. CountersInStep' /\ SlotsInStep'
  BY <1>1, <1>3, EmptyBlockInStep
<1>5. HeaderInStep'
  BY <1>1 DEF HeaderInStep, StartBlock
<1>6. rs_sendq' \in [Index -> Packet \cup {NoPacket, Damaged}]
  <2>1. \A k \in Index : Restored(k) \in Packet \cup {Damaged}
    BY <1>1, RestoredPackets
  <2>2. RestoredQueue \in [Index -> Packet \cup {NoPacket, Damaged}]
    BY <1>1, <2>1 DEF RestoredQueue, DecoderTypeOK
  <2> QED
    BY <1>1, <2>2 DEF CloseBlock, SkipRecovery, RecoverBlock, RecoveryFails, DecoderTypeOK
<1>7. delivered' \in Seq(Packet \cup {NoPacket, Damaged})
  <2> DEFINE P == Packet \cup {NoPacket, Damaged}
  <2>1. delivered \in Seq(P) /\ rs_inorder_packets \in 0 .. Regular
    BY <1>1 DEF DecoderTypeOK
  <2>2. CASE RecoverBlock
    <3>1. RestoredQueue \in [Index -> P]
      BY <1>6, <2>2 DEF RecoverBlock
    <3> HIDE DEF P
    <3>2. Regular - rs_inorder_packets \in Nat
      BY <2>1
    <3>3. \A n \in 1 .. Regular - rs_inorder_packets : rs_inorder_packets + n - 1 \in Index
      BY <2>1 DEF Index
    <3>4. Rest(RestoredQueue) \in [1 .. Regular - rs_inorder_packets -> P]
      BY <3>1, <3>3 DEF Rest
    <3>5. Rest(RestoredQueue) \in Seq(P)
      BY <3>2, <3>4
    <3>6. delivered \o Rest(RestoredQueue) \in Seq(P)
      BY <2>1, <3>5, ConcatProperties
    <3> QED
      BY <2>2, <3>6 DEF P, RecoverBlock
  <2>3. CASE SkipRecovery \/ RecoveryFails
    BY <2>1, <2>3 DEF SkipRecovery, RecoveryFails
  <2> QED
    BY <2>2, <2>3 DEF CloseBlock
<1>8. DecoderTypeOK'
  <2>1. /\ DOMAIN rs_original' = {} /\ DOMAIN rs_recovery' = {}
        /\ rs_total_packets' = 0 /\ rs_inorder_packets' = 0
        /\ rs_oorder_packets' = 0 /\ rs_recovery_packets' = 0
        /\ block_id' \in Nat /\ lvheader' = lvheader /\ rs_pkt_sizes' = rs_pkt_sizes
    BY <1>1, DatagramFields DEF StartBlock, NoShards
  <2> QED
    BY <1>1, <1>2, <1>3, <1>6, <1>7, <2>1 DEF DecoderTypeOK
<1> QED
  BY <1>2, <1>4, <1>5, <1>8 DEF DecoderInv

\* The queued fragment keeps the slots in step: were a slot behind it empty,
\* all fragments before that slot would be there, and this one among them.
LEMMA QueueFragmentInStep ==
    ASSUME DecoderInv, QueueFragment
    PROVE  SlotsInStep'
<1>0. PICK i : i = lvheader.fragment_index
  OBVIOUS
<1> DEFINE S == DOMAIN rs_original
<1>1. /\ DecoderTypeOK /\ SlotsInStep /\ Running
      /\ lvheader \in Datagram /\ ~lvheader.recovery_pkt
      /\ i \notin S
      /\ rs_sendq' = [rs_sendq EXCEPT ![i] = lvheader.body]
      /\ lvheader_prev_fragment_index' = i
      /\ rs_oorder_packets' = rs_oorder_packets + 1
      /\ rs_inorder_packets' = rs_inorder_packets
  BY <1>0 DEF DecoderInv, QueueFragment, TakeOriginalShard, HeaderInStep, Running
<1>2. i \in Index /\ lvheader.body \in Packet
  BY <1>0, <1>1, DatagramFields
<1>3. DOMAIN rs_original' = S \cup {i}
  <2>1. rs_original' = AddShard(rs_original, i, lvheader.body)
    BY <1>0 DEF QueueFragment, TakeOriginalShard
  <2>2. IsFiniteSet(DOMAIN rs_original)
    BY <1>1, ShardCounts
  <2> QED
    BY <1>1, <2>1, <2>2, ShardAdded
<1>4. rs_oorder_packets \in Nat /\ S \subseteq Index
  BY <1>1 DEF DecoderTypeOK
<1>5. Filled(i)' /\ \A k \in S : Filled(k)' <=> Filled(k)
  <2>1. rs_sendq'[i] = lvheader.body /\ \A k \in S : rs_sendq'[k] = rs_sendq[k]
    BY <1>1, <1>2, <1>4 DEF DecoderTypeOK
  <2>2. lvheader.body # NoPacket
    BY <1>2
  <2> QED
    BY <2>1, <2>2 DEF Filled
<1> HIDE DEF S
<1>6. \A k \in S : ~Filled(k) => k < rs_inorder_packets /\ 0 .. k \subseteq S
  BY <1>1 DEF SlotsInStep, S
<1>7. ASSUME NEW k \in S \cup {i}, ~Filled(k)'
      PROVE  k < rs_inorder_packets' /\ 0 .. k \subseteq S \cup {i}
  <2>1. k \in S /\ ~Filled(k)
    BY <1>5, <1>7
  <2> QED
    BY <1>1, <1>6, <2>1
<1>8. ASSUME NEW k \in S \cup {i}, k > i
      PROVE  Filled(k)'
  <2>1. CASE k = i
    BY <1>5, <2>1
  <2>2. CASE k # i /\ ~Filled(k)
    <3>1. k \in S /\ 0 .. k \subseteq S
      BY <1>6, <2>2
    <3>2. i \in 0 .. k
      BY <1>2, <1>4, <1>8, <3>1 DEF Index
    <3> QED
      BY <1>1, <3>1, <3>2 DEF S
  <2>3. CASE k # i /\ Filled(k)
    BY <1>5, <2>3
  <2> QED
    BY <2>1, <2>2, <2>3
<1>9. rs_oorder_packets' > 0 /\ rs_oorder_packets' # 0
  BY <1>1, <1>4
<1> QED
  BY <1>1, <1>3, <1>7, <1>8, <1>9 DEF SlotsInStep

\* The delivered fragment is the next from where delivery started in the block.
LEMMA DeliverFragmentInStep ==
    ASSUME DecoderInv, DeliverFragment
    PROVE  SlotsInStep'
<1>0. PICK i : i = lvheader.fragment_index
  OBVIOUS
<1> DEFINE S == DOMAIN rs_original
           n == rs_inorder_packets
<1>1. /\ DecoderTypeOK /\ SlotsInStep /\ Running /\ CountersInStep
      /\ lvheader \in Datagram /\ ~lvheader.recovery_pkt
      /\ i \notin S /\ ExpectedIndex = i
      /\ rs_sendq' = rs_sendq
      /\ lvheader_prev_fragment_index' = i
      /\ rs_oorder_packets' = rs_oorder_packets
      /\ rs_inorder_packets' = n + 1
  BY <1>0 DEF DecoderInv, DeliverFragment, TakeOriginalShard, HeaderInStep, Running, OutOfOrder
<1>2. i \in Index
  BY <1>0, <1>1, DatagramFields
<1>3. DOMAIN rs_original' = S \cup {i}
  <2>1. rs_original' = AddShard(rs_original, i, lvheader.body)
    BY <1>0 DEF DeliverFragment, TakeOriginalShard
  <2>2. IsFiniteSet(DOMAIN rs_original)
    BY <1>1, ShardCounts
  <2> QED
    BY <1>1, <2>1, <2>2, ShardAdded
<1>4. rs_oorder_packets = 0 /\ n \in Nat
  BY <1>1 DEF DecoderTypeOK, DeliverFragment, OutOfOrder
<1>5. n < Regular
  <2>1. n = Cardinality(S)
    BY <1>1, <1>4 DEF CountersInStep
  <2>2. n <= Regular /\ (n = Regular => S = Index)
    BY <1>1, <2>1, ShardCounts
  <2> QED
    BY <1>1, <1>2, <1>4, <2>2
<1>6. PICK s \in Index : InOrderFrom(s)
  BY <1>1, <1>4 DEF SlotsInStep
<1>7. /\ s \in Nat /\ s < Regular /\ i \in Nat /\ i < Regular
      /\ s = 0 \/ \A k \in s .. Regular - 1 : Filled(k)
      /\ S = {k \in Index : (s <= k /\ k < s + n) \/ k + Regular < s + n}
      /\ i = IF s + n < Regular THEN s + n ELSE s + n - Regular
  BY <1>1, <1>2, <1>6 DEF InOrderFrom, Index
<1>8. (i + 1) % Regular = IF i = Regular - 1 THEN 0 ELSE i + 1
  BY <1>2, NextIndex
<1>9. ExpectedIndex' = (i + 1) % Regular /\ \A k : Filled(k)' <=> Filled(k)
  BY <1>1 DEF ExpectedIndex, Filled
<1>10. \A k \in S : ~Filled(k) => k < n /\ 0 .. k \subseteq S
  BY <1>1 DEF SlotsInStep
<1> HIDE DEF S, n
<1>11. S \cup {i} = {k \in Index : (s <= k /\ k < s + (n + 1)) \/ k + Regular < s + (n + 1)}
  <2>1. ASSUME NEW k \in Index
        PROVE  k \in S \cup {i} <=> (s <= k /\ k < s + (n + 1)) \/ k + Regular < s + (n + 1)
    <3>1. k \in Nat /\ k < Regular
      BY DEF Index
    <3>2. k \in S <=> (s <= k /\ k < s + n) \/ k + Regular < s + n
      BY <1>7
    <3>3. CASE s + n < Regular
      BY <1>4, <1>5, <1>7, <3>1, <3>2, <3>3
    <3>4. CASE ~(s + n < Regular)
      BY <1>4, <1>5, <1>7, <3>1, <3>2, <3>4
    <3> QED
      BY <3>3, <3>4
  <2>2. S \cup {i} \subseteq Index
    BY <1>2, <1>7
  <2> QED
    BY <2>1, <2>2
<1>12. (i + 1) % Regular = IF s + (n + 1) < Regular THEN s + (n + 1)
                                                    ELSE s + (n + 1) - Regular
  BY <1>4, <1>5, <1>7, <1>8
<1>13. InOrderFrom(s)'
  BY <1>1, <1>3, <1>7, <1>9, <1>11, <1>12 DEF InOrderFrom, n, S
<1>14. ASSUME NEW k \in S \cup {i}, ~Filled(k)
       PROVE  k < n + 1 /\ 0 .. k \subseteq S \cup {i}
  <2>1. CASE k \in S
    <3>1. k < n /\ 0 .. k \subseteq S /\ k \in Nat
      BY <1>7, <1>10, <1>14, <2>1 DEF Index
    <3> QED
      BY <1>4, <3>1
  <2>2. CASE k = i
    <3>1. CASE s = 0
      <4>1. i = n
        BY <1>4, <1>5, <1>7, <3>1
      <4>2. \A m \in 0 .. n : m \in Index /\ 0 <= m /\ m < 0 + (n + 1)
        BY <1>4, <1>5 DEF Index
      <4> QED
        BY <1>4, <1>11, <2>2, <3>1, <4>1, <4>2
    <3>2. CASE s # 0
      <4>1. i \notin s .. Regular - 1
        BY <1>7, <1>14, <2>2, <3>2
      <4>2. i < s /\ ~(s + n < Regular) /\ i = s + n - Regular
        BY <1>4, <1>7, <4>1
      <4>3. \A m \in 0 .. i : m \in Index /\ m + Regular < s + (n + 1)
        BY <1>4, <1>7, <4>2 DEF Index
      <4> QED
        BY <1>4, <1>7, <1>11, <2>2, <4>2, <4>3
    <3> QED
      BY <3>1, <3>2
  <2> QED
    BY <2>1, <2>2
<1> QED
  BY <1>1, <1>3, <1>4, <1>9, <1>13, <1>14 DEF SlotsInStep, n, S

\* Taking a datagram leaves the types, the counters and the slots.
LEMMA TakeDatagramInStep ==
    ASSUME DecoderInv, TakeDatagram
    PROVE  DecoderInv'
<1>1. /\ DecoderTypeOK /\ CountersInStep /\ SlotsInStep /\ Running
      /\ pc = "fragment" /\ lvheader \in Datagram
  BY DEF DecoderInv, TakeDatagram, DuplicateShard, TakeRecoveryShard, QueueFragment,
         LostCountPanics, DeliverFragment, TakeOriginalShard, Running, HeaderInStep
<1>2. /\ IsFiniteSet(DOMAIN rs_original) /\ IsFiniteSet(DOMAIN rs_recovery)
      /\ Cardinality(DOMAIN rs_original) \in Nat
      /\ Cardinality(DOMAIN rs_recovery) \in Nat
  BY <1>1, ShardCounts
<1>3. CASE DuplicateShard
  <2>1. /\ pc' = "exited"
        /\ UNCHANGED <<lvheader, block_id, rs_original, rs_recovery, rs_pkt_sizes,
                       rs_sendq, rs_total_packets, rs_inorder_packets,
                       rs_oorder_packets, rs_recovery_packets,
                       lvheader_prev_fragment_index, delivered>>
    BY <1>3 DEF DuplicateShard, rsShards, rsCounters
  <2>2. DecoderTypeOK'
    BY <1>1, <2>1 DEF DecoderTypeOK
  <2> QED
    BY <2>1, <2>2 DEF DecoderInv, CountersInStep, SlotsInStep, HeaderInStep, Running
<1>4. CASE TakeRecoveryShard
  <2>1. /\ rs_recovery' = AddShard(rs_recovery, lvheader.fragment_index, lvheader.body)
        /\ lvheader.fragment_index \notin DOMAIN rs_recovery
        /\ lvheader.recovery_pkt
        /\ rs_pkt_sizes' = lvheader.pkt_sizes
        /\ rs_recovery_packets' = rs_recovery_packets + 1
        /\ rs_total_packets' = rs_total_packets + 1
        /\ pc' = "recv" /\ lvheader' = NoDatagram
        /\ UNCHANGED <<block_id, rs_original, rs_sendq, rs_inorder_packets,
                       rs_oorder_packets, lvheader_prev_fragment_index, delivered>>
    BY <1>4 DEF TakeRecoveryShard
  <2>2. /\ lvheader.fragment_index \in RecoveryIndex
        /\ lvheader.body \in [code : Codeword, len : Nat]
        /\ lvheader.pkt_sizes \in [Index -> Sizes \cup {0}]
    BY <1>1, <2>1, DatagramFields
  <2>3. /\ DOMAIN rs_recovery' = DOMAIN rs_recovery \cup {lvheader.fragment_index}
        /\ rs_recovery'[lvheader.fragment_index] = lvheader.body
        /\ \A k \in DOMAIN rs_recovery : rs_recovery'[k] = rs_recovery[k]
        /\ Cardinality(DOMAIN rs_recovery') = Cardinality(DOMAIN rs_recovery) + 1
    <3> DEFINE new == AddShard(rs_recovery, lvheader.fragment_index, lvheader.body)
    <3>1. /\ DOMAIN new = DOMAIN rs_recovery \cup {lvheader.fragment_index}
          /\ new[lvheader.fragment_index] = lvheader.body
          /\ \A k \in DOMAIN rs_recovery : new[k] = rs_recovery[k]
          /\ Cardinality(DOMAIN new) = Cardinality(DOMAIN rs_recovery) + 1
      <4>1. lvheader.fragment_index \notin DOMAIN rs_recovery
        BY <2>1
      <4> QED
        BY <1>2, <4>1, ShardAdded
    <3> HIDE DEF new
    <3>2. rs_recovery' = new
      BY <2>1 DEF new
    <3> QED
      BY <3>1, <3>2
  <2>4. /\ DOMAIN rs_recovery' \subseteq RecoveryIndex
        /\ \A j \in DOMAIN rs_recovery' : rs_recovery'[j] \in [code : Codeword, len : Nat]
    BY <1>1, <2>2, <2>3 DEF DecoderTypeOK
  <2>5. CountersInStep'
    BY <1>1, <1>2, <2>1, <2>3 DEF CountersInStep, DecoderTypeOK
  <2>6. Cardinality(DOMAIN rs_recovery') <= Recovery
    <3> DEFINE R == DOMAIN rs_recovery'
    <3>1. R \in SUBSET RecoveryIndex
      BY <2>4
    <3> HIDE DEF R
    <3>2. /\ IsFiniteSet(0 .. Recovery - 1)
          /\ Cardinality(0 .. Recovery - 1) = IF 0 > Recovery - 1 THEN 0 ELSE Recovery - 1 - 0 + 1
      <4>1. 0 \in Int /\ Recovery - 1 \in Int
        OBVIOUS
      <4> QED
        BY <4>1, FS_Interval
    <3>3. IsFiniteSet(RecoveryIndex) /\ Cardinality(RecoveryIndex) = Recovery
      BY <3>2 DEF RecoveryIndex
    <3>4. Cardinality(R) <= Recovery
      BY <3>1, <3>3, FS_Subset
    <3> QED
      BY <3>4 DEF R
  <2>7. rs_recovery_packets' \in 0 .. Recovery
    BY <1>1, <1>2, <2>1, <2>3, <2>6 DEF CountersInStep
  <2>8. DecoderTypeOK'
    BY <1>1, <2>1, <2>2, <2>4, <2>7 DEF DecoderTypeOK
  <2>9. SlotsInStep'
    BY <1>1, <2>1 DEF SlotsInStep, InOrderFrom, Filled, ExpectedIndex
  <2> QED
    BY <2>1, <2>5, <2>8, <2>9 DEF DecoderInv, HeaderInStep
<1>5. CASE TakeOriginalShard /\ pc' \in {"recv", "panicked"}
  <2>1. /\ rs_original' = AddShard(rs_original, lvheader.fragment_index, lvheader.body)
        /\ lvheader.fragment_index \notin DOMAIN rs_original
        /\ ~lvheader.recovery_pkt
        /\ rs_total_packets' = rs_total_packets + 1
        /\ UNCHANGED <<block_id, rs_recovery, rs_pkt_sizes, rs_recovery_packets>>
    BY <1>5 DEF TakeOriginalShard
  <2>2. lvheader.fragment_index \in Index /\ lvheader.body \in Packet
    BY <1>1, <2>1, DatagramFields
  <2>3. /\ DOMAIN rs_original' = DOMAIN rs_original \cup {lvheader.fragment_index}
        /\ rs_original'[lvheader.fragment_index] = lvheader.body
        /\ \A k \in DOMAIN rs_original : rs_original'[k] = rs_original[k]
        /\ Cardinality(DOMAIN rs_original') = Cardinality(DOMAIN rs_original) + 1
    <3> DEFINE new == AddShard(rs_original, lvheader.fragment_index, lvheader.body)
    <3>1. /\ DOMAIN new = DOMAIN rs_original \cup {lvheader.fragment_index}
          /\ new[lvheader.fragment_index] = lvheader.body
          /\ \A k \in DOMAIN rs_original : new[k] = rs_original[k]
          /\ Cardinality(DOMAIN new) = Cardinality(DOMAIN rs_original) + 1
      BY <1>2, <2>1, ShardAdded
    <3> HIDE DEF new
    <3>2. rs_original' = new
      BY <2>1 DEF new
    <3> QED
      BY <3>1, <3>2
  <2>4. /\ DOMAIN rs_original' \subseteq Index
        /\ \A k \in DOMAIN rs_original' : rs_original'[k] \in Packet
    BY <1>1, <2>2, <2>3 DEF DecoderTypeOK
  <2>5. Cardinality(DOMAIN rs_original') <= Regular
    <3> DEFINE S == DOMAIN rs_original'
    <3>1. S \in SUBSET Index
      BY <2>4
    <3> HIDE DEF S
    <3>2. /\ IsFiniteSet(0 .. Regular - 1)
          /\ Cardinality(0 .. Regular - 1) = IF 0 > Regular - 1 THEN 0 ELSE Regular - 1 - 0 + 1
      <4>1. 0 \in Int /\ Regular - 1 \in Int
        OBVIOUS
      <4> QED
        BY <4>1, FS_Interval
    <3>3. IsFiniteSet(Index) /\ Cardinality(Index) = Regular
      BY <3>2 DEF Index
    <3>4. Cardinality(S) <= Regular
      BY <3>1, <3>3, FS_Subset
    <3> QED
      BY <3>4 DEF S
  <2>6. rs_inorder_packets + rs_oorder_packets + 1 <= Regular
    BY <1>1, <1>2, <2>3, <2>5 DEF CountersInStep
  <2>7. CASE QueueFragment
    <3>1. /\ rs_sendq' = [rs_sendq EXCEPT ![lvheader.fragment_index] = lvheader.body]
          /\ lvheader_prev_fragment_index' = lvheader.fragment_index
          /\ rs_oorder_packets' = rs_oorder_packets + 1
          /\ pc' = "recv" /\ lvheader' = NoDatagram
          /\ UNCHANGED <<rs_inorder_packets, delivered>>
      BY <2>7 DEF QueueFragment
    <3>2. rs_sendq' \in [Index -> Packet \cup {NoPacket, Damaged}]
      BY <1>1, <2>2, <3>1 DEF DecoderTypeOK
    <3>3. rs_oorder_packets' \in 0 .. Regular
      BY <1>1, <2>6, <3>1 DEF DecoderTypeOK
    <3>4. DecoderTypeOK'
      BY <1>1, <2>1, <2>2, <2>4, <3>1, <3>2, <3>3 DEF DecoderTypeOK
    <3>5. CountersInStep'
      <4>1. rs_inorder_packets \in Nat /\ rs_oorder_packets \in Nat
        BY <1>1 DEF DecoderTypeOK
      <4>2. /\ rs_inorder_packets + rs_oorder_packets = Cardinality(DOMAIN rs_original)
            /\ rs_recovery_packets = Cardinality(DOMAIN rs_recovery)
            /\ rs_total_packets = Cardinality(DOMAIN rs_original)
                                     + Cardinality(DOMAIN rs_recovery)
        BY <1>1 DEF CountersInStep
      <4>3. rs_inorder_packets' + rs_oorder_packets' = Cardinality(DOMAIN rs_original')
        BY <1>2, <2>3, <3>1, <4>1, <4>2
      <4>4. rs_total_packets' = Cardinality(DOMAIN rs_original') + Cardinality(DOMAIN rs_recovery')
        BY <1>2, <2>1, <2>3, <4>2
      <4> QED
        BY <2>1, <4>2, <4>3, <4>4 DEF CountersInStep
    <3> QED
      BY <2>7, <3>1, <3>4, <3>5, QueueFragmentInStep DEF DecoderInv, HeaderInStep
  <2>8. CASE DeliverFragment
    <3>1. /\ lvheader_prev_fragment_index' = lvheader.fragment_index
          /\ rs_inorder_packets' = rs_inorder_packets + 1
          /\ delivered' = Append(delivered, lvheader.body)
          /\ pc' = "recv" /\ lvheader' = NoDatagram
          /\ UNCHANGED <<rs_sendq, rs_oorder_packets>>
      BY <2>8 DEF DeliverFragment
    <3>2. delivered' \in Seq(Packet \cup {NoPacket, Damaged})
      <4> DEFINE P == Packet \cup {NoPacket, Damaged}
      <4>1. delivered \in Seq(P) /\ lvheader.body \in P
        BY <1>1, <2>2 DEF DecoderTypeOK
      <4> HIDE DEF P
      <4>2. delivered' \in Seq(P)
        BY <3>1, <4>1
      <4> QED
        BY <4>2 DEF P
    <3>3. rs_inorder_packets' \in 0 .. Regular
      BY <1>1, <2>6, <3>1 DEF DecoderTypeOK
    <3>4. DecoderTypeOK'
      BY <1>1, <2>1, <2>2, <2>4, <3>1, <3>2, <3>3 DEF DecoderTypeOK
    <3>5. CountersInStep'
      <4>1. rs_inorder_packets \in Nat /\ rs_oorder_packets \in Nat
        BY <1>1 DEF DecoderTypeOK
      <4>2. /\ rs_inorder_packets + rs_oorder_packets = Cardinality(DOMAIN rs_original)
            /\ rs_recovery_packets = Cardinality(DOMAIN rs_recovery)
            /\ rs_total_packets = Cardinality(DOMAIN rs_original)
                                     + Cardinality(DOMAIN rs_recovery)
        BY <1>1 DEF CountersInStep
      <4>3. rs_inorder_packets' + rs_oorder_packets' = Cardinality(DOMAIN rs_original')
        BY <1>2, <2>3, <3>1, <4>1, <4>2
      <4>4. rs_total_packets' = Cardinality(DOMAIN rs_original') + Cardinality(DOMAIN rs_recovery')
        BY <1>2, <2>1, <2>3, <4>2
      <4> QED
        BY <2>1, <4>2, <4>3, <4>4 DEF CountersInStep
    <3> QED
      BY <2>8, <3>1, <3>4, <3>5, DeliverFragmentInStep DEF DecoderInv, HeaderInStep
  <2>9. CASE LostCountPanics
    <3>1. /\ pc' = "panicked"
          /\ UNCHANGED <<lvheader, rs_sendq, rs_inorder_packets, rs_oorder_packets,
                         lvheader_prev_fragment_index, delivered>>
      BY <2>9 DEF LostCountPanics
    <3>2. DecoderTypeOK'
      BY <1>1, <2>1, <2>4, <3>1 DEF DecoderTypeOK
    <3> QED
      BY <3>1, <3>2 DEF DecoderInv, CountersInStep, SlotsInStep, HeaderInStep, Running
  <2> QED
    BY <1>5, <2>1, <2>7, <2>8, <2>9
    DEF TakeDatagram, DuplicateShard, TakeRecoveryShard
<1> QED
  BY <1>3, <1>4, <1>5
  DEF TakeDatagram, QueueFragment, LostCountPanics, DeliverFragment

\* In the first state the decoder is empty.
LEMMA DecoderInvInit == DecoderInit => DecoderInv
<1> SUFFICES ASSUME DecoderInit PROVE DecoderInv
  OBVIOUS
<1>1. /\ DOMAIN rs_original = {} /\ DOMAIN rs_recovery = {}
      /\ pc = "recv" /\ lvheader = NoDatagram /\ block_id = 0
      /\ rs_pkt_sizes = [k \in Index |-> 0]
      /\ rs_sendq = [k \in Index |-> NoPacket]
      /\ rs_total_packets = 0 /\ rs_inorder_packets = 0
      /\ rs_oorder_packets = 0 /\ rs_recovery_packets = 0
      /\ lvheader_prev_fragment_index = Regular - 1 /\ delivered = <<>>
  BY DEF DecoderInit, NoShards
<1>2. DecoderTypeOK
  <2>1. Regular - 1 \in Index /\ delivered \in Seq(Packet \cup {NoPacket, Damaged})
    BY <1>1, EmptySeq DEF Index
  <2> QED
    BY <1>1, <2>1 DEF DecoderTypeOK
<1>3. CountersInStep
  BY <1>1, FS_EmptySet DEF CountersInStep
<1>4. SlotsInStep
  <2>1. 0 \in Index /\ ExpectedIndex = 0
    BY <1>1, <1>2, ExpectedIndexValue DEF DecoderTypeOK, Index
  <2>2. \A k \in Index : ~(0 <= k /\ k < 0 + 0) /\ ~(k + Regular < 0 + 0)
    BY DEF Index
  <2>3. InOrderFrom(0)
    BY <1>1, <2>1, <2>2 DEF InOrderFrom
  <2> QED
    BY <1>1, <2>1, <2>3 DEF SlotsInStep
<1> QED
  BY <1>1, <1>2, <1>3, <1>4 DEF DecoderInv, HeaderInStep

\* No step of the video path puts the decoder out of step.
LEMMA DecoderInvPreserved ==
    ASSUME WireInStep, DecoderInv, [Next]_vars
    PROVE  DecoderInv'
<1>1. CASE Arrive
  <2>1. PICK k \in 1 .. Len(udp) : Receive(udp[k])
    BY <1>1 DEF Arrive
  <2>2. udp[k] \in Datagram
    BY ElementOfSeq DEF WireInStep
  <2> QED
    BY <2>1, <2>2, ReceiveInStep
<1>2. CASE Decode
  BY <1>2, CloseBlockInStep, TakeDatagramInStep DEF Decode, DecoderStep
<1>3. CASE RecvFails
  <2>1. /\ pc' = "panicked"
        /\ UNCHANGED <<lvheader, block_id, rs_original, rs_recovery, rs_pkt_sizes,
                       rs_sendq, rs_total_packets, rs_inorder_packets,
                       rs_oorder_packets, rs_recovery_packets,
                       lvheader_prev_fragment_index, delivered>>
    BY <1>3 DEF RecvFails, rsShards, rsCounters
  <2>2. DecoderTypeOK'
    BY <2>1 DEF DecoderInv, DecoderTypeOK
  <2> QED
    BY <2>1, <2>2 DEF DecoderInv, CountersInStep, SlotsInStep, HeaderInStep, Running
<1>4. CASE Produce \/ Send \/ RestartServer \/ UNCHANGED vars
  <2>1. UNCHANGED decoderVars
    BY <1>4 DEF Produce, Send, RestartServer, vars
  <2>2. UNCHANGED <<pc, lvheader, block_id, rs_original, rs_recovery, rs_pkt_sizes,
                    rs_sendq, rs_total_packets, rs_inorder_packets,
                    rs_oorder_packets, rs_recovery_packets,
                    lvheader_prev_fragment_index, delivered>>
    BY <2>1 DEF decoderVars, rsShards, rsCounters
  <2>3. DecoderTypeOK' /\ HeaderInStep'
    BY <2>2 DEF DecoderInv, DecoderTypeOK, HeaderInStep
  <2>4. CountersInStep' /\ SlotsInStep'
    BY <2>2 DEF DecoderInv, CountersInStep, SlotsInStep, InOrderFrom, Filled,
                ExpectedIndex, Running
  <2> QED
    BY <2>3, <2>4 DEF DecoderInv
<1> QED
  BY <1>1, <1>2, <1>3, <1>4 DEF Next

\* The decode thread keeps its types: no counter exceeds the block, no shard or
\* slot lies outside it, and what goes to the depacketizer is a packet, an
\* empty one or a damaged one, whatever the network and the server do.
THEOREM DecoderTypes == Spec => []DecoderTypeOK
<1>1. Init => WireInStep /\ DecoderInv
  BY WireInStepInit, DecoderInvInit DEF Init
<1>2. WireInStep /\ DecoderInv /\ [Next]_vars => (WireInStep /\ DecoderInv)'
  BY WireInStepPreserved, DecoderInvPreserved
<1>3. WireInStep /\ DecoderInv => DecoderTypeOK
  BY DEF DecoderInv
<1> QED
  BY <1>1, <1>2, <1>3, PTL DEF Spec

-----------------------------------------------------------------------------
(***************************************************************************)
(* What can end the decode thread.  As long as nothing is repeated and no  *)
(* block is mixed from two runs of the server, each shard of the open      *)
(* block came at a place of its own, so no later place carries its label;  *)
(* as long as nothing comes late either, the previous index is the largest *)
(* so far, so the count of lost packets cannot underflow.                  *)
(***************************************************************************)
\* What has reached the client.
ReceivedInStep ==
    /\ received \subseteq 1 .. Len(udp)
    /\ \A k \in received : k <= newest
    /\ newest \in Nat
    /\ received # {} => last \in received
    /\ late \in Nat /\ duplicates \in Nat /\ recv_errors \in Nat
    /\ collided \in BOOLEAN
    /\ late = 0 /\ duplicates = 0 => last = newest
    /\ pc \in {"new_block", "fragment"} => received # {} /\ lvheader = udp[last]

\* Place j carries a shard of the open block.
OfOpenBlock(j) ==
    /\ j \in received /\ (pc = "fragment" => j # last)
    /\ SameRun(j, last)
    /\ udp[j].block_id = block_id

\* Unless datagrams come twice or blocks are mixed every shard of the open block
\* came at a place of its own in one run of the server.
ShardsHavePlaces ==
    pc \in {"recv", "fragment"} /\ duplicates = 0 /\ ~collided =>
        /\ \A i \in DOMAIN rs_original : \E j \in received :
              OfOpenBlock(j) /\ ~udp[j].recovery_pkt /\ udp[j].fragment_index = i
        /\ \A i \in DOMAIN rs_recovery : \E j \in received :
              OfOpenBlock(j) /\ udp[j].recovery_pkt /\ udp[j].fragment_index = i

\* As long as nothing comes late or twice either, the previous index is the
\* largest of the open block, or the last one of a block.
PreviousIsLargest ==
    Running /\ late = 0 /\ duplicates = 0 /\ ~collided =>
        IF DOMAIN rs_original = {}
        THEN lvheader_prev_fragment_index = Regular - 1
        ELSE /\ lvheader_prev_fragment_index \in DOMAIN rs_original
             /\ \A k \in DOMAIN rs_original : k <= lvheader_prev_fragment_index

SurvivalInv ==
    /\ WireInStep
    /\ LabelsOrdered
    /\ DecoderInv
    /\ ReceivedInStep
    /\ ShardsHavePlaces
    /\ PreviousIsLargest
    /\ DecoderSurvives

\* The wire only grows, and no restart separates two places already used.
LEMMA WireOnlyGrows ==
    ASSUME WireInStep, [Next]_vars
    PROVE  /\ Len(udp) \in Nat /\ Len(udp') \in Nat /\ Len(udp) <= Len(udp')
           /\ \A k \in 1 .. Len(udp) : udp'[k] = udp[k]
           /\ \A j, k \in 1 .. Len(udp) : SameRun(j, k)' <=> SameRun(j, k)
<1>0. Len(udp) \in Nat
  BY DEF WireInStep
<1>1. CASE Produce \/ Send
  <2>1. /\ Server!ProcessFrame \/ Server!SendNextPkt
        /\ UNCHANGED starts
    BY <1>1 DEF Produce, Send
  <2>2. PICK x \in Seq(Datagram) : udp' = udp \o x
    BY <2>1, ServerCall
  <2> DEFINE D == Datagram
  <2>3. udp \in Seq(D) /\ x \in Seq(D)
    BY DEF WireInStep
  <2> HIDE DEF D
  <2>4. /\ Len(udp \o x) = Len(udp) + Len(x)
        /\ Len(udp) \in Nat /\ Len(x) \in Nat
        /\ \A i \in 1 .. Len(udp) + Len(x) :
              (udp \o x)[i] = IF i <= Len(udp) THEN udp[i] ELSE x[i - Len(udp)]
    BY <2>3, ConcatProperties
  <2>5. \A j, k : SameRun(j, k)' <=> SameRun(j, k)
    BY <2>1 DEF SameRun
  <2> QED
    BY <2>2, <2>4, <2>5
<1>2. CASE RestartServer
  <2>1. udp' = udp /\ starts' = Append(starts, Len(udp)) /\ starts \in Seq(Nat)
    BY <1>2 DEF RestartServer, WireInStep, StartsInStep
  <2>2. /\ Len(starts) \in Nat /\ Len(starts') = Len(starts) + 1
        /\ starts'[Len(starts) + 1] = Len(udp)
        /\ \A n \in 1 .. Len(starts) : starts'[n] = starts[n]
    BY <2>1
  <2>3. ASSUME NEW j \in 1 .. Len(udp), NEW k \in 1 .. Len(udp)
        PROVE  SameRun(j, k)' <=> SameRun(j, k)
    <3>1. SameRun(j, k)' <=> \A n \in 1 .. Len(starts) + 1 : starts'[n] < j <=> starts'[n] < k
      BY <2>2 DEF SameRun
    <3>2. ~(starts'[Len(starts) + 1] < j) /\ ~(starts'[Len(starts) + 1] < k)
      BY <1>0, <2>2
    <3>3. (\A n \in 1 .. Len(starts) + 1 : starts'[n] < j <=> starts'[n] < k)
             <=> \A n \in 1 .. Len(starts) : starts'[n] < j <=> starts'[n] < k
      BY <2>2, <3>2
    <3>4. (\A n \in 1 .. Len(starts) : starts'[n] < j <=> starts'[n] < k)
             <=> \A n \in 1 .. Len(starts) : starts[n] < j <=> starts[n] < k
      BY <2>2
    <3> QED
      BY <3>1, <3>3, <3>4 DEF SameRun
  <2> QED
    BY <1>0, <2>1, <2>3
<1>3. CASE UNCHANGED <<udp, starts>>
  BY <1>0, <1>3 DEF SameRun
<1>4. CASE Arrive \/ RecvFails \/ Decode \/ UNCHANGED vars
  BY <1>3, <1>4 DEF Arrive, RecvFails, Decode, vars, serverVars
<1> QED
  BY <1>1, <1>2, <1>4 DEF Next

\* Places of the same number of restarts before them are of one run.
LEMMA RunsByNumber ==
    ASSUME StartsInStep, NEW j \in Nat, NEW k \in Nat, RunOf(j) = RunOf(k)
    PROVE  SameRun(j, k)
<1> DEFINE Started(m) == {n \in 1 .. Len(starts) : starts[n] < m}
<1>1. Len(starts) \in Nat /\ \A n \in 1 .. Len(starts) : starts[n] \in Nat
  BY DEF StartsInStep
<1>2. IsFiniteSet(1 .. Len(starts))
  <2>1. 1 \in Int /\ Len(starts) \in Int
    BY <1>1
  <2> QED
    BY <2>1, FS_Interval
<1>3. ASSUME NEW m PROVE IsFiniteSet(Started(m))
  <2>1. Started(m) \in SUBSET (1 .. Len(starts))
    OBVIOUS
  <2> HIDE DEF Started
  <2> QED
    BY <1>2, <2>1, FS_Subset
<1>4. Cardinality(Started(j)) = Cardinality(Started(k))
  BY DEF RunOf
<1>5. Started(j) \subseteq Started(k) \/ Started(k) \subseteq Started(j)
  <2>1. CASE j <= k
    BY <1>1, <2>1
  <2>2. CASE k <= j
    BY <1>1, <2>2
  <2> QED
    BY <2>1, <2>2
<1>6. Started(j) = Started(k)
  <2> HIDE DEF Started
  <2> QED
    BY <1>3, <1>4, <1>5, FS_Subset
<1>7. \A n \in 1 .. Len(starts) : n \in Started(j) <=> n \in Started(k)
  BY <1>6
<1> QED
  BY <1>7 DEF SameRun

\* Of the labels of one run no two are the same.
LEMMA LabelsDiffer ==
    ASSUME LabelsOrdered, udp \in Seq(Datagram),
           NEW j \in 1 .. Len(udp), NEW k \in 1 .. Len(udp), j # k, SameRun(j, k),
           udp[j].block_id = udp[k].block_id, udp[j].recovery_pkt = udp[k].recovery_pkt
    PROVE  /\ udp[j].fragment_index # udp[k].fragment_index
           /\ j < k => udp[j].fragment_index < udp[k].fragment_index
<1>1. SameRun(k, j)
  BY DEF SameRun
<1>2. \/ j < k /\ Before(udp[j], udp[k])
      \/ k < j /\ Before(udp[k], udp[j])
  BY <1>1 DEF LabelsOrdered
<1>3. /\ udp[j].block_id \in Nat /\ udp[j].fragment_index \in Nat
      /\ udp[k].fragment_index \in Nat
  <2>1. udp[j] \in Datagram /\ udp[k] \in Datagram
    BY ElementOfSeq
  <2> QED
    BY <2>1, DatagramFields DEF Index, RecoveryIndex
<1>4. \/ j < k /\ udp[j].fragment_index < udp[k].fragment_index
      \/ k < j /\ udp[k].fragment_index < udp[j].fragment_index
  <2>1. /\ Before(udp[j], udp[k]) => Position(udp[j]) < Position(udp[k])
        /\ Before(udp[k], udp[j]) => Position(udp[k]) < Position(udp[j])
    BY <1>3 DEF Before
  <2>2. CASE udp[j].recovery_pkt
    <3>1. /\ Position(udp[j]) = Regular + udp[j].fragment_index
          /\ Position(udp[k]) = Regular + udp[k].fragment_index
      BY <2>2 DEF Position
    <3>2. \A a, b \in Nat : Regular + a < Regular + b => a < b
      OBVIOUS
    <3>3. /\ Position(udp[j]) < Position(udp[k])
                => udp[j].fragment_index < udp[k].fragment_index
          /\ Position(udp[k]) < Position(udp[j])
                => udp[k].fragment_index < udp[j].fragment_index
      BY <1>3, <3>1, <3>2, Zenon
    <3> QED
      BY <1>2, <2>1, <3>3
  <2>3. CASE ~udp[j].recovery_pkt
    <3>1. /\ Position(udp[j]) = udp[j].fragment_index
          /\ Position(udp[k]) = udp[k].fragment_index
      BY <2>3 DEF Position
    <3> QED
      BY <1>2, <1>3, <2>1, <3>1
  <2> QED
    BY <2>2, <2>3
<1> QED
  BY <1>3, <1>4

\* What the network does to the client's state.
LEMMA ReceivedInStepPreserved ==
    ASSUME WireInStep, ReceivedInStep, [Next]_vars
    PROVE  ReceivedInStep'
<1>1. CASE Arrive
  <2>1. PICK k \in 1 .. Len(udp) :
           /\ Receive(udp[k])
           /\ received' = received \cup {k}
           /\ newest' = IF k > newest THEN k ELSE newest
           /\ last' = k
           /\ duplicates' = IF k \in received THEN duplicates + 1 ELSE duplicates
           /\ late' = IF k < newest /\ k \notin received THEN late + 1 ELSE late
           /\ collided' = (collided \/ Collides(k))
           /\ UNCHANGED <<recv_errors, serverVars>>
    BY <1>1 DEF Arrive
  <2>2. udp' = udp /\ Len(udp) \in Nat /\ k \in Nat /\ lvheader' = udp[k]
    BY <2>1 DEF serverVars, Receive, WireInStep
  <2>3. received' \subseteq 1 .. Len(udp') /\ last' \in received' /\ received' # {}
    BY <2>1, <2>2 DEF ReceivedInStep
  <2>4. newest' \in Nat /\ \A m \in received' : m <= newest'
    <3>1. newest \in Nat /\ \A m \in received : m <= newest /\ m \in Nat
      BY <2>2 DEF ReceivedInStep
    <3> QED
      BY <2>1, <2>2, <3>1
  <2>5. late' \in Nat /\ duplicates' \in Nat /\ recv_errors' \in Nat
    BY <2>1 DEF ReceivedInStep
  <2>6. collided' \in BOOLEAN
    BY <2>1
  <2>7. late' = 0 /\ duplicates' = 0 => last' = newest'
    <3>1. late \in Nat /\ duplicates \in Nat /\ newest \in Nat
      BY DEF ReceivedInStep
    <3>2. SUFFICES ASSUME late' = 0, duplicates' = 0
                   PROVE  last' = newest'
      OBVIOUS
    <3>3. ~(k < newest) \/ k \in received
      BY <2>1, <3>1, <3>2
    <3>4. k \notin received
      BY <2>1, <3>1, <3>2
    <3> QED
      BY <2>1, <2>2, <3>1, <3>3, <3>4
  <2> QED
    BY <2>1, <2>2, <2>3, <2>4, <2>5, <2>6, <2>7 DEF ReceivedInStep
<1>2. CASE RecvFails
  BY <1>2 DEF RecvFails, ReceivedInStep, serverVars
<1>3. CASE Decode
  <2>1. UNCHANGED <<udp, received, newest, last, duplicates, late, recv_errors, collided>>
    BY <1>3 DEF Decode, serverVars, networkVars
  <2>2. pc' \in {"new_block", "fragment"} => pc = "new_block" /\ lvheader' = lvheader
    BY <1>3 DEF Decode, DecoderStep, CloseBlock, SkipRecovery, RecoverBlock, RecoveryFails,
       StartBlock, TakeDatagram, DuplicateShard, TakeRecoveryShard, QueueFragment,
       LostCountPanics, DeliverFragment
  <2> QED
    BY <2>1, <2>2 DEF ReceivedInStep
<1>4. CASE Produce \/ Send \/ RestartServer \/ UNCHANGED vars
  <2>1. UNCHANGED <<received, newest, last, duplicates, late, recv_errors, collided,
                    pc, lvheader>>
    BY <1>4 DEF Produce, Send, RestartServer, vars, networkVars, decoderVars
  <2>2. received' \subseteq 1 .. Len(udp') /\ \A k \in received : udp'[k] = udp[k]
    BY <2>1, WireOnlyGrows DEF ReceivedInStep
  <2> QED
    BY <2>1, <2>2 DEF ReceivedInStep
<1> QED
  BY <1>1, <1>2, <1>3, <1>4 DEF Next

\* The steps of the server leave the places of the shards.
LEMMA PlacesKeptByServer ==
    ASSUME SurvivalInv, Produce \/ Send \/ RestartServer \/ UNCHANGED vars
    PROVE  ShardsHavePlaces' /\ PreviousIsLargest' /\ DecoderSurvives'
<1>1. UNCHANGED <<received, last, duplicates, late, recv_errors, collided, pc, block_id,
                  rs_original, rs_recovery, lvheader_prev_fragment_index>>
  BY DEF Produce, Send, RestartServer, vars, networkVars, decoderVars, rsShards
<1>2. /\ \A j \in received : udp'[j] = udp[j]
      /\ \A j \in received : SameRun(j, last)' <=> SameRun(j, last)
  <2>1. [Next]_vars
    BY DEF Next
  <2>2. received \subseteq 1 .. Len(udp) /\ (received # {} => last \in received)
    BY DEF SurvivalInv, ReceivedInStep
  <2>3. PICK m : m = last
    OBVIOUS
  <2>4. \A j \in received : SameRun(j, m)' <=> SameRun(j, m)
    BY <2>1, <2>2, <2>3, WireOnlyGrows DEF SurvivalInv
  <2>5. \A j \in received : SameRun(j, last)' <=> SameRun(j, m)'
    BY <1>1, <2>3 DEF SameRun
  <2> QED
    BY <2>1, <2>2, <2>3, <2>4, <2>5, WireOnlyGrows DEF SurvivalInv
<1>3. \A j \in received : OfOpenBlock(j)' <=> OfOpenBlock(j)
  BY <1>1, <1>2 DEF OfOpenBlock
<1>4. ShardsHavePlaces'
  BY <1>1, <1>2, <1>3 DEF SurvivalInv, ShardsHavePlaces
<1>5. PreviousIsLargest' /\ DecoderSurvives'
  BY <1>1 DEF SurvivalInv, PreviousIsLargest, DecoderSurvives, Running
<1> QED
  BY <1>4, <1>5

\* A datagram that arrives goes behind those of the open block, at a place of
\* its own and in their run, unless it is counted as repeated or as mixed.
LEMMA PlacesKeptByArrival ==
    ASSUME SurvivalInv, Arrive
    PROVE  ShardsHavePlaces' /\ PreviousIsLargest' /\ DecoderSurvives'
<1>1. PICK k \in 1 .. Len(udp) :
         /\ Receive(udp[k])
         /\ received' = received \cup {k}
         /\ last' = k
         /\ duplicates' = IF k \in received THEN duplicates + 1 ELSE duplicates
         /\ late' = IF k < newest /\ k \notin received THEN late + 1 ELSE late
         /\ collided' = (collided \/ Collides(k))
         /\ UNCHANGED <<recv_errors, udp, starts>>
  BY DEF Arrive, serverVars
<1>2. /\ pc = "recv"
      /\ pc' = IF udp[k].block_id # block_id THEN "new_block" ELSE "fragment"
      /\ UNCHANGED <<block_id, rs_original, rs_recovery, lvheader_prev_fragment_index>>
  BY <1>1 DEF Receive, rsShards
<1>3. /\ late \in Nat /\ duplicates \in Nat /\ received \subseteq 1 .. Len(udp)
      /\ received # {} => last \in received
      /\ StartsInStep /\ Len(udp) \in Nat
  BY DEF SurvivalInv, ReceivedInStep, WireInStep
<1>4. late' = 0 /\ duplicates' = 0 => late = 0 /\ duplicates = 0 /\ k \notin received
  BY <1>1, <1>3
<1>5. duplicates' = 0 => duplicates = 0 /\ k \notin received
  BY <1>1, <1>3
<1>6. PreviousIsLargest' /\ DecoderSurvives'
  BY <1>1, <1>2, <1>4 DEF SurvivalInv, PreviousIsLargest, DecoderSurvives, Running
<1>7. ASSUME pc' \in {"recv", "fragment"}, duplicates' = 0, ~collided',
             NEW j \in received, OfOpenBlock(j)
      PROVE  j \in received' /\ OfOpenBlock(j)'
  <2>1. udp[k].block_id = block_id /\ j # k
    BY <1>2, <1>5, <1>7
  <2>2. RunOf(k) = RunOf(last)
    BY <1>1, <1>7, <2>1 DEF Collides
  <2>3. SameRun(k, last)
    <3>1. k \in Nat /\ last \in Nat
      <4>1. last \in 1 .. Len(udp)
        BY <1>3, <1>7
      <4> QED
        BY <1>3, <4>1
    <3> QED
      BY <1>3, <2>2, <3>1, RunsByNumber
  <2>4. SameRun(j, k)
    BY <1>7, <2>3 DEF OfOpenBlock, SameRun
  <2>5. SameRun(j, last)'
    BY <1>1, <2>4 DEF SameRun
  <2> QED
    BY <1>1, <1>2, <1>7, <2>1, <2>5 DEF OfOpenBlock
<1>8. ShardsHavePlaces'
  <2>1. SUFFICES ASSUME pc' \in {"recv", "fragment"}, duplicates' = 0, ~collided'
                 PROVE  /\ \A i \in DOMAIN rs_original : \E j \in received' :
                              /\ OfOpenBlock(j)' /\ ~udp[j].recovery_pkt
                              /\ udp[j].fragment_index = i
                        /\ \A i \in DOMAIN rs_recovery : \E j \in received' :
                              /\ OfOpenBlock(j)' /\ udp[j].recovery_pkt
                              /\ udp[j].fragment_index = i
    BY <1>1, <1>2 DEF ShardsHavePlaces
  <2>2. duplicates = 0 /\ ~collided
    BY <1>1, <1>5, <2>1
  <2>3. ShardsHavePlaces
    BY DEF SurvivalInv
  <2>4. /\ \A i \in DOMAIN rs_original : \E j \in received :
              OfOpenBlock(j) /\ ~udp[j].recovery_pkt /\ udp[j].fragment_index = i
        /\ \A i \in DOMAIN rs_recovery : \E j \in received :
              OfOpenBlock(j) /\ udp[j].recovery_pkt /\ udp[j].fragment_index = i
    BY <1>2, <2>2, <2>3 DEF ShardsHavePlaces
  <2> QED
    BY <1>7, <2>1, <2>4
<1> QED
  BY <1>6, <1>8

\* Closing a block forgets its shards and leaves the previous index at the last
\* one of a block.
LEMMA PlacesKeptByClosing ==
    ASSUME SurvivalInv, CloseBlock, UNCHANGED <<serverVars, networkVars>>
    PROVE  ShardsHavePlaces' /\ PreviousIsLargest' /\ DecoderSurvives'
<1>1. /\ DOMAIN rs_original' = {} /\ DOMAIN rs_recovery' = {}
      /\ pc = "new_block" /\ UNCHANGED <<late, duplicates, collided>>
  BY DEF CloseBlock, SkipRecovery, RecoverBlock, RecoveryFails, StartBlock, NoShards,
         networkVars
<1>2. pc' = "fragment"
  BY CloseBlockInStep DEF SurvivalInv
<1>3. ASSUME late = 0, duplicates = 0, ~collided
      PROVE  lvheader_prev_fragment_index' = Regular - 1
  <2>1. CASE SkipRecovery
    <3>1. DOMAIN rs_original = Index
      BY <1>1, <2>1, SkippedBlockWhole DEF SkipRecovery, SurvivalInv, DecoderInv, Running
    <3>2. Regular - 1 \in Index
      BY DEF Index
    <3>3. /\ lvheader_prev_fragment_index \in Index
          /\ Regular - 1 <= lvheader_prev_fragment_index
      BY <1>1, <1>3, <3>1, <3>2 DEF SurvivalInv, PreviousIsLargest, Running
    <3>4. lvheader_prev_fragment_index = Regular - 1
      BY <3>3 DEF Index
    <3> QED
      BY <2>1, <3>4 DEF SkipRecovery
  <2>2. CASE RecoverBlock \/ RecoveryFails
    BY <2>2 DEF RecoverBlock, RecoveryFails
  <2> QED
    BY <2>1, <2>2 DEF CloseBlock
<1> QED
  BY <1>1, <1>2, <1>3 DEF ShardsHavePlaces, PreviousIsLargest, DecoderSurvives

\* The datagram of the open block, and where the others of the block came.
LEMMA OthersOfOpenBlock ==
    ASSUME SurvivalInv, pc = "fragment", duplicates = 0, ~collided
    PROVE  /\ last \in received /\ last \in 1 .. Len(udp) /\ lvheader = udp[last]
           /\ lvheader \in Datagram /\ lvheader.block_id = block_id
           /\ \A i \in DOMAIN rs_original : \E j \in 1 .. Len(udp) :
                 /\ j # last /\ j <= newest /\ SameRun(j, last)
                 /\ udp[j].block_id = udp[last].block_id
                 /\ ~udp[j].recovery_pkt /\ udp[j].fragment_index = i
           /\ \A i \in DOMAIN rs_recovery : \E j \in 1 .. Len(udp) :
                 /\ j # last /\ SameRun(j, last)
                 /\ udp[j].block_id = udp[last].block_id
                 /\ udp[j].recovery_pkt /\ udp[j].fragment_index = i
<1>1. /\ last \in received /\ last \in 1 .. Len(udp) /\ lvheader = udp[last]
      /\ received \subseteq 1 .. Len(udp) /\ \A k \in received : k <= newest
  BY DEF SurvivalInv, ReceivedInStep
<1>2. lvheader \in Datagram /\ lvheader.block_id = block_id
  BY DEF SurvivalInv, DecoderInv, HeaderInStep
<1>3. /\ \A i \in DOMAIN rs_original : \E j \in received :
            OfOpenBlock(j) /\ ~udp[j].recovery_pkt /\ udp[j].fragment_index = i
      /\ \A i \in DOMAIN rs_recovery : \E j \in received :
            OfOpenBlock(j) /\ udp[j].recovery_pkt /\ udp[j].fragment_index = i
  BY DEF SurvivalInv, ShardsHavePlaces
<1>4. \A j \in received : OfOpenBlock(j) =>
         /\ j \in 1 .. Len(udp) /\ j # last /\ j <= newest /\ SameRun(j, last)
         /\ udp[j].block_id = udp[last].block_id
  BY <1>1, <1>2 DEF OfOpenBlock
<1> QED
  BY <1>1, <1>2, <1>3, <1>4

\* A label comes twice only with the datagram.
LEMMA NoDuplicateShard ==
    ASSUME SurvivalInv, duplicates = 0, ~collided
    PROVE  ~DuplicateShard
<1> SUFFICES ASSUME DuplicateShard PROVE FALSE
  OBVIOUS
<1>1. pc = "fragment"
  BY DEF DuplicateShard
<1>2. /\ last \in 1 .. Len(udp) /\ lvheader = udp[last] /\ lvheader \in Datagram
      /\ LabelsOrdered /\ udp \in Seq(Datagram)
  BY <1>1, OthersOfOpenBlock DEF SurvivalInv, WireInStep
<1>3. PICK j \in 1 .. Len(udp) :
         /\ j # last /\ SameRun(j, last)
         /\ udp[j].block_id = udp[last].block_id
         /\ udp[j].recovery_pkt <=> udp[last].recovery_pkt
         /\ udp[j].fragment_index = udp[last].fragment_index
  <2>1. CASE lvheader.recovery_pkt
    <3>1. lvheader.fragment_index \in DOMAIN rs_recovery
      BY <2>1 DEF DuplicateShard
    <3> QED
      BY <1>1, <1>2, <2>1, <3>1, OthersOfOpenBlock
  <2>2. CASE ~lvheader.recovery_pkt
    <3>1. lvheader.fragment_index \in DOMAIN rs_original
      BY <2>2 DEF DuplicateShard
    <3> QED
      BY <1>1, <1>2, <2>2, <3>1, OthersOfOpenBlock
  <2> QED
    BY <2>1, <2>2
<1>4. udp[j].recovery_pkt = udp[last].recovery_pkt
  <2>1. udp[j] \in Datagram /\ udp[last] \in Datagram
    BY <1>2, ElementOfSeq
  <2>2. udp[j].recovery_pkt \in BOOLEAN /\ udp[last].recovery_pkt \in BOOLEAN
    BY <2>1, DatagramFields
  <2> QED
    BY <1>3, <2>2
<1> QED
  BY <1>2, <1>3, <1>4, LabelsDiffer

\* While nothing is late a fragment of the open block comes behind the others.
LEMMA FragmentIsLargest ==
    ASSUME SurvivalInv, pc = "fragment", late = 0, duplicates = 0, ~collided,
           ~lvheader.recovery_pkt
    PROVE  \A k \in DOMAIN rs_original : k < lvheader.fragment_index
<1> SUFFICES ASSUME NEW k \in DOMAIN rs_original
             PROVE  k < lvheader.fragment_index
  OBVIOUS
<1>1. /\ last \in 1 .. Len(udp) /\ lvheader = udp[last] /\ lvheader \in Datagram
      /\ LabelsOrdered /\ udp \in Seq(Datagram) /\ last = newest
  BY OthersOfOpenBlock DEF SurvivalInv, WireInStep, ReceivedInStep
<1>2. PICK j \in 1 .. Len(udp) :
         /\ j # last /\ j <= newest /\ SameRun(j, last)
         /\ udp[j].block_id = udp[last].block_id
         /\ ~udp[j].recovery_pkt /\ udp[j].fragment_index = k
  BY OthersOfOpenBlock
<1>3. udp[j].recovery_pkt = udp[last].recovery_pkt
  <2>1. udp[j] \in Datagram /\ udp[last] \in Datagram
    BY <1>1, ElementOfSeq
  <2>2. udp[j].recovery_pkt \in BOOLEAN /\ udp[last].recovery_pkt \in BOOLEAN
    BY <2>1, DatagramFields
  <2> QED
    BY <1>1, <1>2, <2>2
<1>4. j < last
  BY <1>1, <1>2
<1> QED
  BY <1>1, <1>2, <1>3, <1>4, LabelsDiffer

\* So the index expected does not lie behind the fragment.
LEMMA NoUnderflow ==
    ASSUME SurvivalInv, pc = "fragment", late = 0, duplicates = 0, ~collided,
           ~lvheader.recovery_pkt
    PROVE  ~LostUnderflows
<1> DEFINE i == lvheader.fragment_index
           prev == lvheader_prev_fragment_index
<1>1. /\ i \in Index /\ prev \in Index
  <2>1. lvheader \in Datagram
    BY OthersOfOpenBlock
  <2> QED
    BY <2>1, DatagramFields DEF SurvivalInv, DecoderInv, DecoderTypeOK
<1>2. ExpectedIndex = IF prev = Regular - 1 THEN 0 ELSE prev + 1
  BY <1>1, ExpectedIndexValue
<1>3. prev = Regular - 1 \/ prev < i
  BY FragmentIsLargest DEF SurvivalInv, PreviousIsLargest, Running
<1> HIDE DEF i, prev
<1>4. ~(i < ExpectedIndex)
  BY <1>1, <1>2, <1>3 DEF Index
<1> QED
  BY <1>4 DEF LostUnderflows, i

\* Taking a datagram: its shard has the place that came last.
LEMMA PlacesKeptByTaking ==
    ASSUME SurvivalInv, TakeDatagram, UNCHANGED <<serverVars, networkVars>>
    PROVE  ShardsHavePlaces' /\ PreviousIsLargest' /\ DecoderSurvives'
<1>1. /\ pc = "fragment"
      /\ UNCHANGED <<received, last, late, duplicates, collided, recv_errors, udp, starts>>
  BY DEF TakeDatagram, DuplicateShard, TakeRecoveryShard, QueueFragment,
         LostCountPanics, DeliverFragment, TakeOriginalShard, networkVars, serverVars
<1>2. block_id' = block_id
  BY DEF TakeDatagram, DuplicateShard, TakeRecoveryShard, QueueFragment,
         LostCountPanics, DeliverFragment, TakeOriginalShard
<1>3. \A j \in received : OfOpenBlock(j) /\ pc' = "recv" => OfOpenBlock(j)'
  BY <1>1, <1>2 DEF OfOpenBlock, SameRun
<1>4. ASSUME pc' = "recv", duplicates = 0, ~collided
      PROVE  /\ last \in received /\ lvheader = udp[last]
             /\ \A m : m = last => OfOpenBlock(m)'
  <2>1. last \in received /\ lvheader = udp[last] /\ lvheader.block_id = block_id
    BY <1>1, <1>4, OthersOfOpenBlock
  <2>2. \A m : m = last => OfOpenBlock(m)'
    BY <1>1, <1>2, <1>4, <2>1 DEF OfOpenBlock, SameRun
  <2> QED
    BY <2>1, <2>2
<1>5. /\ IsFiniteSet(DOMAIN rs_original) /\ IsFiniteSet(DOMAIN rs_recovery)
  BY ShardCounts DEF SurvivalInv, DecoderInv
<1>6. CASE DuplicateShard
  <2>1. pc' = "exited" /\ (duplicates # 0 \/ collided)
    BY <1>6, NoDuplicateShard DEF DuplicateShard
  <2>2. duplicates \in Nat
    BY DEF SurvivalInv, ReceivedInStep
  <2>3. DecoderSurvives'
    BY <1>1, <2>1, <2>2 DEF DecoderSurvives
  <2> QED
    BY <2>1, <2>3 DEF ShardsHavePlaces, PreviousIsLargest, Running
<1>7. CASE TakeRecoveryShard
  <2>1. /\ pc' = "recv" /\ lvheader.recovery_pkt /\ rs_original' = rs_original
        /\ lvheader_prev_fragment_index' = lvheader_prev_fragment_index
        /\ DOMAIN rs_recovery' = DOMAIN rs_recovery \cup {lvheader.fragment_index}
    <3>1. rs_recovery' = AddShard(rs_recovery, lvheader.fragment_index, lvheader.body)
      BY <1>7 DEF TakeRecoveryShard
    <3>2. DOMAIN rs_recovery' = DOMAIN rs_recovery \cup {lvheader.fragment_index}
      BY <3>1 DEF AddShard
    <3> QED
      BY <1>7, <3>2 DEF TakeRecoveryShard
  <2>2. ShardsHavePlaces'
    <3>1. SUFFICES ASSUME duplicates = 0, ~collided
                   PROVE  /\ \A i \in DOMAIN rs_original' : \E j \in received :
                                /\ OfOpenBlock(j)' /\ ~udp[j].recovery_pkt
                                /\ udp[j].fragment_index = i
                          /\ \A i \in DOMAIN rs_recovery' : \E j \in received :
                                /\ OfOpenBlock(j)' /\ udp[j].recovery_pkt
                                /\ udp[j].fragment_index = i
      BY <1>1 DEF ShardsHavePlaces
    <3>2. /\ \A i \in DOMAIN rs_original : \E j \in received :
                OfOpenBlock(j) /\ ~udp[j].recovery_pkt /\ udp[j].fragment_index = i
          /\ \A i \in DOMAIN rs_recovery : \E j \in received :
                OfOpenBlock(j) /\ udp[j].recovery_pkt /\ udp[j].fragment_index = i
      BY <1>1, <3>1 DEF SurvivalInv, ShardsHavePlaces
    <3>3. PICK m : m = last /\ m \in received /\ OfOpenBlock(m)' /\ lvheader = udp[m]
      <4>1. PICK m : m = last
        OBVIOUS
      <4>2. OfOpenBlock(m)'
        BY <1>4, <2>1, <3>1, <4>1
      <4> QED
        BY <1>4, <2>1, <3>1, <4>1, <4>2
    <3> QED
      BY <1>3, <2>1, <3>2, <3>3
  <2>3. PreviousIsLargest' /\ DecoderSurvives'
    BY <1>1, <2>1 DEF SurvivalInv, PreviousIsLargest, DecoderSurvives, Running
  <2> QED
    BY <2>2, <2>3
<1>8. CASE QueueFragment \/ DeliverFragment
  <2>1. /\ pc' = "recv" /\ ~lvheader.recovery_pkt /\ rs_recovery' = rs_recovery
        /\ lvheader_prev_fragment_index' = lvheader.fragment_index
        /\ DOMAIN rs_original' = DOMAIN rs_original \cup {lvheader.fragment_index}
    <3>1. rs_original' = AddShard(rs_original, lvheader.fragment_index, lvheader.body)
      BY <1>8 DEF QueueFragment, DeliverFragment, TakeOriginalShard
    <3>2. DOMAIN rs_original' = DOMAIN rs_original \cup {lvheader.fragment_index}
      BY <3>1 DEF AddShard
    <3> QED
      BY <1>8, <3>2 DEF QueueFragment, DeliverFragment, TakeOriginalShard
  <2>2. ShardsHavePlaces'
    <3>1. SUFFICES ASSUME duplicates = 0, ~collided
                   PROVE  /\ \A i \in DOMAIN rs_original' : \E j \in received :
                                /\ OfOpenBlock(j)' /\ ~udp[j].recovery_pkt
                                /\ udp[j].fragment_index = i
                          /\ \A i \in DOMAIN rs_recovery' : \E j \in received :
                                /\ OfOpenBlock(j)' /\ udp[j].recovery_pkt
                                /\ udp[j].fragment_index = i
      BY <1>1 DEF ShardsHavePlaces
    <3>2. /\ \A i \in DOMAIN rs_original : \E j \in received :
                OfOpenBlock(j) /\ ~udp[j].recovery_pkt /\ udp[j].fragment_index = i
          /\ \A i \in DOMAIN rs_recovery : \E j \in received :
                OfOpenBlock(j) /\ udp[j].recovery_pkt /\ udp[j].fragment_index = i
      BY <1>1, <3>1 DEF SurvivalInv, ShardsHavePlaces
    <3>3. PICK m : m = last /\ m \in received /\ OfOpenBlock(m)' /\ lvheader = udp[m]
      <4>1. PICK m : m = last
        OBVIOUS
      <4>2. OfOpenBlock(m)'
        BY <1>4, <2>1, <3>1, <4>1
      <4> QED
        BY <1>4, <2>1, <3>1, <4>1, <4>2
    <3> QED
      BY <1>3, <2>1, <3>2, <3>3
  <2>3. PreviousIsLargest'
    <3>1. SUFFICES ASSUME late = 0, duplicates = 0, ~collided
                   PROVE  /\ lvheader.fragment_index \in DOMAIN rs_original'
                          /\ \A k \in DOMAIN rs_original' : k <= lvheader.fragment_index
      BY <1>1, <2>1 DEF PreviousIsLargest
    <3>2. \A k \in DOMAIN rs_original : k < lvheader.fragment_index
      BY <1>1, <2>1, <3>1, FragmentIsLargest
    <3>3. lvheader.fragment_index \in Nat /\ DOMAIN rs_original \subseteq Nat
      <4>1. lvheader \in Datagram
        BY <1>1, <3>1, OthersOfOpenBlock
      <4>2. lvheader.fragment_index \in Index /\ DOMAIN rs_original \subseteq Index
        BY <2>1, <4>1, DatagramFields DEF SurvivalInv, DecoderInv, DecoderTypeOK
      <4> QED
        BY <4>2 DEF Index
    <3> QED
      BY <2>1, <3>2, <3>3
  <2>4. DecoderSurvives'
    BY <2>1 DEF DecoderSurvives
  <2> QED
    BY <2>2, <2>3, <2>4
<1>9. CASE LostCountPanics
  <2>1. /\ pc' = "panicked" /\ OverflowChecks /\ LostUnderflows
        /\ ~lvheader.recovery_pkt
    BY <1>9 DEF LostCountPanics, TakeOriginalShard
  <2>2. late # 0 \/ duplicates # 0 \/ collided
    BY <1>1, <2>1, NoUnderflow
  <2>3. late \in Nat /\ duplicates \in Nat
    BY DEF SurvivalInv, ReceivedInStep
  <2>4. DecoderSurvives'
    BY <1>1, <2>1, <2>2, <2>3 DEF DecoderSurvives
  <2> QED
    BY <2>1, <2>4 DEF ShardsHavePlaces, PreviousIsLargest, Running
<1> QED
  BY <1>6, <1>7, <1>8, <1>9 DEF TakeDatagram

\* A failed recv_from is one of the ends the property names.
LEMMA PlacesKeptByRecvFails ==
    ASSUME SurvivalInv, RecvFails
    PROVE  ShardsHavePlaces' /\ PreviousIsLargest' /\ DecoderSurvives'
<1>1. pc' = "panicked" /\ recv_errors' = recv_errors + 1 /\ recv_errors \in Nat
  BY DEF RecvFails, SurvivalInv, ReceivedInStep
<1> QED
  BY <1>1 DEF ShardsHavePlaces, PreviousIsLargest, DecoderSurvives, Running

\* Every step keeps the invariant while the block id does not wrap.
LEMMA SurvivalInvInductive ==
    SurvivalInv /\ [Next]_vars /\ ~id_wrapped' => SurvivalInv'
<1> SUFFICES ASSUME SurvivalInv, [Next]_vars, ~id_wrapped' PROVE SurvivalInv'
  OBVIOUS
<1>1. WireInStep' /\ LabelsOrdered' /\ DecoderInv' /\ ReceivedInStep'
  BY WireInStepPreserved, LabelsOrderedPreserved, DecoderInvPreserved,
     ReceivedInStepPreserved DEF SurvivalInv
<1>2. ShardsHavePlaces' /\ PreviousIsLargest' /\ DecoderSurvives'
  BY PlacesKeptByServer, PlacesKeptByArrival, PlacesKeptByClosing, PlacesKeptByTaking,
     PlacesKeptByRecvFails DEF Next, Decode, DecoderStep
<1> QED
  BY <1>1, <1>2 DEF SurvivalInv

LEMMA SurvivalInvInit == Init => SurvivalInv
<1> SUFFICES ASSUME Init PROVE SurvivalInv
  OBVIOUS
<1>1. WireInStep /\ DecoderInv
  BY WireInStepInit, DecoderInvInit DEF Init
<1>2. /\ udp = <<>> /\ received = {} /\ newest = 0 /\ last = 0
      /\ duplicates = 0 /\ late = 0 /\ recv_errors = 0 /\ collided = FALSE
  BY DEF Init, Server!Init
<1>3. /\ pc = "recv" /\ DOMAIN rs_original = {} /\ DOMAIN rs_recovery = {}
      /\ lvheader_prev_fragment_index = Regular - 1
  BY DEF Init, DecoderInit, NoShards
<1>4. LabelsOrdered /\ ReceivedInStep
  <2>1. Len(udp) = 0 /\ 1 .. Len(udp) = {}
    BY <1>2
  <2> QED
    BY <1>2, <1>3, <2>1 DEF LabelsOrdered, ReceivedInStep
<1>5. ShardsHavePlaces /\ PreviousIsLargest /\ DecoderSurvives
  BY <1>3 DEF ShardsHavePlaces, PreviousIsLargest, DecoderSurvives
<1> QED
  BY <1>1, <1>4, <1>5 DEF SurvivalInv

\* Loss, send errors and restarts alone never end the decode thread
\* (video.rs:344, :384, :396, :407, :422): only a datagram that comes twice, a
\* block mixed from two runs of the server, a failed recv_from or, in a dev
\* build, a late datagram can, as long as no run lasts until its block id wraps.
THEOREM DecoderSurvivesLoss == Spec /\ []~id_wrapped => []DecoderSurvives
<1>1. SurvivalInv => DecoderSurvives
  BY DEF SurvivalInv
<1> QED
  BY <1>1, SurvivalInvInit, SurvivalInvInductive, PTL DEF Spec

-----------------------------------------------------------------------------
(***************************************************************************)
(* A run uses no more labels than packets are produced, so the block id    *)
(* wraps only in a run of more than BlockIdLimit blocks.                   *)
(***************************************************************************)
LabelsCounted ==
    /\ ~id_wrapped
    /\ current_block_id * Regular + current_regular_fragment_index + Len(rtp_queue)
          <= next_seq
    /\ next_seq <= MaxSeq

\* A label takes a packet of the queue; that it would wrap takes too many.
LEMMA LabelCounts ==
    ASSUME NEW limit \in Nat, NEW max \in Nat, NEW r \in Nat, r > 0,
           max < limit * r,
           NEW b \in Nat, NEW i \in 0 .. r - 1, NEW q \in Nat, q > 0,
           NEW next \in Nat, b * r + i + q <= next, next <= max
    PROVE  /\ ~(i = r - 1 /\ b + 1 = limit)
           /\ i = r - 1 => (b + 1) * r + 0 + (q - 1) <= next
           /\ i # r - 1 => b * r + (i + 1) + (q - 1) <= next
<1> DEFINE p == b * r
<1>1. p \in Nat /\ (b + 1) * r = p + r
  OBVIOUS
<1>2. ~(i = r - 1 /\ b + 1 = limit)
  <2> SUFFICES ASSUME i = r - 1, b + 1 = limit PROVE FALSE
    OBVIOUS
  <2>1. max < p + r
    BY <1>1
  <2> HIDE DEF p
  <2>2. p + i + q <= next
    BY DEF p
  <2> QED
    BY <1>1, <2>1, <2>2
<1>3. p + i + q <= next
  OBVIOUS
<1>4. i = r - 1 => (p + r) + 0 + (q - 1) <= next
  <2> HIDE DEF p
  <2> QED
    BY <1>1, <1>3
<1>5. i # r - 1 => p + (i + 1) + (q - 1) <= next
  <2> HIDE DEF p
  <2> QED
    BY <1>1, <1>3
<1> QED
  BY <1>1, <1>2, <1>4, <1>5

LEMMA LabelsCountedPreserved ==
    ASSUME MaxSeq < BlockIdLimit * Regular, WireInStep, LabelsCounted, [Next]_vars
    PROVE  LabelsCounted'
<1> DEFINE b == current_block_id
           i == current_regular_fragment_index
           q == Len(rtp_queue)
<1>1. /\ b \in Nat /\ i \in 0 .. Regular - 1 /\ rtp_queue \in Seq(Run!Packet) /\ q \in Nat
      /\ next_seq \in Nat /\ MaxSeq \in Nat /\ Regular \in Nat /\ BlockIdLimit \in Nat
      /\ Regular > 0
  BY DEF WireInStep, Run!PackagerInv, Run!TypeOK, Run!Index
<1>2. CASE UNCHANGED <<id_wrapped, current_block_id, current_regular_fragment_index,
                       rtp_queue, next_seq>>
  BY <1>2 DEF LabelsCounted
<1>3. CASE Server!ProcessFrame
  <2>1. PICK n \in 1 .. MaxFrame :
           /\ next_seq + n <= MaxSeq
           /\ next_seq' = next_seq + n
           /\ \E sizes \in [1 .. n -> Sizes] :
                rtp_queue' = [k \in 1 .. n |->
                                 [seq |-> next_seq + k - 1, size |-> sizes[k]]]
    BY <1>3 DEF Server!ProcessFrame
  <2>2. Len(rtp_queue') = n /\ q = 0 /\ n \in Nat
    BY <1>3, <2>1 DEF Server!ProcessFrame
  <2>3. /\ id_wrapped' = id_wrapped /\ b' = b /\ i' = i
    BY <1>3 DEF Server!ProcessFrame, Server!labelVars
  <2>4. b * Regular \in Nat
    BY <1>1
  <2> DEFINE p == b * Regular
  <2>5. p + i + q <= next_seq
    BY DEF LabelsCounted
  <2>6. p + i + n <= next_seq + n
    <3> HIDE DEF p, b, i, q
    <3> QED
      BY <1>1, <2>2, <2>4, <2>5 DEF p
  <2> QED
    BY <2>1, <2>2, <2>3, <2>6 DEF LabelsCounted
<1>4. CASE Server!SendNextPkt
  <2>1. Server!PopPacket
    BY <1>4 DEF Server!SendNextPkt, Server!EncodeFails, Server!RecoverySendFails,
       Server!SendFragment, Server!AddShardFails, Server!BlockIdOverflow
  <2>2. q > 0 /\ Len(rtp_queue') = q - 1 /\ next_seq' = next_seq
    BY <1>1, <2>1 DEF Server!PopPacket
  <2>3. b * Regular + i + q <= next_seq /\ next_seq <= MaxSeq /\ ~id_wrapped
    BY DEF LabelsCounted
  <2>4. /\ ~(i = Regular - 1 /\ b + 1 = BlockIdLimit)
        /\ i = Regular - 1 => (b + 1) * Regular + 0 + (q - 1) <= next_seq
        /\ i # Regular - 1 => b * Regular + (i + 1) + (q - 1) <= next_seq
    <3> HIDE DEF b, i, q
    <3> QED
      BY <1>1, <2>2, <2>3, LabelCounts
  <2>5. Server!NextFragmentIndex = IF i = Regular - 1 THEN 0 ELSE i + 1
    BY <1>1, NextIndex DEF Server!NextFragmentIndex, Index
  <2>6. ~Server!Overflows
    BY <1>1, <2>4, <2>5 DEF Server!Overflows
  <2>7. \/ UNCHANGED <<current_block_id, current_regular_fragment_index, id_wrapped>>
        \/ Server!AdvanceLabel
    BY <1>4, <2>6 DEF Server!SendNextPkt, Server!EncodeFails, Server!RecoverySendFails,
       Server!SendFragment, Server!AddShardFails, Server!BlockIdOverflow,
       Server!LabelPacket, Server!labelVars
  <2>8. CASE UNCHANGED <<current_block_id, current_regular_fragment_index, id_wrapped>>
    <3>1. b * Regular + i + (q - 1) <= next_seq
      <4> DEFINE p == b * Regular
      <4>1. p \in Nat /\ p + i + q <= next_seq
        BY <1>1, <2>3
      <4> HIDE DEF p, b, i, q
      <4>2. p + i + (q - 1) <= next_seq
        BY <1>1, <4>1
      <4> QED
        BY <4>2 DEF p
    <3> QED
      BY <2>2, <2>3, <2>8, <3>1 DEF LabelsCounted
  <2>9. CASE Server!AdvanceLabel
    <3>1. /\ current_regular_fragment_index' = IF i = Regular - 1 THEN 0 ELSE i + 1
          /\ current_block_id' = IF i = Regular - 1 THEN b + 1 ELSE b
          /\ ~id_wrapped'
      <4>1. /\ current_regular_fragment_index' = Server!NextFragmentIndex
            /\ current_block_id' = IF Server!NextFragmentIndex # 0 THEN b ELSE b + 1
            /\ ~id_wrapped'
        BY <2>3, <2>6, <2>9 DEF Server!AdvanceLabel
      <4>2. Server!NextFragmentIndex = 0 <=> i = Regular - 1
        <5> HIDE DEF i
        <5> QED
          BY <1>1, <2>5
      <4> QED
        BY <2>5, <4>1, <4>2
    <3> QED
      BY <2>2, <2>3, <2>4, <3>1 DEF LabelsCounted
  <2> QED
    BY <2>7, <2>8, <2>9
<1>5. CASE RestartServer
  <2>1. /\ ~id_wrapped' /\ current_block_id' = 0 /\ current_regular_fragment_index' = 0
        /\ Len(rtp_queue') = 0 /\ next_seq' = next_seq
    BY <1>5 DEF RestartServer
  <2>2. 0 * Regular + 0 + 0 <= next_seq
    BY <1>1
  <2> QED
    BY <2>1, <2>2 DEF LabelsCounted
<1> QED
  BY <1>2, <1>3, <1>4, <1>5
  DEF Next, Produce, Send, Arrive, RecvFails, Decode, vars, serverVars

\* The block id does not wrap in a stream of fewer packets than BlockIdLimit
\* blocks hold, however often the server is restarted.
THEOREM BlockIdNeverWraps ==
    ASSUME MaxSeq < BlockIdLimit * Regular
    PROVE  Spec => []~id_wrapped
<1>1. Init => WireInStep /\ LabelsCounted
  <2> SUFFICES ASSUME Init PROVE LabelsCounted
    BY WireInStepInit
  <2>1. /\ ~id_wrapped /\ current_block_id = 0 /\ current_regular_fragment_index = 0
        /\ Len(rtp_queue) = 0 /\ next_seq = 0
    BY DEF Init, Server!Init
  <2>2. 0 * Regular + 0 + 0 <= 0 /\ 0 <= MaxSeq
    OBVIOUS
  <2> QED
    BY <2>1, <2>2 DEF LabelsCounted
<1>2. WireInStep /\ LabelsCounted /\ [Next]_vars => (WireInStep /\ LabelsCounted)'
  BY WireInStepPreserved, LabelsCountedPreserved
<1>3. LabelsCounted => ~id_wrapped
  BY DEF LabelsCounted
<1> QED
  BY <1>1, <1>2, <1>3, PTL DEF Spec

\* So within such a stream the decode thread survives without a hypothesis on
\* the behaviour.
THEOREM DecoderSurvivesStream ==
    ASSUME MaxSeq < BlockIdLimit * Regular
    PROVE  Spec => []DecoderSurvives
BY BlockIdNeverWraps, DecoderSurvivesLoss, PTL

-----------------------------------------------------------------------------
(***************************************************************************)
(* The packets of the stream on the server's side, over all its runs.      *)
(***************************************************************************)
\* What a call of the server appends to udp.
LEMMA NewDatagrams ==
    ASSUME WireInStep, Send, NEW k \in Len(udp) + 1 .. Len(udp')
    PROVE  \/ /\ Run!EncodeDue /\ Run!EncoderFull
              /\ udp'[k].recovery_pkt
              /\ udp'[k].block_id = current_block_id - 1
              /\ udp'[k].pkt_sizes = pkt_sizes
              /\ udp'[k].body.code = Run!EncodedBlock
           \/ /\ Run!SendFragment
              /\ k = Len(udp')
              /\ ~udp'[k].recovery_pkt
              /\ udp'[k].block_id = current_block_id
              /\ udp'[k].fragment_index = current_regular_fragment_index
              /\ udp'[k].body = Head(rtp_queue)
<1>1. /\ Server!ProcessFrame \/ Server!SendNextPkt
      /\ Server!SendNextPkt /\ UNCHANGED starts
  BY DEF Send
<1>2. Run!Next
  BY <1>1, ServerCall
<1>3. Run!SendNextPkt \/ UNCHANGED Wire
  BY <1>2 DEF Run!Next, Run!ProcessFrame
<1>4. WireInStep' /\ LastStart' = LastStart
  BY <1>1, WireInStepPreserved DEF Next, LastStart
<1>5. WireByPlace
  BY WireElements DEF WireInStep
<1>6. WireByPlace'
  <2>1. (udp \in Seq(Datagram) /\ StartsInStep)'
    BY <1>4 DEF WireInStep
  <2>2. (udp \in Seq(Datagram) /\ StartsInStep => WireByPlace)'
    BY WireElements, PTL
  <2> QED
    BY <2>1, <2>2
<1>7. /\ LastStart \in Nat /\ Len(udp) \in Nat /\ Len(udp') \in Nat /\ LastStart <= Len(udp)
      /\ Len(Wire) = Len(udp) - LastStart /\ Len(Wire') = Len(udp') - LastStart
      /\ \A m \in LastStart + 1 .. Len(udp') : Wire'[m - LastStart] = udp'[m]
  BY <1>4, <1>5, <1>6 DEF WireByPlace, WireInStep, StartsInStep
<1>8. /\ k - LastStart \in 1 .. Len(Wire') /\ k - LastStart \notin 1 .. Len(Wire)
      /\ Wire'[k - LastStart] = udp'[k]
      /\ k - LastStart = Len(Wire') => k = Len(udp')
  <2>1. k \in Nat /\ k > Len(udp) /\ k <= Len(udp') /\ k \in LastStart + 1 .. Len(udp')
    BY <1>7
  <2>2. Wire'[k - LastStart] = udp'[k]
    BY <1>7, <2>1
  <2>3. k - LastStart \in Nat /\ k - LastStart >= 1 /\ k - LastStart <= Len(Wire')
        /\ ~(k - LastStart <= Len(Wire))
    BY <1>7, <2>1
  <2>4. k - LastStart = Len(Wire') => k = Len(udp')
    <3>1. LastStart \in Nat /\ Len(udp') \in Nat /\ Len(Wire') = Len(udp') - LastStart
      BY <1>7
    <3> QED
      BY <2>1, <3>1
  <2> QED
    BY <1>7, <2>2, <2>3, <2>4
<1>9. Run!SendNextPkt
  BY <1>3, <1>8
<1>10. Run!TypeOK
  BY DEF WireInStep, Run!PackagerInv
<1> DEFINE n == k - LastStart
<1>11. n \in 1 .. Len(Wire') /\ n \notin 1 .. Len(Wire) /\ Wire'[n] = udp'[k]
       /\ (n = Len(Wire') => k = Len(udp'))
  BY <1>8
<1> HIDE DEF n
<1> QED
  BY <1>9, <1>10, <1>11, RunAssumptions, Run!AppendedDatagrams

\* What a call does to the queue and the encoder.
LEMMA SendEffect ==
    ASSUME WireInStep, Send
    PROVE  /\ rtp_queue # <<>> /\ rtp_queue \in Seq(Packet) /\ enc \in Seq(Packet)
           /\ Head(rtp_queue) = rtp_queue[1] /\ Head(rtp_queue) \in Packet
           /\ rtp_queue' = Tail(rtp_queue) /\ next_seq' = next_seq
           /\ Len(rtp_queue) \in Nat /\ Len(rtp_queue) > 0
           /\ Len(rtp_queue') = Len(rtp_queue) - 1
           /\ \A n \in 1 .. Len(rtp_queue') : rtp_queue'[n] = rtp_queue[n + 1]
           /\ \/ enc' = enc \/ enc' = <<>>
              \/ enc' = Append(enc, Head(rtp_queue))
              \/ enc' = Append(<<>>, Head(rtp_queue))
           /\ UNCHANGED <<produced, starts>>
<1>1. /\ rtp_queue \in Seq(Packet) /\ enc \in Seq(Packet)
  BY RunDatagrams DEF WireInStep, Run!PackagerInv, Run!TypeOK, Run!Packet, Packet
<1>2. rtp_queue # <<>> /\ rtp_queue' = Tail(rtp_queue) /\ next_seq' = next_seq
  BY DEF Send, Server!SendNextPkt, Server!EncodeFails, Server!RecoverySendFails,
       Server!SendFragment, Server!AddShardFails, Server!BlockIdOverflow, Server!PopPacket
<1>3. \/ enc' = enc \/ enc' = <<>>
      \/ enc' = Append(enc, Head(rtp_queue))
      \/ enc' = Append(<<>>, Head(rtp_queue))
  BY DEF Send, Server!SendNextPkt, Server!EncodeFails, Server!RecoverySendFails,
       Server!SendFragment, Server!AddShardFails, Server!BlockIdOverflow,
       Server!ShardsBefore, Server!blockVars
<1>4. /\ Head(rtp_queue) = rtp_queue[1] /\ Head(rtp_queue) \in Packet
      /\ Len(rtp_queue) \in Nat /\ Len(rtp_queue) > 0
      /\ Len(rtp_queue') = Len(rtp_queue) - 1
      /\ \A n \in 1 .. Len(rtp_queue') : rtp_queue'[n] = rtp_queue[n + 1]
  <2> DEFINE P == Packet
  <2>1. rtp_queue \in Seq(P)
    BY <1>1
  <2> HIDE DEF P
  <2>2. /\ Head(rtp_queue) = rtp_queue[1] /\ Head(rtp_queue) \in P
        /\ Len(rtp_queue) \in Nat /\ Len(rtp_queue) > 0
    BY <1>2, <2>1
  <2>3. /\ Len(Tail(rtp_queue)) = Len(rtp_queue) - 1
        /\ \A n \in 1 .. Len(Tail(rtp_queue)) : Tail(rtp_queue)[n] = rtp_queue[n + 1]
    BY <1>2, <2>1, HeadTailProperties
  <2> QED
    BY <1>2, <2>2, <2>3 DEF P
<1> QED
  BY <1>1, <1>2, <1>3, <1>4 DEF Send

\* What a frame does.
LEMMA ProduceEffect ==
    ASSUME WireInStep, Produce
    PROVE  /\ rtp_queue = <<>> /\ Len(rtp_queue') \in Nat /\ Len(rtp_queue') > 0
           /\ rtp_queue' \in Seq(Packet) /\ next_seq \in Nat
           /\ next_seq' = next_seq + Len(rtp_queue')
           /\ \A n \in 1 .. Len(rtp_queue') : rtp_queue'[n].seq = next_seq + n - 1
           /\ produced' = produced \o rtp_queue'
           /\ UNCHANGED <<enc, udp, starts, current_block_id,
                          current_regular_fragment_index, id_wrapped, status>>
<1>1. next_seq \in Nat
  BY DEF WireInStep, Run!PackagerInv, Run!TypeOK
<1>2. PICK n \in 1 .. MaxFrame :
         /\ next_seq' = next_seq + n
         /\ \E sizes \in [1 .. n -> Sizes] :
              rtp_queue' = [k \in 1 .. n |-> [seq |-> next_seq + k - 1, size |-> sizes[k]]]
  BY DEF Produce, Server!ProcessFrame
<1>3. PICK sizes \in [1 .. n -> Sizes] :
         rtp_queue' = [k \in 1 .. n |-> [seq |-> next_seq + k - 1, size |-> sizes[k]]]
  BY <1>2
<1>4. n \in Nat /\ n > 0
  OBVIOUS
<1>5. /\ Len(rtp_queue') = n
      /\ \A k \in 1 .. n : rtp_queue'[k].seq = next_seq + k - 1
  BY <1>3, <1>4
<1>6. rtp_queue' \in Seq(Packet)
  <2>1. \A k \in 1 .. n : [seq |-> next_seq + k - 1, size |-> sizes[k]] \in Packet
    BY <1>1 DEF Packet
  <2> QED
    BY <1>3, <1>4, <2>1
<1> QED
  BY <1>1, <1>2, <1>4, <1>5, <1>6
  DEF Produce, Server!ProcessFrame, Server!labelVars, Server!blockVars

\* The packets a datagram carries.
Carried(d) == IF d.recovery_pkt THEN {d.body.code[i] : i \in Index} ELSE {d.body}

Produced == {produced[n] : n \in 1 .. Len(produced)}

\* All of the stream comes from the packetizer.
StreamPackets ==
    /\ produced \in Seq(Packet)
    /\ \A n \in 1 .. Len(rtp_queue) : rtp_queue[n] \in Produced
    /\ \A n \in 1 .. Len(enc) : enc[n] \in Produced
    /\ \A k \in 1 .. Len(udp) : Carried(udp[k]) \subseteq Produced

\* Indices count from 0, places in the encoder from 1.
LEMMA IndexShift ==
    /\ \A i \in Index : i + 1 \in 1 .. Regular
    /\ \A n \in 1 .. Regular : n - 1 \in Index /\ (n - 1) + 1 = n
BY DEF Index

\* The packets of a new datagram come from the encoder or are the queue's first.
LEMMA NewCarried ==
    ASSUME WireInStep, Send, NEW k \in Len(udp) + 1 .. Len(udp')
    PROVE  \/ /\ Run!EncodeDue /\ Run!EncoderFull
              /\ udp'[k].recovery_pkt /\ udp'[k].block_id = current_block_id - 1
              /\ Len(enc) = Regular
              /\ Carried(udp'[k]) = {enc[n] : n \in 1 .. Regular}
              /\ \A i \in Index : udp'[k].body.code[i] = enc[i + 1]
           \/ /\ Run!SendFragment
              /\ k = Len(udp') /\ ~udp'[k].recovery_pkt
              /\ udp'[k].block_id = current_block_id
              /\ Carried(udp'[k]) = {rtp_queue[1]}
<1>1. CASE /\ Run!EncodeDue /\ Run!EncoderFull
           /\ udp'[k].recovery_pkt
           /\ udp'[k].block_id = current_block_id - 1
           /\ udp'[k].body.code = Run!EncodedBlock
  <2>1. \A i \in Index : udp'[k].body.code[i] = enc[i + 1]
    BY <1>1 DEF Run!EncodedBlock, Run!Index, Index
  <2>2. Carried(udp'[k]) = {enc[i + 1] : i \in Index}
    BY <1>1, <2>1 DEF Carried
  <2>3. {enc[i + 1] : i \in Index} = {enc[n] : n \in 1 .. Regular}
    BY IndexShift
  <2>4. Len(enc) = Regular
    BY <1>1 DEF Run!EncoderFull
  <2> QED
    BY <1>1, <2>1, <2>2, <2>3, <2>4
<1>2. CASE /\ Run!SendFragment
           /\ k = Len(udp')
           /\ ~udp'[k].recovery_pkt
           /\ udp'[k].block_id = current_block_id
           /\ udp'[k].body = Head(rtp_queue)
  BY <1>2, SendEffect DEF Carried
<1> QED
  BY <1>1, <1>2, NewDatagrams

\* Every step leaves the stream to the packetizer.
LEMMA StreamPacketsPreserved ==
    ASSUME WireInStep, StreamPackets, [Next]_vars
    PROVE  StreamPackets'
<1>1. CASE Produce
  <2> DEFINE P == Packet
  <2>1. /\ produced \in Seq(P) /\ rtp_queue' \in Seq(P) /\ produced' = produced \o rtp_queue'
        /\ UNCHANGED <<enc, udp>>
    BY <1>1, ProduceEffect DEF StreamPackets
  <2> HIDE DEF P
  <2>2. /\ produced' \in Seq(P) /\ Len(produced') = Len(produced) + Len(rtp_queue')
        /\ Len(produced) \in Nat /\ Len(rtp_queue') \in Nat
        /\ \A i \in 1 .. Len(produced) + Len(rtp_queue') :
              produced'[i] = IF i <= Len(produced) THEN produced[i]
                                                   ELSE rtp_queue'[i - Len(produced)]
    BY <2>1, ConcatProperties
  <2>3. Produced \subseteq Produced'
    <3>1. \A i \in 1 .. Len(produced) : i \in 1 .. Len(produced') /\ produced'[i] = produced[i]
      BY <2>2
    <3> QED
      BY <3>1 DEF Produced
  <2>4. \A n \in 1 .. Len(rtp_queue') : rtp_queue'[n] \in Produced'
    <3> SUFFICES ASSUME NEW n \in 1 .. Len(rtp_queue')
                 PROVE  rtp_queue'[n] \in Produced'
      OBVIOUS
    <3> DEFINE l == Len(produced)
               i == l + n
    <3>1. l \in Nat /\ n \in Nat /\ n >= 1 /\ n <= Len(rtp_queue')
      BY <2>2
    <3>2. /\ i \in 1 .. Len(produced) + Len(rtp_queue')
          /\ ~(i <= Len(produced)) /\ i - Len(produced) = n
      BY <2>2, <3>1
    <3> HIDE DEF i, l
    <3>3. i \in 1 .. Len(produced') /\ produced'[i] = rtp_queue'[n]
      BY <2>2, <3>2
    <3> QED
      BY <3>3 DEF Produced
  <2> QED
    BY <2>1, <2>2, <2>3, <2>4 DEF StreamPackets, P
<1>2. CASE Send
  <2>1. Produced' = Produced /\ produced' = produced
    BY <1>2, SendEffect DEF Produced
  <2>2. \A n \in 1 .. Len(rtp_queue') : rtp_queue'[n] \in Produced
    <3>1. \A n \in 1 .. Len(rtp_queue') :
             n + 1 \in 1 .. Len(rtp_queue) /\ rtp_queue'[n] = rtp_queue[n + 1]
      BY <1>2, SendEffect
    <3> QED
      BY <3>1 DEF StreamPackets
  <2>3. rtp_queue[1] \in Produced
    BY <1>2, SendEffect DEF StreamPackets
  <2>4. \A n \in 1 .. Len(enc') : enc'[n] \in Produced
    <3> DEFINE P == Packet
               h == rtp_queue[1]
    <3>1. /\ enc \in Seq(P) /\ h \in P
          /\ enc' = enc \/ enc' = <<>> \/ enc' = Append(enc, h) \/ enc' = Append(<<>>, h)
          /\ \A n \in 1 .. Len(enc) : enc[n] \in Produced
          /\ h \in Produced
      BY <1>2, <2>3, SendEffect DEF StreamPackets
    <3> HIDE DEF P, h
    <3>2. CASE enc' = enc \/ enc' = <<>>
      BY <3>1, <3>2
    <3>3. ASSUME NEW s \in Seq(P), \A n \in 1 .. Len(s) : s[n] \in Produced, enc' = Append(s, h)
          PROVE  \A n \in 1 .. Len(enc') : enc'[n] \in Produced
      BY <3>1, <3>3
    <3>4. <<>> \in Seq(P) /\ \A n \in 1 .. Len(<<>>) : <<>>[n] \in Produced
      OBVIOUS
    <3> QED
      BY <3>1, <3>2, <3>3, <3>4
  <2>5. ASSUME NEW k \in 1 .. Len(udp')
        PROVE  Carried(udp'[k]) \subseteq Produced
    <3>1. CASE k \in 1 .. Len(udp)
      BY <1>2, <3>1, WireOnlyGrows DEF Next, StreamPackets
    <3>2. CASE k \notin 1 .. Len(udp)
      <4>1. k \in Len(udp) + 1 .. Len(udp')
        BY <1>2, <3>2, WireOnlyGrows DEF Next
      <4>2. \/ Len(enc) = Regular /\ Carried(udp'[k]) = {enc[n] : n \in 1 .. Regular}
            \/ Carried(udp'[k]) = {rtp_queue[1]}
        BY <1>2, <4>1, NewCarried
      <4> QED
        BY <2>3, <4>2 DEF StreamPackets
    <3> QED
      BY <3>1, <3>2
  <2> QED
    BY <2>1, <2>2, <2>4, <2>5 DEF StreamPackets
<1>3. CASE RestartServer
  <2>1. Len(rtp_queue') = 0 /\ Len(enc') = 0 /\ UNCHANGED <<udp, produced>>
    BY <1>3 DEF RestartServer
  <2>2. 1 .. Len(rtp_queue') = {} /\ 1 .. Len(enc') = {} /\ Produced' = Produced
    BY <2>1 DEF Produced
  <2> QED
    BY <2>1, <2>2 DEF StreamPackets
<1>4. CASE Arrive \/ RecvFails \/ Decode \/ UNCHANGED vars
  <2>1. UNCHANGED <<udp, produced, rtp_queue, enc>>
    BY <1>4 DEF Arrive, RecvFails, Decode, vars, serverVars
  <2> QED
    BY <2>1 DEF StreamPackets, Produced
<1> QED
  BY <1>1, <1>2, <1>3, <1>4 DEF Next

-----------------------------------------------------------------------------
(***************************************************************************)
(* Their order.  Whatever has been sent comes before what is queued; the   *)
(* encoder holds packets in order, and behind those of all datagrams but   *)
(* of the fragments of its own block.                                      *)
(***************************************************************************)
Early(p, next, queue) == p.seq < next /\ \A n \in 1 .. Len(queue) : p.seq < queue[n].seq

QueueBehind ==
    /\ \A n \in 1 .. Len(enc) : Early(enc[n], next_seq, rtp_queue)
    /\ \A k \in 1 .. Len(udp) : \A p \in Carried(udp[k]) : Early(p, next_seq, rtp_queue)

CodesOrdered ==
    /\ \A m, n \in 1 .. Len(enc) : m < n => enc[m].seq < enc[n].seq
    /\ \A k \in 1 .. Len(udp) : udp[k].recovery_pkt =>
          \A i, j \in Index : i < j => udp[k].body.code[i].seq < udp[k].body.code[j].seq

\* The block whose packets the encoder holds.
EncodedId == IF Run!EncodeDue /\ Run!EncoderFull THEN current_block_id - 1 ELSE current_block_id

EncoderBehind ==
    Run!Labelling =>
        \A j \in 1 .. Len(udp) : \A p \in Carried(udp[j]) :
            \/ \A n \in 1 .. Len(enc) : p.seq < enc[n].seq
            \/ j > LastStart /\ udp[j].block_id = EncodedId

\* Two places of one block of one run.
SameBlock(j, k) == SameRun(j, k) /\ udp[j].block_id = udp[k].block_id

\* A later datagram carries later packets, unless it is a shard of the same block.
PacketsOrdered ==
    \A j, k \in 1 .. Len(udp) : j < k =>
        \/ SameBlock(j, k) /\ udp[k].recovery_pkt
        \/ \A p \in Carried(udp[j]), q \in Carried(udp[k]) : p.seq < q.seq

\* A call of the server is one of the packager's of its present run.
LEMMA SendIsRun ==
    ASSUME WireInStep, Send
    PROVE  Run!SendNextPkt /\ LastStart' = LastStart
<1>1. Run!Next
  BY ServerCall DEF Send
<1>2. ~Run!ProcessFrame
  BY SendEffect DEF Run!ProcessFrame
<1> QED
  BY <1>1, <1>2 DEF Run!Next, Send, LastStart

\* Datagrams carry packets.
LEMMA CarriedPackets ==
    ASSUME udp \in Seq(Datagram), NEW k \in 1 .. Len(udp), NEW p \in Carried(udp[k])
    PROVE  p \in Packet /\ p.seq \in Nat
<1>1. udp[k] \in Datagram
  <2> DEFINE D == Datagram
  <2>1. udp \in Seq(D)
    OBVIOUS
  <2> HIDE DEF D
  <2>2. udp[k] \in D
    BY <2>1
  <2> QED
    BY <2>2 DEF D
<1>2. p \in Packet
  <2>1. CASE udp[k].recovery_pkt
    BY <1>1, <2>1, DatagramFields DEF Carried, Codeword
  <2>2. CASE ~udp[k].recovery_pkt
    BY <1>1, <2>2, DatagramFields DEF Carried
  <2> QED
    BY <2>1, <2>2
<1> QED
  BY <1>2 DEF Packet

\* What is early stays so, and the packet a call takes is the next.
LEMMA EarlyStays ==
    ASSUME WireInStep, [Next]_vars, NEW p, p.seq \in Nat, Early(p, next_seq, rtp_queue)
    PROVE  Early(p, next_seq', rtp_queue')
<1>1. CASE Produce
  <2>1. /\ next_seq \in Nat /\ Len(rtp_queue') \in Nat /\ next_seq' = next_seq + Len(rtp_queue')
        /\ \A n \in 1 .. Len(rtp_queue') : rtp_queue'[n].seq = next_seq + n - 1
    BY <1>1, ProduceEffect
  <2>2. p.seq < next_seq
    BY DEF Early
  <2>3. p.seq < next_seq'
    BY <2>1, <2>2
  <2>4. ASSUME NEW n \in 1 .. Len(rtp_queue') PROVE p.seq < rtp_queue'[n].seq
    BY <2>1, <2>2
  <2> QED
    BY <2>3, <2>4 DEF Early
<1>2. CASE Send
  <2>1. /\ next_seq' = next_seq /\ Len(rtp_queue) \in Nat /\ Len(rtp_queue') = Len(rtp_queue) - 1
        /\ \A n \in 1 .. Len(rtp_queue') : rtp_queue'[n] = rtp_queue[n + 1]
    BY <1>2, SendEffect
  <2>2. \A n \in 1 .. Len(rtp_queue') : n + 1 \in 1 .. Len(rtp_queue)
    BY <2>1
  <2> QED
    BY <2>1, <2>2 DEF Early
<1>3. CASE RestartServer
  <2>1. next_seq' = next_seq /\ rtp_queue' = <<>>
    BY <1>3 DEF RestartServer
  <2>2. 1 .. Len(rtp_queue') = {}
    BY <2>1
  <2> QED
    BY <2>1, <2>2 DEF Early
<1>4. CASE Arrive \/ RecvFails \/ Decode \/ UNCHANGED vars
  BY <1>4 DEF Arrive, RecvFails, Decode, vars, serverVars
<1> QED
  BY <1>1, <1>2, <1>3, <1>4 DEF Next

LEMMA HeadIsNext ==
    ASSUME WireInStep, Send
    PROVE  /\ rtp_queue[1] \in Packet /\ rtp_queue[1].seq \in Nat
           /\ Early(rtp_queue[1], next_seq', rtp_queue')
           /\ \A p : Early(p, next_seq, rtp_queue) => p.seq < rtp_queue[1].seq
<1>1. /\ next_seq' = next_seq /\ Len(rtp_queue) \in Nat /\ Len(rtp_queue) > 0
      /\ Len(rtp_queue') = Len(rtp_queue) - 1 /\ rtp_queue[1] \in Packet
      /\ \A n \in 1 .. Len(rtp_queue') : rtp_queue'[n] = rtp_queue[n + 1]
  BY SendEffect
<1>2. /\ 1 \in 1 .. Len(rtp_queue)
      /\ \A n \in 1 .. Len(rtp_queue') : n + 1 \in 1 .. Len(rtp_queue) /\ 1 < n + 1
  BY <1>1
<1>3. /\ \A k \in 1 .. Len(rtp_queue) : rtp_queue[k].seq < next_seq
      /\ \A j, k \in 1 .. Len(rtp_queue) : j < k => rtp_queue[j].seq < rtp_queue[k].seq
  BY DEF WireInStep, Run!PackagerInv, Run!QueueOrdered
<1>4. Early(rtp_queue[1], next_seq', rtp_queue')
  BY <1>1, <1>2, <1>3 DEF Early
<1> QED
  BY <1>1, <1>2, <1>4 DEF Early, Packet

\* The encoder keeps its packets, forgets them, and takes the queue's first.
LEMMA EncoderGrowth ==
    ASSUME WireInStep, Send
    PROVE  /\ Len(enc) \in Nat /\ Len(enc') \in Nat
           /\ \A n \in 1 .. Len(enc) : enc[n] \in Packet /\ enc[n].seq \in Nat
           /\ \A n \in 1 .. Len(enc') :
                 \/ n \in 1 .. Len(enc) /\ enc'[n] = enc[n]
                 \/ n = Len(enc') /\ enc'[n] = rtp_queue[1]
<1> DEFINE P == Packet
           h == rtp_queue[1]
<1>1. /\ enc \in Seq(P) /\ h \in P
      /\ enc' = enc \/ enc' = <<>> \/ enc' = Append(enc, h) \/ enc' = Append(<<>>, h)
  BY SendEffect
<1> HIDE DEF P, h
<1>2. Len(enc) \in Nat /\ \A n \in 1 .. Len(enc) : enc[n] \in P
  BY <1>1
<1>3. CASE enc' = enc \/ enc' = <<>>
  BY <1>1, <1>2, <1>3 DEF P, Packet
<1>4. ASSUME NEW s \in Seq(P), s = enc \/ s = <<>>, enc' = Append(s, h)
      PROVE  /\ Len(enc') \in Nat
             /\ \A n \in 1 .. Len(enc') :
                   \/ n \in 1 .. Len(enc) /\ enc'[n] = enc[n]
                   \/ n = Len(enc') /\ enc'[n] = h
  BY <1>1, <1>2, <1>4
<1>5. \A n \in 1 .. Len(enc) : enc[n].seq \in Nat
  BY <1>2 DEF P, Packet
<1>6. <<>> \in Seq(P)
  OBVIOUS
<1>7. ASSUME enc' = Append(enc, h) \/ enc' = Append(<<>>, h)
      PROVE  /\ Len(enc') \in Nat
             /\ \A n \in 1 .. Len(enc') :
                   \/ n \in 1 .. Len(enc) /\ enc'[n] = enc[n]
                   \/ n = Len(enc') /\ enc'[n] = h
  <2>1. CASE enc' = Append(enc, h)
    BY <1>1, <1>4, <2>1
  <2>2. CASE enc' = Append(<<>>, h)
    BY <1>4, <1>6, <2>2
  <2> QED
    BY <1>7, <2>1, <2>2
<1> QED
  BY <1>1, <1>2, <1>3, <1>5, <1>7 DEF P, h

LEMMA QueueBehindPreserved ==
    ASSUME WireInStep, QueueBehind, [Next]_vars
    PROVE  QueueBehind'
<1>1. udp \in Seq(Datagram)
  BY DEF WireInStep
<1>2. \A k \in 1 .. Len(udp) : \A p \in Carried(udp[k]) : Early(p, next_seq', rtp_queue')
  BY <1>1, CarriedPackets, EarlyStays DEF QueueBehind
<1>3. CASE Send
  <2>1. \A n \in 1 .. Len(enc) : Early(enc[n], next_seq', rtp_queue')
    BY <1>3, EncoderGrowth, EarlyStays DEF QueueBehind
  <2>2. Early(rtp_queue[1], next_seq', rtp_queue')
    BY <1>3, HeadIsNext
  <2>3. \A n \in 1 .. Len(enc') : Early(enc'[n], next_seq', rtp_queue')
    BY <1>3, <2>1, <2>2, EncoderGrowth
  <2>4. ASSUME NEW k \in 1 .. Len(udp'), NEW p \in Carried(udp'[k])
        PROVE  Early(p, next_seq', rtp_queue')
    <3>1. CASE k \in 1 .. Len(udp)
      BY <1>2, <2>4, <3>1, WireOnlyGrows
    <3>2. CASE k \notin 1 .. Len(udp)
      <4>1. k \in Len(udp) + 1 .. Len(udp')
        BY <3>2, WireOnlyGrows
      <4>2. \/ Len(enc) = Regular /\ Carried(udp'[k]) = {enc[n] : n \in 1 .. Regular}
            \/ Carried(udp'[k]) = {rtp_queue[1]}
        BY <1>3, <4>1, NewCarried
      <4> QED
        BY <2>1, <2>2, <2>4, <4>2
    <3> QED
      BY <3>1, <3>2
  <2> QED
    BY <2>3, <2>4 DEF QueueBehind
<1>4. CASE RestartServer
  <2>1. enc' = <<>> /\ udp' = udp
    BY <1>4 DEF RestartServer
  <2>2. 1 .. Len(enc') = {}
    BY <2>1
  <2> QED
    BY <1>2, <2>1, <2>2 DEF QueueBehind
<1>5. CASE Produce \/ Arrive \/ RecvFails \/ Decode \/ UNCHANGED vars
  <2>1. UNCHANGED <<enc, udp>>
    BY <1>5, ProduceEffect DEF Arrive, RecvFails, Decode, vars, serverVars
  <2>2. \A n \in 1 .. Len(enc) : Early(enc[n], next_seq', rtp_queue')
    <3>1. \A n \in 1 .. Len(enc) : enc[n].seq \in Nat
      <4> DEFINE P == Packet
      <4>1. enc \in Seq(P)
        BY RunDatagrams DEF WireInStep, Run!PackagerInv, Run!TypeOK, Run!Packet, Packet
      <4> HIDE DEF P
      <4>2. \A n \in 1 .. Len(enc) : enc[n] \in P
        BY <4>1
      <4> QED
        BY <4>2 DEF P, Packet
    <3> QED
      BY <3>1, EarlyStays DEF QueueBehind
  <2> QED
    BY <1>2, <2>1, <2>2 DEF QueueBehind
<1> QED
  BY <1>3, <1>4, <1>5 DEF Next

LEMMA CodesOrderedPreserved ==
    ASSUME WireInStep, QueueBehind, CodesOrdered, [Next]_vars
    PROVE  CodesOrdered'
<1>1. CASE Send
  <2>1. /\ Len(enc) \in Nat /\ Len(enc') \in Nat
        /\ \A n \in 1 .. Len(enc') :
              \/ n \in 1 .. Len(enc) /\ enc'[n] = enc[n]
              \/ n = Len(enc') /\ enc'[n] = rtp_queue[1]
    BY <1>1, EncoderGrowth
  <2>2. \A n \in 1 .. Len(enc) : enc[n].seq < rtp_queue[1].seq
    BY <1>1, HeadIsNext DEF QueueBehind
  <2>3. ASSUME NEW m \in 1 .. Len(enc'), NEW n \in 1 .. Len(enc'), m < n
        PROVE  enc'[m].seq < enc'[n].seq
    <3>1. m \in 1 .. Len(enc) /\ enc'[m] = enc[m]
      BY <2>1, <2>3
    <3> QED
      BY <2>1, <2>2, <2>3, <3>1 DEF CodesOrdered
  <2>4. ASSUME NEW k \in 1 .. Len(udp'), udp'[k].recovery_pkt,
               NEW i \in Index, NEW j \in Index, i < j
        PROVE  udp'[k].body.code[i].seq < udp'[k].body.code[j].seq
    <3>1. CASE k \in 1 .. Len(udp)
      BY <2>4, <3>1, WireOnlyGrows DEF CodesOrdered
    <3>2. CASE k \notin 1 .. Len(udp)
      <4>1. k \in Len(udp) + 1 .. Len(udp')
        BY <3>2, WireOnlyGrows
      <4>2. Len(enc) = Regular /\ \A n \in Index : udp'[k].body.code[n] = enc[n + 1]
        BY <1>1, <2>4, <4>1, NewCarried
      <4>3. i + 1 \in 1 .. Len(enc) /\ j + 1 \in 1 .. Len(enc) /\ i + 1 < j + 1
        <5>1. i + 1 \in 1 .. Regular /\ j + 1 \in 1 .. Regular
          BY IndexShift
        <5>2. i \in Int /\ j \in Int
          BY DEF Index
        <5> QED
          BY <2>4, <4>2, <5>1, <5>2
      <4> QED
        BY <4>2, <4>3 DEF CodesOrdered
    <3> QED
      BY <3>1, <3>2
  <2> QED
    BY <2>3, <2>4 DEF CodesOrdered
<1>2. CASE RestartServer
  <2>1. enc' = <<>> /\ udp' = udp
    BY <1>2 DEF RestartServer
  <2>2. 1 .. Len(enc') = {}
    BY <2>1
  <2> QED
    BY <2>1, <2>2 DEF CodesOrdered
<1>3. CASE Produce \/ Arrive \/ RecvFails \/ Decode \/ UNCHANGED vars
  <2>1. UNCHANGED <<enc, udp>>
    BY <1>3, ProduceEffect DEF Arrive, RecvFails, Decode, vars, serverVars
  <2> QED
    BY <2>1 DEF CodesOrdered
<1> QED
  BY <1>1, <1>2, <1>3 DEF Next

\* A call leaves the labels good only if they were, and the thread running.
LEMMA LabellingBefore ==
    ASSUME WireInStep, Send, ~id_wrapped'
    PROVE  Run!Labelling
<1>1. Run!SendNextPkt
  BY SendIsRun
<1>2. status = "running" /\ (id_wrapped => id_wrapped')
  <2>1. CASE Run!EncodeFails
    BY <2>1 DEF Run!EncodeFails, Run!PopPacket, Run!labelVars
  <2>2. CASE Run!RecoverySendFails
    BY <2>2 DEF Run!RecoverySendFails, Run!PopPacket, Run!labelVars
  <2>3. CASE Run!SendFragment
    BY <2>3 DEF Run!SendFragment, Run!PopPacket, Run!LabelPacket, Run!AdvanceLabel
  <2>4. CASE Run!AddShardFails
    BY <2>4 DEF Run!AddShardFails, Run!PopPacket, Run!LabelPacket, Run!AdvanceLabel
  <2>5. CASE Run!BlockIdOverflow
    BY <2>5 DEF Run!BlockIdOverflow, Run!PopPacket
  <2> QED
    BY <1>1, <2>1, <2>2, <2>3, <2>4, <2>5 DEF Run!SendNextPkt
<1> QED
  BY <1>2 DEF Run!Labelling

\* After a fragment is sent the encoder holds packets of its block.
LEMMA BlockAfterFragment ==
    ASSUME WireInStep, Run!SendFragment, Run!Labelling, ~id_wrapped'
    PROVE  EncodedId' = current_block_id
<1>1. /\ rtp_queue # <<>> /\ Run!EncodeDue = Run!EncoderFull
      /\ current_regular_fragment_index' = Run!NextFragmentIndex
      /\ current_block_id' = IF Run!NextFragmentIndex # 0 THEN current_block_id
                             ELSE IF Run!Overflows THEN 0 ELSE current_block_id + 1
      /\ id_wrapped' = (id_wrapped \/ Run!Overflows)
      /\ enc' = Append(Run!ShardsBefore(Run!EncodeDue), Head(rtp_queue))
  BY DEF Run!SendFragment, Run!PopPacket, Run!LabelPacket, Run!AdvanceLabel
<1>2. /\ current_block_id \in Nat /\ current_regular_fragment_index \in Index
      /\ rtp_queue \in Seq(Packet) /\ enc \in Seq(Packet)
      /\ Run!EncoderInStep
  BY RunDatagrams DEF WireInStep, Run!PackagerInv, Run!TypeOK, Run!Packet, Packet, Run!Index, Index
<1>3. CASE Run!NextFragmentIndex # 0
  BY <1>1, <1>3 DEF EncodedId, Run!EncodeDue
<1>4. CASE Run!NextFragmentIndex = 0
  <2>1. current_regular_fragment_index = Regular - 1
    <3>1. current_regular_fragment_index \in Nat
      BY <1>2 DEF Index
    <3>2. (current_regular_fragment_index + 1) % Regular
             = IF current_regular_fragment_index = Regular - 1 THEN 0
               ELSE current_regular_fragment_index + 1
      BY <1>2, NextIndex
    <3>3. (current_regular_fragment_index + 1) % Regular = 0
      BY <1>4 DEF Run!NextFragmentIndex
    <3> QED
      BY <3>1, <3>2, <3>3
  <2>2. current_regular_fragment_index' = 0 /\ current_block_id' = current_block_id + 1
    BY <1>1, <1>4
  <2>3. Run!EncodeDue'
    BY <1>2, <2>2 DEF Run!EncodeDue
  <2>4. Len(enc') = Regular
    <3> DEFINE P == Packet
               h == Head(rtp_queue)
    <3>1. h \in P /\ enc \in Seq(P)
      <4>1. rtp_queue \in Seq(P) /\ enc \in Seq(P)
        BY <1>2
      <4> HIDE DEF P
      <4> QED
        BY <1>1, <4>1
    <3> HIDE DEF P, h
    <3>2. CASE Run!EncodeDue
      <4>1. enc' = Append(<<>>, h)
        BY <1>1, <3>2 DEF Run!ShardsBefore, h
      <4>2. Len(enc') = 1
        BY <3>1, <4>1
      <4>3. Regular - 1 = 0
        BY <2>1, <3>2 DEF Run!EncodeDue
      <4> QED
        BY <4>2, <4>3
    <3>3. CASE ~Run!EncodeDue
      <4>1. enc' = Append(enc, h)
        BY <1>1, <3>3 DEF Run!ShardsBefore, h
      <4>2. Len(enc') = Len(enc) + 1
        BY <3>1, <4>1
      <4>3. Len(enc) = current_regular_fragment_index
        BY <1>2, <3>3 DEF Run!EncoderInStep, Run!Labelling, Run!Wedged
      <4> QED
        BY <2>1, <4>2, <4>3
    <3> QED
      BY <3>2, <3>3
  <2>5. current_block_id' - 1 = current_block_id
    BY <1>2, <2>2
  <2> QED
    BY <2>3, <2>4, <2>5 DEF EncodedId, Run!EncoderFull
<1> QED
  BY <1>3, <1>4

LEMMA EncoderBehindPreserved ==
    ASSUME WireInStep, QueueBehind, EncoderBehind, [Next]_vars
    PROVE  EncoderBehind'
<1>1. CASE Send
  <2>1. SUFFICES ASSUME Run!Labelling', NEW j \in 1 .. Len(udp'), NEW p \in Carried(udp'[j])
                 PROVE  \/ \A n \in 1 .. Len(enc') : p.seq < enc'[n].seq
                        \/ j > LastStart' /\ udp'[j].block_id = EncodedId'
    BY DEF EncoderBehind
  <2>2. Run!Labelling /\ Run!SendNextPkt /\ LastStart' = LastStart
    BY <1>1, <2>1, LabellingBefore, SendIsRun DEF Run!Labelling
  <2>3. /\ Len(udp) \in Nat /\ Len(udp') \in Nat /\ Len(udp) <= Len(udp')
        /\ \A k \in 1 .. Len(udp) : udp'[k] = udp[k]
    BY WireOnlyGrows
  <2>4. /\ \A n \in 1 .. Len(enc) : enc[n].seq < rtp_queue[1].seq
        /\ \A k \in 1 .. Len(udp) : \A q \in Carried(udp[k]) : q.seq < rtp_queue[1].seq
    BY <1>1, HeadIsNext DEF QueueBehind
  <2>5. j \in 1 .. Len(udp) \/ j \in Len(udp) + 1 .. Len(udp')
    BY <2>3
  <2>6. CASE enc' = <<>>
    <3>1. 1 .. Len(enc') = {}
      BY <2>6
    <3> QED
      BY <3>1
  <2>7. CASE Run!EncodeFails \/ Run!AddShardFails \/ Run!BlockIdOverflow
    <3>1. ~Run!BlockIdOverflow
      BY <2>1 DEF Run!BlockIdOverflow, Run!Labelling
    <3>2. ~Run!AddShardFails
      <4>1. Run!EncoderInStep /\ current_regular_fragment_index \in Index
        BY DEF WireInStep, Run!PackagerInv, Run!TypeOK, Run!Index, Index
      <4>2. current_regular_fragment_index # Regular
        BY <4>1 DEF Index
      <4> QED
        BY <2>2, <4>1, <4>2 DEF Run!AddShardFails, Run!EncoderInStep, Run!Labelling,
           Run!EncoderFull, Run!Wedged
    <3>3. Run!EncodeFails
      BY <2>7, <3>1, <3>2
    <3>4. j \in 1 .. Len(udp)
      BY <1>1, <2>5, <3>3, NewDatagrams DEF Run!EncodeFails, Run!SendFragment
    <3>5. UNCHANGED <<enc, EncodedId>>
      BY <3>3 DEF Run!EncodeFails, EncodedId, Run!EncodeDue, Run!EncoderFull, Run!labelVars,
         Run!blockVars
    <3> QED
      BY <2>1, <2>2, <2>3, <3>4, <3>5 DEF EncoderBehind
  <2>8. CASE Run!SendFragment
    <3>1. EncodedId' = current_block_id
      BY <2>1, <2>2, <2>8, BlockAfterFragment DEF Run!Labelling
    <3>2. \A n \in 1 .. Len(enc') :
             \/ n \in 1 .. Len(enc) /\ enc'[n] = enc[n]
             \/ n = Len(enc') /\ enc'[n] = rtp_queue[1]
      BY <1>1, EncoderGrowth
    <3>3. Run!EncodeDue => \A n \in 1 .. Len(enc') : enc'[n] = rtp_queue[1]
      <4> DEFINE P == Packet
                 h == rtp_queue[1]
      <4>1. h \in P /\ Head(rtp_queue) = h
        BY <1>1, SendEffect
      <4>2. Run!EncodeDue => enc' = Append(<<>>, h)
        BY <2>8, <4>1 DEF Run!SendFragment, Run!ShardsBefore
      <4> HIDE DEF P, h
      <4>3. <<>> \in Seq(P)
        OBVIOUS
      <4>4. Run!EncodeDue => Len(enc') = 1 /\ enc'[1] = h
        BY <4>1, <4>2, <4>3
      <4>5. \A n \in 1 .. 1 : n = 1
        OBVIOUS
      <4> QED
        BY <4>4, <4>5 DEF h
    <3>4. CASE j \in 1 .. Len(udp)
      <4>1. p \in Carried(udp[j]) /\ udp'[j] = udp[j] /\ p.seq < rtp_queue[1].seq
        BY <2>1, <2>3, <2>4, <3>4
      <4>2. CASE Run!EncodeDue
        BY <3>3, <4>1, <4>2
      <4>3. CASE ~Run!EncodeDue
        <5>1. EncodedId = current_block_id
          BY <4>3 DEF EncodedId
        <5> QED
          BY <2>2, <3>1, <3>2, <3>4, <4>1, <5>1 DEF EncoderBehind
      <4> QED
        BY <4>2, <4>3
    <3>5. CASE j \in Len(udp) + 1 .. Len(udp')
      <4>1. \/ /\ Run!EncodeDue /\ Len(enc) = Regular
               /\ Carried(udp'[j]) = {enc[n] : n \in 1 .. Regular}
            \/ udp'[j].block_id = current_block_id
        BY <1>1, <3>5, NewCarried
      <4>2. j > LastStart'
        BY <2>2, <2>3, <3>5 DEF WireInStep, StartsInStep
      <4> QED
        BY <2>1, <2>4, <3>1, <3>3, <4>1, <4>2
    <3> QED
      BY <2>5, <3>4, <3>5
  <2> QED
    BY <2>2, <2>6, <2>7, <2>8 DEF Run!SendNextPkt, Run!RecoverySendFails
<1>2. CASE RestartServer
  <2>1. enc' = <<>>
    BY <1>2 DEF RestartServer
  <2>2. 1 .. Len(enc') = {}
    BY <2>1
  <2> QED
    BY <2>2 DEF EncoderBehind
<1>3. CASE Produce \/ Arrive \/ RecvFails \/ Decode \/ UNCHANGED vars
  <2>1. UNCHANGED <<enc, udp, starts, status, id_wrapped, current_block_id,
                    current_regular_fragment_index>>
    BY <1>3, ProduceEffect DEF Arrive, RecvFails, Decode, vars, serverVars
  <2>2. UNCHANGED <<LastStart, EncodedId, Run!Labelling>>
    BY <2>1 DEF LastStart, EncodedId, Run!Labelling, Run!EncodeDue, Run!EncoderFull
  <2> QED
    BY <2>1, <2>2 DEF EncoderBehind
<1> QED
  BY <1>1, <1>2, <1>3 DEF Next

\* Places of the run of a new one are of the present run.
LEMMA NewInPresentRun ==
    ASSUME WireInStep, Send, NEW j \in 1 .. Len(udp'), NEW k \in Len(udp) + 1 .. Len(udp')
    PROVE  /\ k > LastStart
           /\ SameRun(j, k)' => j > LastStart
           /\ j > LastStart => SameRun(j, k)'
<1>1. /\ starts' = starts /\ starts \in Seq(Nat) /\ LastStart \in Nat /\ LastStart <= Len(udp)
      /\ \A n \in 1 .. Len(starts) : starts[n] <= LastStart
      /\ Len(udp) \in Nat /\ Len(udp') \in Nat
  BY WireOnlyGrows DEF Send, WireInStep, StartsInStep, Next
<1>2. k \in Nat /\ j \in Nat /\ k > LastStart /\ Len(starts) \in Nat
  BY <1>1
<1>3. ASSUME SameRun(j, k)' PROVE j > LastStart
  <2>1. CASE starts = <<>>
    BY <1>2, <2>1 DEF LastStart
  <2>2. CASE starts # <<>>
    <3>1. Len(starts) \in 1 .. Len(starts) /\ LastStart = starts[Len(starts)]
      BY <1>1, <2>2 DEF LastStart
    <3>2. starts[Len(starts)] < j
      BY <1>1, <1>2, <1>3, <3>1 DEF SameRun
    <3> QED
      BY <3>1, <3>2
  <2> QED
    BY <2>1, <2>2
<1>4. ASSUME j > LastStart PROVE SameRun(j, k)'
  <2>1. starts \in Seq(Nat) /\ \A n \in 1 .. Len(starts) : starts[n] <= LastStart
    BY <1>1
  <2>2. \A n \in 1 .. Len(starts) : starts[n] \in Nat /\ starts[n] <= LastStart
    BY <2>1
  <2>3. LastStart \in Nat /\ j \in Nat /\ k \in Nat /\ LastStart < j /\ LastStart < k
    BY <1>1, <1>2, <1>4
  <2>4. \A n \in 1 .. Len(starts) : starts[n] < j /\ starts[n] < k
    BY <2>2, <2>3
  <2> QED
    BY <1>1, <2>4 DEF SameRun
<1> QED
  BY <1>2, <1>3, <1>4

LEMMA PacketsOrderedPreserved ==
    ASSUME WireInStep, QueueBehind, EncoderBehind, PacketsOrdered, [Next]_vars, ~id_wrapped'
    PROVE  PacketsOrdered'
<1>0. /\ Len(udp) \in Nat /\ Len(udp') \in Nat /\ Len(udp) <= Len(udp')
      /\ \A k \in 1 .. Len(udp) : udp'[k] = udp[k]
      /\ \A j, k \in 1 .. Len(udp) : SameRun(j, k)' <=> SameRun(j, k)
  BY WireOnlyGrows
<1>1. ASSUME NEW j \in 1 .. Len(udp), NEW k \in 1 .. Len(udp), j < k
      PROVE  \/ SameBlock(j, k)' /\ udp'[k].recovery_pkt
             \/ \A p \in Carried(udp'[j]), q \in Carried(udp'[k]) : p.seq < q.seq
  <2>1. /\ udp'[j] = udp[j] /\ udp'[k] = udp[k]
        /\ SameBlock(j, k) => SameBlock(j, k)'
    BY <1>0 DEF SameBlock
  <2> QED
    BY <1>1, <2>1 DEF PacketsOrdered
<1>2. CASE Send
  <2>1. SUFFICES ASSUME NEW j \in 1 .. Len(udp'), NEW k \in Len(udp) + 1 .. Len(udp'), j < k
                 PROVE  \/ SameBlock(j, k)' /\ udp'[k].recovery_pkt
                        \/ \A p \in Carried(udp'[j]), q \in Carried(udp'[k]) : p.seq < q.seq
    <3>1. \A j, k \in 1 .. Len(udp') : j < k =>
             \/ j \in 1 .. Len(udp) /\ k \in 1 .. Len(udp)
             \/ k \in Len(udp) + 1 .. Len(udp')
      BY <1>0
    <3> QED
      BY <1>1, <3>1 DEF PacketsOrdered
  <2>2. /\ \A n \in 1 .. Len(enc) : enc[n].seq < rtp_queue[1].seq
        /\ \A i \in 1 .. Len(udp) : \A p \in Carried(udp[i]) : p.seq < rtp_queue[1].seq
    BY <1>2, HeadIsNext DEF QueueBehind
  <2>3. Run!Labelling
    BY <1>2, LabellingBefore
  <2>4. j \in 1 .. Len(udp) \/ j \in Len(udp) + 1 .. Len(udp')
    BY <1>0
  <2>5. k # Len(udp') \/ j # Len(udp')
    BY <1>0, <2>1
  <2>6. j # Len(udp')
    BY <1>0, <2>1
  <2>7. j \in Len(udp) + 1 .. Len(udp') =>
           /\ udp'[j].block_id = current_block_id - 1
           /\ Len(enc) = Regular /\ Carried(udp'[j]) = {enc[n] : n \in 1 .. Regular}
    BY <1>2, <2>6, NewCarried
  <2>8. CASE ~udp'[k].recovery_pkt
    <3>1. Carried(udp'[k]) = {rtp_queue[1]}
      BY <1>2, <2>8, NewCarried
    <3>2. \A p \in Carried(udp'[j]) : p.seq < rtp_queue[1].seq
      <4>1. CASE j \in 1 .. Len(udp)
        BY <1>0, <2>2, <4>1
      <4>2. CASE j \in Len(udp) + 1 .. Len(udp')
        BY <2>2, <2>7, <4>2
      <4> QED
        BY <2>4, <4>1, <4>2
    <3> QED
      BY <3>1, <3>2
  <2>9. CASE udp'[k].recovery_pkt
    <3>1. /\ Run!EncodeDue /\ Run!EncoderFull /\ udp'[k].block_id = current_block_id - 1
          /\ Len(enc) = Regular /\ Carried(udp'[k]) = {enc[n] : n \in 1 .. Regular}
      BY <1>2, <2>9, NewCarried
    <3>2. j > LastStart /\ udp'[j].block_id = current_block_id - 1 => SameBlock(j, k)'
      BY <1>2, <3>1, NewInPresentRun DEF SameBlock
    <3>3. CASE j \in 1 .. Len(udp)
      <4>1. EncodedId = current_block_id - 1
        BY <3>1 DEF EncodedId
      <4>2. \/ j > LastStart /\ udp'[j].block_id = current_block_id - 1
            \/ \A p \in Carried(udp'[j]) : \A n \in 1 .. Len(enc) : p.seq < enc[n].seq
        BY <1>0, <2>3, <3>3, <4>1 DEF EncoderBehind
      <4> QED
        BY <2>9, <3>1, <3>2, <4>2
    <3>4. CASE j \in Len(udp) + 1 .. Len(udp')
      <4>1. j > LastStart
        BY <1>0, <3>4 DEF WireInStep, StartsInStep
      <4> QED
        BY <2>7, <2>9, <3>2, <3>4, <4>1
    <3> QED
      BY <2>4, <3>3, <3>4
  <2> QED
    BY <2>8, <2>9
<1>3. CASE UNCHANGED udp
  <2>1. Len(udp') = Len(udp)
    BY <1>3
  <2> QED
    BY <1>1, <2>1 DEF PacketsOrdered
<1> QED
  BY <1>2, <1>3, ProduceEffect
  DEF Next, RestartServer, Arrive, RecvFails, Decode, vars, serverVars

-----------------------------------------------------------------------------
(***************************************************************************)
(* The codewords.  The datagrams of one block of one run agree on it.      *)
(***************************************************************************)
Agree(d, s) == IF d.recovery_pkt THEN d.body.code = s.body.code
                                 ELSE s.body.code[d.fragment_index] = d.body

SizesRight(s) == \A i \in Index : /\ s.pkt_sizes[i] = s.body.code[i].size
                                  /\ s.body.code[i].size <= s.body.len

RunsCovered ==
    \A r \in 1 .. Len(udp) : udp[r].recovery_pkt =>
        /\ SizesRight(udp[r])
        /\ \A j \in 1 .. Len(udp) : SameBlock(j, r) => Agree(udp[j], udp[r])

PresentRunCovered ==
    \A r \in LastStart + 1 .. Len(udp) : udp[r].recovery_pkt =>
        /\ SizesRight(udp[r])
        /\ \A j \in LastStart + 1 .. Len(udp) :
              udp[j].block_id = udp[r].block_id => Agree(udp[j], udp[r])

\* In the present run that is what the packager's theorems say.
LEMMA RunCovers ==
    WireInStep /\ Run!OneCodePerBlock /\ ~id_wrapped => PresentRunCovered
<1> SUFFICES ASSUME WireInStep, Run!OneCodePerBlock, ~id_wrapped,
                    NEW r \in LastStart + 1 .. Len(udp), udp[r].recovery_pkt
             PROVE  /\ SizesRight(udp[r])
                    /\ \A j \in LastStart + 1 .. Len(udp) :
                          udp[j].block_id = udp[r].block_id => Agree(udp[j], udp[r])
  BY DEF PresentRunCovered
<1>1. WireByPlace /\ LastStart \in Nat /\ Len(udp) \in Nat
  BY WireElements DEF WireInStep, StartsInStep
<1>2. \A k \in LastStart + 1 .. Len(udp) :
         k - LastStart \in 1 .. Len(Wire) /\ Wire[k - LastStart] = udp[k]
  BY <1>1 DEF WireByPlace
<1>3. \A k \in LastStart + 1 .. Len(udp) :
         IF udp[k].recovery_pkt THEN k - LastStart \in Run!Shards
                                ELSE k - LastStart \in Run!Originals
  BY <1>2 DEF Run!Shards, Run!Originals
<1>4. Run!RecoveryCoversBlock
  BY DEF WireInStep, Run!PackagerInv
<1>5. /\ \A k \in Index : /\ udp[r].pkt_sizes[k] = udp[r].body.code[k].size
                          /\ udp[r].body.code[k].size <= udp[r].body.len
      /\ \A o \in Run!Originals : Wire[o].block_id = udp[r].block_id =>
            udp[r].body.code[Wire[o].fragment_index] = Wire[o].body
  <2>1. r - LastStart \in Run!Shards /\ Wire[r - LastStart] = udp[r]
    BY <1>2, <1>3
  <2> DEFINE s == r - LastStart
  <2>2. s \in Run!Shards /\ Wire[s] = udp[r]
    BY <2>1
  <2> HIDE DEF s
  <2>3. /\ \A k \in Index : /\ Wire[s].pkt_sizes[k] = Wire[s].body.code[k].size
                            /\ Wire[s].body.code[k].size <= Wire[s].body.len
        /\ \A o \in Run!Originals : Wire[o].block_id = Wire[s].block_id =>
              Wire[s].body.code[Wire[o].fragment_index] = Wire[o].body
    BY <1>4, <2>2, Zenon DEF Run!RecoveryCoversBlock, Run!Index, Index
  <2> QED
    BY <2>2, <2>3
<1>6. ASSUME NEW j \in LastStart + 1 .. Len(udp), udp[j].block_id = udp[r].block_id
      PROVE  Agree(udp[j], udp[r])
  <2>1. CASE udp[j].recovery_pkt
    <3>1. /\ r - LastStart \in Run!Shards /\ Wire[r - LastStart] = udp[r]
          /\ j - LastStart \in Run!Shards /\ Wire[j - LastStart] = udp[j]
      BY <1>2, <1>3, <2>1
    <3> QED
      BY <1>6, <2>1, <3>1 DEF Run!OneCodePerBlock, Agree
  <2>2. CASE ~udp[j].recovery_pkt
    <3>1. j - LastStart \in Run!Originals /\ Wire[j - LastStart] = udp[j]
      BY <1>2, <1>3, <2>2
    <3> QED
      BY <1>5, <1>6, <2>2, <3>1 DEF Agree
  <2> QED
    BY <2>1, <2>2
<1> QED
  BY <1>5, <1>6 DEF SizesRight

LEMMA OneCodePreserved ==
    ASSUME WireInStep, Run!OneCodePerBlock, [Next]_vars
    PROVE  Run!OneCodePerBlock'
<1>1. CASE Produce \/ Send
  <2>1. Run!Next
    BY <1>1, ServerCall DEF Produce, Send
  <2> QED
    BY <2>1, RunAssumptions, Run!OneCodeInductive DEF WireInStep
<1>2. CASE RestartServer
  <2>1. WireInStep' /\ LastStart' = Len(udp') /\ Len(udp') \in Nat
    <3>1. WireInStep' /\ Len(udp) \in Nat
      BY WireInStepPreserved DEF WireInStep
    <3>2. starts' = Append(starts, Len(udp)) /\ starts \in Seq(Nat) /\ udp' = udp
      BY <1>2 DEF RestartServer, WireInStep, StartsInStep
    <3>3. Len(starts') = Len(starts) + 1 /\ starts' # <<>> /\ starts'[Len(starts')] = Len(udp)
      BY <3>1, <3>2
    <3> QED
      BY <3>1, <3>2, <3>3 DEF LastStart
  <2>2. WireByPlace'
    <3>1. (udp \in Seq(Datagram) /\ StartsInStep)'
      BY <2>1 DEF WireInStep
    <3>2. (udp \in Seq(Datagram) /\ StartsInStep => WireByPlace)'
      BY WireElements, PTL
    <3> QED
      BY <3>1, <3>2
  <2>3. 1 .. Len(Wire') = {}
    BY <2>1, <2>2 DEF WireByPlace
  <2> QED
    BY <2>3 DEF Run!OneCodePerBlock, Run!Shards
<1>3. CASE Arrive \/ RecvFails \/ Decode \/ UNCHANGED vars
  <2>1. UNCHANGED <<udp, starts, id_wrapped>>
    BY <1>3 DEF Arrive, RecvFails, Decode, vars, serverVars
  <2>2. UNCHANGED Wire
    BY <2>1 DEF Wire, LastStart
  <2> QED
    BY <2>1, <2>2 DEF Run!OneCodePerBlock, Run!Shards
<1> QED
  BY <1>1, <1>2, <1>3 DEF Next

LEMMA RunsCoveredPreserved ==
    ASSUME WireInStep, Run!OneCodePerBlock, RunsCovered, [Next]_vars, ~id_wrapped'
    PROVE  RunsCovered'
<1>0. /\ Len(udp) \in Nat /\ Len(udp') \in Nat /\ Len(udp) <= Len(udp')
      /\ \A k \in 1 .. Len(udp) : udp'[k] = udp[k]
      /\ \A j, k \in 1 .. Len(udp) : SameRun(j, k)' <=> SameRun(j, k)
  BY WireOnlyGrows
<1>1. ASSUME NEW r \in 1 .. Len(udp), udp'[r].recovery_pkt
      PROVE  /\ SizesRight(udp'[r])
             /\ \A j \in 1 .. Len(udp) : SameBlock(j, r)' => Agree(udp'[j], udp'[r])
  <2>1. \A j \in 1 .. Len(udp) : SameBlock(j, r)' => SameBlock(j, r)
    BY <1>0 DEF SameBlock
  <2> QED
    BY <1>0, <1>1, <2>1 DEF RunsCovered
<1>2. CASE Send
  <2>1. WireInStep' /\ Run!OneCodePerBlock' /\ LastStart' = LastStart
    BY <1>2, WireInStepPreserved, OneCodePreserved, SendIsRun
  <2>2. (WireInStep /\ Run!OneCodePerBlock /\ ~id_wrapped => PresentRunCovered)'
    BY RunCovers, PTL
  <2>3. PresentRunCovered'
    BY <2>1, <2>2
  <2>4. \A k \in 1 .. Len(udp') : k \in 1 .. Len(udp) \/ k \in Len(udp) + 1 .. Len(udp')
    BY <1>0
  <2>5. \A k \in 1 .. Len(udp') : k > LastStart => k \in LastStart + 1 .. Len(udp')
    BY DEF WireInStep, StartsInStep
  <2>6. ASSUME NEW r \in Len(udp) + 1 .. Len(udp'), udp'[r].recovery_pkt,
               NEW j \in 1 .. Len(udp')
        PROVE  SizesRight(udp'[r]) /\ (SameBlock(j, r)' => Agree(udp'[j], udp'[r]))
    <3>1. r \in 1 .. Len(udp')
      BY <1>0
    <3> QED
      BY <1>2, <2>1, <2>3, <2>5, <2>6, <3>1, NewInPresentRun DEF PresentRunCovered, SameBlock
  <2>7. ASSUME NEW r \in 1 .. Len(udp), udp'[r].recovery_pkt,
               NEW j \in Len(udp) + 1 .. Len(udp'), SameBlock(j, r)'
        PROVE  Agree(udp'[j], udp'[r])
    <3>1. r \in 1 .. Len(udp') /\ j \in 1 .. Len(udp')
      BY <1>0
    <3>2. SameRun(r, j)'
      BY <2>7 DEF SameBlock, SameRun
    <3> QED
      BY <1>2, <2>1, <2>3, <2>5, <2>7, <3>1, <3>2, NewInPresentRun DEF PresentRunCovered, SameBlock
  <2>8. ASSUME NEW r \in 1 .. Len(udp'), udp'[r].recovery_pkt
        PROVE  /\ SizesRight(udp'[r])
               /\ \A j \in 1 .. Len(udp') : SameBlock(j, r)' => Agree(udp'[j], udp'[r])
    <3>1. CASE r \in 1 .. Len(udp)
      BY <1>1, <2>4, <2>7, <2>8, <3>1
    <3>2. CASE r \in Len(udp) + 1 .. Len(udp')
      BY <2>6, <2>8, <3>2
    <3> QED
      BY <2>4, <3>1, <3>2
  <2> QED
    BY <2>8 DEF RunsCovered
<1>3. CASE UNCHANGED udp
  <2>1. Len(udp') = Len(udp)
    BY <1>3
  <2> QED
    BY <1>1, <2>1 DEF RunsCovered
<1> QED
  BY <1>2, <1>3, ProduceEffect
  DEF Next, RestartServer, Arrive, RecvFails, Decode, vars, serverVars

\* What the packets of the stream owe to the server.
ServerInv ==
    /\ Run!OneCodePerBlock
    /\ StreamPackets
    /\ QueueBehind
    /\ CodesOrdered
    /\ EncoderBehind
    /\ PacketsOrdered
    /\ RunsCovered

LEMMA ServerInvInductive ==
    ASSUME WireInStep, ServerInv, [Next]_vars, ~id_wrapped'
    PROVE  ServerInv'
BY OneCodePreserved, StreamPacketsPreserved, QueueBehindPreserved, CodesOrderedPreserved,
   EncoderBehindPreserved, PacketsOrderedPreserved, RunsCoveredPreserved DEF ServerInv

-----------------------------------------------------------------------------
(***************************************************************************)
(* The packets of the stream in the decode thread.  Unless a block is      *)
(* mixed from two runs of the server all the decoder holds came with       *)
(* datagrams of one block of one run, and the slots hold packets of the    *)
(* stream, if old ones.  Unless a datagram comes late or twice, too, what  *)
(* has been delivered came with earlier datagrams, but for the fragments   *)
(* of the open block that came in order.                                   *)
(***************************************************************************)
\* Place j is of the open block, in the run of place m.
InBlock(j, m) == SameRun(j, m) /\ udp[j].block_id = block_id

ShardsFrom(m) ==
    /\ \A i \in DOMAIN rs_original : \E j \in received :
          /\ InBlock(j, m) /\ ~udp[j].recovery_pkt
          /\ udp[j].fragment_index = i /\ udp[j].body = rs_original[i]
    /\ \A i \in DOMAIN rs_recovery : \E j \in received :
          InBlock(j, m) /\ udp[j].recovery_pkt /\ udp[j].body = rs_recovery[i]
    /\ DOMAIN rs_recovery # {} => \E j \in received :
          InBlock(j, m) /\ udp[j].recovery_pkt /\ udp[j].pkt_sizes = rs_pkt_sizes

\* The decode thread is done with the datagram at place j.
Handled(j) == j \in received /\ (pc # "recv" => j # last)

DeliveredFrom(m) ==
    \A n \in 1 .. Len(delivered) : \E j \in received :
        /\ Handled(j) /\ delivered[n] \in Carried(udp[j])
        /\ InBlock(j, m) => /\ ~udp[j].recovery_pkt
                            /\ udp[j].fragment_index < rs_inorder_packets

\* The datagrams of the open block came after all others.
BlockIsLast(m) ==
    /\ \A i, j \in received :
          Handled(i) /\ Handled(j) /\ InBlock(i, m) /\ ~InBlock(j, m) => j < i
    /\ pc = "new_block" => \A j \in received : Handled(j) => Handled(m) /\ InBlock(m, m)

\* Fragments in order are delivered, the others of the open block in their slots.
SlotsInOrder ==
    /\ rs_oorder_packets = 0 => DOMAIN rs_original = 0 .. rs_inorder_packets - 1
    /\ \A i \in DOMAIN rs_original :
          i >= rs_inorder_packets => rs_sendq[i] = rs_original[i]

DeliveredOrdered ==
    \A j, k \in 1 .. Len(delivered) : j < k => delivered[j].seq < delivered[k].seq

InOrder(m) == DeliveredFrom(m) /\ BlockIsLast(m) /\ SlotsInOrder /\ DeliveredOrdered

BlockFrom(m) == ShardsFrom(m) /\ (late = 0 /\ duplicates = 0 => InOrder(m))

\* The datagram that came last belongs to the open block unless it opens another.
BlockOfLast ==
    /\ pc \in {"recv", "fragment"} /\ received # {} => udp[last].block_id = block_id
    /\ pc = "new_block" => udp[last].block_id # block_id

DeliveredGenuine ==
    /\ \A k \in Index : rs_sendq[k] \in Produced \cup {NoPacket}
    /\ \A n \in 1 .. Len(delivered) : delivered[n] \in Produced

ClientInv ==
    /\ BlockOfLast
    /\ Running /\ ~collided =>
          /\ DeliveredGenuine
          /\ \E m \in received \cup {last} :
                (pc # "new_block" => m = last) /\ BlockFrom(m)

StreamInv == SurvivalInv /\ ServerInv /\ ClientInv

-----------------------------------------------------------------------------
\* The shards of one block restore its packets.
LEMMA RecoveredBlock ==
    ASSUME SurvivalInv, ServerInv, Running, NeedsRecovery, Decodable, NEW m, ShardsFrom(m)
    PROVE  \E r \in received :
              /\ InBlock(r, m) /\ udp[r].recovery_pkt
              /\ udp[r].body.code \in Codeword
              /\ \A k \in Index :
                    IF k \in DOMAIN rs_original THEN rs_original[k] = udp[r].body.code[k]
                                                ELSE Restored(k) = udp[r].body.code[k]
              /\ \A j \in received : InBlock(j, m) /\ ~udp[j].recovery_pkt =>
                    udp[j].body = udp[r].body.code[udp[j].fragment_index]
<1>1. DecoderTypeOK /\ CountersInStep /\ received \subseteq 1 .. Len(udp) /\ udp \in Seq(Datagram)
  BY DEF SurvivalInv, DecoderInv, ReceivedInStep, WireInStep
<1>2. DOMAIN rs_recovery # {}
  <2> DEFINE s == Cardinality(DOMAIN rs_original)
             r == Cardinality(DOMAIN rs_recovery)
  <2>1. s \in Nat /\ r \in Nat /\ s <= Regular
    BY <1>1, ShardCounts
  <2>2. rs_recovery_packets = r /\ rs_total_packets = s + r
    BY <1>1 DEF CountersInStep
  <2>3. s + r >= Regular
    BY DEF Decodable
  <2>4. (s + r) - r # Regular
    BY <2>2 DEF NeedsRecovery
  <2> HIDE DEF s, r
  <2>5. r # 0
    BY <2>1, <2>3, <2>4
  <2> QED
    BY <2>5, FS_EmptySet DEF r
<1>3. PICK r \in received :
         InBlock(r, m) /\ udp[r].recovery_pkt /\ udp[r].pkt_sizes = rs_pkt_sizes
  BY <1>2 DEF ShardsFrom
<1> DEFINE c == udp[r].body.code
<1>4. c \in Codeword
  <2>1. udp[r] \in Datagram
    BY <1>1, ElementOfSeq
  <2> QED
    BY <1>3, <2>1, DatagramFields
<1>5. /\ SizesRight(udp[r])
      /\ \A j \in received : InBlock(j, m) =>
            /\ Agree(udp[j], udp[r])
            /\ udp[j].recovery_pkt => SizesRight(udp[j])
  <2>1. \A j \in received : InBlock(j, m) => SameBlock(j, r)
    BY <1>3 DEF InBlock, SameBlock, SameRun
  <2> QED
    BY <1>1, <1>3, <2>1 DEF ServerInv, RunsCovered
<1>6. \A i \in DOMAIN rs_recovery :
         /\ rs_recovery[i].code = c
         /\ \A k \in Index : c[k].size <= rs_recovery[i].len
  <2> SUFFICES ASSUME NEW i \in DOMAIN rs_recovery
               PROVE  /\ rs_recovery[i].code = c
                      /\ \A k \in Index : c[k].size <= rs_recovery[i].len
    OBVIOUS
  <2>1. PICK j \in received :
           InBlock(j, m) /\ udp[j].recovery_pkt /\ udp[j].body = rs_recovery[i]
    BY DEF ShardsFrom
  <2>2. Agree(udp[j], udp[r]) /\ SizesRight(udp[j])
    BY <1>5, <2>1
  <2>3. udp[j].body.code = c
    BY <2>1, <2>2 DEF Agree
  <2> QED
    BY <2>1, <2>2, <2>3 DEF SizesRight
<1>7. \A j \in received : InBlock(j, m) /\ ~udp[j].recovery_pkt =>
         udp[j].body = c[udp[j].fragment_index]
  BY <1>5 DEF Agree
<1>8. \A k \in DOMAIN rs_original : rs_original[k] = c[k]
  BY <1>7 DEF ShardsFrom
<1>9. \A k \in Index : rs_pkt_sizes[k] = c[k].size
  BY <1>3, <1>5 DEF SizesRight
<1> HIDE DEF c
<1>10. {rs_recovery[j].code : j \in DOMAIN rs_recovery} = {c}
  BY <1>2, <1>6
<1>11. Restores(c)
  BY <1>6, <1>8 DEF Restores
<1>12. \A k \in Index : Restored(k) = c[k]
  <2> SUFFICES ASSUME NEW k \in Index PROVE Restored(k) = c[k]
    OBVIOUS
  <2>1. (CHOOSE x \in {c} : TRUE) = c
    OBVIOUS
  <2>2. \E x \in {c} : Restores(x)
    BY <1>11
  <2>3. /\ rs_pkt_sizes[k] = c[k].size
        /\ \A j \in DOMAIN rs_recovery : c[k].size <= rs_recovery[j].len
    BY <1>6, <1>9
  <2> QED
    BY <1>10, <2>1, <2>2, <2>3 DEF Restored
<1> QED
  BY <1>3, <1>4, <1>7, <1>8, <1>12 DEF c

\* A place of the stream carries packets of it.
LEMMA CarriedProduced ==
    ASSUME SurvivalInv, ServerInv, NEW j \in received
    PROVE  Carried(udp[j]) \subseteq Produced
BY DEF SurvivalInv, ReceivedInStep, ServerInv, StreamPackets

-----------------------------------------------------------------------------
\* The server adds to the wire and to the stream.
LEMMA ClientKeptByServer ==
    ASSUME StreamInv, Produce \/ Send \/ RestartServer \/ UNCHANGED vars
    PROVE  ClientInv'
<1>1. UNCHANGED <<received, last, late, duplicates, collided, pc, block_id, rs_original,
                  rs_recovery, rs_pkt_sizes, rs_sendq, rs_inorder_packets,
                  rs_oorder_packets, delivered>>
  BY DEF Produce, Send, RestartServer, vars, networkVars, decoderVars, rsShards, rsCounters
<1>2. received \subseteq 1 .. Len(udp) /\ (received # {} => last \in received)
      /\ (pc = "new_block" => received # {})
  BY DEF StreamInv, SurvivalInv, ReceivedInStep
<1>3. /\ \A j \in received : udp'[j] = udp[j]
      /\ \A j, k \in received : SameRun(j, k)' <=> SameRun(j, k)
  BY <1>2, WireOnlyGrows DEF StreamInv, SurvivalInv, Next
<1>4. BlockOfLast'
  BY <1>1, <1>2, <1>3 DEF StreamInv, ClientInv, BlockOfLast
<1>5. Produced \subseteq Produced'
  <2>1. CASE Produce
    <3> DEFINE P == Packet
    <3>1. produced \in Seq(P) /\ rtp_queue' \in Seq(P) /\ produced' = produced \o rtp_queue'
      BY <2>1, ProduceEffect DEF StreamInv, SurvivalInv, ServerInv, StreamPackets
    <3> HIDE DEF P
    <3>2. /\ Len(produced') = Len(produced) + Len(rtp_queue')
          /\ Len(produced) \in Nat /\ Len(rtp_queue') \in Nat
          /\ \A i \in 1 .. Len(produced) + Len(rtp_queue') :
                produced'[i] = IF i <= Len(produced) THEN produced[i]
                                                     ELSE rtp_queue'[i - Len(produced)]
      BY <3>1, ConcatProperties
    <3>3. \A i \in 1 .. Len(produced) : i \in 1 .. Len(produced') /\ produced'[i] = produced[i]
      BY <3>2
    <3> QED
      BY <3>3 DEF Produced
  <2>2. CASE Send \/ RestartServer \/ UNCHANGED vars
    BY <2>2 DEF Send, RestartServer, vars, serverVars, Produced
  <2> QED
    BY <2>1, <2>2
<1>6. SUFFICES ASSUME Running, ~collided
               PROVE  /\ DeliveredGenuine'
                      /\ \E m \in received \cup {last} :
                            (pc # "new_block" => m = last) /\ BlockFrom(m)'
  BY <1>1, <1>4 DEF ClientInv, Running
<1>7. DeliveredGenuine'
  BY <1>1, <1>5, <1>6 DEF StreamInv, ClientInv, DeliveredGenuine
<1>8. PICK m \in received \cup {last} : (pc # "new_block" => m = last) /\ BlockFrom(m)
  BY <1>6 DEF StreamInv, ClientInv
<1>9. \A j \in received : InBlock(j, m)' <=> InBlock(j, m)
  <2>1. \A j \in received : m \in received
    BY <1>2, <1>8
  <2> QED
    BY <1>1, <1>3, <2>1 DEF InBlock
<1>10. ShardsFrom(m)'
  BY <1>1, <1>3, <1>8, <1>9 DEF BlockFrom, ShardsFrom
<1>11. ASSUME late = 0, duplicates = 0 PROVE InOrder(m)'
  <2>1. DeliveredFrom(m) /\ BlockIsLast(m) /\ SlotsInOrder /\ DeliveredOrdered
    BY <1>8, <1>11 DEF BlockFrom, InOrder
  <2>2. \A j : Handled(j)' <=> Handled(j)
    BY <1>1 DEF Handled
  <2>3. DeliveredFrom(m)'
    BY <1>1, <1>3, <1>9, <2>1, <2>2 DEF DeliveredFrom
  <2>4. BlockIsLast(m)'
    <3>1. \A j \in received : m \in received
      BY <1>2, <1>8
    <3> QED
      BY <1>1, <1>9, <2>1, <2>2, <3>1 DEF BlockIsLast
  <2>5. SlotsInOrder' /\ DeliveredOrdered'
    BY <1>1, <2>1 DEF SlotsInOrder, DeliveredOrdered
  <2> QED
    BY <2>3, <2>4, <2>5 DEF InOrder
<1> QED
  BY <1>1, <1>7, <1>8, <1>10, <1>11 DEF BlockFrom

-----------------------------------------------------------------------------
\* A datagram that arrives is of the run of the open block, opens another one or
\* mixes it.
LEMMA ClientKeptByArrival ==
    ASSUME StreamInv, Arrive
    PROVE  ClientInv'
<1>1. PICK k \in 1 .. Len(udp) :
         /\ Receive(udp[k])
         /\ received' = received \cup {k}
         /\ last' = k
         /\ duplicates' = IF k \in received THEN duplicates + 1 ELSE duplicates
         /\ late' = IF k < newest /\ k \notin received THEN late + 1 ELSE late
         /\ collided' = (collided \/ Collides(k))
         /\ UNCHANGED <<udp, starts, produced>>
  BY DEF Arrive, serverVars
<1>2. /\ pc = "recv" /\ Running
      /\ pc' = IF udp[k].block_id # block_id THEN "new_block" ELSE "fragment"
      /\ UNCHANGED <<block_id, rs_original, rs_recovery, rs_pkt_sizes, rs_sendq,
                     rs_inorder_packets, rs_oorder_packets, delivered>>
  BY <1>1 DEF Receive, rsShards, rsCounters, Running
<1>3. /\ late \in Nat /\ duplicates \in Nat /\ received \subseteq 1 .. Len(udp)
      /\ received # {} => last \in received
      /\ StartsInStep /\ Len(udp) \in Nat
      /\ received # {} => udp[last].block_id = block_id
  BY <1>2 DEF StreamInv, SurvivalInv, ReceivedInStep, WireInStep, ClientInv, BlockOfLast
<1>4. late' = 0 /\ duplicates' = 0 => late = 0 /\ duplicates = 0 /\ k \notin received
  BY <1>1, <1>3
<1>5. BlockOfLast'
  <2>1. udp'[last'] = udp[k]
    BY <1>1
  <2> QED
    BY <1>2, <2>1 DEF BlockOfLast
<1>6. SUFFICES ASSUME ~collided'
               PROVE  /\ DeliveredGenuine'
                      /\ \E n \in received' \cup {last'} :
                            (pc' # "new_block" => n = last') /\ BlockFrom(n)'
  BY <1>5 DEF ClientInv
<1>7. ~collided /\ ~Collides(k)
  BY <1>1, <1>6
<1>8. DeliveredGenuine'
  BY <1>1, <1>2, <1>7 DEF StreamInv, ClientInv, DeliveredGenuine, Produced
<1>9. PICK l : l = last
  OBVIOUS
<1>10. BlockFrom(l)
  BY <1>2, <1>7, <1>9 DEF StreamInv, ClientInv
<1>11. PICK n \in received \cup {k} :
          /\ pc' # "new_block" => n = k
          /\ \A j \in received : InBlock(j, n)' <=> InBlock(j, l)
          /\ pc' = "new_block" /\ received # {} => n = l
  <2>1. CASE received = {}
    BY <2>1
  <2>2. CASE received # {} /\ pc' = "new_block"
    <3>1. \A j \in received : InBlock(j, l)' <=> InBlock(j, l)
      BY <1>1, <1>2 DEF InBlock, SameRun
    <3> QED
      BY <1>3, <1>9, <2>2, <3>1
  <2>3. CASE received # {} /\ pc' # "new_block"
    <3>1. RunOf(k) = RunOf(l)
      BY <1>2, <1>7, <1>9, <2>3 DEF Collides
    <3>2. k \in Nat /\ l \in Nat
      <4>1. l \in 1 .. Len(udp)
        BY <1>3, <1>9, <2>3
      <4> QED
        BY <1>3, <4>1
    <3>3. SameRun(k, l)
      BY <1>3, <3>1, <3>2, RunsByNumber
    <3>4. \A j : SameRun(j, k)' <=> SameRun(j, l)
      BY <1>1, <3>3 DEF SameRun
    <3>5. \A j \in received : InBlock(j, k)' <=> InBlock(j, l)
      BY <1>1, <1>2, <3>4 DEF InBlock
    <3> QED
      BY <2>3, <3>5
  <2> QED
    BY <2>1, <2>2, <2>3
<1>12. ShardsFrom(n)'
  BY <1>1, <1>2, <1>10, <1>11 DEF BlockFrom, ShardsFrom
<1>13. ASSUME late' = 0, duplicates' = 0 PROVE InOrder(n)'
  <2>1. DeliveredFrom(l) /\ BlockIsLast(l) /\ SlotsInOrder /\ DeliveredOrdered
    BY <1>4, <1>10, <1>13 DEF BlockFrom, InOrder
  <2>2. \A j : Handled(j) <=> j \in received
    BY <1>2 DEF Handled
  <2>3. \A j : Handled(j)' <=> j \in received
    BY <1>1, <1>2, <1>4, <1>13 DEF Handled
  <2>4. DeliveredFrom(n)'
    BY <1>1, <1>2, <1>11, <2>1, <2>2, <2>3 DEF DeliveredFrom
  <2>5. BlockIsLast(n)'
    <3>1. \A i, j \in received : InBlock(i, n)' /\ ~InBlock(j, n)' => j < i
      BY <1>11, <2>1, <2>2 DEF BlockIsLast
    <3>2. ASSUME pc' = "new_block", NEW j \in received
          PROVE  Handled(n)' /\ InBlock(n, n)'
      <4>1. n = l /\ l \in received /\ udp[l].block_id = block_id
        BY <1>3, <1>9, <1>11, <3>2
      <4>2. InBlock(l, l)
        BY <4>1 DEF InBlock, SameRun
      <4> QED
        BY <1>11, <2>3, <4>1, <4>2
    <3> QED
      BY <2>3, <3>1, <3>2 DEF BlockIsLast
  <2>6. SlotsInOrder' /\ DeliveredOrdered'
    BY <1>2, <2>1 DEF SlotsInOrder, DeliveredOrdered
  <2> QED
    BY <2>4, <2>5, <2>6 DEF InOrder
<1> QED
  BY <1>1, <1>8, <1>11, <1>12, <1>13 DEF BlockFrom

\* A failed recv_from ends the thread.
LEMMA ClientKeptByRecvFails ==
    ASSUME RecvFails
    PROVE  ClientInv'
BY DEF RecvFails, ClientInv, BlockOfLast, Running

-----------------------------------------------------------------------------
\* While nothing is late or repeated the datagram that opens a block is the
\* first of it that comes.
LEMMA LastOpensBlock ==
    ASSUME StreamInv, pc = "new_block", late = 0, duplicates = 0,
           NEW m \in received \cup {last}, BlockIsLast(m), NEW l, l = last,
           NEW j \in received, j # l, SameRun(j, l)
    PROVE  udp[j].block_id # udp[l].block_id
<1>1. /\ received \subseteq 1 .. Len(udp) /\ l \in received /\ l = newest
      /\ \A k \in received : k <= newest
      /\ udp[l].block_id # block_id /\ LabelsOrdered /\ udp \in Seq(Datagram)
      /\ Len(udp) \in Nat /\ StartsInStep
  BY DEF StreamInv, SurvivalInv, ReceivedInStep, ClientInv, BlockOfLast, WireInStep
<1>2. Handled(j)
  BY DEF Handled
<1>3. m \in received /\ m # l /\ udp[m].block_id = block_id
  <2>1. Handled(m) /\ InBlock(m, m)
    BY <1>2 DEF BlockIsLast
  <2> QED
    BY <2>1 DEF Handled, InBlock
<1>4. SUFFICES ASSUME udp[j].block_id = udp[l].block_id PROVE FALSE
  OBVIOUS
<1>5. ~InBlock(j, m) /\ InBlock(m, m) /\ Handled(m)
  BY <1>1, <1>2, <1>3, <1>4 DEF InBlock, SameRun, Handled
<1>6. j < m
  BY <1>2, <1>3, <1>5 DEF BlockIsLast
<1>7. /\ j \in 1 .. Len(udp) /\ m \in 1 .. Len(udp) /\ l \in 1 .. Len(udp)
      /\ j \in Nat /\ m \in Nat /\ l \in Nat
  BY <1>1, <1>3
<1>8. m < l
  BY <1>1, <1>3, <1>7
<1>9. SameRun(j, m) /\ SameRun(m, l)
  <2>1. \A n \in 1 .. Len(starts) : starts[n] \in Nat
    BY <1>1, ElementOfSeq DEF StartsInStep
  <2>2. \A n \in 1 .. Len(starts) : (starts[n] < j <=> starts[n] < m)
                                    /\ (starts[n] < m <=> starts[n] < l)
    BY <1>6, <1>7, <1>8, <2>1 DEF SameRun
  <2> QED
    BY <2>2 DEF SameRun
<1>10. /\ udp[j].block_id \in Nat /\ udp[m].block_id \in Nat /\ udp[l].block_id \in Nat
  <2>1. udp[j] \in Datagram /\ udp[m] \in Datagram /\ udp[l] \in Datagram
    BY <1>1, <1>7, ElementOfSeq
  <2> QED
    BY <2>1, DatagramFields
<1>11. Before(udp[j], udp[m]) /\ Before(udp[m], udp[l])
  BY <1>1, <1>6, <1>7, <1>8, <1>9 DEF LabelsOrdered
<1>12. /\ udp[j].block_id <= udp[m].block_id /\ udp[m].block_id <= udp[l].block_id
  BY <1>10, <1>11 DEF Before
<1> QED
  BY <1>1, <1>3, <1>4, <1>10, <1>12

\* What a recovery hands over.
LEMMA RecoveredPackets ==
    ASSUME StreamInv, RecoverBlock, ~collided, NEW m, BlockFrom(m)
    PROVE  \E r \in received :
              /\ InBlock(r, m) /\ udp[r].recovery_pkt
              /\ udp[r].body.code \in Codeword
              /\ \A k \in Index : RestoredQueue[k] \in Produced \cup {NoPacket}
              /\ late = 0 /\ duplicates = 0 =>
                    \A k \in Index : k >= rs_inorder_packets =>
                       RestoredQueue[k] = udp[r].body.code[k]
              /\ \A j \in received : InBlock(j, m) /\ ~udp[j].recovery_pkt =>
                    udp[j].body = udp[r].body.code[udp[j].fragment_index]
<1>1. /\ SurvivalInv /\ ServerInv /\ Running /\ NeedsRecovery /\ Decodable
      /\ ShardsFrom(m) /\ DeliveredGenuine
  BY DEF StreamInv, RecoverBlock, Running, BlockFrom, ClientInv
<1>2. PICK r \in received :
         /\ InBlock(r, m) /\ udp[r].recovery_pkt
         /\ udp[r].body.code \in Codeword
         /\ \A k \in Index :
               IF k \in DOMAIN rs_original THEN rs_original[k] = udp[r].body.code[k]
                                           ELSE Restored(k) = udp[r].body.code[k]
         /\ \A j \in received : InBlock(j, m) /\ ~udp[j].recovery_pkt =>
               udp[j].body = udp[r].body.code[udp[j].fragment_index]
  BY <1>1, RecoveredBlock
<1>3. \A k \in Index : udp[r].body.code[k] \in Produced
  BY <1>1, <1>2, CarriedProduced DEF Carried
<1>4. \A k \in Index :
         RestoredQueue[k] = IF k \in DOMAIN rs_original THEN rs_sendq[k] ELSE Restored(k)
  BY DEF RestoredQueue
<1>5. \A k \in Index : RestoredQueue[k] \in Produced \cup {NoPacket}
  BY <1>1, <1>2, <1>3, <1>4 DEF DeliveredGenuine
<1>6. ASSUME late = 0, duplicates = 0, NEW k \in Index, k >= rs_inorder_packets
      PROVE  RestoredQueue[k] = udp[r].body.code[k]
  <2>1. k \in DOMAIN rs_original => rs_sendq[k] = rs_original[k]
    BY <1>6 DEF BlockFrom, InOrder, SlotsInOrder
  <2> QED
    BY <1>2, <1>4, <2>1
<1> QED
  BY <1>2, <1>5, <1>6

\* The packets a recovery appends.
LEMMA RecoveryDelivers ==
    ASSUME DecoderInv, RecoverBlock
    PROVE  /\ Len(delivered) \in Nat /\ rs_inorder_packets \in Nat
           /\ Len(delivered') = Len(delivered) + (Regular - rs_inorder_packets)
           /\ \A n \in 1 .. Len(delivered) : delivered'[n] = delivered[n]
           /\ \A n \in Len(delivered) + 1 .. Len(delivered') :
                 \E k \in Index :
                    /\ k = rs_inorder_packets + (n - Len(delivered)) - 1
                    /\ k >= rs_inorder_packets
                    /\ delivered'[n] = RestoredQueue[k] /\ RestoredQueue[k] # NoPacket
<1> DEFINE P == Packet \cup {NoPacket, Damaged}
           w == Regular - rs_inorder_packets
           t == Rest(RestoredQueue)
<1>1. delivered \in Seq(P) /\ rs_inorder_packets \in 0 .. Regular /\ pc = "new_block"
  BY DEF DecoderInv, DecoderTypeOK, RecoverBlock
<1>2. w \in Nat /\ rs_inorder_packets \in Nat
  BY <1>1
<1>3. \A n \in 1 .. w : rs_inorder_packets + n - 1 \in Index
  BY <1>1 DEF Index
<1>4. \A k \in Index : RestoredQueue[k] \in P
  <2>1. \A k \in Index : Restored(k) \in Packet \cup {Damaged}
    BY RestoredPackets DEF DecoderInv
  <2> QED
    BY <2>1 DEF RestoredQueue, DecoderInv, DecoderTypeOK
<1>5. \A k \in Index : k >= rs_inorder_packets => RestoredQueue[k] # NoPacket
  BY <1>1, RecoveredSlotsFilled DEF Index
<1>6. delivered' = delivered \o t
  BY DEF RecoverBlock
<1>7. /\ t = [n \in 1 .. w |-> RestoredQueue[rs_inorder_packets + n - 1]]
  BY DEF Rest
<1> HIDE DEF P, t
<1>8. t \in [1 .. w -> P]
  BY <1>3, <1>4, <1>7
<1>9. t \in Seq(P) /\ Len(t) = w
  BY <1>2, <1>8
<1>10. /\ Len(delivered) \in Nat /\ Len(delivered') = Len(delivered) + w
       /\ \A n \in 1 .. Len(delivered) + w :
             delivered'[n] = IF n <= Len(delivered) THEN delivered[n] ELSE t[n - Len(delivered)]
  <2> HIDE DEF w
  <2>1. delivered \in Seq(P) /\ t \in Seq(P) /\ Len(delivered) \in Nat
    BY <1>1, <1>9
  <2>2. /\ Len(delivered \o t) = Len(delivered) + Len(t)
        /\ \A n \in 1 .. Len(delivered) + Len(t) :
              (delivered \o t)[n] = IF n <= Len(delivered) THEN delivered[n]
                                                         ELSE t[n - Len(delivered)]
    BY <2>1, ConcatProperties
  <2> QED
    BY <1>6, <1>9, <2>1, <2>2
<1>11. \A n \in 1 .. Len(delivered) : delivered'[n] = delivered[n]
  BY <1>2, <1>10
<1>12. ASSUME NEW n \in Len(delivered) + 1 .. Len(delivered')
       PROVE  \E k \in Index :
                 /\ k = rs_inorder_packets + (n - Len(delivered)) - 1
                 /\ k >= rs_inorder_packets
                 /\ delivered'[n] = RestoredQueue[k] /\ RestoredQueue[k] # NoPacket
  <2>1. /\ n - Len(delivered) \in 1 .. w /\ n \in 1 .. Len(delivered) + w
        /\ ~(n <= Len(delivered))
    BY <1>2, <1>10
  <2>2. PICK i \in 1 .. w : i = n - Len(delivered)
    BY <2>1
  <2>3. delivered'[n] = t[i]
    BY <1>10, <2>1, <2>2
  <2>4. t[i] = RestoredQueue[rs_inorder_packets + i - 1]
    BY <1>7
  <2>5. PICK k \in Index : k = rs_inorder_packets + i - 1
    BY <1>3
  <2>6. k >= rs_inorder_packets
    BY <1>2, <2>5
  <2> QED
    BY <1>5, <2>2, <2>3, <2>4, <2>5, <2>6
<1> QED
  BY <1>2, <1>10, <1>11, <1>12

\* They are later than all that was delivered, as long as nothing is late or
\* repeated.
LEMMA RecoveryInOrder ==
    ASSUME StreamInv, RecoverBlock, ~collided, late = 0, duplicates = 0, UNCHANGED udp,
           NEW m \in received \cup {last}, BlockFrom(m)
    PROVE  /\ DeliveredOrdered'
           /\ \A n \in Len(delivered) + 1 .. Len(delivered') :
                 \E r \in received : Handled(r) /\ delivered'[n] \in Carried(udp[r])
<1>1. /\ SurvivalInv /\ ServerInv /\ DecoderInv /\ received \subseteq 1 .. Len(udp)
      /\ pc = "new_block" /\ udp[last].block_id # block_id
      /\ DeliveredFrom(m) /\ BlockIsLast(m) /\ DeliveredOrdered
  BY DEF StreamInv, SurvivalInv, ReceivedInStep, RecoverBlock, ClientInv, BlockOfLast,
         BlockFrom, InOrder
<1>2. PICK r \in received :
         /\ InBlock(r, m) /\ udp[r].recovery_pkt
         /\ udp[r].body.code \in Codeword
         /\ \A k \in Index : k >= rs_inorder_packets =>
               RestoredQueue[k] = udp[r].body.code[k]
         /\ \A j \in received : InBlock(j, m) /\ ~udp[j].recovery_pkt =>
               udp[j].body = udp[r].body.code[udp[j].fragment_index]
  BY RecoveredPackets
<1> DEFINE c == udp[r].body.code
           old == Len(delivered)
<1>3. Handled(r)
  <2>1. udp[r].block_id = block_id
    BY <1>2 DEF InBlock
  <2> QED
    BY <1>1, <2>1 DEF Handled
<1>4. \A i, j \in Index : i < j => c[i].seq < c[j].seq
  BY <1>1, <1>2 DEF ServerInv, CodesOrdered
<1>5. \A k \in Index : c[k] \in Carried(udp[r])
  BY <1>2 DEF Carried
<1> HIDE DEF c
<1>6. /\ old \in Nat /\ rs_inorder_packets \in Nat
      /\ \A n \in 1 .. old : delivered'[n] = delivered[n]
      /\ \A n \in old + 1 .. Len(delivered') :
            \E k \in Index :
               /\ k = rs_inorder_packets + (n - old) - 1
               /\ k >= rs_inorder_packets
               /\ delivered'[n] = c[k]
  BY <1>1, <1>2, RecoveryDelivers DEF c
<1>7. ASSUME NEW a \in 1 .. old, NEW k \in Index, k >= rs_inorder_packets
      PROVE  delivered[a].seq < c[k].seq
  <2>1. PICK j \in received :
           /\ Handled(j) /\ delivered[a] \in Carried(udp[j])
           /\ InBlock(j, m) => /\ ~udp[j].recovery_pkt
                               /\ udp[j].fragment_index < rs_inorder_packets
    BY <1>1 DEF DeliveredFrom
  <2>2. CASE InBlock(j, m)
    <3>1. /\ ~udp[j].recovery_pkt /\ udp[j].fragment_index < rs_inorder_packets
          /\ delivered[a] = c[udp[j].fragment_index]
      BY <1>2, <2>1, <2>2 DEF Carried, c
    <3>2. udp[j].fragment_index \in Index
      <4>1. udp[j] \in Datagram
        BY <1>1, ElementOfSeq DEF SurvivalInv, WireInStep
      <4> QED
        BY <3>1, <4>1, DatagramFields
    <3>3. udp[j].fragment_index < k
      <4>1. \A x, y \in Index : x < rs_inorder_packets /\ y >= rs_inorder_packets => x < y
        BY <1>6 DEF Index
      <4> QED
        BY <1>7, <3>1, <3>2, <4>1
    <3> QED
      BY <1>4, <1>7, <3>1, <3>2, <3>3
  <2>3. CASE ~InBlock(j, m)
    <3>1. j < r /\ j \in 1 .. Len(udp) /\ r \in 1 .. Len(udp)
      BY <1>1, <1>2, <1>3, <2>1, <2>3 DEF BlockIsLast
    <3>2. ~SameBlock(j, r)
      <4>1. SameBlock(j, r) => InBlock(j, m)
        BY <1>2 DEF SameBlock, InBlock, SameRun
      <4> QED
        BY <2>3, <4>1
    <3>3. \A p \in Carried(udp[j]), q \in Carried(udp[r]) : p.seq < q.seq
      BY <1>1, <3>1, <3>2 DEF ServerInv, PacketsOrdered
    <3> QED
      BY <1>5, <2>1, <3>3
  <2> QED
    BY <2>2, <2>3
<1>8. ASSUME NEW a \in 1 .. Len(delivered'), NEW b \in 1 .. Len(delivered'), a < b
      PROVE  delivered'[a].seq < delivered'[b].seq
  <2>1. /\ a \in 1 .. old \/ a \in old + 1 .. Len(delivered')
        /\ b \in 1 .. old \/ b \in old + 1 .. Len(delivered')
        /\ a \in Nat /\ b \in Nat
    BY <1>6
  <2>2. CASE b \in 1 .. old
    <3>1. a \in 1 .. old
      BY <1>6, <1>8, <2>1, <2>2
    <3> QED
      BY <1>1, <1>6, <1>8, <2>2, <3>1 DEF DeliveredOrdered
  <2>3. CASE b \in old + 1 .. Len(delivered')
    <3>1. PICK k \in Index :
             /\ k = rs_inorder_packets + (b - old) - 1
             /\ k >= rs_inorder_packets /\ delivered'[b] = c[k]
      BY <1>6, <2>3
    <3>2. CASE a \in 1 .. old
      BY <1>6, <1>7, <3>1, <3>2
    <3>3. CASE a \in old + 1 .. Len(delivered')
      <4>1. PICK i \in Index :
               i = rs_inorder_packets + (a - old) - 1 /\ delivered'[a] = c[i]
        BY <1>6, <3>3
      <4>2. i < k
        BY <1>6, <1>8, <2>1, <3>1, <4>1
      <4> QED
        BY <1>4, <3>1, <4>1, <4>2
    <3> QED
      BY <2>1, <3>2, <3>3
  <2> QED
    BY <2>1, <2>2, <2>3
<1>9. \A n \in old + 1 .. Len(delivered') : delivered'[n] \in Carried(udp[r])
  BY <1>5, <1>6
<1> QED
  BY <1>3, <1>8, <1>9 DEF DeliveredOrdered

\* Closing a block delivers what the recovery restored and leaves no shards.
LEMMA ClientKeptByClosing ==
    ASSUME StreamInv, CloseBlock, UNCHANGED <<serverVars, networkVars>>
    PROVE  ClientInv'
<1>1. /\ SurvivalInv /\ ServerInv /\ DecoderInv /\ Running
      /\ pc = "new_block" /\ pc' = "fragment" /\ StartBlock
      /\ last \in received /\ received \subseteq 1 .. Len(udp)
      /\ lvheader = udp[last] /\ udp[last].block_id # block_id
      /\ late \in Nat /\ duplicates \in Nat
  BY CloseBlockInStep DEF StreamInv, SurvivalInv, ReceivedInStep, ClientInv, BlockOfLast,
     CloseBlock, SkipRecovery, RecoverBlock, RecoveryFails, Running
<1>2. /\ UNCHANGED <<udp, starts, produced, received, last, late, duplicates, collided>>
      /\ block_id' = udp[last].block_id
      /\ DOMAIN rs_original' = {} /\ DOMAIN rs_recovery' = {}
      /\ rs_inorder_packets' = 0 /\ rs_oorder_packets' = 0
  BY <1>1 DEF serverVars, networkVars, StartBlock, NoShards
<1>3. BlockOfLast'
  <2>1. udp'[last'] = udp[last]
    BY <1>2
  <2> QED
    BY <1>1, <1>2, <2>1 DEF BlockOfLast
<1>4. SUFFICES ASSUME ~collided
               PROVE  /\ DeliveredGenuine'
                      /\ \E l \in received : l = last /\ BlockFrom(l)'
  BY <1>1, <1>2, <1>3 DEF ClientInv
<1>5. PICK m \in received \cup {last} : BlockFrom(m)
  BY <1>1, <1>4 DEF StreamInv, ClientInv
<1>6. DeliveredGenuine /\ Produced' = Produced
  BY <1>1, <1>2, <1>4 DEF StreamInv, ClientInv, Produced
<1>7. \/ RecoverBlock
      \/ UNCHANGED <<rs_sendq, delivered>>
  BY DEF CloseBlock, SkipRecovery, RecoveryFails
<1>8. DeliveredGenuine'
  <2>1. CASE RecoverBlock
    <3>1. \A k \in Index : RestoredQueue[k] \in Produced \cup {NoPacket}
      BY <1>4, <1>5, <2>1, RecoveredPackets
    <3>2. rs_sendq' = RestoredQueue
      BY <2>1 DEF RecoverBlock
    <3>3. ASSUME NEW n \in 1 .. Len(delivered') PROVE delivered'[n] \in Produced
      <4>1. /\ Len(delivered) \in Nat
            /\ \A i \in 1 .. Len(delivered) : delivered'[i] = delivered[i]
            /\ \A i \in Len(delivered) + 1 .. Len(delivered') : \E k \in Index :
                  delivered'[i] = RestoredQueue[k] /\ RestoredQueue[k] # NoPacket
        BY <1>1, <2>1, RecoveryDelivers
      <4>2. n \in 1 .. Len(delivered) \/ n \in Len(delivered) + 1 .. Len(delivered')
        BY <4>1
      <4>3. CASE n \in 1 .. Len(delivered)
        BY <1>6, <4>1, <4>3 DEF DeliveredGenuine
      <4>4. CASE n \in Len(delivered) + 1 .. Len(delivered')
        BY <3>1, <4>1, <4>4
      <4> QED
        BY <4>2, <4>3, <4>4
    <3> QED
      BY <1>6, <3>1, <3>2, <3>3 DEF DeliveredGenuine
  <2>2. CASE UNCHANGED <<rs_sendq, delivered>>
    BY <1>6, <2>2 DEF DeliveredGenuine
  <2> QED
    BY <1>7, <2>1, <2>2
<1>9. PICK l \in received : l = last
  BY <1>1
<1>10. ShardsFrom(l)'
  BY <1>2 DEF ShardsFrom
<1>11. ASSUME late = 0, duplicates = 0 PROVE InOrder(l)'
  <2>1. DeliveredFrom(m) /\ BlockIsLast(m) /\ SlotsInOrder /\ DeliveredOrdered
    BY <1>5, <1>11 DEF BlockFrom, InOrder
  <2>2. \A j : Handled(j)' <=> Handled(j)
    BY <1>1, <1>2 DEF Handled
  <2>3. \A j \in received : Handled(j) => ~InBlock(j, l)'
    <3> SUFFICES ASSUME NEW j \in received, Handled(j), InBlock(j, l)' PROVE FALSE
      OBVIOUS
    <3>1. SameRun(j, l) /\ udp[j].block_id = udp[l].block_id /\ j # l
      BY <1>1, <1>2, <1>9 DEF InBlock, SameRun, Handled
    <3> QED
      BY <1>1, <1>5, <1>9, <1>11, <2>1, <3>1, LastOpensBlock
  <2>4. DeliveredOrdered' /\ \A n \in 1 .. Len(delivered') :
           \E j \in received : Handled(j) /\ delivered'[n] \in Carried(udp[j])
    <3>1. CASE RecoverBlock
      <4>1. /\ DeliveredOrdered'
            /\ \A n \in Len(delivered) + 1 .. Len(delivered') :
                  \E r \in received : Handled(r) /\ delivered'[n] \in Carried(udp[r])
        BY <1>2, <1>4, <1>5, <1>11, <3>1, RecoveryInOrder
      <4>2. /\ Len(delivered) \in Nat
            /\ \A i \in 1 .. Len(delivered) : delivered'[i] = delivered[i]
        BY <1>1, <3>1, RecoveryDelivers
      <4>3. \A n \in 1 .. Len(delivered) :
               \E j \in received : Handled(j) /\ delivered'[n] \in Carried(udp[j])
        BY <2>1, <4>2 DEF DeliveredFrom
      <4>4. \A n \in 1 .. Len(delivered') :
               n \in 1 .. Len(delivered) \/ n \in Len(delivered) + 1 .. Len(delivered')
        BY <4>2
      <4> QED
        BY <4>1, <4>3, <4>4
    <3>2. CASE UNCHANGED <<rs_sendq, delivered>>
      BY <2>1, <3>2 DEF DeliveredOrdered, DeliveredFrom
    <3> QED
      BY <1>7, <3>1, <3>2
  <2>5. DeliveredFrom(l)'
    BY <1>2, <2>2, <2>3, <2>4 DEF DeliveredFrom, Carried
  <2>6. BlockIsLast(l)'
    BY <1>1, <1>2, <2>2, <2>3 DEF BlockIsLast
  <2>7. SlotsInOrder'
    <3>1. 0 .. 0 - 1 = {}
      OBVIOUS
    <3> QED
      BY <1>2, <3>1 DEF SlotsInOrder
  <2> QED
    BY <2>4, <2>5, <2>6, <2>7 DEF InOrder
<1> QED
  BY <1>2, <1>8, <1>9, <1>10, <1>11 DEF BlockFrom

-----------------------------------------------------------------------------
\* While nothing is late or repeated a fragment delivered in order has the count
\* of those before it as its index.
LEMMA DeliveredIndex ==
    ASSUME SurvivalInv, DeliverFragment, late = 0, duplicates = 0, ~collided, SlotsInOrder
    PROVE  /\ lvheader.fragment_index = rs_inorder_packets
           /\ DOMAIN rs_original = 0 .. rs_inorder_packets - 1
           /\ rs_oorder_packets = 0
<1> DEFINE i == lvheader.fragment_index
           S == DOMAIN rs_original
           p == lvheader_prev_fragment_index
<1>1. /\ Running /\ i \notin S /\ ExpectedIndex = i
      /\ DecoderTypeOK
  BY DEF DeliverFragment, TakeOriginalShard, OutOfOrder, Running, SurvivalInv, DecoderInv
<1>2. rs_oorder_packets = 0
  <2>1. ~(rs_oorder_packets > 0) /\ rs_oorder_packets \in 0 .. Regular
    BY <1>1 DEF DeliverFragment, OutOfOrder, DecoderTypeOK
  <2> QED
    BY <2>1
<1>3. S = 0 .. rs_inorder_packets - 1
  BY <1>2 DEF SlotsInOrder
<1>4. IF S = {} THEN p = Regular - 1 ELSE p \in S /\ \A k \in S : k <= p
  BY <1>1 DEF SurvivalInv, PreviousIsLargest
<1>5. p \in Index /\ rs_inorder_packets \in 0 .. Regular
  BY <1>1 DEF DecoderTypeOK
<1>6. i = IF p = Regular - 1 THEN 0 ELSE p + 1
  BY <1>1, <1>5, ExpectedIndexValue
<1> HIDE DEF i, S, p
<1>7. i = rs_inorder_packets
  <2>1. CASE S = {}
    <3>1. rs_inorder_packets = 0
      <4>1. 0 \notin 0 .. rs_inorder_packets - 1
        BY <1>3, <2>1
      <4> QED
        BY <1>5, <4>1
    <3> QED
      BY <1>4, <1>6, <2>1, <3>1
  <2>2. CASE S # {}
    <3>1. p \in S /\ \A k \in S : k <= p
      BY <1>4, <2>2
    <3>2. rs_inorder_packets - 1 \in S /\ 0 \in S
      BY <1>3, <1>5, <3>1
    <3>3. p = rs_inorder_packets - 1
      BY <1>3, <1>5, <3>1, <3>2
    <3>4. i # 0
      BY <1>1, <3>2 DEF i, S
    <3> QED
      BY <1>5, <1>6, <3>3, <3>4
  <2> QED
    BY <2>1, <2>2
<1> QED
  BY <1>2, <1>3, <1>7 DEF i, S

\* The shard taken is of the datagram that came last.
LEMMA ShardsKeptByTaking ==
    ASSUME StreamInv, TakeRecoveryShard \/ QueueFragment \/ DeliverFragment,
           UNCHANGED <<serverVars, networkVars>>,
           NEW l \in received, l = last, InBlock(l, l), ShardsFrom(l)
    PROVE  ShardsFrom(l)'
<1>1. /\ pc = "fragment" /\ lvheader = udp[l] /\ block_id' = block_id
      /\ UNCHANGED <<udp, starts, received>>
  BY DEF StreamInv, SurvivalInv, ReceivedInStep, TakeRecoveryShard, QueueFragment,
         DeliverFragment, TakeOriginalShard, serverVars, networkVars
<1>2. \A j : InBlock(j, l)' <=> InBlock(j, l)
  BY <1>1 DEF InBlock, SameRun
<1>3. CASE TakeRecoveryShard
  <2>1. /\ rs_recovery' = AddShard(rs_recovery, udp[l].fragment_index, udp[l].body)
        /\ rs_original' = rs_original /\ rs_pkt_sizes' = udp[l].pkt_sizes
        /\ udp[l].recovery_pkt
    BY <1>1, <1>3 DEF TakeRecoveryShard
  <2>2. \A i \in DOMAIN rs_recovery' :
           \/ i \in DOMAIN rs_recovery /\ rs_recovery'[i] = rs_recovery[i]
           \/ rs_recovery'[i] = udp[l].body
    BY <2>1 DEF AddShard
  <2>3. \A i \in DOMAIN rs_recovery' : \E j \in received :
           InBlock(j, l) /\ udp[j].recovery_pkt /\ udp[j].body = rs_recovery'[i]
    BY <2>1, <2>2 DEF ShardsFrom
  <2> QED
    BY <1>1, <1>2, <2>1, <2>3 DEF ShardsFrom
<1>4. CASE QueueFragment \/ DeliverFragment
  <2>1. /\ rs_original' = AddShard(rs_original, udp[l].fragment_index, udp[l].body)
        /\ rs_recovery' = rs_recovery /\ rs_pkt_sizes' = rs_pkt_sizes
        /\ ~udp[l].recovery_pkt
    BY <1>1, <1>4 DEF QueueFragment, DeliverFragment, TakeOriginalShard
  <2>2. \A i \in DOMAIN rs_original' :
           \/ i \in DOMAIN rs_original /\ rs_original'[i] = rs_original[i]
           \/ i = udp[l].fragment_index /\ rs_original'[i] = udp[l].body
    BY <2>1 DEF AddShard
  <2>3. \A i \in DOMAIN rs_original' : \E j \in received :
           /\ InBlock(j, l) /\ ~udp[j].recovery_pkt
           /\ udp[j].fragment_index = i /\ udp[j].body = rs_original'[i]
    BY <2>1, <2>2 DEF ShardsFrom
  <2> QED
    BY <1>1, <1>2, <2>1, <2>3 DEF ShardsFrom
<1> QED
  BY <1>3, <1>4

\* A fragment delivered in order goes behind all that was.
LEMMA DeliveredAppended ==
    ASSUME DecoderInv, DeliverFragment
    PROVE  /\ Len(delivered) \in Nat /\ Len(delivered') = Len(delivered) + 1
           /\ \A n \in 1 .. Len(delivered) : delivered'[n] = delivered[n]
           /\ delivered'[Len(delivered) + 1] = lvheader.body
<1> DEFINE P == Packet \cup {NoPacket, Damaged}
<1>1. delivered \in Seq(P) /\ delivered' = Append(delivered, lvheader.body)
  BY DEF DecoderInv, DecoderTypeOK, DeliverFragment
<1> HIDE DEF P
<1>2. Len(delivered) \in Nat
  BY <1>1
<1>3. /\ Len(delivered') = Len(delivered) + 1
      /\ \A n \in 1 .. Len(delivered) : delivered'[n] = delivered[n]
      /\ delivered'[Len(delivered) + 1] = lvheader.body
  BY <1>1
<1> QED
  BY <1>2, <1>3

\* The datagram taken is the last of its block, and a fragment delivered comes
\* after all that was.
LEMMA OrderKeptByTaking ==
    ASSUME StreamInv, TakeRecoveryShard \/ QueueFragment \/ DeliverFragment,
           UNCHANGED <<serverVars, networkVars>>, ~collided, late = 0, duplicates = 0,
           NEW l \in received, l = last, InBlock(l, l), InOrder(l)
    PROVE  InOrder(l)'
<1>1. /\ SurvivalInv /\ ServerInv /\ DecoderInv
      /\ pc = "fragment" /\ pc' = "recv" /\ lvheader = udp[l] /\ block_id' = block_id
      /\ UNCHANGED <<udp, starts, received, last, late, duplicates>>
      /\ received \subseteq 1 .. Len(udp) /\ \A j \in received : j <= l
      /\ lvheader \in Datagram
  BY DEF StreamInv, SurvivalInv, ReceivedInStep, TakeRecoveryShard, QueueFragment,
         DeliverFragment, TakeOriginalShard, serverVars, networkVars, DecoderInv, HeaderInStep
<1>2. \A j : /\ InBlock(j, l)' <=> InBlock(j, l)
             /\ Handled(j) <=> j \in received /\ j # l
             /\ Handled(j)' <=> j \in received
  BY <1>1 DEF InBlock, SameRun, Handled
<1>3. DeliveredFrom(l) /\ BlockIsLast(l) /\ SlotsInOrder /\ DeliveredOrdered
  BY DEF InOrder
<1>4. \A j \in received : j # l => j < l
  <2>1. l \in Nat /\ \A j \in received : j \in Nat
    BY <1>1
  <2> QED
    BY <1>1, <2>1
<1>5. BlockIsLast(l)'
  <2>1. \A i, j \in received : InBlock(i, l) /\ ~InBlock(j, l) => j < i
    <3> SUFFICES ASSUME NEW i \in received, NEW j \in received, InBlock(i, l), ~InBlock(j, l)
                 PROVE  j < i
      OBVIOUS
    <3>1. j # l
      OBVIOUS
    <3>2. CASE i = l
      BY <1>4, <3>1, <3>2
    <3>3. CASE i # l
      BY <1>2, <1>3, <3>1, <3>3 DEF BlockIsLast
    <3> QED
      BY <3>2, <3>3
  <2> QED
    BY <1>1, <1>2, <2>1 DEF BlockIsLast
<1>6. \A n \in 1 .. Len(delivered) : \E j \in received :
         /\ j # l /\ delivered[n] \in Carried(udp[j])
         /\ InBlock(j, l) => /\ ~udp[j].recovery_pkt
                             /\ udp[j].fragment_index < rs_inorder_packets
  BY <1>2, <1>3 DEF DeliveredFrom
<1>7. CASE TakeRecoveryShard \/ QueueFragment
  <2>1. UNCHANGED <<delivered, rs_inorder_packets>>
    BY <1>7 DEF TakeRecoveryShard, QueueFragment
  <2>2. DeliveredFrom(l)' /\ DeliveredOrdered'
    <3>1. DeliveredFrom(l)'
      BY <1>1, <1>2, <1>6, <2>1 DEF DeliveredFrom
    <3> QED
      BY <1>3, <2>1, <3>1 DEF DeliveredOrdered
  <2>3. SlotsInOrder'
    <3>1. CASE TakeRecoveryShard
      BY <1>3, <3>1 DEF TakeRecoveryShard, SlotsInOrder
    <3>2. CASE QueueFragment
      <4>1. PICK i : i = lvheader.fragment_index
        OBVIOUS
      <4>2. /\ rs_original' = AddShard(rs_original, i, lvheader.body)
            /\ rs_sendq' = [rs_sendq EXCEPT ![i] = lvheader.body]
            /\ rs_oorder_packets' = rs_oorder_packets + 1
            /\ ~lvheader.recovery_pkt
        BY <3>2, <4>1 DEF QueueFragment, TakeOriginalShard
      <4>3. i \in Index /\ rs_oorder_packets \in 0 .. Regular /\ DOMAIN rs_sendq = Index
        BY <1>1, <4>1, <4>2, DatagramFields DEF DecoderInv, DecoderTypeOK
      <4>4. rs_oorder_packets' # 0
        BY <4>2, <4>3
      <4>5. \A k \in DOMAIN rs_original' :
               \/ k = i /\ rs_original'[k] = lvheader.body
               \/ k # i /\ k \in DOMAIN rs_original /\ rs_original'[k] = rs_original[k]
        BY <4>2 DEF AddShard
      <4>6. /\ rs_sendq'[i] = lvheader.body
            /\ \A k : k # i /\ k \in Index => rs_sendq'[k] = rs_sendq[k]
        BY <4>2, <4>3
      <4>7. DOMAIN rs_original \subseteq Index
        BY <1>1 DEF DecoderInv, DecoderTypeOK
      <4>8. \A k \in DOMAIN rs_original' : k >= rs_inorder_packets => rs_sendq'[k] = rs_original'[k]
        BY <1>3, <4>5, <4>6, <4>7 DEF SlotsInOrder
      <4> QED
        BY <2>1, <4>4, <4>8 DEF SlotsInOrder
    <3> QED
      BY <1>7, <3>1, <3>2
  <2> QED
    BY <1>5, <2>2, <2>3 DEF InOrder
<1>8. CASE DeliverFragment
  <2>1. /\ lvheader.fragment_index = rs_inorder_packets
        /\ DOMAIN rs_original = 0 .. rs_inorder_packets - 1
        /\ rs_oorder_packets = 0
    BY <1>1, <1>3, <1>8, DeliveredIndex
  <2>2. /\ rs_inorder_packets' = rs_inorder_packets + 1
        /\ rs_oorder_packets' = rs_oorder_packets /\ ~lvheader.recovery_pkt
        /\ rs_original' = AddShard(rs_original, lvheader.fragment_index, lvheader.body)
    BY <1>8 DEF DeliverFragment, TakeOriginalShard
  <2>3. rs_inorder_packets \in Nat
    BY <1>1 DEF DecoderInv, DecoderTypeOK
  <2>4. SlotsInOrder'
    <3>1. DOMAIN rs_original' = DOMAIN rs_original \cup {rs_inorder_packets}
      BY <2>1, <2>2 DEF AddShard
    <3>2. DOMAIN rs_original' = 0 .. rs_inorder_packets' - 1
      BY <2>1, <2>2, <2>3, <3>1
    <3>3. \A k \in DOMAIN rs_original' : ~(k >= rs_inorder_packets')
      BY <2>2, <2>3, <3>2
    <3> QED
      BY <3>2, <3>3 DEF SlotsInOrder
  <2>5. /\ Len(delivered) \in Nat /\ Len(delivered') = Len(delivered) + 1
        /\ \A n \in 1 .. Len(delivered) : delivered'[n] = delivered[n]
        /\ delivered'[Len(delivered) + 1] = udp[l].body
    BY <1>1, <1>8, DeliveredAppended
  <2>6. \A n \in 1 .. Len(delivered') : n \in 1 .. Len(delivered) \/ n = Len(delivered) + 1
    BY <2>5
  <2>7. udp[l].body \in Carried(udp[l]) /\ ~udp[l].recovery_pkt
    BY <1>1, <2>2 DEF Carried
  <2>8. DeliveredFrom(l)'
    <3>1. ASSUME NEW n \in 1 .. Len(delivered')
          PROVE  \E j \in received :
                    /\ delivered'[n] \in Carried(udp[j])
                    /\ InBlock(j, l) => /\ ~udp[j].recovery_pkt
                                        /\ udp[j].fragment_index < rs_inorder_packets'
      <4>1. CASE n \in 1 .. Len(delivered)
        <5>1. PICK j \in received :
                 /\ delivered[n] \in Carried(udp[j])
                 /\ InBlock(j, l) => /\ ~udp[j].recovery_pkt
                                     /\ udp[j].fragment_index < rs_inorder_packets
          BY <1>6, <4>1
        <5>2. InBlock(j, l) => udp[j].fragment_index < rs_inorder_packets + 1
          <6>1. udp[j] \in Datagram
            BY <1>1, ElementOfSeq DEF SurvivalInv, WireInStep
          <6>2. ~udp[j].recovery_pkt => udp[j].fragment_index \in Nat
            BY <6>1, DatagramFields DEF Index
          <6> QED
            BY <2>3, <5>1, <6>2
        <5> QED
          BY <2>2, <2>5, <4>1, <5>1, <5>2
      <4>2. CASE n = Len(delivered) + 1
        <5>1. udp[l].fragment_index < rs_inorder_packets + 1
          BY <1>1, <2>1, <2>3
        <5> QED
          BY <2>2, <2>5, <2>7, <4>2, <5>1
      <4> QED
        BY <2>6, <4>1, <4>2
    <3> QED
      BY <1>1, <1>2, <3>1 DEF DeliveredFrom
  <2>9. DeliveredOrdered'
    <3>1. ASSUME NEW a \in 1 .. Len(delivered) PROVE delivered[a].seq < udp[l].body.seq
      <4>1. PICK j \in received : j # l /\ delivered[a] \in Carried(udp[j])
        BY <1>6
      <4>2. j < l /\ j \in 1 .. Len(udp) /\ l \in 1 .. Len(udp)
        BY <1>1, <1>4, <4>1
      <4> QED
        BY <1>1, <2>7, <4>1, <4>2 DEF ServerInv, PacketsOrdered
    <3>2. ASSUME NEW a \in 1 .. Len(delivered'), NEW b \in 1 .. Len(delivered'), a < b
          PROVE  delivered'[a].seq < delivered'[b].seq
      <4>1. a \in 1 .. Len(delivered)
        BY <2>5, <3>2
      <4>2. CASE b \in 1 .. Len(delivered)
        BY <1>3, <2>5, <3>2, <4>1, <4>2 DEF DeliveredOrdered
      <4>3. CASE b = Len(delivered) + 1
        BY <2>5, <3>1, <4>1, <4>3
      <4> QED
        BY <2>6, <4>2, <4>3
    <3> QED
      BY <3>2 DEF DeliveredOrdered
  <2> QED
    BY <1>5, <2>4, <2>8, <2>9 DEF InOrder
<1> QED
  BY <1>7, <1>8

LEMMA ClientKeptByTaking ==
    ASSUME StreamInv, TakeDatagram, UNCHANGED <<serverVars, networkVars>>
    PROVE  ClientInv'
<1>1. /\ pc = "fragment" /\ lvheader = udp[last] /\ block_id' = block_id
      /\ last \in received /\ udp[last].block_id = block_id
      /\ UNCHANGED <<udp, starts, produced, received, last, late, duplicates, collided>>
      /\ SurvivalInv /\ ServerInv /\ DecoderInv /\ Running /\ lvheader \in Datagram
  BY DEF StreamInv, SurvivalInv, ReceivedInStep, ClientInv, BlockOfLast, DecoderInv,
         HeaderInStep, Running, TakeDatagram, DuplicateShard, TakeRecoveryShard,
         QueueFragment, LostCountPanics, DeliverFragment, TakeOriginalShard,
         serverVars, networkVars
<1>2. pc' \in {"recv", "exited", "panicked"}
  BY DEF TakeDatagram, DuplicateShard, TakeRecoveryShard, QueueFragment, LostCountPanics,
         DeliverFragment
<1>3. BlockOfLast'
  <2>1. udp'[last'] = udp[last]
    BY <1>1
  <2> QED
    BY <1>1, <1>2, <2>1 DEF BlockOfLast
<1>4. CASE DuplicateShard \/ LostCountPanics
  BY <1>3, <1>4 DEF DuplicateShard, LostCountPanics, ClientInv, Running
<1>5. CASE TakeRecoveryShard \/ QueueFragment \/ DeliverFragment
  <2>1. SUFFICES ASSUME ~collided
                 PROVE  DeliveredGenuine' /\ \E l \in received : l = last /\ BlockFrom(l)'
    BY <1>1, <1>3 DEF ClientInv
  <2>2. PICK l \in received : l = last /\ BlockFrom(l)
    BY <1>1, <2>1 DEF StreamInv, ClientInv
  <2>3. InBlock(l, l)
    BY <1>1, <2>2 DEF InBlock, SameRun
  <2>4. ShardsFrom(l)'
    BY <1>1, <1>5, <2>2, <2>3, ShardsKeptByTaking DEF BlockFrom
  <2>5. late = 0 /\ duplicates = 0 => InOrder(l)'
    BY <1>1, <1>5, <2>1, <2>2, <2>3, OrderKeptByTaking DEF BlockFrom
  <2>6. DeliveredGenuine /\ Produced' = Produced
    BY <1>1, <2>1 DEF StreamInv, ClientInv, Produced
  <2>7. ~lvheader.recovery_pkt => lvheader.body \in Produced
    BY <1>1, CarriedProduced DEF Carried
  <2>8. DeliveredGenuine'
    <3>1. CASE TakeRecoveryShard
      BY <2>6, <3>1 DEF TakeRecoveryShard, DeliveredGenuine
    <3>2. CASE QueueFragment
      <4>1. PICK i : i = lvheader.fragment_index
        OBVIOUS
      <4>2. /\ rs_sendq' = [rs_sendq EXCEPT ![i] = lvheader.body]
            /\ delivered' = delivered /\ ~lvheader.recovery_pkt
        BY <3>2, <4>1 DEF QueueFragment, TakeOriginalShard
      <4>3. \A k \in Index : rs_sendq'[k] = rs_sendq[k] \/ rs_sendq'[k] = lvheader.body
        BY <1>1, <4>2 DEF DecoderInv, DecoderTypeOK
      <4> QED
        BY <2>6, <2>7, <4>2, <4>3 DEF DeliveredGenuine
    <3>3. CASE DeliverFragment
      <4>1. rs_sendq' = rs_sendq /\ ~lvheader.recovery_pkt
        BY <3>3 DEF DeliverFragment, TakeOriginalShard
      <4>2. \A n \in 1 .. Len(delivered') :
               \/ n \in 1 .. Len(delivered) /\ delivered'[n] = delivered[n]
               \/ delivered'[n] = lvheader.body
        <5>1. /\ Len(delivered) \in Nat /\ Len(delivered') = Len(delivered) + 1
              /\ \A n \in 1 .. Len(delivered) : delivered'[n] = delivered[n]
              /\ delivered'[Len(delivered) + 1] = lvheader.body
          BY <1>1, <3>3, DeliveredAppended
        <5>2. \A n \in 1 .. Len(delivered') : n \in 1 .. Len(delivered) \/ n = Len(delivered) + 1
          BY <5>1
        <5> QED
          BY <5>1, <5>2
      <4> QED
        BY <2>6, <2>7, <4>1, <4>2 DEF DeliveredGenuine
    <3> QED
      BY <1>5, <3>1, <3>2, <3>3
  <2> QED
    BY <1>1, <2>2, <2>4, <2>5, <2>8 DEF BlockFrom
<1> QED
  BY <1>4, <1>5 DEF TakeDatagram

\* Every step keeps the invariant while the block id does not wrap.
LEMMA StreamInvInductive ==
    StreamInv /\ [Next]_vars /\ ~id_wrapped' => StreamInv'
<1> SUFFICES ASSUME StreamInv, [Next]_vars, ~id_wrapped' PROVE StreamInv'
  OBVIOUS
<1>1. SurvivalInv' /\ ServerInv'
  BY SurvivalInvInductive, ServerInvInductive DEF StreamInv, SurvivalInv
<1>2. ClientInv'
  BY ClientKeptByServer, ClientKeptByArrival, ClientKeptByRecvFails, ClientKeptByClosing,
     ClientKeptByTaking DEF Next, Decode, DecoderStep
<1> QED
  BY <1>1, <1>2 DEF StreamInv

LEMMA StreamInvInit == Init => StreamInv
<1> SUFFICES ASSUME Init PROVE StreamInv
  OBVIOUS
<1>1. SurvivalInv
  BY SurvivalInvInit
<1>2. /\ udp = <<>> /\ enc = <<>> /\ rtp_queue = <<>> /\ produced = <<>>
      /\ received = {} /\ last = 0 /\ collided = FALSE /\ starts = <<>>
  BY DEF Init, Server!Init
<1>3. /\ Len(udp) = 0 /\ 1 .. Len(udp) = {} /\ Len(enc) = 0 /\ 1 .. Len(enc) = {}
      /\ Len(rtp_queue) = 0 /\ 1 .. Len(rtp_queue) = {}
  BY <1>2
<1>4. Run!OneCodePerBlock
  <2>1. LastStart = 0 /\ Wire = <<>>
    BY <1>2 DEF LastStart, Wire
  <2>2. Len(Wire) = 0 /\ 1 .. Len(Wire) = {}
    BY <2>1
  <2> QED
    BY <2>2 DEF Run!OneCodePerBlock, Run!Shards
<1>5. StreamPackets
  <2>1. produced \in Seq(Packet)
    BY <1>2
  <2> QED
    BY <1>3, <2>1 DEF StreamPackets
<1>6. ServerInv
  BY <1>3, <1>4, <1>5 DEF ServerInv, QueueBehind, CodesOrdered, EncoderBehind, PacketsOrdered,
     RunsCovered
<1>7. /\ pc = "recv" /\ DOMAIN rs_original = {} /\ DOMAIN rs_recovery = {}
      /\ rs_sendq = [k \in Index |-> NoPacket] /\ delivered = <<>> /\ Len(delivered) = 0
      /\ 1 .. Len(delivered) = {} /\ rs_inorder_packets = 0 /\ rs_oorder_packets = 0
  BY DEF Init, DecoderInit, NoShards
<1>8. DeliveredGenuine
  BY <1>7 DEF DeliveredGenuine
<1>9. BlockFrom(last)
  <2>1. ShardsFrom(last)
    BY <1>7 DEF ShardsFrom
  <2>2. 0 .. rs_inorder_packets - 1 = {}
    BY <1>7
  <2>3. DeliveredFrom(last) /\ BlockIsLast(last) /\ SlotsInOrder /\ DeliveredOrdered
    BY <1>2, <1>7, <2>2 DEF DeliveredFrom, BlockIsLast, SlotsInOrder, DeliveredOrdered
  <2> QED
    BY <2>1, <2>3 DEF BlockFrom, InOrder
<1>10. ClientInv
  BY <1>2, <1>7, <1>8, <1>9 DEF ClientInv, BlockOfLast
<1> QED
  BY <1>1, <1>6, <1>10 DEF StreamInv

-----------------------------------------------------------------------------
(***************************************************************************)
(* The refinement: with this invariant every step of the video path is one *)
(* of RtpStream or leaves its variables alone.                             *)
(***************************************************************************)
\* A sequence that agrees with a shorter one as far as that goes.
LEMMA LongerSequence ==
    ASSUME NEW S, NEW s \in Seq(S), NEW t \in Seq(S), Len(s) < Len(t),
           \A i \in 1 .. Len(s) : t[i] = s[i]
    PROVE  Stream!IsStrictPrefix(s, t)
<1>1. Len(s) \in Nat /\ Len(t) \in Nat
  OBVIOUS
<1>2. SubSeq(t, 1, Len(s)) = [i \in 1 .. Len(s) |-> t[i]]
  BY <1>1
<1>3. SubSeq(s, 1, Len(s)) = [i \in 1 .. Len(s) |-> s[i]]
  BY <1>1
<1>4. SubSeq(s, 1, Len(s)) = SubSeq(t, 1, Len(s))
  BY <1>2, <1>3
<1>5. s # t
  BY <1>1
<1> QED
  BY <1>1, <1>4, <1>5 DEF Stream!IsStrictPrefix, Stream!IsPrefix

\* The packetizer extends the stream.
LEMMA ProduceImplements ==
    ASSUME StreamInv, Produce
    PROVE  Stream!Produce
<1> DEFINE P == Packet
<1>1. /\ produced \in Seq(P) /\ rtp_queue' \in Seq(P)
      /\ Len(rtp_queue') \in Nat /\ Len(rtp_queue') > 0
      /\ produced' = produced \o rtp_queue'
  BY ProduceEffect DEF StreamInv, SurvivalInv, ServerInv, StreamPackets
<1>2. UNCHANGED <<delivered, late, duplicates, collided>>
  BY DEF Produce, networkVars, decoderVars
<1> HIDE DEF P
<1>3. /\ produced \o rtp_queue' \in Seq(P)
      /\ Len(produced \o rtp_queue') = Len(produced) + Len(rtp_queue')
      /\ \A i \in 1 .. Len(produced) + Len(rtp_queue') :
            (produced \o rtp_queue')[i] = IF i <= Len(produced) THEN produced[i]
                                          ELSE rtp_queue'[i - Len(produced)]
  BY <1>1, ConcatProperties
<1>4. Len(produced) \in Nat
  BY <1>1
<1>5. /\ produced' \in Seq(P) /\ Len(produced) < Len(produced')
      /\ \A i \in 1 .. Len(produced) : produced'[i] = produced[i]
  BY <1>1, <1>3, <1>4
<1>6. Stream!IsStrictPrefix(produced, produced')
  BY <1>1, <1>5, LongerSequence
<1> QED
  BY <1>2, <1>6 DEF Stream!Produce

\* The decode thread shows packets of the stream, and in order unless the
\* network disturbed it.
LEMMA ShowImplements ==
    ASSUME StreamInv, StreamInv', RecoverBlock \/ DeliverFragment,
           UNCHANGED <<serverVars, networkVars>>
    PROVE  Stream!Show
<1>1. /\ DecoderInv /\ DecoderInv' /\ Running'
      /\ UNCHANGED <<produced, late, duplicates, collided>>
      /\ late \in Nat /\ duplicates \in Nat
  <2>1. DecoderInv /\ DecoderInv' /\ late \in Nat /\ duplicates \in Nat
    BY DEF StreamInv, SurvivalInv, ReceivedInStep
  <2>2. Running'
    BY <2>1, CloseBlockInStep DEF CloseBlock, DeliverFragment, Running
  <2> QED
    BY <2>1, <2>2 DEF serverVars, networkVars
<1>2. /\ Len(delivered) \in Nat /\ Len(delivered) < Len(delivered')
      /\ \A n \in 1 .. Len(delivered) : delivered'[n] = delivered[n]
  <2>1. CASE DeliverFragment
    BY <1>1, <2>1, DeliveredAppended
  <2>2. CASE RecoverBlock
    <3> DEFINE s == Cardinality(DOMAIN rs_original)
               r == Cardinality(DOMAIN rs_recovery)
    <3>1. /\ s \in Nat /\ r \in Nat /\ s <= Regular /\ r <= Recovery
          /\ rs_inorder_packets + rs_oorder_packets = s
          /\ rs_recovery_packets = r /\ rs_total_packets = s + r
          /\ rs_inorder_packets \in Nat /\ rs_oorder_packets \in Nat
          /\ NeedsRecovery
      <4>1. DecoderTypeOK /\ CountersInStep /\ Running /\ NeedsRecovery
        BY <1>1, <2>2 DEF DecoderInv, Running, RecoverBlock
      <4>2. s \in Nat /\ r \in Nat /\ s <= Regular /\ r <= Recovery
        BY <4>1, ShardCounts
      <4>3. rs_inorder_packets \in Nat /\ rs_oorder_packets \in Nat
        BY <4>1 DEF DecoderTypeOK
      <4> QED
        BY <4>1, <4>2, <4>3 DEF CountersInStep
    <3>2. s + r - r # Regular
      BY <3>1 DEF NeedsRecovery
    <3>3. rs_inorder_packets < Regular
      BY <3>1, <3>2
    <3> QED
      BY <1>1, <2>2, <3>1, <3>3, RecoveryDelivers
  <2> QED
    BY <2>1, <2>2
<1>3. Stream!IsStrictPrefix(delivered, delivered')
  <2> DEFINE P == Packet \cup {NoPacket, Damaged}
  <2>1. delivered \in Seq(P) /\ delivered' \in Seq(P)
    BY <1>1 DEF DecoderInv, DecoderTypeOK
  <2> HIDE DEF P
  <2> QED
    BY <1>2, <2>1, LongerSequence
<1>4. ASSUME ~collided
      PROVE  /\ DeliveredGenuine'
             /\ late = 0 /\ duplicates = 0 => DeliveredOrdered'
  <2>1. /\ DeliveredGenuine'
        /\ \E m \in received' \cup {last'} : BlockFrom(m)'
    BY <1>1, <1>4 DEF StreamInv, ClientInv
  <2> QED
    BY <1>1, <2>1 DEF BlockFrom, InOrder
<1>5. ASSUME ~collided PROVE Stream!Genuine
  <2>1. /\ \A n \in 1 .. Len(delivered') : delivered'[n] \in Produced
        /\ Len(delivered') \in Nat /\ Len(produced) \in Nat
        /\ DOMAIN delivered' = 1 .. Len(delivered') /\ DOMAIN produced = 1 .. Len(produced)
    <3>1. \A n \in 1 .. Len(delivered') : delivered'[n] \in Produced
      BY <1>1, <1>4, <1>5 DEF DeliveredGenuine, Produced
    <3>2. /\ delivered' \in Seq(Packet \cup {NoPacket, Damaged}) /\ produced \in Seq(Packet)
      BY <1>1 DEF DecoderInv, DecoderTypeOK, StreamInv, ServerInv, StreamPackets
    <3> QED
      BY <3>1, <3>2
  <2> QED
    BY <2>1 DEF Stream!Genuine, Stream!ToSet, Produced
<1>6. ASSUME ~collided, ~(late > 0 \/ duplicates > 0) PROVE Stream!Ordered
  <2>1. late = 0 /\ duplicates = 0
    BY <1>1, <1>6
  <2> QED
    BY <1>4, <1>6, <2>1 DEF DeliveredOrdered, Stream!Ordered
<1> QED
  BY <1>1, <1>3, <1>5, <1>6 DEF Stream!Show

LEMMA StepImplements ==
    StreamInv /\ [Next]_vars /\ ~id_wrapped' =>
        [Stream!Produce \/ Stream!Disturb \/ Stream!Show]_(Stream!vars)
<1> SUFFICES ASSUME StreamInv, [Next]_vars, ~id_wrapped'
             PROVE  [Stream!Produce \/ Stream!Disturb \/ Stream!Show]_(Stream!vars)
  OBVIOUS
<1>1. StreamInv'
  BY StreamInvInductive
<1>2. CASE UNCHANGED <<produced, delivered, late, duplicates, collided>>
  BY <1>2 DEF Stream!vars
<1>3. CASE Produce
  BY <1>3, ProduceImplements
<1>4. CASE Arrive
  <2>1. PICK k \in 1 .. Len(udp) :
           /\ Receive(udp[k])
           /\ duplicates' = IF k \in received THEN duplicates + 1 ELSE duplicates
           /\ late' = IF k < newest /\ k \notin received THEN late + 1 ELSE late
           /\ collided' = (collided \/ Collides(k))
           /\ UNCHANGED produced
    BY <1>4 DEF Arrive, serverVars
  <2>2. late \in Nat /\ duplicates \in Nat
    BY DEF StreamInv, SurvivalInv, ReceivedInStep
  <2>3. late > 0 \/ duplicates > 0 => late' > 0 \/ duplicates' > 0
    BY <2>1, <2>2
  <2>4. delivered' = delivered
    BY <2>1 DEF Receive
  <2>5. Stream!Disturb
    BY <2>1, <2>3, <2>4 DEF Stream!Disturb
  <2> QED
    BY <2>5
<1>5. CASE Decode
  <2>1. UNCHANGED <<serverVars, networkVars>>
    BY <1>5 DEF Decode
  <2>2. CASE RecoverBlock \/ DeliverFragment
    BY <1>1, <2>1, <2>2, ShowImplements
  <2>3. CASE SkipRecovery \/ RecoveryFails \/ DuplicateShard \/ TakeRecoveryShard
                \/ QueueFragment \/ LostCountPanics
    BY <1>2, <2>1, <2>3 DEF SkipRecovery, RecoveryFails, DuplicateShard, TakeRecoveryShard,
       QueueFragment, LostCountPanics, serverVars, networkVars
  <2> QED
    BY <1>5, <2>2, <2>3 DEF Decode, DecoderStep, CloseBlock, TakeDatagram
<1>6. CASE Send \/ RestartServer \/ RecvFails \/ UNCHANGED vars
  BY <1>2, <1>6 DEF Send, RestartServer, RecvFails, vars, serverVars, networkVars, decoderVars
<1> QED
  BY <1>3, <1>4, <1>5, <1>6 DEF Next

LEMMA InitImplements == Init => Stream!Init
BY DEF Init, DecoderInit, Stream!Init

\* The client shows what RtpStream promises: whatever is lost, repeated or late
\* and however the server is restarted, its depacketizer gets packets the
\* packetizer produced, each intact, and in their order and at most once unless
\* a datagram came late or twice; only a block mixed from two runs of the server
\* voids that (video.rs:304-444), as long as no run lasts until its block id
\* wraps.
THEOREM StreamImplementsRtp == Spec /\ []~id_wrapped => ImplementsRtpStream
<1>1. Init => Stream!Init
  BY InitImplements
<1>2. Init => StreamInv
  BY StreamInvInit
<1>3. StreamInv /\ [Next]_vars /\ ~id_wrapped' => StreamInv'
  BY StreamInvInductive
<1>4. StreamInv /\ [Next]_vars /\ ~id_wrapped' =>
         [Stream!Produce \/ Stream!Disturb \/ Stream!Show]_(Stream!vars)
  BY StepImplements
<1> QED
  BY <1>1, <1>2, <1>3, <1>4, PTL DEF Spec, ImplementsRtpStream, Stream!Spec

\* So it is for every stream of fewer than BlockIdLimit blocks.
THEOREM ShortStreamImplementsRtp ==
    ASSUME MaxSeq < BlockIdLimit * Regular
    PROVE  Spec => ImplementsRtpStream
BY BlockIdNeverWraps, StreamImplementsRtp, PTL

-----------------------------------------------------------------------------
(***************************************************************************)
(* Enough fragments restore a block.  In a run of the server from the      *)
(* start a label is the place of its packet in the stream: packet n of the *)
(* stream is fragment n % Regular of block n \div Regular, until a failed  *)
(* send of a recovery shard stops the labelling.                           *)
(***************************************************************************)
\* The number of fragment i of block b.
Number(b, i) == b * Regular + i

ProducedNumbered ==
    /\ Len(produced) = next_seq
    /\ \A n \in 1 .. Len(produced) : produced[n].seq + 1 = n

QueueNumbered ==
    \A n \in 1 .. Len(rtp_queue) : rtp_queue[n].seq + Len(rtp_queue) + 1 = next_seq + n

NextLabelNumbered ==
    Run!Labelling =>
        \/ Run!Wedged
        \/ Number(current_block_id, current_regular_fragment_index) + Len(rtp_queue) = next_seq

EncoderNumbered ==
    Run!Labelling =>
        \A i \in Index : i + 1 \in 1 .. Len(enc) => enc[i + 1].seq = Number(EncodedId, i)

WireNumbered ==
    \A k \in 1 .. Len(udp) :
        IF udp[k].recovery_pkt
        THEN \A i \in Index : udp[k].body.code[i].seq = Number(udp[k].block_id, i)
        ELSE udp[k].body.seq = Number(udp[k].block_id, udp[k].fragment_index)

NumberedInv ==
    /\ ProducedNumbered
    /\ QueueNumbered
    /\ starts = <<>> => NextLabelNumbered /\ EncoderNumbered /\ WireNumbered

\* The number of the next label.
LEMMA NumberAdvances ==
    ASSUME NEW b \in Nat, NEW i \in Index, NEW q \in Nat, NEW next \in Nat, q > 0,
           Number(b, i) + q = next
    PROVE  /\ Number(b, i) \in Nat
           /\ i = Regular - 1 => Number(b + 1, 0) + (q - 1) = next
           /\ i # Regular - 1 => Number(b, i + 1) + (q - 1) = next
<1> DEFINE p == b * Regular
<1>1. p \in Nat /\ (b + 1) * Regular = p + Regular /\ i \in Nat
  BY DEF Index
<1>2. p + i + q = next
  BY DEF Number
<1>3. i = Regular - 1 => (p + Regular) + 0 + (q - 1) = next
  <2> HIDE DEF p
  <2> QED
    BY <1>1, <1>2
<1>4. i # Regular - 1 => p + (i + 1) + (q - 1) = next
  <2> HIDE DEF p
  <2> QED
    BY <1>1, <1>2
<1> QED
  BY <1>1, <1>3, <1>4 DEF Number

\* A frame's packets and what a call leaves of them keep their numbers.
LEMMA StreamNumberedPreserved ==
    ASSUME WireInStep, StreamPackets, ProducedNumbered, QueueNumbered, [Next]_vars
    PROVE  ProducedNumbered' /\ QueueNumbered'
<1>1. CASE Produce
  <2> DEFINE P == Packet
  <2>1. /\ next_seq \in Nat /\ Len(rtp_queue') \in Nat /\ next_seq' = next_seq + Len(rtp_queue')
        /\ rtp_queue' \in Seq(P) /\ produced \in Seq(P) /\ produced' = produced \o rtp_queue'
        /\ \A n \in 1 .. Len(rtp_queue') : rtp_queue'[n].seq = next_seq + n - 1
    BY <1>1, ProduceEffect DEF StreamPackets
  <2> HIDE DEF P
  <2>2. /\ Len(produced') = Len(produced) + Len(rtp_queue') /\ Len(produced) \in Nat
        /\ \A i \in 1 .. Len(produced) + Len(rtp_queue') :
              produced'[i] = IF i <= Len(produced) THEN produced[i]
                                                   ELSE rtp_queue'[i - Len(produced)]
    BY <2>1, ConcatProperties
  <2>3. ASSUME NEW n \in 1 .. Len(produced') PROVE produced'[n].seq + 1 = n
    <3>1. CASE n <= Len(produced)
      <4>1. n \in 1 .. Len(produced) /\ produced'[n] = produced[n]
        BY <2>1, <2>2, <3>1
      <4> QED
        BY <4>1 DEF ProducedNumbered
    <3>2. CASE ~(n <= Len(produced))
      <4>0. n - Len(produced) \in 1 .. Len(rtp_queue')
        <5>1. /\ n \in Nat /\ Len(produced) \in Nat /\ Len(rtp_queue') \in Nat
              /\ n <= Len(produced) + Len(rtp_queue')
          BY <2>1, <2>2
        <5> QED
          BY <3>2, <5>1
      <4>1. PICK i \in 1 .. Len(rtp_queue') : i = n - Len(produced)
        BY <4>0
      <4>2. produced'[n] = rtp_queue'[i]
        BY <2>1, <2>2, <3>2, <4>1
      <4>3. rtp_queue'[i].seq = next_seq + i - 1
        BY <2>1
      <4> QED
        BY <2>1, <2>2, <4>1, <4>2, <4>3 DEF ProducedNumbered
    <3> QED
      BY <3>1, <3>2
  <2>4. ProducedNumbered'
    BY <2>1, <2>2, <2>3 DEF ProducedNumbered
  <2>5. ASSUME NEW n \in 1 .. Len(rtp_queue')
        PROVE  rtp_queue'[n].seq + Len(rtp_queue') + 1 = next_seq' + n
    <3>1. rtp_queue'[n].seq = next_seq + n - 1
      BY <2>1
    <3>2. next_seq + n - 1 \in Nat
      BY <2>1
    <3> QED
      BY <2>1, <3>1, <3>2
  <2> QED
    BY <2>4, <2>5 DEF QueueNumbered
<1>2. CASE Send
  <2>1. /\ next_seq' = next_seq /\ Len(rtp_queue) \in Nat
        /\ Len(rtp_queue') = Len(rtp_queue) - 1 /\ rtp_queue \in Seq(Packet)
        /\ \A n \in 1 .. Len(rtp_queue') : rtp_queue'[n] = rtp_queue[n + 1]
        /\ produced' = produced
    BY <1>2, SendEffect
  <2>2. ProducedNumbered'
    BY <2>1 DEF ProducedNumbered
  <2>3. ASSUME NEW n \in 1 .. Len(rtp_queue')
        PROVE  rtp_queue'[n].seq + Len(rtp_queue') + 1 = next_seq + n
    <3>1. n + 1 \in 1 .. Len(rtp_queue)
      BY <2>1
    <3>2. PICK x : x = rtp_queue[n + 1].seq
      OBVIOUS
    <3>3. x + Len(rtp_queue) + 1 = next_seq + (n + 1)
      BY <3>1, <3>2 DEF QueueNumbered
    <3>4. x \in Nat
      <4>1. rtp_queue[n + 1] \in Packet
        BY <2>1, <3>1, ElementOfSeq
      <4> QED
        BY <3>2, <4>1 DEF Packet
    <3>5. x + (Len(rtp_queue) - 1) + 1 = next_seq + n
      <4>1. next_seq \in Nat /\ n \in Nat /\ Len(rtp_queue) \in Nat
        BY <2>1 DEF WireInStep, Run!PackagerInv, Run!TypeOK
      <4>2. \A l, m \in Nat : x + l + 1 = m + (n + 1) => x + (l - 1) + 1 = m + n
        BY <3>4, <4>1
      <4> QED
        BY <3>3, <4>1, <4>2
    <3> QED
      BY <2>1, <3>2, <3>5
  <2> QED
    BY <2>1, <2>2, <2>3 DEF QueueNumbered
<1>3. CASE RestartServer
  <2>1. next_seq' = next_seq /\ rtp_queue' = <<>> /\ produced' = produced
    BY <1>3 DEF RestartServer
  <2>2. 1 .. Len(rtp_queue') = {}
    BY <2>1
  <2> QED
    BY <2>1, <2>2 DEF ProducedNumbered, QueueNumbered
<1>4. CASE Arrive \/ RecvFails \/ Decode \/ UNCHANGED vars
  <2>1. UNCHANGED <<next_seq, rtp_queue, produced>>
    BY <1>4 DEF Arrive, RecvFails, Decode, vars, serverVars
  <2> QED
    BY <2>1 DEF ProducedNumbered, QueueNumbered
<1> QED
  BY <1>1, <1>2, <1>3, <1>4 DEF Next

\* The fragment a call sends has the number of its label.
LEMMA HeadNumbered ==
    ASSUME WireInStep, Send, QueueNumbered, NextLabelNumbered, Run!Labelling,
           Run!SendFragment
    PROVE  /\ Head(rtp_queue).seq
                 = Number(current_block_id, current_regular_fragment_index)
           /\ Number(current_block_id, current_regular_fragment_index) + Len(rtp_queue)
                 = next_seq
           /\ current_block_id \in Nat /\ current_regular_fragment_index \in Index
           /\ next_seq \in Nat
<1>1. /\ current_block_id \in Nat /\ current_regular_fragment_index \in Index
      /\ next_seq \in Nat /\ enc \in Seq(Packet)
  BY RunDatagrams DEF WireInStep, Run!PackagerInv, Run!TypeOK, Run!Packet, Packet, Run!Index, Index
<1>2. /\ Head(rtp_queue) = rtp_queue[1] /\ Head(rtp_queue) \in Packet
      /\ Len(rtp_queue) \in Nat /\ Len(rtp_queue) > 0
  BY SendEffect
<1>3. ~Run!Wedged
  <2>1. Run!EncodeDue = Run!EncoderFull
    BY DEF Run!SendFragment
  <2>2. enc = <<>> => Len(enc) = 0
    OBVIOUS
  <2> QED
    BY <2>1, <2>2 DEF Run!Wedged, Run!EncoderFull
<1> DEFINE p == Number(current_block_id, current_regular_fragment_index)
<1>4. p + Len(rtp_queue) = next_seq
  BY <1>3 DEF NextLabelNumbered
<1>5. p \in Nat
  BY <1>1, <1>2, <1>4, NumberAdvances
<1>6. Head(rtp_queue).seq + Len(rtp_queue) + 1 = next_seq + 1
  BY <1>2 DEF QueueNumbered
<1>7. Head(rtp_queue).seq \in Nat
  BY <1>2 DEF Packet
<1> HIDE DEF p
<1>8. Head(rtp_queue).seq = p
  BY <1>1, <1>2, <1>4, <1>5, <1>6, <1>7
<1> QED
  BY <1>1, <1>4, <1>8 DEF p

\* A call sends a fragment, or it has left the encoder empty where a codeword is
\* due.
LEMMA LabelOrWedge ==
    ASSUME WireInStep, Send, Run!Labelling, Run!Labelling'
    PROVE  Run!SendFragment \/ (Run!Wedged' /\ enc' = <<>>)
<1>1. Run!SendNextPkt
  BY SendIsRun
<1>2. /\ Run!EncoderInStep /\ current_regular_fragment_index \in Index
      /\ status = "running" /\ ~id_wrapped /\ status' = "running"
  BY DEF WireInStep, Run!PackagerInv, Run!TypeOK, Run!Labelling, Run!Index, Index
<1>3. CASE Run!EncodeFails
  <2>1. Run!EncodeDue /\ ~Run!EncoderFull /\ UNCHANGED <<enc, current_block_id,
                                                        current_regular_fragment_index>>
    BY <1>3 DEF Run!EncodeFails, Run!labelVars, Run!blockVars
  <2>2. Run!Wedged
    BY <1>2, <2>1 DEF Run!EncoderInStep
  <2> QED
    BY <2>1, <2>2 DEF Run!Wedged, Run!EncodeDue
<1>4. CASE Run!RecoverySendFails
  BY <1>4 DEF Run!RecoverySendFails, Run!labelVars, Run!Wedged, Run!EncodeDue
<1>5. CASE Run!AddShardFails
  <2>1. ~Run!EncodeDue /\ Len(enc) = Regular
    BY <1>5 DEF Run!AddShardFails, Run!EncoderFull
  <2>2. Len(enc) = current_regular_fragment_index
    BY <1>2, <2>1 DEF Run!EncoderInStep, Run!Wedged
  <2> QED
    BY <1>2, <2>1, <2>2 DEF Index
<1>6. CASE Run!BlockIdOverflow
  BY <1>2, <1>6 DEF Run!BlockIdOverflow
<1> QED
  BY <1>1, <1>3, <1>4, <1>5, <1>6 DEF Run!SendNextPkt

LEMMA LabelsNumberedPreserved ==
    ASSUME WireInStep, Send, QueueNumbered, NextLabelNumbered, EncoderNumbered, ~id_wrapped'
    PROVE  NextLabelNumbered' /\ EncoderNumbered'
<1>1. SUFFICES ASSUME Run!Labelling' PROVE NextLabelNumbered' /\ EncoderNumbered'
  BY DEF NextLabelNumbered, EncoderNumbered
<1>2. Run!Labelling
  BY LabellingBefore
<1>3. CASE Run!Wedged' /\ enc' = <<>>
  <2>1. Len(enc') = 0 /\ \A i \in Index : i + 1 \notin 1 .. Len(enc')
    BY <1>3 DEF Index
  <2> QED
    BY <1>3, <2>1 DEF NextLabelNumbered, EncoderNumbered
<1>4. CASE Run!SendFragment
  <2> DEFINE b == current_block_id
             f == current_regular_fragment_index
             q == Len(rtp_queue)
             h == Head(rtp_queue)
             s == Run!ShardsBefore(Run!EncodeDue)
  <2>1. /\ Run!TypeOK /\ Run!EncoderInStep
    BY DEF WireInStep, Run!PackagerInv
  <2>2. /\ Run!EncodeDue = Run!EncoderFull /\ Len(s) = f /\ enc' = Append(s, h)
        /\ \/ f = Regular - 1 /\ f' = 0 /\ b' = b + 1
           \/ f < Regular - 1 /\ f' = f + 1 /\ b' = b
    BY <1>1, <1>2, <1>4, <2>1, RunAssumptions, Run!SendFragmentEffect
  <2>3. /\ h.seq = Number(b, f) /\ Number(b, f) + q = next_seq
        /\ b \in Nat /\ f \in Index /\ next_seq \in Nat
    BY <1>2, <1>4, HeadNumbered
  <2>4. /\ q \in Nat /\ q > 0 /\ Len(rtp_queue') = q - 1 /\ next_seq' = next_seq
        /\ enc \in Seq(Packet) /\ h \in Packet
    BY SendEffect
  <2>5. NextLabelNumbered'
    <3>1. \/ f' = 0 /\ b' = b + 1 /\ Number(b + 1, 0) + (q - 1) = next_seq
          \/ f' = f + 1 /\ b' = b /\ Number(b, f + 1) + (q - 1) = next_seq
      <4>1. /\ f = Regular - 1 => Number(b + 1, 0) + (q - 1) = next_seq
            /\ f # Regular - 1 => Number(b, f + 1) + (q - 1) = next_seq
        <5> HIDE DEF b, f, q
        <5> QED
          BY <2>3, <2>4, NumberAdvances
      <4>2. f < Regular - 1 => f # Regular - 1
        BY <2>3 DEF Index
      <4> QED
        BY <2>2, <4>1, <4>2
    <3>2. Number(b', f') + Len(rtp_queue') = next_seq'
      BY <2>4, <3>1
    <3> QED
      BY <3>2 DEF NextLabelNumbered, Number
  <2>6. EncoderNumbered'
    <3>1. EncodedId' = b
      BY <1>2, <1>4, BlockAfterFragment
    <3>2. (s = enc /\ ~Run!EncodeDue /\ EncodedId = b) \/ Len(s) = 0
      BY DEF Run!ShardsBefore, EncodedId
    <3>3. \A i \in Index : i + 1 \in 1 .. Len(s) => s[i + 1].seq = Number(b, i)
      BY <1>2, <3>2 DEF EncoderNumbered
    <3>4. s \in Seq(Packet)
      <4>1. <<>> \in Seq(Packet)
        OBVIOUS
      <4> QED
        BY <2>4, <4>1 DEF Run!ShardsBefore
    <3>5. /\ Len(enc') = f + 1 /\ enc'[f + 1] = h
          /\ \A n \in 1 .. f : enc'[n] = s[n]
      <4> DEFINE P == Packet
      <4>1. s \in Seq(P) /\ h \in P
        BY <2>4, <3>4
      <4> HIDE DEF P, s, h, f
      <4> QED
        BY <2>2, <4>1
    <3>6. ASSUME NEW i \in Index, i + 1 \in 1 .. Len(enc') PROVE enc'[i + 1].seq = Number(b, i)
      <4>1. i + 1 \in 1 .. f \/ i = f
        <5> HIDE DEF f
        <5> QED
          BY <2>3, <3>5, <3>6 DEF Index
      <4>2. CASE i + 1 \in 1 .. f
        BY <2>2, <3>3, <3>5, <4>2
      <4>3. CASE i = f
        BY <2>3, <3>5, <4>3
      <4> QED
        BY <4>1, <4>2, <4>3
    <3> QED
      BY <3>1, <3>6 DEF EncoderNumbered
  <2> QED
    BY <2>5, <2>6
<1> QED
  BY <1>1, <1>2, <1>3, <1>4, LabelOrWedge

LEMMA WireNumberedPreserved ==
    ASSUME WireInStep, QueueNumbered, NextLabelNumbered, EncoderNumbered, WireNumbered,
           [Next]_vars, ~id_wrapped'
    PROVE  WireNumbered'
<1>0. /\ Len(udp) \in Nat /\ Len(udp') \in Nat /\ Len(udp) <= Len(udp')
      /\ \A k \in 1 .. Len(udp) : udp'[k] = udp[k]
  BY WireOnlyGrows
<1>1. CASE Send
  <2>1. Run!Labelling
    BY <1>1, LabellingBefore
  <2>2. ASSUME NEW k \in Len(udp) + 1 .. Len(udp')
        PROVE  IF udp'[k].recovery_pkt
               THEN \A i \in Index : udp'[k].body.code[i].seq = Number(udp'[k].block_id, i)
               ELSE udp'[k].body.seq = Number(udp'[k].block_id, udp'[k].fragment_index)
    <3>1. CASE /\ Run!EncodeDue /\ Run!EncoderFull
               /\ udp'[k].recovery_pkt
               /\ udp'[k].block_id = current_block_id - 1
               /\ udp'[k].body.code = Run!EncodedBlock
      <4>1. EncodedId = current_block_id - 1 /\ Len(enc) = Regular
        BY <3>1 DEF EncodedId, Run!EncoderFull
      <4>2. \A i \in Index : i + 1 \in 1 .. Regular
        BY DEF Index
      <4>3. \A i \in Index : Run!EncodedBlock[i] = enc[i + 1]
        BY DEF Run!EncodedBlock, Run!Index, Index
      <4> QED
        BY <2>1, <3>1, <4>1, <4>2, <4>3 DEF EncoderNumbered
    <3>2. CASE /\ Run!SendFragment
               /\ ~udp'[k].recovery_pkt
               /\ udp'[k].block_id = current_block_id
               /\ udp'[k].fragment_index = current_regular_fragment_index
               /\ udp'[k].body = Head(rtp_queue)
      BY <1>1, <2>1, <3>2, HeadNumbered
    <3> QED
      BY <1>1, <3>1, <3>2, NewDatagrams
  <2>3. \A k \in 1 .. Len(udp') : k \in 1 .. Len(udp) \/ k \in Len(udp) + 1 .. Len(udp')
    BY <1>0
  <2> QED
    BY <1>0, <2>2, <2>3 DEF WireNumbered
<1>2. CASE UNCHANGED udp
  BY <1>2 DEF WireNumbered
<1> QED
  BY <1>1, <1>2, ProduceEffect
  DEF Next, RestartServer, Arrive, RecvFails, Decode, vars, serverVars

\* A restart is counted.
LEMMA RestartCounted ==
    ASSUME WireInStep, RestartServer
    PROVE  starts' # <<>>
<1>1. starts \in Seq(Nat) /\ Len(udp) \in Nat
  BY DEF WireInStep, StartsInStep
<1>2. starts' = Append(starts, Len(udp))
  BY DEF RestartServer
<1> QED
  BY <1>1, <1>2

\* Every step keeps the numbers.
LEMMA NumberedInvPreserved ==
    ASSUME WireInStep, StreamPackets, NumberedInv, [Next]_vars, ~id_wrapped'
    PROVE  NumberedInv'
<1>1. ProducedNumbered' /\ QueueNumbered'
  BY StreamNumberedPreserved DEF NumberedInv
<1>2. SUFFICES ASSUME starts' = <<>>
               PROVE  NextLabelNumbered' /\ EncoderNumbered' /\ WireNumbered'
  BY <1>1 DEF NumberedInv
<1>3. ~RestartServer
  BY <1>2, RestartCounted
<1>4. starts' = starts
  BY <1>3 DEF Next, Produce, Send, Arrive, RecvFails, Decode, vars, serverVars
<1>5. /\ QueueNumbered /\ NextLabelNumbered /\ EncoderNumbered /\ WireNumbered
  BY <1>2, <1>4 DEF NumberedInv
<1>6. WireNumbered'
  BY <1>5, WireNumberedPreserved
<1>7. CASE Send
  BY <1>5, <1>6, <1>7, LabelsNumberedPreserved
<1>8. CASE Produce
  <2>1. /\ rtp_queue = <<>> /\ Len(rtp_queue) = 0 /\ Len(rtp_queue') \in Nat
        /\ next_seq' = next_seq + Len(rtp_queue')
        /\ UNCHANGED <<enc, current_block_id, current_regular_fragment_index, id_wrapped,
                       status>>
    BY <1>8, ProduceEffect
  <2>2. EncoderNumbered'
    BY <1>5, <2>1 DEF EncoderNumbered, EncodedId, Run!Labelling, Run!EncodeDue, Run!EncoderFull
  <2>3. ASSUME Run!Labelling, ~Run!Wedged
        PROVE  Number(current_block_id, current_regular_fragment_index) + Len(rtp_queue')
                  = next_seq'
    <3> DEFINE p == Number(current_block_id, current_regular_fragment_index)
    <3>1. p + 0 = next_seq /\ next_seq \in Nat
      BY <1>5, <2>1, <2>3 DEF NextLabelNumbered, WireInStep, Run!PackagerInv, Run!TypeOK
    <3>2. p \in Nat
      <4>1. current_block_id \in Nat /\ current_regular_fragment_index \in Nat
        BY DEF WireInStep, Run!PackagerInv, Run!TypeOK, Run!Index
      <4> QED
        BY <4>1 DEF Number
    <3> HIDE DEF p
    <3>3. p = next_seq
      BY <3>1, <3>2
    <3> QED
      BY <2>1, <3>3 DEF p
  <2>4. NextLabelNumbered'
    BY <2>1, <2>3 DEF NextLabelNumbered, Run!Labelling, Run!Wedged, Run!EncodeDue, Number
  <2> QED
    BY <1>6, <2>2, <2>4
<1>9. CASE Arrive \/ RecvFails \/ Decode \/ UNCHANGED vars
  <2>1. UNCHANGED <<next_seq, rtp_queue, enc, current_block_id,
                    current_regular_fragment_index, id_wrapped, status>>
    BY <1>9 DEF Arrive, RecvFails, Decode, vars, serverVars
  <2>2. NextLabelNumbered'
    BY <1>5, <2>1 DEF NextLabelNumbered, Run!Labelling, Run!Wedged, Run!EncodeDue, Number
  <2>3. EncoderNumbered'
    BY <1>5, <2>1 DEF EncoderNumbered, EncodedId, Run!Labelling, Run!EncodeDue,
                      Run!EncoderFull
  <2> QED
    BY <1>6, <2>2, <2>3
<1> QED
  BY <1>3, <1>7, <1>8, <1>9 DEF Next

-----------------------------------------------------------------------------
(***************************************************************************)
(* The client.  In a run of the server from the start, with nothing late   *)
(* or repeated, every datagram of the open block is a shard of the         *)
(* decoder, what came in order is delivered, and what did not lies behind  *)
(* a gap; so Regular fragments of a block either are its packets, all      *)
(* delivered, or are enough for decode().                                  *)
(***************************************************************************)
InTime == starts = <<>> /\ late = 0 /\ duplicates = 0

\* Blocks are mixed only once the server is restarted, and nothing is behind
\* the first block.
FirstBlock ==
    /\ starts = <<>> => ~collided
    /\ received = {} => block_id = 0

HandledShards ==
    \A j \in received : Handled(j) /\ udp[j].block_id = block_id =>
        udp[j].fragment_index \in
            DOMAIN (IF udp[j].recovery_pkt THEN rs_recovery ELSE rs_original)

PrefixDelivered ==
    \A k \in 0 .. rs_inorder_packets - 1 :
        k \in DOMAIN rs_original /\ rs_original[k] \in Delivered

GapKept ==
    rs_oorder_packets > 0 =>
        /\ rs_inorder_packets \notin DOMAIN rs_original
        /\ \E k \in DOMAIN rs_original : k > rs_inorder_packets

BlockDelivered(b) == \A k \in Index : \E p \in Delivered : p.seq = Number(b, k)

ClosedBlocks ==
    \A b \in Nat : b < block_id /\ Cardinality(FragmentsReceived(b)) >= Regular =>
        BlockDelivered(b)

ClosedInv ==
    InTime /\ Running =>
        /\ HandledShards
        /\ PrefixDelivered
        /\ GapKept
        /\ ClosedBlocks

MinimumInv ==
    /\ StreamInv
    /\ NumberedInv
    /\ FirstBlock
    /\ ClosedInv

\* Without a restart all places are of one run.
LEMMA OneRun ==
    ASSUME starts = <<>>
    PROVE  /\ \A j, k : SameRun(j, k) /\ RunOf(j) = RunOf(k)
           /\ \A j, m : InBlock(j, m) <=> udp[j].block_id = block_id
<1>1. 1 .. Len(starts) = {}
  OBVIOUS
<1>2. \A k : {n \in 1 .. Len(starts) : starts[n] < k} = {}
  BY <1>1
<1>3. \A j, k : SameRun(j, k)
  BY <1>1 DEF SameRun
<1>4. \A j, k : RunOf(j) = RunOf(k)
  BY <1>2 DEF RunOf
<1> QED
  BY <1>3, <1>4 DEF InBlock

\* What the invariant says of the open block while all is in time.
LEMMA OpenBlock ==
    ASSUME MinimumInv, InTime, Running
    PROVE  /\ ~collided /\ SlotsInOrder
           /\ HandledShards /\ PrefixDelivered /\ GapKept /\ ClosedBlocks
           /\ \E m \in received \cup {last} :
                 (pc # "new_block" => m = last) /\ BlockFrom(m) /\ BlockIsLast(m)
           /\ \A i \in DOMAIN rs_original : \E j \in received :
                 /\ udp[j].block_id = block_id /\ ~udp[j].recovery_pkt
                 /\ udp[j].fragment_index = i /\ udp[j].body = rs_original[i]
           /\ \A i \in DOMAIN rs_original : rs_original[i].seq = Number(block_id, i)
<1>1. ~collided /\ HandledShards /\ PrefixDelivered /\ GapKept /\ ClosedBlocks
  BY DEF MinimumInv, FirstBlock, ClosedInv, InTime
<1>2. PICK m \in received \cup {last} : (pc # "new_block" => m = last) /\ BlockFrom(m)
  BY <1>1 DEF MinimumInv, StreamInv, ClientInv
<1>3. ShardsFrom(m) /\ BlockIsLast(m) /\ SlotsInOrder
  BY <1>2 DEF BlockFrom, InOrder, InTime
<1>4. \A j : InBlock(j, m) <=> udp[j].block_id = block_id
  BY OneRun DEF InTime
<1>5. \A i \in DOMAIN rs_original : \E j \in received :
         /\ udp[j].block_id = block_id /\ ~udp[j].recovery_pkt
         /\ udp[j].fragment_index = i /\ udp[j].body = rs_original[i]
  BY <1>3, <1>4 DEF ShardsFrom
<1>6. WireNumbered /\ received \subseteq 1 .. Len(udp)
  BY DEF MinimumInv, NumberedInv, InTime, StreamInv, SurvivalInv, ReceivedInStep
<1>7. \A i \in DOMAIN rs_original : rs_original[i].seq = Number(block_id, i)
  <2> SUFFICES ASSUME NEW i \in DOMAIN rs_original
               PROVE  rs_original[i].seq = Number(block_id, i)
    OBVIOUS
  <2>1. PICK j \in received :
           /\ udp[j].block_id = block_id /\ ~udp[j].recovery_pkt
           /\ udp[j].fragment_index = i /\ udp[j].body = rs_original[i]
    BY <1>5
  <2>2. udp[j].body.seq = Number(udp[j].block_id, udp[j].fragment_index)
    BY <1>6, <2>1 DEF WireNumbered
  <2> QED
    BY <2>1, <2>2
<1> QED
  BY <1>1, <1>2, <1>3, <1>5, <1>7

\* What was delivered stays so.
LEMMA DeliveredGrows ==
    ASSUME DecoderInv, [Next]_vars
    PROVE  Delivered \subseteq Delivered'
<1>1. CASE RecoverBlock
  <2>1. /\ Len(delivered) \in Nat /\ Len(delivered') \in Nat /\ Len(delivered) <= Len(delivered')
        /\ \A n \in 1 .. Len(delivered) : delivered'[n] = delivered[n]
    <3>1. rs_inorder_packets \in 0 .. Regular
      BY DEF DecoderInv, DecoderTypeOK
    <3> QED
      BY <1>1, <3>1, RecoveryDelivers
  <2>2. \A n \in 1 .. Len(delivered) : n \in 1 .. Len(delivered')
    BY <2>1
  <2> QED
    BY <2>1, <2>2 DEF Delivered
<1>2. CASE DeliverFragment
  <2>1. /\ Len(delivered) \in Nat /\ Len(delivered') = Len(delivered) + 1
        /\ \A n \in 1 .. Len(delivered) : delivered'[n] = delivered[n]
    BY <1>2, DeliveredAppended
  <2>2. \A n \in 1 .. Len(delivered) : n \in 1 .. Len(delivered')
    BY <2>1
  <2> QED
    BY <2>1, <2>2 DEF Delivered
<1>3. CASE UNCHANGED delivered
  BY <1>3 DEF Delivered
<1> QED
  BY <1>1, <1>2, <1>3
  DEF Next, Produce, Send, RestartServer, Arrive, Receive, RecvFails, Decode, DecoderStep,
      CloseBlock, SkipRecovery, RecoveryFails, TakeDatagram, DuplicateShard,
      TakeRecoveryShard, QueueFragment, LostCountPanics, vars, decoderVars

\* Datagrams of a block with indices of their own count no more than the indices.
LEMMA ByIndex ==
    ASSUME NEW S, NEW T, IsFiniteSet(T),
           \A j \in S : udp[j].fragment_index \in T,
           \A j, k \in S : j # k => udp[j].fragment_index # udp[k].fragment_index
    PROVE  IsFiniteSet(S) /\ Cardinality(S) <= Cardinality(T)
<1> DEFINE f == [j \in S |-> udp[j].fragment_index]
<1>1. f \in Injection(S, T)
  BY DEF Injection, IsInjective
<1> HIDE DEF f
<1> QED
  BY <1>1, FS_Injection

\* Regular fragments of the block to be closed are enough for decode().
LEMMA EnoughFragments ==
    ASSUME MinimumInv, InTime, pc = "new_block",
           Cardinality(FragmentsReceived(block_id)) >= Regular
    PROVE  Decodable
<1> DEFINE S == FragmentsReceived(block_id)
           O == {j \in S : ~udp[j].recovery_pkt}
           R == {j \in S : udp[j].recovery_pkt}
<1>1. /\ Running /\ SurvivalInv /\ LabelsOrdered /\ udp \in Seq(Datagram)
      /\ received \subseteq 1 .. Len(udp) /\ DecoderTypeOK
      /\ udp[last].block_id # block_id
  BY DEF Running, MinimumInv, StreamInv, SurvivalInv, WireInStep, ReceivedInStep,
         DecoderInv, ClientInv, BlockOfLast
<1>2. \A j \in S : /\ j \in received /\ Handled(j) /\ udp[j].block_id = block_id
                   /\ j \in 1 .. Len(udp) /\ udp[j].recovery_pkt \in BOOLEAN
  <2>1. \A j \in received : udp[j].recovery_pkt \in BOOLEAN
    <3> SUFFICES ASSUME NEW j \in received PROVE udp[j].recovery_pkt \in BOOLEAN
      OBVIOUS
    <3>1. udp[j] \in Datagram
      BY <1>1, ElementOfSeq
    <3> QED
      BY <3>1, DatagramFields
  <2> QED
    BY <1>1, <2>1 DEF FragmentsReceived, Handled
<1>3. HandledShards
  BY <1>1, OpenBlock
<1>4. /\ \A j \in O : udp[j].fragment_index \in DOMAIN rs_original
      /\ \A j \in R : udp[j].fragment_index \in DOMAIN rs_recovery
  BY <1>2, <1>3 DEF HandledShards
<1>5. ASSUME NEW j \in S, NEW k \in S, j # k, udp[j].recovery_pkt = udp[k].recovery_pkt
      PROVE  udp[j].fragment_index # udp[k].fragment_index
  <2>1. SameRun(j, k)
    BY OneRun DEF InTime
  <2>2. udp[j].block_id = udp[k].block_id /\ j \in 1 .. Len(udp) /\ k \in 1 .. Len(udp)
    BY <1>2
  <2> QED
    BY <1>1, <1>5, <2>1, <2>2, LabelsDiffer
<1>6. /\ IsFiniteSet(DOMAIN rs_original) /\ IsFiniteSet(DOMAIN rs_recovery)
      /\ Cardinality(DOMAIN rs_original) \in Nat /\ Cardinality(DOMAIN rs_recovery) \in Nat
  BY <1>1, ShardCounts
<1>7. IsFiniteSet(O) /\ Cardinality(O) <= Cardinality(DOMAIN rs_original)
  <2>1. \A j, k \in O : j # k => udp[j].fragment_index # udp[k].fragment_index
    <3>1. \A j, k \in O : udp[j].recovery_pkt = udp[k].recovery_pkt
      BY <1>2
    <3> QED
      BY <1>5, <3>1
  <2> HIDE DEF O
  <2> QED
    BY <1>4, <1>6, <2>1, ByIndex
<1>8. IsFiniteSet(R) /\ Cardinality(R) <= Cardinality(DOMAIN rs_recovery)
  <2>1. \A j, k \in R : j # k => udp[j].fragment_index # udp[k].fragment_index
    <3>1. \A j, k \in R : udp[j].recovery_pkt = udp[k].recovery_pkt
      BY <1>2
    <3> QED
      BY <1>5, <3>1
  <2> HIDE DEF R
  <2> QED
    BY <1>4, <1>6, <2>1, ByIndex
<1>9. O \cup R = S /\ O \cap R = {}
  OBVIOUS
<1> HIDE DEF O, R, S
<1>10. Cardinality(S) = Cardinality(O) + Cardinality(R) - Cardinality({})
  BY <1>7, <1>8, <1>9, FS_Union
<1>11. Cardinality(O) \in Nat /\ Cardinality(R) \in Nat /\ Cardinality({}) = 0
  BY <1>7, <1>8, FS_CardinalityType, FS_EmptySet
<1>12. Cardinality(S) >= Regular
  BY DEF S
<1>13. Cardinality(DOMAIN rs_original) + Cardinality(DOMAIN rs_recovery) >= Regular
  BY <1>6, <1>7, <1>8, <1>10, <1>11, <1>12
<1> QED
  BY <1>13 DEF Decodable

\* A block closed without a recovery has been delivered whole.
LEMMA SkippedDelivered ==
    ASSUME MinimumInv, InTime, SkipRecovery
    PROVE  BlockDelivered(block_id)
<1>1. /\ Running /\ DecoderTypeOK /\ CountersInStep /\ ~NeedsRecovery
  BY DEF SkipRecovery, Running, MinimumInv, StreamInv, SurvivalInv, DecoderInv
<1>2. DOMAIN rs_original = Index /\ Cardinality(DOMAIN rs_original) = Regular
  BY <1>1, SkippedBlockWhole
<1>3. /\ rs_inorder_packets + rs_oorder_packets = Regular
      /\ rs_inorder_packets \in Nat /\ rs_oorder_packets \in Nat
  BY <1>1, <1>2 DEF CountersInStep, DecoderTypeOK
<1>4. PrefixDelivered /\ GapKept
      /\ \A i \in DOMAIN rs_original : rs_original[i].seq = Number(block_id, i)
  BY <1>1, OpenBlock
<1>5. rs_oorder_packets = 0
  <2> SUFFICES ASSUME rs_oorder_packets > 0 PROVE FALSE
    BY <1>3
  <2>1. rs_inorder_packets \notin Index /\ \E k \in Index : k > rs_inorder_packets
    BY <1>2, <1>4 DEF GapKept
  <2> QED
    BY <1>3, <2>1 DEF Index
<1>6. \A k \in Index : k \in 0 .. rs_inorder_packets - 1
  BY <1>3, <1>5 DEF Index
<1> QED
  BY <1>2, <1>4, <1>6 DEF PrefixDelivered, BlockDelivered

\* A recovery delivers the rest of its block.
LEMMA RecoveredDelivered ==
    ASSUME MinimumInv, InTime, RecoverBlock, [Next]_vars
    PROVE  \A k \in Index : \E p \in Delivered' : p.seq = Number(block_id, k)
<1>1. /\ Running /\ StreamInv /\ DecoderInv /\ received \subseteq 1 .. Len(udp)
      /\ WireNumbered /\ late = 0 /\ duplicates = 0
  BY DEF RecoverBlock, Running, MinimumInv, StreamInv, SurvivalInv, ReceivedInStep,
         NumberedInv, InTime
<1>2. /\ ~collided /\ PrefixDelivered
      /\ \A i \in DOMAIN rs_original : rs_original[i].seq = Number(block_id, i)
  BY <1>1, OpenBlock
<1>3. PICK m \in received \cup {last} : BlockFrom(m)
  BY <1>1, OpenBlock
<1>4. PICK r \in received :
         /\ InBlock(r, m) /\ udp[r].recovery_pkt
         /\ \A k \in Index : k >= rs_inorder_packets =>
               RestoredQueue[k] = udp[r].body.code[k]
  BY <1>1, <1>2, <1>3, RecoveredPackets
<1>5. \A k \in Index : udp[r].body.code[k].seq = Number(block_id, k)
  <2>1. udp[r].block_id = block_id /\ r \in 1 .. Len(udp)
    BY <1>1, <1>4 DEF InBlock
  <2> QED
    BY <1>1, <1>4, <2>1 DEF WireNumbered
<1>6. Delivered \subseteq Delivered'
  BY <1>1, DeliveredGrows
<1> DEFINE old == Len(delivered)
           n == rs_inorder_packets
<1>7. /\ old \in Nat /\ n \in Nat
      /\ Len(delivered') = old + (Regular - n)
      /\ \A a \in old + 1 .. Len(delivered') : \E k \in Index :
            k = n + (a - old) - 1 /\ delivered'[a] = RestoredQueue[k]
  BY <1>1, RecoveryDelivers
<1>8. ASSUME NEW k \in Index
      PROVE  \E p \in Delivered' : p.seq = Number(block_id, k)
  <2>1. CASE k < n
    <3>1. k \in 0 .. n - 1
      BY <1>7, <2>1 DEF Index
    <3>2. k \in DOMAIN rs_original /\ rs_original[k] \in Delivered
      BY <1>2, <3>1 DEF PrefixDelivered
    <3> QED
      BY <1>2, <1>6, <3>2
  <2>2. CASE k >= n
    <3> HIDE DEF old, n
    <3>1. old + 1 + (k - n) \in old + 1 .. Len(delivered')
      BY <1>7, <2>2 DEF Index
    <3>2. PICK a \in old + 1 .. Len(delivered') : a = old + 1 + (k - n)
      BY <3>1
    <3>3. n + (a - old) - 1 = k
      BY <1>7, <2>2, <3>2 DEF Index
    <3>4. delivered'[a] = RestoredQueue[k]
      BY <1>7, <3>3
    <3>5. RestoredQueue[k] = udp[r].body.code[k]
      BY <1>4, <2>2 DEF n
    <3>6. a \in 1 .. Len(delivered')
      BY <1>7, <3>2, <2>2 DEF Index
    <3>7. delivered'[a] \in Delivered'
      BY <3>6 DEF Delivered
    <3> QED
      BY <1>5, <3>4, <3>5, <3>7
  <2> QED
    BY <1>7, <2>1, <2>2 DEF Index
<1> QED
  BY <1>8

\* Nothing has come of the blocks between the closed one and the next.
LEMMA NothingBetween ==
    ASSUME MinimumInv, InTime, pc = "new_block",
           NEW b \in Nat, b > block_id, b # udp[last].block_id
    PROVE  FragmentsReceived(b) = {}
<1> SUFFICES ASSUME NEW j \in FragmentsReceived(b) PROVE FALSE
  OBVIOUS
<1>1. /\ Running /\ LabelsOrdered /\ udp \in Seq(Datagram) /\ received \subseteq 1 .. Len(udp)
      /\ block_id \in Nat
  BY DEF Running, MinimumInv, StreamInv, SurvivalInv, WireInStep, ReceivedInStep,
         DecoderInv, DecoderTypeOK
<1>2. j \in received /\ Handled(j) /\ udp[j].block_id = b
  BY DEF FragmentsReceived, Handled
<1>3. PICK m \in received \cup {last} : BlockIsLast(m)
  BY <1>1, OpenBlock
<1>4. Handled(m) /\ m \in received /\ udp[m].block_id = block_id
  BY <1>2, <1>3 DEF BlockIsLast, InBlock, Handled
<1>5. InBlock(m, m) /\ ~InBlock(j, m)
  <2>1. udp[j].block_id # block_id
    BY <1>1, <1>2
  <2> QED
    BY <1>4, <2>1, OneRun DEF InTime
<1>6. j < m
  BY <1>2, <1>3, <1>4, <1>5 DEF BlockIsLast
<1>7. Before(udp[j], udp[m])
  <2>1. SameRun(j, m) /\ j \in 1 .. Len(udp) /\ m \in 1 .. Len(udp)
    BY <1>1, <1>2, <1>4, OneRun DEF InTime
  <2> QED
    BY <1>1, <1>6, <2>1 DEF LabelsOrdered
<1>8. b <= block_id
  BY <1>1, <1>2, <1>4, <1>7 DEF Before
<1> QED
  BY <1>1, <1>8

\* What is closed is closed rightly, and the next block starts with the datagram
\* that opens it.
LEMMA ClosedInvKeptByClosing ==
    ASSUME MinimumInv, CloseBlock, [Next]_vars, UNCHANGED <<serverVars, networkVars>>
    PROVE  ClosedInv'
<1>1. /\ Running /\ StreamInv /\ DecoderInv /\ CountersInStep /\ pc = "new_block" /\ pc' = "fragment"
      /\ StartBlock /\ lvheader = udp[last] /\ block_id \in Nat
      /\ UNCHANGED <<starts, late, duplicates, received, last, udp>>
      /\ block_id' = udp[last].block_id
      /\ DOMAIN rs_original' = {} /\ rs_inorder_packets' = 0 /\ rs_oorder_packets' = 0
  BY CloseBlockInStep DEF CloseBlock, SkipRecovery, RecoverBlock, RecoveryFails, Running,
     MinimumInv, StreamInv, SurvivalInv, DecoderInv, DecoderTypeOK, ReceivedInStep,
     StartBlock, NoShards, serverVars, networkVars
<1>2. SUFFICES ASSUME InTime
               PROVE  HandledShards' /\ PrefixDelivered' /\ GapKept' /\ ClosedBlocks'
  BY <1>1 DEF ClosedInv, InTime
<1>3. HandledShards'
  <2> SUFFICES ASSUME NEW j \in received, Handled(j)', udp[j].block_id = block_id'
               PROVE  FALSE
    BY <1>1 DEF HandledShards
  <2>1. j # last
    BY <1>1 DEF Handled
  <2>2. PICK l : l = last
    OBVIOUS
  <2>3. PICK m \in received \cup {last} : BlockIsLast(m)
    BY <1>1, <1>2, OpenBlock
  <2>4. SameRun(j, l)
    BY <1>2, OneRun DEF InTime
  <2> QED
    BY <1>1, <1>2, <2>1, <2>2, <2>3, <2>4, LastOpensBlock DEF InTime
<1>4. PrefixDelivered' /\ GapKept'
  <2>1. 0 .. rs_inorder_packets' - 1 = {}
    BY <1>1
  <2> QED
    BY <1>1, <2>1 DEF PrefixDelivered, GapKept
<1>5. Delivered \subseteq Delivered'
  BY <1>1, DeliveredGrows
<1>6. ASSUME NEW b \in Nat, b < block_id',
             Cardinality(FragmentsReceived(b)) >= Regular
      PROVE  \A k \in Index : \E p \in Delivered' : p.seq = Number(b, k)
  <2>1. CASE b < block_id
    <3>1. ClosedBlocks
      BY <1>1, <1>2, OpenBlock
    <3>2. BlockDelivered(b)
      BY <1>6, <2>1, <3>1 DEF ClosedBlocks
    <3> QED
      BY <1>5, <3>2 DEF BlockDelivered
  <2>2. CASE b > block_id
    <3>1. b # udp[last].block_id
      <4>1. udp[last].block_id \in Nat
        BY <1>1 DEF StreamInv, SurvivalInv, DecoderInv, DecoderTypeOK, HeaderInStep,
                    Datagram, OriginalDatagram, RecoveryDatagram
      <4> QED
        BY <1>1, <1>6, <4>1
    <3>2. Cardinality(FragmentsReceived(b)) = 0
      BY <1>1, <1>2, <2>2, <3>1, NothingBetween, FS_EmptySet
    <3> QED
      BY <1>6, <3>2
  <2>3. CASE b = block_id
    <3>1. CASE SkipRecovery
      <4>1. BlockDelivered(b)
        BY <1>2, <2>3, <3>1, SkippedDelivered
      <4> QED
        BY <1>5, <4>1 DEF BlockDelivered
    <3>2. CASE RecoverBlock
      BY <1>2, <2>3, <3>2, RecoveredDelivered
    <3>3. CASE RecoveryFails
      BY <1>1, <1>2, <1>6, <2>3, <3>3, EnoughFragments DEF RecoveryFails
    <3> QED
      BY <3>1, <3>2, <3>3 DEF CloseBlock
  <2> QED
    BY <1>1, <2>1, <2>2, <2>3
<1>7. ClosedBlocks'
  <2>1. \A b : FragmentsReceived(b)' = FragmentsReceived(b)
    BY <1>1 DEF FragmentsReceived
  <2>2. \A b \in Nat : b < block_id' /\ Cardinality(FragmentsReceived(b))' >= Regular =>
           \A k \in Index : \E p \in Delivered' : p.seq = Number(b, k)
    BY <1>6, <2>1
  <2> QED
    BY <2>2 DEF ClosedBlocks, BlockDelivered, Number
<1> QED
  BY <1>3, <1>4, <1>7

\* A datagram that arrives in time is not of a block that was closed.
LEMMA ClosedInvKeptByArrival ==
    ASSUME MinimumInv, Arrive
    PROVE  ClosedInv'
<1>1. PICK k \in 1 .. Len(udp) :
         /\ Receive(udp[k])
         /\ received' = received \cup {k}
         /\ last' = k
         /\ duplicates' = IF k \in received THEN duplicates + 1 ELSE duplicates
         /\ late' = IF k < newest /\ k \notin received THEN late + 1 ELSE late
         /\ UNCHANGED <<udp, starts, produced>>
  BY DEF Arrive, serverVars
<1>2. /\ pc = "recv" /\ Running /\ pc' \in {"new_block", "fragment"}
      /\ UNCHANGED <<block_id, rs_original, rs_recovery, rs_inorder_packets,
                     rs_oorder_packets, delivered>>
  BY <1>1 DEF Receive, rsShards, rsCounters, Running
<1>3. /\ late \in Nat /\ duplicates \in Nat /\ received \subseteq 1 .. Len(udp)
      /\ received # {} => last \in received /\ udp[last].block_id = block_id
      /\ newest \in Nat /\ \A j \in received : j <= newest
      /\ late = 0 /\ duplicates = 0 => last = newest
      /\ received = {} => block_id = 0
      /\ LabelsOrdered /\ udp \in Seq(Datagram) /\ Len(udp) \in Nat /\ block_id \in Nat
  BY <1>2 DEF MinimumInv, FirstBlock, StreamInv, SurvivalInv, ReceivedInStep, WireInStep,
              ClientInv, BlockOfLast, DecoderInv, DecoderTypeOK
<1>4. SUFFICES ASSUME InTime'
               PROVE  HandledShards' /\ PrefixDelivered' /\ GapKept' /\ ClosedBlocks'
  BY DEF ClosedInv
<1>5. InTime /\ k \notin received /\ ~(k < newest)
  <2>1. starts = <<>> /\ late' = 0 /\ duplicates' = 0
    BY <1>1, <1>4 DEF InTime
  <2>2. k \notin received /\ duplicates = 0
    BY <1>1, <1>3, <2>1
  <2>3. late = 0 /\ ~(k < newest)
    BY <1>1, <1>3, <2>1, <2>2
  <2> QED
    BY <2>1, <2>2, <2>3 DEF InTime
<1>6. HandledShards /\ PrefixDelivered /\ GapKept /\ ClosedBlocks
  BY <1>2, <1>5, OpenBlock
<1>7. HandledShards'
  <2>1. \A j : Handled(j)' <=> j \in received
    BY <1>1, <1>2, <1>5 DEF Handled
  <2>2. \A j \in received : Handled(j)
    BY <1>2 DEF Handled
  <2> QED
    BY <1>1, <1>2, <1>6, <2>1, <2>2 DEF HandledShards
<1>8. PrefixDelivered' /\ GapKept'
  BY <1>2, <1>6 DEF PrefixDelivered, GapKept, Delivered
<1>9. udp[k].block_id >= block_id /\ udp[k].block_id \in Nat
  <2>1. udp[k] \in Datagram
    BY <1>3, ElementOfSeq
  <2>2. udp[k].block_id \in Nat
    BY <2>1, DatagramFields
  <2>3. CASE received = {}
    BY <1>3, <2>2, <2>3
  <2>4. CASE received # {}
    <3>1. PICK l \in received : l = last
      BY <1>3, <2>4
    <3>2. l < k /\ l \in 1 .. Len(udp)
      <4>1. l \in 1 .. Len(udp) /\ l = newest /\ l # k
        BY <1>3, <1>5, <3>1 DEF InTime
      <4> QED
        BY <1>3, <1>5, <4>1
    <3>3. Before(udp[l], udp[k])
      <4>1. SameRun(l, k)
        BY <1>5, OneRun DEF InTime
      <4> QED
        BY <1>3, <3>2, <4>1 DEF LabelsOrdered
    <3>4. udp[l].block_id = block_id
      BY <1>3, <3>1
    <3> QED
      BY <1>3, <2>2, <3>3, <3>4 DEF Before
  <2> QED
    BY <2>3, <2>4
<1>10. \A b \in Nat : b < block_id => FragmentsReceived(b)' = FragmentsReceived(b)
  <2>1. \A b \in Nat : b < block_id => udp[k].block_id # b
    BY <1>3, <1>9
  <2> QED
    BY <1>1, <2>1 DEF FragmentsReceived
<1>11. ClosedBlocks'
  <2>1. \A b \in Nat : b < block_id /\ Cardinality(FragmentsReceived(b)') >= Regular =>
           BlockDelivered(b)
    BY <1>6, <1>10 DEF ClosedBlocks
  <2> QED
    BY <1>2, <2>1 DEF ClosedBlocks, BlockDelivered, Delivered, Number
<1> QED
  BY <1>7, <1>8, <1>11

\* The server only adds to the wire.
LEMMA ClosedInvKeptByServer ==
    ASSUME MinimumInv, [Next]_vars, Produce \/ Send \/ RestartServer \/ UNCHANGED vars
    PROVE  ClosedInv'
<1>1. UNCHANGED <<received, last, late, duplicates, pc, block_id, rs_original, rs_recovery,
                  rs_inorder_packets, rs_oorder_packets, delivered>>
  BY DEF Produce, Send, RestartServer, vars, networkVars, decoderVars, rsShards, rsCounters
<1>2. SUFFICES ASSUME InTime', Running
               PROVE  HandledShards' /\ PrefixDelivered' /\ GapKept' /\ ClosedBlocks'
  BY <1>1 DEF ClosedInv, Running
<1>3. InTime
  <2>1. CASE RestartServer
    <3>1. starts' # <<>>
      BY <2>1, RestartCounted DEF MinimumInv, StreamInv, SurvivalInv
    <3> QED
      BY <1>2, <3>1 DEF InTime
  <2>2. CASE Produce \/ Send \/ UNCHANGED vars
    BY <1>1, <1>2, <2>2 DEF Produce, Send, vars, serverVars, InTime
  <2> QED
    BY <2>1, <2>2
<1>4. HandledShards /\ PrefixDelivered /\ GapKept /\ ClosedBlocks
  BY <1>2, <1>3, OpenBlock
<1>5. \A j \in received : udp'[j] = udp[j]
  <2>1. \A j \in 1 .. Len(udp) : udp'[j] = udp[j]
    BY WireOnlyGrows DEF MinimumInv, StreamInv, SurvivalInv
  <2>2. received \subseteq 1 .. Len(udp)
    BY DEF MinimumInv, StreamInv, SurvivalInv, ReceivedInStep
  <2> QED
    BY <2>1, <2>2
<1>6. HandledShards'
  <2>1. \A j : Handled(j)' <=> Handled(j)
    BY <1>1 DEF Handled
  <2> QED
    BY <1>1, <1>4, <1>5, <2>1 DEF HandledShards
<1>7. PrefixDelivered' /\ GapKept'
  BY <1>1, <1>4 DEF PrefixDelivered, GapKept, Delivered
<1>8. ClosedBlocks'
  <2>1. \A b : FragmentsReceived(b)' = FragmentsReceived(b)
    BY <1>1, <1>5 DEF FragmentsReceived
  <2>2. \A b \in Nat : b < block_id /\ Cardinality(FragmentsReceived(b)') >= Regular =>
           BlockDelivered(b)
    BY <1>4, <2>1 DEF ClosedBlocks
  <2> QED
    BY <1>1, <2>2 DEF ClosedBlocks, BlockDelivered, Delivered, Number
<1> QED
  BY <1>6, <1>7, <1>8

\* A fragment that is queued while nothing was leaves a gap before it.
LEMMA GapOpens ==
    ASSUME SurvivalInv, QueueFragment, InTime, ~collided, SlotsInOrder,
           rs_oorder_packets = 0
    PROVE  /\ rs_inorder_packets \notin DOMAIN rs_original
           /\ lvheader.fragment_index > rs_inorder_packets
<1> DEFINE i == lvheader.fragment_index
           S == DOMAIN rs_original
           n == rs_inorder_packets
           p == lvheader_prev_fragment_index
<1>1. /\ Running /\ i \notin S /\ ExpectedIndex # i
      /\ DecoderTypeOK /\ lvheader \in Datagram /\ ~lvheader.recovery_pkt
  <2>1. pc = "fragment" /\ i \notin S /\ ~lvheader.recovery_pkt
    BY DEF QueueFragment, TakeOriginalShard
  <2>2. ExpectedIndex # i
    BY DEF QueueFragment, OutOfOrder
  <2> QED
    BY <2>1, <2>2 DEF Running, SurvivalInv, DecoderInv, HeaderInStep
<1>2. i \in Index /\ p \in Index /\ n \in 0 .. Regular
  BY <1>1, DatagramFields DEF DecoderTypeOK
<1>3. S = 0 .. n - 1
  BY DEF SlotsInOrder
<1>4. IF S = {} THEN p = Regular - 1 ELSE p \in S /\ \A k \in S : k <= p
  BY <1>1 DEF SurvivalInv, PreviousIsLargest, InTime
<1>5. ExpectedIndex = IF p = Regular - 1 THEN 0 ELSE p + 1
  BY <1>2, ExpectedIndexValue
<1> HIDE DEF i, S, p, n
<1>6. i >= n
  BY <1>1, <1>2, <1>3 DEF Index, i, S
<1>7. i # n
  <2>1. CASE S = {}
    <3>1. 0 \notin 0 .. n - 1
      BY <1>3, <2>1
    <3>2. n = 0
      BY <1>2, <3>1
    <3> QED
      BY <1>1, <1>4, <1>5, <2>1, <3>2 DEF i
  <2>2. CASE S # {}
    <3>1. p \in S /\ \A k \in S : k <= p
      BY <1>4, <2>2
    <3>2. p = n - 1
      BY <1>2, <1>3, <3>1
    <3>3. ExpectedIndex # i /\ n <= Regular
      BY <1>1, <1>2 DEF i
    <3> QED
      BY <1>2, <1>5, <3>2, <3>3 DEF Index
  <2> QED
    BY <2>1, <2>2
<1>8. n \notin S
  BY <1>2, <1>3
<1> QED
  BY <1>2, <1>6, <1>7, <1>8 DEF i, n, S, Index

\* Taking a datagram makes it a shard.
LEMMA ClosedInvKeptByTaking ==
    ASSUME MinimumInv, TakeDatagram, [Next]_vars, UNCHANGED <<serverVars, networkVars>>
    PROVE  ClosedInv'
<1>1. /\ pc = "fragment" /\ lvheader = udp[last] /\ block_id' = block_id /\ Running
      /\ UNCHANGED <<udp, starts, received, last, late, duplicates>>
      /\ SurvivalInv /\ DecoderInv /\ lvheader \in Datagram
      /\ rs_inorder_packets \in Nat /\ rs_oorder_packets \in Nat
  BY DEF MinimumInv, StreamInv, SurvivalInv, ReceivedInStep, DecoderInv, DecoderTypeOK,
         HeaderInStep, Running, TakeDatagram, DuplicateShard, TakeRecoveryShard,
         QueueFragment, LostCountPanics, DeliverFragment, TakeOriginalShard,
         serverVars, networkVars
<1>2. CASE DuplicateShard \/ LostCountPanics
  BY <1>2 DEF DuplicateShard, LostCountPanics, ClosedInv, Running
<1>3. CASE TakeRecoveryShard \/ QueueFragment \/ DeliverFragment
  <2>1. SUFFICES ASSUME InTime
                 PROVE  HandledShards' /\ PrefixDelivered' /\ GapKept' /\ ClosedBlocks'
    BY <1>1 DEF ClosedInv, InTime
  <2>2. /\ ~collided /\ SlotsInOrder
        /\ HandledShards /\ PrefixDelivered /\ GapKept /\ ClosedBlocks
    BY <1>1, <2>1, OpenBlock
  <2>3. Delivered \subseteq Delivered'
    BY <1>1, DeliveredGrows
  <2>4. PICK i : i = lvheader.fragment_index
    OBVIOUS
  <2>5. pc' = "recv"
    BY <1>3 DEF TakeRecoveryShard, QueueFragment, DeliverFragment
  <2>6. \/ /\ lvheader.recovery_pkt /\ TakeRecoveryShard
           /\ rs_original' = rs_original
           /\ rs_recovery' = AddShard(rs_recovery, i, lvheader.body)
        \/ /\ ~lvheader.recovery_pkt /\ (QueueFragment \/ DeliverFragment)
           /\ i \notin DOMAIN rs_original
           /\ rs_original' = AddShard(rs_original, i, lvheader.body)
           /\ rs_recovery' = rs_recovery
    BY <1>3, <2>4 DEF TakeRecoveryShard, QueueFragment, DeliverFragment, TakeOriginalShard
  <2>7. /\ DOMAIN rs_original \subseteq DOMAIN rs_original'
        /\ DOMAIN rs_recovery \subseteq DOMAIN rs_recovery'
        /\ i \in DOMAIN (IF lvheader.recovery_pkt THEN rs_recovery' ELSE rs_original')
        /\ \A k \in DOMAIN rs_original : rs_original'[k] = rs_original[k]
    BY <2>6 DEF AddShard
  <2>8. HandledShards'
    <3>1. ASSUME NEW j \in received, udp[j].block_id = block_id
          PROVE  udp[j].fragment_index \in
                    DOMAIN (IF udp[j].recovery_pkt THEN rs_recovery' ELSE rs_original')
      <4>1. CASE j = last
        BY <1>1, <2>4, <2>7, <4>1
      <4>2. CASE j # last
        <5>1. Handled(j)
          BY <4>2 DEF Handled
        <5>2. udp[j].fragment_index \in
                 DOMAIN (IF udp[j].recovery_pkt THEN rs_recovery ELSE rs_original)
          BY <2>2, <3>1, <5>1 DEF HandledShards
        <5> QED
          BY <2>7, <5>2
      <4> QED
        BY <4>1, <4>2
    <3> QED
      BY <1>1, <3>1 DEF HandledShards
  <2>9. PrefixDelivered'
    <3>1. \A k \in 0 .. rs_inorder_packets - 1 :
             k \in DOMAIN rs_original' /\ rs_original'[k] \in Delivered'
      BY <2>2, <2>3, <2>7 DEF PrefixDelivered
    <3>2. CASE DeliverFragment
      <4>1. i = rs_inorder_packets /\ rs_inorder_packets' = rs_inorder_packets + 1
        BY <1>1, <2>1, <2>2, <2>4, <3>2, DeliveredIndex DEF InTime, DeliverFragment
      <4>2. i \in DOMAIN rs_original' /\ rs_original'[i] = lvheader.body
        BY <2>4, <3>2 DEF DeliverFragment, TakeOriginalShard, AddShard
      <4>3. lvheader.body \in Delivered'
        <5>1. /\ Len(delivered) \in Nat /\ Len(delivered') = Len(delivered) + 1
              /\ delivered'[Len(delivered) + 1] = lvheader.body
          BY <1>1, <3>2, DeliveredAppended
        <5>2. Len(delivered) + 1 \in 1 .. Len(delivered')
          BY <5>1
        <5> QED
          BY <5>1, <5>2 DEF Delivered
      <4>4. \A k \in 0 .. rs_inorder_packets' - 1 :
               k \in 0 .. rs_inorder_packets - 1 \/ k = i
        BY <1>1, <4>1
      <4> QED
        BY <3>1, <4>2, <4>3, <4>4 DEF PrefixDelivered
    <3>3. CASE TakeRecoveryShard \/ QueueFragment
      <4>1. rs_inorder_packets' = rs_inorder_packets
        BY <3>3 DEF TakeRecoveryShard, QueueFragment
      <4> QED
        BY <3>1, <4>1 DEF PrefixDelivered
    <3> QED
      BY <1>3, <3>2, <3>3
  <2>10. GapKept'
    <3>1. CASE TakeRecoveryShard
      BY <2>2, <3>1 DEF TakeRecoveryShard, GapKept
    <3>2. CASE QueueFragment
      <4>1. /\ rs_inorder_packets' = rs_inorder_packets
            /\ DOMAIN rs_original' = DOMAIN rs_original \cup {i} /\ ~lvheader.recovery_pkt
        BY <2>4, <3>2 DEF QueueFragment, TakeOriginalShard, AddShard
      <4>2. rs_inorder_packets \notin DOMAIN rs_original /\ i > rs_inorder_packets
        <5>1. CASE rs_oorder_packets = 0
          BY <1>1, <2>1, <2>2, <2>4, <3>2, <5>1, GapOpens
        <5>2. CASE rs_oorder_packets > 0
          <6>1. /\ rs_inorder_packets \notin DOMAIN rs_original
                /\ \E k \in DOMAIN rs_original : k > rs_inorder_packets
            BY <2>2, <5>2 DEF GapKept
          <6>2. \A k \in DOMAIN rs_original : k < i
            BY <1>1, <2>1, <2>2, <2>4, <4>1, FragmentIsLargest DEF InTime
          <6>3. i \in Nat /\ \A k \in DOMAIN rs_original : k \in Nat
            BY <1>1, <2>4, <4>1, DatagramFields DEF DecoderInv, DecoderTypeOK, Index
          <6> QED
            BY <1>1, <6>1, <6>2, <6>3
        <5> QED
          BY <1>1, <5>1, <5>2
      <4>3. i # rs_inorder_packets
        BY <1>1, <4>2
      <4> QED
        BY <4>1, <4>2, <4>3 DEF GapKept
    <3>3. CASE DeliverFragment
      <4>1. rs_oorder_packets' = 0
        BY <1>1, <2>1, <2>2, <3>3, DeliveredIndex DEF InTime, DeliverFragment
      <4> QED
        BY <4>1 DEF GapKept
    <3> QED
      BY <1>3, <3>1, <3>2, <3>3
  <2>11. ClosedBlocks'
    <3>1. \A b : FragmentsReceived(b)' = FragmentsReceived(b)
      BY <1>1 DEF FragmentsReceived
    <3>2. \A b \in Nat : b < block_id /\ Cardinality(FragmentsReceived(b)') >= Regular =>
             \A k \in Index : \E p \in Delivered' : p.seq = Number(b, k)
      BY <2>2, <2>3, <3>1 DEF ClosedBlocks, BlockDelivered
    <3> QED
      BY <1>1, <3>2 DEF ClosedBlocks, BlockDelivered, Number
  <2> QED
    BY <2>8, <2>9, <2>10, <2>11
<1> QED
  BY <1>2, <1>3 DEF TakeDatagram

LEMMA FirstBlockPreserved ==
    ASSUME MinimumInv, [Next]_vars
    PROVE  FirstBlock'
<1>1. /\ FirstBlock
      /\ pc = "new_block" => received # {}
  BY DEF MinimumInv, StreamInv, SurvivalInv, ReceivedInStep
<1>2. CASE Arrive
  <2>1. PICK k \in 1 .. Len(udp) :
           /\ received' = received \cup {k}
           /\ collided' = (collided \/ Collides(k))
           /\ starts' = starts
    BY <1>2 DEF Arrive, serverVars
  <2>2. starts = <<>> => ~Collides(k)
    <3> SUFFICES ASSUME starts = <<>>, Collides(k) PROVE FALSE
      OBVIOUS
    <3>1. RunOf(k) = RunOf(last)
      BY OneRun
    <3> QED
      BY <3>1 DEF Collides
  <2> QED
    BY <1>1, <2>1, <2>2 DEF FirstBlock
<1>3. CASE RestartServer
  <2>1. starts' # <<>>
    BY <1>3, RestartCounted DEF MinimumInv, StreamInv, SurvivalInv
  <2> QED
    BY <1>1, <1>3, <2>1 DEF FirstBlock, RestartServer, networkVars, decoderVars
<1>4. CASE Decode
  <2>1. UNCHANGED <<starts, collided, received>>
    BY <1>4 DEF Decode, serverVars, networkVars
  <2>2. pc = "new_block" \/ block_id' = block_id
    BY <1>4 DEF Decode, DecoderStep, CloseBlock, SkipRecovery, RecoverBlock, RecoveryFails,
       TakeDatagram, DuplicateShard, TakeRecoveryShard, QueueFragment, LostCountPanics,
       DeliverFragment, TakeOriginalShard
  <2> QED
    BY <1>1, <2>1, <2>2 DEF FirstBlock
<1>5. CASE Produce \/ Send \/ RecvFails \/ UNCHANGED vars
  <2>1. UNCHANGED <<starts, collided, received, block_id>>
    BY <1>5 DEF Produce, Send, RecvFails, vars, serverVars, networkVars, decoderVars
  <2> QED
    BY <1>1, <2>1 DEF FirstBlock
<1> QED
  BY <1>2, <1>3, <1>4, <1>5 DEF Next

LEMMA MinimumInvInductive ==
    MinimumInv /\ [Next]_vars /\ ~id_wrapped' => MinimumInv'
<1> SUFFICES ASSUME MinimumInv, [Next]_vars, ~id_wrapped' PROVE MinimumInv'
  OBVIOUS
<1>1. StreamInv'
  BY StreamInvInductive DEF MinimumInv
<1>2. NumberedInv'
  BY NumberedInvPreserved DEF MinimumInv, StreamInv, SurvivalInv, ServerInv
<1>3. FirstBlock'
  BY FirstBlockPreserved
<1>4. ClosedInv'
  <2>1. CASE RecvFails
    BY <2>1 DEF RecvFails, ClosedInv, Running
  <2> QED
    BY <2>1, ClosedInvKeptByServer, ClosedInvKeptByArrival, ClosedInvKeptByClosing,
       ClosedInvKeptByTaking DEF Next, Decode, DecoderStep
<1> QED
  BY <1>1, <1>2, <1>3, <1>4 DEF MinimumInv

LEMMA MinimumInvInit == Init => MinimumInv
<1> SUFFICES ASSUME Init PROVE MinimumInv
  OBVIOUS
<1>1. StreamInv
  BY StreamInvInit
<1>2. /\ udp = <<>> /\ enc = <<>> /\ rtp_queue = <<>> /\ produced = <<>>
      /\ received = {} /\ collided = FALSE /\ next_seq = 0
      /\ current_block_id = 0 /\ current_regular_fragment_index = 0
  BY DEF Init, Server!Init
<1>3. /\ Len(udp) = 0 /\ 1 .. Len(udp) = {} /\ Len(enc) = 0 /\ 1 .. Len(enc) = {}
      /\ Len(rtp_queue) = 0 /\ 1 .. Len(rtp_queue) = {}
      /\ Len(produced) = 0 /\ 1 .. Len(produced) = {}
  BY <1>2
<1>4. NumberedInv
  <2>1. Number(0, 0) + 0 = 0
    BY DEF Number
  <2>2. NextLabelNumbered
    BY <1>2, <1>3, <2>1 DEF NextLabelNumbered
  <2> QED
    BY <1>2, <1>3, <2>2
    DEF NumberedInv, ProducedNumbered, QueueNumbered, EncoderNumbered, WireNumbered
<1>5. /\ block_id = 0 /\ rs_inorder_packets = 0 /\ rs_oorder_packets = 0
  BY DEF Init, DecoderInit
<1>6. FirstBlock
  BY <1>2, <1>5 DEF FirstBlock
<1>7. ClosedInv
  <2>1. 0 .. rs_inorder_packets - 1 = {} /\ \A b \in Nat : ~(b < block_id)
    BY <1>5
  <2> QED
    BY <1>2, <1>5, <2>1 DEF ClosedInv, HandledShards, PrefixDelivered, GapKept, ClosedBlocks
<1> QED
  BY <1>1, <1>4, <1>6, <1>7 DEF MinimumInv

LEMMA Division ==
    ASSUME NEW r \in Nat \ {0}, NEW s \in Nat
    PROVE  s = (s \div r) * r + (s % r) /\ s % r \in 0 .. r - 1
OBVIOUS

\* A packet is one of the fragments of its block.
LEMMA FragmentOfBlock ==
    ASSUME NEW s \in Nat
    PROVE  \E k \in Index : s = Number(s \div Regular, k)
<1>1. s = (s \div Regular) * Regular + (s % Regular) /\ s % Regular \in Index
  BY Division DEF Index
<1> QED
  BY <1>1 DEF Number

LEMMA MinimumFromInv == MinimumInv => DecodedFromMinimum
<1> SUFFICES ASSUME MinimumInv, InTime, pc \in {"recv", "fragment"},
                    NEW b \in 0 .. current_block_id, b < block_id,
                    Cardinality(FragmentsReceived(b)) >= Regular,
                    NEW p \in PacketsOfBlock(b)
             PROVE  p \in Delivered
  BY DEF DecodedFromMinimum, MinimumSuffices, InTime
<1>1. Running
  BY DEF Running
<1>2. /\ ~collided /\ ClosedBlocks /\ DeliveredGenuine /\ ProducedNumbered
      /\ produced \in Seq(Packet) /\ b \in Nat
  <2>1. ~collided /\ ClosedBlocks
    BY <1>1, OpenBlock
  <2>2. b \in Nat
    OBVIOUS
  <2> QED
    BY <1>1, <2>1, <2>2 DEF MinimumInv, StreamInv, ClientInv, ServerInv, StreamPackets, NumberedInv
<1>3. PICK n \in 1 .. Len(produced) : p = produced[n] /\ p.seq \div Regular = b
  BY DEF PacketsOfBlock
<1>4. p.seq \in Nat
  <2>1. produced[n] \in Packet
    BY <1>2, ElementOfSeq
  <2> QED
    BY <1>3, <2>1 DEF Packet
<1>5. PICK k \in Index : p.seq = Number(b, k)
  BY <1>3, <1>4, FragmentOfBlock
<1>6. PICK q \in Delivered : q.seq = p.seq
  BY <1>2, <1>5 DEF ClosedBlocks, BlockDelivered
<1>7. PICK m \in 1 .. Len(produced) : q = produced[m]
  BY <1>2, <1>6 DEF Delivered, DeliveredGenuine, Produced
<1>8. p.seq + 1 = n /\ q.seq + 1 = m
  BY <1>2, <1>3, <1>7 DEF ProducedNumbered
<1> QED
  BY <1>3, <1>6, <1>7, <1>8

\* min_fragment_size fragments are enough to decode a block (packet.rs:18):
\* once the decode thread has moved past a block of which it got Regular
\* fragments of either kind (video.rs:304-370), every packet of the block was
\* delivered, as long as the network keeps the order, repeats nothing and
\* carries the datagrams of one server whose block id has not wrapped.
THEOREM MinimumDecodes == Spec /\ []~id_wrapped => []DecodedFromMinimum
BY MinimumInvInit, MinimumInvInductive, MinimumFromInv, PTL DEF Spec

\* So it is for every stream of fewer than BlockIdLimit blocks.
THEOREM ShortStreamDecodes ==
    ASSUME MaxSeq < BlockIdLimit * Regular
    PROVE  Spec => []DecodedFromMinimum
BY BlockIdNeverWraps, MinimumDecodes, PTL
=============================================================================
