------------------------------ MODULE RtpStream ------------------------------
(***************************************************************************)
(* What the error-correcting transport promises to the depacketizer: a     *)
(* subsequence of the RTP packets the packetizer produced, in their order, *)
(* each intact and at most once, and none before it was produced.  Once    *)
(* datagrams came late or twice the packets are still genuine, but not in  *)
(* order; once a block was mixed from two streams nothing is promised.     *)
(***************************************************************************)
EXTENDS Naturals, Sequences, SequencesExt

VARIABLES
    produced,   \* RTP packets the server's packetizer has produced
    shown,      \* RTP packets given to the client's depacketizer
    disordered, \* datagrams came late or twice
    mixed       \* a block got datagrams of two streams

vars == <<produced, shown, disordered, mixed>>

Init ==
    /\ produced = <<>>
    /\ shown = <<>>
    /\ disordered = FALSE
    /\ mixed = FALSE

Produce ==
    /\ IsStrictPrefix(produced, produced')
    /\ UNCHANGED <<shown, disordered, mixed>>

Disturb ==
    /\ disordered => disordered'
    /\ mixed => mixed'
    /\ UNCHANGED <<produced, shown>>

Genuine == ToSet(shown') \subseteq ToSet(produced)

Ordered == \A j, k \in 1 .. Len(shown') : j < k => shown'[j].seq < shown'[k].seq

\* Packets of the stream after the last one shown, in stream order.
Show ==
    /\ IsStrictPrefix(shown, shown')
    /\ mixed \/ Genuine
    /\ mixed \/ disordered \/ Ordered
    /\ UNCHANGED <<produced, disordered, mixed>>

Spec == Init /\ [][Produce \/ Disturb \/ Show]_vars
=============================================================================
