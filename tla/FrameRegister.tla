---------------------------- MODULE FrameRegister ----------------------------
(***************************************************************************)
(* What the display path promises: the screen shows whole frames, only     *)
(* ones the decoder has finished, and, until a conversion fails, never an  *)
(* older one after a newer one.  Frames are numbered from 1; 0 is the      *)
(* empty screen and the empty frame.                                       *)
(***************************************************************************)
EXTENDS Naturals

VARIABLES
    finished,   \* the newest frame the decoder has finished
    shown,      \* the frame on the screen
    failed      \* a conversion has failed

vars == <<finished, shown, failed>>

Init == finished = 0 /\ shown = 0 /\ failed = FALSE

Finish == finished' > finished /\ UNCHANGED <<shown, failed>>

Fail == failed' = TRUE /\ UNCHANGED <<finished, shown>>

Show ==
    /\ shown' \in 0 .. finished
    /\ failed \/ shown' > shown
    /\ UNCHANGED <<finished, failed>>

Spec == Init /\ [][Finish \/ Fail \/ Show]_vars
=============================================================================
