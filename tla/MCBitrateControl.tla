--------------------------- MODULE MCBitrateControl ---------------------------
(***************************************************************************)
(* The bitrate loop with one report of each kind that handle_feedback      *)
(* tells apart.                                                            *)
(***************************************************************************)
EXTENDS BitrateControl

Report(blocks, late, failures) ==
    [total_blocks |-> blocks, out_of_order_blocks |-> late,
     ecc_decoder_failures |-> failures]

\* An empty quantum (0 / 0), a clean one, one with a late block below the
\* threshold, one between 0.15 and 0.2, and one with a failed recovery.
MCReports == {Report(0, 0, 0), Report(50, 0, 0), Report(2000, 1, 0),
              Report(50, 8, 0), Report(50, 1, 1)}

=============================================================================
