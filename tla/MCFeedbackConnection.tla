------------------------- MODULE MCFeedbackConnection -------------------------
(***************************************************************************)
(* The feedback connection with messages of 3 and 5 bytes, of which, as in *)
(* the code, an ack is two bytes longer than a report.                     *)
(***************************************************************************)
EXTENDS FeedbackConnection
=============================================================================
