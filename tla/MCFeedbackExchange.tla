------------------------- MODULE MCFeedbackExchange -------------------------
(***************************************************************************)
(* The exchange between the decode thread and the feedback thread on small *)
(* instances.                                                              *)
(***************************************************************************)
EXTENDS FeedbackExchange
=============================================================================
