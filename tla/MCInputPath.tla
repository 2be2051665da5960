----------------------------- MODULE MCInputPath -----------------------------
(***************************************************************************)
(* The input path with a short channel.                                    *)
(***************************************************************************)
EXTENDS InputPath
=============================================================================
