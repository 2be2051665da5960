---------------------------- MODULE MCLVPackager ----------------------------
(***************************************************************************)
(* The packager on small instances.                                        *)
(***************************************************************************)
EXTENDS LVPackager
=============================================================================
