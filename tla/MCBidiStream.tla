---------------------------- MODULE MCBidiStream ----------------------------
(***************************************************************************)
(* Instances of BidiStream for TLC.                                        *)
(***************************************************************************)
EXTENDS BidiStream
=============================================================================
