-------------------------- MODULE MCCaptureProgram --------------------------
(***************************************************************************)
(* CaptureProgram for TLC.                                                 *)
(***************************************************************************)
EXTENDS CaptureProgram
=============================================================================
