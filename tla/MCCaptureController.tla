------------------------ MODULE MCCaptureController ------------------------
(***************************************************************************)
(* CaptureController for TLC: a few request ids.                           *)
(***************************************************************************)
EXTENDS CaptureController
=============================================================================
