---------------------------- MODULE MCPhotoFolder ----------------------------
(***************************************************************************)
(* PhotoFolder for TLC: two captures in two seconds, two starts of the      *)
(* program, two devices.                                                    *)
(***************************************************************************)
EXTENDS PhotoFolder
=============================================================================
