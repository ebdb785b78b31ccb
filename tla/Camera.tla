------------------------------- MODULE Camera -------------------------------
(***************************************************************************)
(* The camera protocol of src/pifilm/capture/camera.py: what a read hands   *)
(* to the session, and the synthetic camera of --fake.  V4L2Camera and      *)
(* Picamera2Camera are the two real ones.                                   *)
(*                                                                         *)
(* A frame is abstracted to where it came from, whether it carries the      *)
(* camera's own JPEG bytes and a DNG, and whether its pixels are a picture  *)
(* at all.  A read that raises CameraError leaves a frame of source         *)
(* "error"; None stands for no frame.                                       *)
(***************************************************************************)
EXTENDS Integers, FiniteSets

VARIABLE frame      \* what the last read returned

FrameOf(source, dng, picture) ==
    [source |-> source, jpeg |-> source = "raw-mjpeg", dng |-> dng, picture |-> picture]

NoFrame == FrameOf("none", FALSE, FALSE)
ReadError == FrameOf("error", FALSE, FALSE)
HasFrame == frame.source \notin {"none", "error"}

(***************************************************************************)
(* FakeCamera, as main builds it: a synthetic picture on every read.        *)
(***************************************************************************)
FakeRead == frame' = FrameOf("decoded", FALSE, TRUE)
=============================================================================
