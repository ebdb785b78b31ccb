--------------------------- MODULE Picamera2Camera ---------------------------
(***************************************************************************)
(* src/pifilm/capture/picamera.py: the camera of the Raspberry Pi through   *)
(* libcamera, whose completed requests are borrowed and must be given back: *)
(* there are only two.                                                      *)
(*                                                                         *)
(* libcamera is external: every call the code guards with a try may raise.  *)
(* A release that raises has not given the request back.                    *)
(***************************************************************************)
EXTENDS Camera

CONSTANT RequestBuffers            \* buffer_count of the still configuration

ASSUME RequestBuffersAssumption == RequestBuffers \in Nat \ {0}

VARIABLES
    library,    \* the libcamera object: how far the construction has come
    owned,      \* self._camera is not None
    borrowed,   \* requests captured and not given back
    withheld    \* history: releases that raised

picameraVars == <<library, owned, borrowed, withheld>>

PicameraInit ==
    /\ library = "none"
    /\ owned = FALSE
    /\ borrowed = 0
    /\ withheld = 0

(***************************************************************************)
(* The construction.  Until the camera is open there is nothing to close:   *)
(* options, import and tuning file are checked first.  Each later step may  *)
(* raise.                                                                   *)
(***************************************************************************)
PicameraOpen ==
    /\ library' = "open"
    /\ owned' = TRUE
    /\ borrowed' = 0 /\ withheld' = 0

(* stop() if start() was tried, close() always; what they raise is          *)
(* swallowed.                                                               *)
CleanupCamera == library' = "none"

SetupFails ==
    /\ library \in {"open", "negotiated", "controlled"}
    /\ CleanupCamera
    /\ owned' = FALSE
    /\ UNCHANGED <<borrowed, withheld>>

Reaches(step) == library' = step /\ UNCHANGED <<owned, borrowed, withheld>>

(* The configuration as negotiated must be complete and the native one.     *)
Negotiated == [complete : BOOLEAN, main : {"native", "other"}, raw : {"native", "other"}]

StreamInfo(actual) == actual.complete /\ actual.main = "native" /\ actual.raw = "native"

Configure ==
    /\ library = "open"
    /\ \E actual \in Negotiated : IF StreamInfo(actual) THEN Reaches("negotiated") ELSE SetupFails

(* A libcamera without the noise or exposure modes keeps its defaults; one  *)
(* without the autofocus modes is refused.                                  *)
ApplyCameraControls ==
    /\ library = "negotiated"
    /\ \E offered \in SUBSET {"autofocus", "noise", "exposure"} :
        IF "autofocus" \in offered THEN Reaches("controlled") ELSE SetupFails

StartCamera == library = "controlled" /\ Reaches("started")

PicameraSetup == Configure \/ ApplyCameraControls \/ StartCamera \/ SetupFails

(***************************************************************************)
(* read(): full reads run the autofocus cycle first and take the DNG along. *)
(* capture_request waits while both buffers are out.                        *)
(***************************************************************************)
PicameraRefuses ==
    /\ frame' = ReadError
    /\ UNCHANGED picameraVars

CaptureRequest ==
    /\ owned
    /\ borrowed < RequestBuffers
    /\ borrowed' = borrowed + 1
    /\ UNCHANGED <<library, owned, withheld, frame>>

(* The finally clause: a failed release is the error of the read only if    *)
(* nothing failed before it.                                                *)
ReleasedIfProcessed(processed, released) ==
    /\ borrowed' = IF processed /\ released THEN borrowed - 1 ELSE borrowed
    /\ withheld' = IF released THEN withheld ELSE withheld + 1

Released(processed, released) ==
    /\ borrowed' = IF released THEN borrowed - 1 ELSE borrowed
    /\ withheld' = IF released THEN withheld ELSE withheld + 1

ConvertAndRelease(full, saveDng) ==
    \E processed, released \in BOOLEAN :
        /\ Released(processed, released)
        /\ frame' = IF processed /\ released
                    THEN FrameOf("picamera2", full /\ saveDng, TRUE)
                    ELSE ReadError
        /\ UNCHANGED <<library, owned>>

(***************************************************************************)
(* close(): what stop() and close() raise is reported after both were       *)
(* called; a second close does nothing.                                     *)
(***************************************************************************)
PicameraClose ==
    /\ library' = IF owned THEN "none" ELSE library
    /\ owned' = FALSE
    /\ borrowed' = 0
    /\ withheld' = 0

(***************************************************************************)
(* Properties                                                              *)
(***************************************************************************)

(* Between reads every request is given back but those whose release        *)
(* raised, whether conversion, metadata or the DNG failed (read's finally): *)
(* otherwise two failed reads would leave capture_request waiting for ever. *)
RequestsAreReleased(reading) == ~reading => borrowed = withheld
=============================================================================
