----------------------------- MODULE V4L2Camera -----------------------------
(***************************************************************************)
(* src/pifilm/capture/camera.py, class V4L2Camera: the USB camera that is   *)
(* asked for its compressed buffers (CAP_PROP_CONVERT_RGB = 0) and falls    *)
(* back to decoded frames.  What the object believes (raw) and what the     *)
(* driver sends (sends) are kept apart, for the code's care is that they    *)
(* do not part company unnoticed.                                           *)
(*                                                                         *)
(* The driver is external.  A set() that reports failure may have taken     *)
(* effect or not; a buffer may be missing, cut short, or marked as complete *)
(* and still not decode.                                                    *)
(***************************************************************************)
EXTENDS Camera

CONSTANT Devices            \* the indices __init__ tries, in order

ASSUME DevicesAssumption == Devices \subseteq Nat /\ IsFiniteSet(Devices)

VARIABLES
    held,       \* devices opened and not released
    raw,        \* self._raw
    sends,      \* what the driver's buffers are: "jpeg" or "bgr"
    tries,      \* attempts of the read under way
    unforced    \* history: the driver was left in raw mode by _enable_raw_mode

v4l2Vars == <<held, raw, sends, tries, unforced>>

SetTo(mode, prior) ==
    {[ok |-> TRUE, sends |-> mode]} \union [ok : {FALSE}, sends : {mode, prior}]

Buffers(mode) ==
    IF mode = "jpeg" THEN {"none", "jpeg", "cut", "undecodable"} ELSE {"none", "bgr"}

IsValidJpeg(buffer) == buffer \in {"jpeg", "undecodable"}

V4L2Init ==
    /\ held = {}
    /\ raw = FALSE
    /\ sends = "bgr"
    /\ tries = 0
    /\ unforced = FALSE

(***************************************************************************)
(* _enable_raw_mode: asks, verifies by one frame, and gives up otherwise;   *)
(* the set() that gives up is not looked at.                                *)
(***************************************************************************)
GiveUp(prior) ==
    \E ignored \in SetTo("bgr", prior) :
        /\ raw' = FALSE
        /\ sends' = ignored.sends
        /\ unforced' = (ignored.sends = "jpeg")

EnableRawMode ==
    \E asked \in SetTo("jpeg", "bgr") : \E buffer \in Buffers(asked.sends) :
        IF asked.ok /\ IsValidJpeg(buffer)
        THEN raw' = TRUE /\ sends' = asked.sends /\ unforced' = FALSE
        ELSE GiveUp(asked.sends)

(***************************************************************************)
(* __init__: the first device that delivers a frame; the others are         *)
(* released.  The frames thrown away to warm up change nothing.             *)
(***************************************************************************)
V4L2Open(delivering) ==
    /\ delivering # {}
    /\ held' = {CHOOSE d \in delivering : \A e \in delivering : d <= e}
    /\ EnableRawMode
    /\ tries' = 0

(***************************************************************************)
(* _fallback_to_decoded: only a set() that reports success changes the      *)
(* belief.                                                                  *)
(***************************************************************************)
FallbackBelieving ==
    \E answer \in SetTo("bgr", sends) :
        /\ sends' = answer.sends
        /\ raw' = FALSE

FallbackToDecoded ==
    \E answer \in SetTo("bgr", sends) :
        /\ sends' = answer.sends
        /\ raw' = ~answer.ok

(***************************************************************************)
(* One of the three attempts of read(), and the error after the third.      *)
(***************************************************************************)
V4L2Attempt ==
    \E buffer \in Buffers(sends) :
        /\ tries < 3
        /\ UNCHANGED <<held, unforced>>
        /\ \/ /\ buffer = "none"
              /\ tries' = tries + 1
              /\ UNCHANGED <<raw, sends, frame>>
           \/ /\ raw /\ buffer \in {"cut", "undecodable", "bgr"}
              /\ FallbackToDecoded
              /\ tries' = tries + 1
              /\ UNCHANGED frame
           \/ /\ raw /\ buffer = "jpeg"
              /\ frame' = FrameOf("raw-mjpeg", FALSE, TRUE)
              /\ tries' = 0
              /\ UNCHANGED <<raw, sends>>
           \/ /\ ~raw /\ buffer # "none"
              /\ frame' = FrameOf("decoded", FALSE, buffer = "bgr")
              /\ tries' = 0
              /\ UNCHANGED <<raw, sends>>

V4L2Exhausted ==
    /\ tries = 3
    /\ frame' = ReadError
    /\ tries' = 0
    /\ UNCHANGED <<held, raw, sends, unforced>>

(* close(): the handle and the object's state are gone.                     *)
V4L2Close ==
    /\ held' = {}
    /\ raw' = FALSE
    /\ sends' = "bgr"
    /\ tries' = 0
    /\ unforced' = FALSE

(***************************************************************************)
(* Properties                                                              *)
(***************************************************************************)

(* The object never believes in decoded frames while the driver sends      *)
(* compressed buffers, whatever sets fail and buffers are bad in the middle *)
(* of the session (_fallback_to_decoded); the one exception is a driver     *)
(* that refused already when _enable_raw_mode gave up, whose answer the     *)
(* code ignores.                                                            *)
BeliefIsReal == held # {} /\ ~raw /\ sends = "jpeg" => unforced
=============================================================================
