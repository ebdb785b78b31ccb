--------------------------- MODULE RemoteShutter ---------------------------
(***************************************************************************)
(* What the remote shutter promises to whoever holds it, with no request,  *)
(* network or process in sight: a press takes at most one photo, now or    *)
(* later; it sounds at most once, while it is the latest; the screen takes *)
(* up a photo of the latest press, and only one that was taken.            *)
(* RemoteCapture implements this module.                                   *)
(***************************************************************************)
EXTENDS Naturals

CONSTANTS Presses, None

VARIABLES pressed, \* the presses that were taken up
          latest,  \* the last one of them, or None
          tones,   \* how often the shutter tone sounded for each press
          shots,   \* how often the camera was exposed for each press
          shown    \* the press whose photo is on the screen, or None

hvars == <<pressed, latest, tones, shots, shown>>

HInit == /\ pressed = {} /\ latest = None
         /\ tones = [id \in Presses |-> 0] /\ shots = [id \in Presses |-> 0]
         /\ shown = None

Press(id) == /\ id \in Presses \ pressed
             /\ pressed' = pressed \cup {id}
             /\ latest' = id

Sound == /\ latest \in pressed /\ tones[latest] = 0
         /\ tones' = [tones EXCEPT ![latest] = 1]

Show == /\ latest \in pressed /\ shots[latest] = 1
        /\ shown' = latest

\* The photo of a press that was given up may come up as the next one is taken.
Turn == /\ \/ (\E id \in Presses : Press(id)) /\ UNCHANGED tones
           \/ Sound /\ UNCHANGED <<pressed, latest>>
           \/ UNCHANGED <<pressed, latest, tones>>
        /\ Show \/ UNCHANGED shown
        /\ UNCHANGED shots

Shoot(id) == /\ id \in pressed /\ shots[id] = 0
             /\ shots' = [shots EXCEPT ![id] = 1]
             /\ UNCHANGED <<pressed, latest, tones, shown>>

HNext == Turn \/ \E id \in Presses : Shoot(id)

HSpec == HInit /\ [][HNext]_hvars
=============================================================================
