--------------------------- MODULE CaptureService ---------------------------
(***************************************************************************)
(* What the capture side of the camera promises to whoever presses a       *)
(* shutter, with no thread, lock or queue in sight: a request is accepted  *)
(* at most once, accepted requests are served strictly one at a time, the  *)
(* camera is exposed at most once for each of them, and once the service   *)
(* has been shut down it serves what it had accepted, releases the camera  *)
(* and never touches it again.  CaptureController implements this module.  *)
(***************************************************************************)
EXTENDS Naturals

CONSTANTS Ids      \* the identifiers a capture may be requested under

VARIABLES outcome,   \* what each request has come to
          exposures, \* how often the camera was exposed for each request
          open,      \* new requests are still accepted
          held       \* the service still holds the camera

svars == <<outcome, exposures, open, held>>

Outcomes == {"new", "accepted", "complete", "failed"}

Idle == \A id \in Ids : outcome[id] # "accepted"

SInit == /\ outcome = [id \in Ids |-> "new"]
         /\ exposures = [id \in Ids |-> 0]
         /\ open = TRUE
         /\ held = TRUE

Accept(id) == /\ open
              /\ Idle
              /\ outcome[id] = "new"
              /\ outcome' = [outcome EXCEPT ![id] = "accepted"]
              /\ UNCHANGED <<exposures, open, held>>

Expose(id) == /\ held
              /\ outcome[id] = "accepted"
              /\ exposures[id] = 0
              /\ exposures' = [exposures EXCEPT ![id] = 1]
              /\ UNCHANGED <<outcome, open, held>>

\* A request is settled only after its exposure; nothing reopens it.
Settle(id, how) == /\ outcome[id] = "accepted"
                   /\ exposures[id] = 1
                   /\ outcome' = [outcome EXCEPT ![id] = how]
                   /\ UNCHANGED <<exposures, open, held>>

Shutdown == /\ open
            /\ open' = FALSE
            /\ UNCHANGED <<outcome, exposures, held>>

Release == /\ held
           /\ ~open
           /\ Idle
           /\ held' = FALSE
           /\ UNCHANGED <<outcome, exposures, open>>

SNext == \/ \E id \in Ids : Accept(id) \/ Expose(id)
         \/ \E id \in Ids, how \in {"complete", "failed"} : Settle(id, how)
         \/ Shutdown
         \/ Release

SSpec == SInit /\ [][SNext]_svars
=============================================================================
