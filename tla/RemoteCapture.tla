---------------------------- MODULE RemoteCapture ----------------------------
(***************************************************************************)
(* The StickS3 (CaptureClient) and the camera, end to end: one device, a   *)
(* network that loses and delays, and a Raspberry Pi whose capture process *)
(* restarts.  The process is the HTTP side of RemoteServer in front of the *)
(* service that CaptureController implements, CaptureService; its registry *)
(* is what matters of it here, the captures it has forgotten.              *)
(***************************************************************************)
EXTENDS CaptureClient, FiniteSets

CONSTANTS
  OtherIds,  \* captures by the terminal, the window and other clients
  MaxFaults, \* bound on the faults of one run (every kind counts)
  MaxEvicted,\* bound on the device's captures the registry evicts
  Clocks     \* the deadlines of the device that come up

ASSUME CaptureConstants == /\ OtherIds \cap (Ids \cup {None}) = {}
                           /\ MaxFaults \in Nat
                           /\ MaxEvicted \in Nat
                           /\ Clocks \subseteq Deadlines

VARIABLES
  outcome, exposures, open, held, \* the capture service of the process
  instance,  \* instance_id of the running process, or None
  listening, \* its accept loop runs
  forgotten, \* settled jobs its registry has evicted
  wire,      \* POSTs a handler thread has not acted on yet
  inbox,     \* the answer on its way to the waiting worker, or None
  spent,     \* history: instance ids of earlier processes
  shots,     \* history: exposures for each press, in all processes
  faults     \* faults so far

AllIds == Ids \cup OtherIds
Service == INSTANCE CaptureService WITH Ids <- AllIds

service == <<outcome, exposures, open, held>>
process == <<service, instance, listening, forgotten>>
network == <<wire, inbox>>
evars == <<cvars, process, network, spent, shots, faults>>

Answers == [says : {"transport", "accepted", "rejected", "Processing", "Complete",
                    "Failed", "Missing", "image", "noimage"}]
           \cup [ready : BOOLEAN, busy : BOOLEAN, instance : Instances]

CaptureTypeOK ==
  /\ ClientTypeOK
  /\ outcome \in [AllIds -> Service!Outcomes]
  /\ exposures \in [AllIds -> 0..1]
  /\ open \in BOOLEAN /\ held \in BOOLEAN
  /\ instance \in Instances \cup {None}
  /\ instance \notin spent /\ spent \subseteq Instances
  /\ listening \in BOOLEAN
  /\ forgotten \subseteq {id \in Ids : outcome[id] \in {"complete", "failed"}}
  /\ wire \subseteq Ids
  /\ inbox \in {None} \cup Answers
  /\ inbox # None => worker.at = "wait"
  /\ shots \in [Ids -> Nat]
  /\ faults \in 0..MaxFaults

CaptureInit == /\ ClientInit
               /\ Service!SInit
               /\ instance \in Instances
               /\ listening = TRUE
               /\ forgotten = {}
               /\ wire = {}
               /\ inbox = None
               /\ spent = {}
               /\ shots = [id \in Ids |-> 0]
               /\ faults = 0

Fault == faults < MaxFaults /\ faults' = faults + 1
-----------------------------------------------------------------------------
\* The device.

\* A turn of the UI loop, a look of the worker, a deadline, a failing begin:
\* the server has no part in it.
Alone(step) == step /\ UNCHANGED <<process, network, spent, shots, faults>>

WorkerTurn == Watch \/ NextWork \/ ConnectWork
UiTurn == Turn(None, TRUE)
UiPress == \E id \in Ids \ drawn : Turn(id, TRUE)

DeviceAlone == \/ Alone(WorkerTurn)
               \/ Alone(UiTurn)
               \/ Alone(UiPress)
               \/ \E deadline \in Clocks : Alone(Elapse(deadline))

\* A photo that will not decode, a begin that fails, Wi-Fi that drops.
DeviceFault ==
  /\ \/ jpeg # None /\ Turn(None, FALSE)
     \/ BeginFails
     \/ wifi /\ WifiChanges
  /\ Fault
  /\ UNCHANGED <<process, network, spent, shots>>

WifiReturns == /\ ~wifi
               /\ WifiChanges
               /\ UNCHANGED <<process, network, spent, shots, faults>>

\* The request leaves; a POST reaches the process if there is one to accept it.
Transmit ==
  /\ Begin
  /\ wire' = IF worker.kind = "Submit" /\ wifi /\ listening
             THEN wire \cup {worker.id} ELSE wire
  /\ UNCHANGED <<process, inbox, spent, shots, faults>>

\* The worker is told what came of its request.
Take(answer) ==
  CASE worker.kind = "Status" ->
         IF "says" \in DOMAIN answer THEN StatusLost
         ELSE StatusAnswer(answer.ready, answer.busy, answer.instance)
    [] worker.kind = "Submit" ->
         SubmitAnswer(IF answer.says = "transport" THEN "lost" ELSE answer.says)
    [] worker.kind = "Poll" ->
         PollAnswer(IF answer.says = "transport" THEN "lost" ELSE answer.says)
    [] worker.kind = "Download" -> DownloadAnswer(answer.says = "image")

Deliver == /\ inbox # None /\ wifi
           /\ Take(inbox)
           /\ inbox' = None
           /\ UNCHANGED <<process, wire, spent, shots, faults>>

\* Nothing answers the waiting worker, and nothing will.
Unreachable == \/ ~wifi
               \/ ~listening /\ inbox = None
               \/ worker.kind = "Submit" /\ worker.id \notin wire /\ inbox = None

\* The 5 s time-out, the lost connection: a fault if an answer could have come.
\* The POST itself may still be on its way.
GiveUp == /\ worker.at = "wait"
          /\ Take([says |-> "transport"])
          /\ inbox' = None
          /\ IF Unreachable THEN faults' = faults ELSE Fault
          /\ UNCHANGED <<process, wire, spent, shots>>
-----------------------------------------------------------------------------
\* The process on the Raspberry Pi.

\* The worker waits for an answer of this kind, and none is on its way yet.
Expects(kind) == worker.at = "wait" /\ worker.kind = kind /\ inbox = None
Send(answer) == inbox' = answer

\* _post: what it says to a POST, and the job it makes of it.
PostSays(id) ==
  CASE id \in forgotten                                        -> "rejected"
    [] id \notin forgotten /\ outcome[id] # "new"              -> "accepted"
    [] outcome[id] = "new" /\ ~open                            -> "accepted"
    [] outcome[id] = "new" /\ open /\ ~Service!Idle            -> "rejected"
    [] outcome[id] = "new" /\ open /\ Service!Idle             -> "accepted"

ReceivePost(id) ==
  /\ id \in wire
  /\ wire' = wire \ {id}
  /\ IF outcome[id] = "new" /\ open /\ Service!Idle
     THEN Service!Accept(id) ELSE UNCHANGED service
  /\ inbox' = IF Expects("Submit") /\ worker.id = id
              THEN [says |-> PostSays(id)] ELSE inbox
  /\ UNCHANGED <<cvars, instance, listening, forgotten, spent, shots, faults>>

\* GET /v1/status.
StatusNow == [ready |-> open, busy |-> ~Service!Idle, instance |-> instance]

\* A job that is listed as complete as soon as it has been accepted.
JobSaysEarly(id) == IF id \in forgotten \/ outcome[id] = "new" THEN "Missing"
                    ELSE IF outcome[id] = "failed" THEN "Failed" ELSE "Complete"

\* GET /v1/captures/ID, and its image.
JobSays(id) ==
  CASE id \in forgotten \/ outcome[id] = "new"           -> "Missing"
    [] id \notin forgotten /\ outcome[id] = "accepted"   -> "Processing"
    [] id \notin forgotten /\ outcome[id] = "complete"   -> "Complete"
    [] id \notin forgotten /\ outcome[id] = "failed"     -> "Failed"

ImageSays(id) == IF JobSays(id) = "Complete" THEN "image" ELSE "noimage"

ServeGet ==
  /\ listening /\ wifi
  /\ \/ Expects("Status") /\ Send(StatusNow)
     \/ Expects("Poll") /\ Send([says |-> JobSays(worker.id)])
     \/ Expects("Download") /\ Send([says |-> ImageSays(worker.id)])
  /\ UNCHANGED <<cvars, process, wire, spent, shots, faults>>

\* The capture worker.
Expose(id) ==
  /\ instance # None
  /\ Service!Expose(id)
  /\ shots' = IF id \in Ids THEN [shots EXCEPT ![id] = @ + 1] ELSE shots
  /\ UNCHANGED <<cvars, instance, listening, forgotten, network, spent, faults>>

Settle(id, how) ==
  /\ instance # None
  /\ Service!Settle(id, how)
  /\ UNCHANGED <<cvars, instance, listening, forgotten, network, spent, shots, faults>>

\* Somebody else presses a shutter.
OtherCapture(id) ==
  /\ instance # None
  /\ Service!Accept(id)
  /\ UNCHANGED <<cvars, instance, listening, forgotten, network, spent, shots, faults>>

\* MAX_JOBS captures by others later (here, one), the registry forgets a settled
\* job.
Evict(id) ==
  /\ instance # None
  /\ \E other \in OtherIds : outcome[other] # "new"
  /\ outcome[id] \in {"complete", "failed"}
  /\ id \notin forgotten
  /\ Cardinality(forgotten) < MaxEvicted
  /\ forgotten' = forgotten \cup {id}
  /\ UNCHANGED <<cvars, service, instance, listening, network, spent, shots, faults>>

\* Ctrl-C, in main's order: the listener, then the controller.
Quit == /\ instance # None /\ listening
        /\ Fault
        /\ listening' = FALSE
        /\ UNCHANGED <<cvars, service, instance, forgotten, network, spent, shots>>

CloseController == /\ instance # None /\ ~listening
                   /\ Service!Shutdown
                   /\ UNCHANGED <<cvars, instance, listening, forgotten, network,
                                  spent, shots, faults>>

ReleaseCamera == /\ instance # None
                 /\ Service!Release
                 /\ UNCHANGED <<cvars, instance, listening, forgotten, network,
                                spent, shots, faults>>

\* The process is gone, at its end or at any moment, and its connections and
\* jobs with it.
Gone == /\ instance # None
        /\ instance' = None
        /\ listening' = FALSE
        /\ wire' = {}
        /\ inbox' = None
        /\ spent' = spent \cup {instance}
        /\ forgotten' = {}
        /\ outcome' = [id \in AllIds |-> "new"]
        /\ exposures' = [id \in AllIds |-> 0]
        /\ open' = TRUE
        /\ held' = TRUE
        /\ UNCHANGED <<cvars, shots>>

Exit == ~held /\ Gone /\ UNCHANGED faults
Crash == Gone /\ Fault

Start == /\ instance = None
         /\ instance' \in Instances \ spent
         /\ listening' = TRUE
         /\ UNCHANGED <<cvars, service, forgotten, network, spent, shots, faults>>

Handlers == (\E id \in Ids : ReceivePost(id)) \/ ServeGet

CaptureWorker == \E id \in AllIds :
                   Expose(id) \/ \E how \in {"complete", "failed"} : Settle(id, how)

Main == CloseController \/ ReleaseCamera \/ Exit \/ Start

CaptureNext == \/ DeviceAlone
               \/ DeviceFault
               \/ WifiReturns
               \/ Transmit
               \/ Deliver
               \/ GiveUp
               \/ Handlers
               \/ CaptureWorker
               \/ Main
               \/ \E id \in OtherIds : OtherCapture(id)
               \/ \E id \in Ids : Evict(id)
               \/ Quit
               \/ Crash

CaptureSpec == CaptureInit /\ [][CaptureNext]_evars

\* Both tasks of the device run and its clock moves on; an exchange that cannot
\* be answered ends by its time-out; requests that arrive are handled and
\* answers that are sent arrive, faults aside; session.capture() ends, and
\* somebody starts the process again after it is gone.  Nobody has to press.
FairCaptureSpec ==
  /\ CaptureSpec
  /\ WF_evars(Alone(WorkerTurn)) /\ WF_evars(Alone(UiTurn))
  /\ \A deadline \in Clocks : SF_evars(Alone(Elapse(deadline)))
  /\ WF_evars(WifiReturns) /\ WF_evars(Transmit) /\ WF_evars(Deliver)
  /\ WF_evars(GiveUp /\ Unreachable)
  /\ WF_evars(Handlers) /\ WF_evars(CaptureWorker) /\ WF_evars(Main)
-----------------------------------------------------------------------------
\* One press, one exposure: whatever is lost, delayed, repeated or restarted,
\* its POST leaves the device once, no UUID fires the shutter twice, and none
\* fires it unless its POST left the device.
OneShotPerPress ==
  /\ PostedOnce
  /\ \A id \in Ids : shots[id] <= 1 /\ (shots[id] > 0 => posts[id] > 0)

\* The photo on the screen is one that was taken for a press of this device, as
\* a remote shutter's is (ImplementsShutter, below).
ScreenShowsOwnShot == screen # None => screen \in drawn /\ shots[screen] = 1

\* Device, network and processes together are a remote shutter: whatever is lost
\* or restarted, every step of theirs is one that RemoteShutter allows, or none.
Shutter == INSTANCE RemoteShutter WITH
             Presses <- Ids, pressed <- drawn, latest <- client.request, shown <- screen

ImplementsShutter == Shutter!HSpec

\* A press is not forgotten and does not hang: the request is over in the end,
\* with its photo or a message, whatever was lost and whoever restarted.
RequestIsReleased ==
  \A id \in Ids : (client.active /\ client.request = id) ~> ~client.active

\* "An unknown job interrupts the active request": a request whose job the
\* server has forgotten is given up.
UnknownJobInterrupts ==
  \A id \in Ids : (client.active /\ client.request = id /\ id \in forgotten)
                    ~> ~client.active

\* The button comes back: the device never gets stuck in a state in which no
\* press is taken.
ButtonComesBack == []<>PressAccepted(client)
=============================================================================
