---------------------------- MODULE CaptureClient ----------------------------
(***************************************************************************)
(* The StickS3 remote: firmware/sticks3/src/capture_client.cpp, the class  *)
(* that decides what the device does, and the two tasks of main.cpp that   *)
(* drive it under one mutex: networkWorker, which issues one work item at  *)
(* a time and reports what came of it, and loop, which samples the button, *)
(* sounds the shutter and decodes a downloaded photo.                      *)
(*                                                                         *)
(* This module leaves the network and the server open: any reply may come  *)
(* to any request, and Wi-Fi comes and goes.  RemoteCapture puts the       *)
(* server there.                                                           *)
(*                                                                         *)
(* Time: a deadline is an element of client.due once it has passed.        *)
(* Assigning "now + d" removes it, assigning "now" adds it, and Elapse     *)
(* lets the clock reach it.  A deadline moves only while the code reads it *)
(* (each is assigned again before it is next read).                        *)
(***************************************************************************)
EXTENDS Naturals

CONSTANTS Ids,       \* the UUIDs drawn by accepted presses
          Instances, \* instance ids of server processes
          None       \* the empty string, or no value

VARIABLES
  client, \* the CaptureClient object
  worker, \* networkWorker: where it stands, its work item and was_connected
  wifi,   \* WiFi.status() == WL_CONNECTED
  jpeg,   \* the request whose JPEG waits in jpeg_back_buffer, or None
  screen, \* the request whose photo StickDisplay keeps, or None
  drawn,  \* history: the UUIDs of accepted presses
  posts,  \* history: how often the POST of each request left the device
  acked,  \* history: requests whose POST was answered 2xx
  tones   \* history: how often the shutter tone sounded for each request

cvars == <<client, worker, wifi, jpeg, screen, drawn, posts, acked, tones>>

States    == {"Connecting", "Ready", "Requesting", "Processing", "Downloading",
              "Photo", "Error"}
Reasons   == {"None", "Transport", "Timeout", "Interrupted", "Rejected", "Image"}
WorkKinds == {"Connect", "Status", "Submit", "Download", "Poll"}
Deadlines == {"connect", "status", "poll", "download", "timeout", "error"}

ASSUME ClientConstants == None \notin Ids \cup Instances \cup WorkKinds

\* capture_client.h; error_until_ # 0 is errorHold, and what nothing reads
\* (photo_updated_) or only paces retries (reconnect_backoff_ms_) is left out.
Client == [state : States, request : Ids \cup {None}, wifi : BOOLEAN,
           apiReady : BOOLEAN, serverBusy : BOOLEAN, active : BOOLEAN,
           timedOut : BOOLEAN, hasPhoto : BOOLEAN, shutter : BOOLEAN,
           inFlight : SUBSET WorkKinds, submitted : BOOLEAN, retry : BOOLEAN,
           errorHold : BOOLEAN, reason : Reasons,
           instance : Instances \cup {None}, due : SUBSET Deadlines]

WorkerState == [at : {"watch", "next", "begin", "wait"}, was : BOOLEAN,
                kind : WorkKinds \cup {None}, id : Ids \cup {None}]

\* An active request has an id, one of a press.
ClientTypeOK == /\ client \in Client
                /\ client.active => client.request \in drawn
                /\ worker \in WorkerState
                /\ wifi \in BOOLEAN
                /\ jpeg \in Ids \cup {None}
                /\ screen \in Ids \cup {None}
                /\ drawn \subseteq Ids
                /\ posts \in [Ids -> Nat]
                /\ acked \subseteq Ids
                /\ tones \in [Ids -> Nat]

\* All deadlines start at 0.
NewClient == [state |-> "Connecting", request |-> None, wifi |-> FALSE,
              apiReady |-> FALSE, serverBusy |-> FALSE, active |-> FALSE,
              timedOut |-> FALSE, hasPhoto |-> FALSE, shutter |-> FALSE,
              inFlight |-> {}, submitted |-> FALSE, retry |-> FALSE,
              errorHold |-> FALSE, reason |-> "None", instance |-> None,
              due |-> {"connect", "status"}]

ClientInit == /\ client = NewClient
              /\ worker = [at |-> "watch", was |-> FALSE, kind |-> None, id |-> None]
              /\ wifi = FALSE
              /\ jpeg = None
              /\ screen = None
              /\ drawn = {}
              /\ posts = [id \in Ids |-> 0]
              /\ acked = {}
              /\ tones = [id \in Ids |-> 0]
-----------------------------------------------------------------------------
\* The methods of CaptureClient, as functions of the object.

ReadyForCapture(c) == c.wifi /\ c.apiReady /\ ~c.serverBusy

\* The state shown while the server is out of reach.
Waiting(c) == IF ~c.active /\ c.hasPhoto THEN "Photo" ELSE "Connecting"

\* An error message that is still being shown.
Holding(c) == c.state = "Error" /\ c.errorHold /\ "error" \notin c.due

SetWifiConnected(c, connected) ==
  IF connected
  THEN [c EXCEPT !.wifi = TRUE, !.apiReady = FALSE, !.serverBusy = FALSE,
                 !.inFlight = @ \ {"Status"}, !.due = @ \cup {"status"},
                 !.state = Waiting(c)]
  ELSE [c EXCEPT !.wifi = FALSE, !.apiReady = FALSE,
                 !.inFlight = @ \ {"Connect"}, !.due = @ \ {"connect"},
                 !.state = Waiting(c)]

CompleteConnect(c, connected) ==
  LET done == [c EXCEPT !.inFlight = @ \ {"Connect"}]
  IN  IF connected
      THEN SetWifiConnected(done, TRUE)
      ELSE [done EXCEPT !.wifi = FALSE, !.apiReady = FALSE,
                        !.due = @ \ {"connect"}, !.state = Waiting(c)]

\* onButtonSample: what it asks of a press, and what an accepted one sets.
PressAccepted(c) == ~c.active /\ ReadyForCapture(c) /\ c.state \in {"Ready", "Photo"}

Press(c, id) ==
  [c EXCEPT !.request = id, !.active = TRUE, !.timedOut = FALSE,
            !.shutter = FALSE, !.submitted = FALSE, !.retry = FALSE,
            !.inFlight = @ \ {"Submit", "Poll", "Download"},
            !.reason = "None", !.errorHold = FALSE,
            !.due = @ \ {"timeout", "poll"}, !.state = "Requesting"]

Tick(c) ==
  IF c.active /\ ~c.timedOut /\ "timeout" \in c.due
  THEN [c EXCEPT !.timedOut = TRUE, !.reason = "Timeout", !.state = "Error"]
  ELSE IF ~c.active /\ c.state = "Error" /\ c.errorHold /\ "error" \in c.due
  THEN [c EXCEPT !.errorHold = FALSE, !.reason = "None",
                 !.state = IF c.hasPhoto THEN "Photo"
                           ELSE IF ReadyForCapture(c) THEN "Ready" ELSE "Connecting"]
  ELSE c

\* A poll also while the photo is being fetched, and the poll of nextWork.
PollDueAlways(c) == c.active /\ "poll" \in c.due

PollDue(c) == c.active /\ ~c.retry /\ "poll" \in c.due

\* One that fetches the photo also of a request that has failed for good.
DueInError(c, kind) ==
  CASE kind = "Connect"  -> ~c.wifi /\ "connect" \in c.due
    [] kind = "Status"   -> c.wifi /\ "status" \in c.due
    [] kind = "Submit"   -> c.wifi /\ c.state = "Requesting"
    [] kind = "Download" -> /\ c.wifi /\ c.state \in {"Downloading", "Error"}
                            /\ "download" \in c.due
    [] kind = "Poll"     -> c.wifi /\ PollDue(c)

\* nextWork: when each kind of work is due, whether or not it is under way.
Due(c, kind) ==
  CASE kind = "Connect"  -> ~c.wifi /\ "connect" \in c.due
    [] kind = "Status"   -> c.wifi /\ "status" \in c.due
    [] kind = "Submit"   -> c.wifi /\ c.state = "Requesting"
    [] kind = "Download" -> /\ c.wifi
                            /\ c.state = "Downloading" \/ (c.state = "Error" /\ c.retry)
                            /\ "download" \in c.due
    [] kind = "Poll"     -> c.wifi /\ PollDue(c)

\* A download that does not wait for the decoding of the last one.
WantsEagerly(c, kind) == Due(c, kind) /\ (kind = "Download" \/ kind \notin c.inFlight)

Wants(c, kind) == Due(c, kind) /\ kind \notin c.inFlight

\* The order in which nextWork looks for work.
Before(kind) == CASE kind \in {"Connect", "Status"} -> {}
                  [] kind = "Submit"                -> {"Status"}
                  [] kind = "Download"              -> {"Status", "Submit"}
                  [] kind = "Poll"                  -> {"Status", "Submit", "Download"}

Issues(c, kind) == Wants(c, kind) /\ \A other \in Before(kind) : ~Wants(c, other)

Issue(c, kind) ==
  LET issued == [c EXCEPT !.inFlight = @ \cup {kind}]
  IN  CASE kind = "Download" -> [issued EXCEPT !.state = "Downloading"]
        [] kind = "Poll"     -> [issued EXCEPT !.due = @ \ {"poll"}]
        [] OTHER             -> issued

SubmitStartFailed(c) ==
  [c EXCEPT !.inFlight = @ \ {"Submit"}, !.state = "Requesting"]

\* A completeSubmit that sends a POST again of which nothing was heard, and one
\* that sounds the shutter for it.
CompleteSubmitAgain(c, acknowledged) ==
  IF acknowledged
  THEN [c EXCEPT !.inFlight = @ \ {"Submit"}, !.shutter = TRUE,
                 !.submitted = TRUE, !.state = "Processing", !.due = @ \ {"poll"}]
  ELSE SubmitStartFailed(c)

CompleteSubmitLoudly(c, acknowledged) ==
  [c EXCEPT !.inFlight = @ \ {"Submit"}, !.shutter = TRUE,
            !.submitted = TRUE, !.state = "Processing", !.due = @ \ {"poll"}]

CompleteSubmit(c, acknowledged) ==
  [c EXCEPT !.inFlight = @ \ {"Submit"}, !.shutter = @ \/ acknowledged,
            !.submitted = TRUE, !.state = "Processing", !.due = @ \ {"poll"}]

\* The request is given up, with a message for two seconds.
Rejected(c) ==
  [c EXCEPT !.active = FALSE, !.retry = FALSE, !.reason = "Rejected",
            !.errorHold = TRUE, !.due = @ \ {"error"}, !.state = "Error"]

\* A request given up without a message, as if nothing had been asked for.
InterruptedQuietly(c) ==
  [c EXCEPT !.active = FALSE, !.retry = FALSE, !.reason = "Interrupted",
            !.state = IF c.hasPhoto THEN "Photo" ELSE "Ready"]

\* The request is given up until a status reply clears the message.
Interrupted(c) ==
  [c EXCEPT !.active = FALSE, !.retry = FALSE, !.reason = "Interrupted",
            !.state = "Error"]

RejectSubmit(c) == Rejected([c EXCEPT !.inFlight = @ \ {"Submit"}])

\* Back to what the active request was doing before the connection faltered.
Resumed(c) == IF c.timedOut THEN "Error"
              ELSE IF ~c.submitted THEN "Requesting"
              ELSE IF c.retry THEN "Downloading" ELSE "Processing"

Recovered(reason) == IF reason = "Transport" THEN "None" ELSE reason

CompleteServerStatus(c, ready, busy, instance) ==
  LET heard == [c EXCEPT !.inFlight = @ \ {"Status"}, !.due = @ \ {"status"},
                         !.apiReady = ready, !.serverBusy = ready /\ busy]
      known == [heard EXCEPT !.instance = instance]
      changed == c.instance \notin {None, instance}
  IN  CASE ~ready -> [heard EXCEPT !.state = Waiting(c)]
        [] ready /\ c.active /\ changed ->
             Interrupted([known EXCEPT !.inFlight = @ \ {"Poll", "Download"}])
        [] ready /\ c.active /\ ~changed ->
             [known EXCEPT !.reason = Recovered(@), !.state = Resumed(c)]
        [] ready /\ ~c.active /\ Holding(c) -> known
        [] ready /\ ~c.active /\ ~Holding(c) ->
             [known EXCEPT !.state = IF c.hasPhoto THEN "Photo"
                                     ELSE IF busy THEN "Connecting" ELSE "Ready"]

\* One that leaves the last answer standing: the Pi is taken to be idle still.
TrustfulStatusTransportError(c) ==
  LET failed == [c EXCEPT !.inFlight = @ \ {"Status"}, !.due = @ \ {"status"},
                          !.apiReady = FALSE]
  IN  IF c.active
      THEN [failed EXCEPT !.reason = "Transport", !.state = "Error"]
      ELSE failed

CompleteStatusTransportError(c) ==
  LET failed == [c EXCEPT !.inFlight = @ \ {"Status"}, !.due = @ \ {"status"},
                          !.apiReady = FALSE, !.serverBusy = TRUE]
  IN  IF c.active
      THEN [failed EXCEPT !.reason = "Transport", !.state = "Error"]
      ELSE [failed EXCEPT !.state = Waiting(c)]

\* An acceptStatus that takes a job nobody knows for one that is still to come.
AcceptStatusPatiently(c, status) ==
  LET polled == [c EXCEPT !.inFlight = @ \ {"Poll"}, !.due = @ \ {"poll"}]
  IN  CASE status \in {"Processing", "Missing"} ->
             [polled EXCEPT !.state = IF c.timedOut THEN @ ELSE "Processing"]
        [] status = "Complete" ->
             [polled EXCEPT !.retry = TRUE, !.due = @ \cup {"download"},
                            !.state = "Downloading"]
        [] status = "Failed" -> Rejected(polled)

\* acceptStatus; "queued" (Pending) and "processing" are treated alike.
AcceptStatus(c, status) ==
  LET polled == [c EXCEPT !.inFlight = @ \ {"Poll"}, !.due = @ \ {"poll"}]
  IN  CASE status = "Processing" ->
             [polled EXCEPT !.reason = Recovered(@),
                            !.state = IF c.timedOut THEN @ ELSE "Processing"]
        [] status = "Complete" ->
             [polled EXCEPT !.retry = TRUE, !.due = @ \cup {"download"},
                            !.state = "Downloading"]
        [] status = "Failed"  -> Rejected(polled)
        [] status = "Missing" -> Interrupted(polled)

CompletePollTransportError(c) ==
  [c EXCEPT !.inFlight = @ \ {"Poll"}, !.due = @ \ {"poll"},
            !.reason = "Transport", !.state = "Error"]

\* A completeDownload that leaves a failed download under way.
CompleteDownloadHalfway(c, decoded) ==
  IF decoded
  THEN [c EXCEPT !.inFlight = @ \ {"Download"}, !.hasPhoto = TRUE,
                 !.active = FALSE, !.retry = FALSE, !.state = "Photo"]
  ELSE [c EXCEPT !.retry = TRUE, !.due = @ \ {"download"},
                 !.reason = "Image", !.state = "Error"]

CompleteDownload(c, decoded) ==
  LET done == [c EXCEPT !.inFlight = @ \ {"Download"}]
  IN  IF decoded
      THEN [done EXCEPT !.hasPhoto = TRUE, !.active = FALSE, !.retry = FALSE,
                        !.state = "Photo"]
      ELSE [done EXCEPT !.retry = TRUE, !.due = @ \ {"download"},
                        !.reason = "Image", !.state = "Error"]
-----------------------------------------------------------------------------
\* networkWorker.

At(place) == worker' = [worker EXCEPT !.at = place, !.kind = None, !.id = None]

\* A status exchange is over; the worker keeps that in mind for Elapse.
Rest == IF worker.kind = "Status" THEN worker' = [worker EXCEPT !.at = "watch", !.id = None]
                                  ELSE At("watch")

\* The loop's own look at Wi-Fi.
Watch ==
  /\ worker.at = "watch"
  /\ client' = IF wifi # worker.was THEN SetWifiConnected(client, wifi) ELSE client
  /\ worker' = [worker EXCEPT !.at = "next", !.was = wifi]
  /\ UNCHANGED <<wifi, jpeg, screen, drawn, posts, acked, tones>>

NextWork ==
  /\ worker.at = "next"
  /\ LET now == Tick(client)
     IN  \/ /\ \A kind \in WorkKinds : ~Wants(now, kind)
            /\ client' = now
            /\ At("watch")
         \/ \E kind \in WorkKinds :
              /\ Issues(now, kind)
              /\ client' = Issue(now, kind)
              /\ worker' = [worker EXCEPT !.at = "begin", !.kind = kind,
                                          !.id = client.request]
  /\ UNCHANGED <<wifi, jpeg, screen, drawn, posts, acked, tones>>

\* WiFi.begin, then a look whether it has associated yet.
ConnectWork ==
  /\ worker.at = "begin" /\ worker.kind = "Connect"
  /\ client' = CompleteConnect(client, wifi)
  /\ At("watch")
  /\ UNCHANGED <<wifi, jpeg, screen, drawn, posts, acked, tones>>

\* What the client is told when http.begin fails.
StartFailed(c, kind) ==
  CASE kind = "Status"   -> CompleteStatusTransportError(c)
    [] kind = "Submit"   -> SubmitStartFailed(c)
    [] kind = "Poll"     -> CompletePollTransportError(c)
    [] kind = "Download" -> CompleteDownload(c, FALSE)

BeginFails ==
  /\ worker.at = "begin" /\ worker.kind # "Connect"
  /\ client' = StartFailed(client, worker.kind)
  /\ Rest
  /\ UNCHANGED <<wifi, jpeg, screen, drawn, posts, acked, tones>>

\* The request leaves the device.
Begin ==
  /\ worker.at = "begin" /\ worker.kind # "Connect"
  /\ worker' = [worker EXCEPT !.at = "wait"]
  /\ posts' = IF worker.kind = "Submit" THEN [posts EXCEPT ![worker.id] = @ + 1]
                                        ELSE posts
  /\ UNCHANGED <<client, wifi, jpeg, screen, drawn, acked, tones>>

Answered(kind) == /\ worker.at = "wait" /\ worker.kind = kind
                  /\ Rest
                  /\ UNCHANGED <<wifi, screen, drawn, posts, tones>>

\* 200 with a status, or anything else.
StatusAnswer(ready, busy, instance) ==
  /\ Answered("Status")
  /\ client' = CompleteServerStatus(client, ready, busy, instance)
  /\ UNCHANGED <<jpeg, acked>>

StatusLost ==
  /\ Answered("Status")
  /\ client' = CompleteStatusTransportError(client)
  /\ UNCHANGED <<jpeg, acked>>

\* 2xx, another status, or none.
SubmitAnswer(says) ==
  /\ Answered("Submit")
  /\ client' = CASE says = "accepted" -> CompleteSubmit(client, TRUE)
                 [] says = "rejected" -> RejectSubmit(client)
                 [] says = "lost"     -> CompleteSubmit(client, FALSE)
  /\ acked' = IF says = "accepted" THEN acked \cup {worker.id} ELSE acked
  /\ UNCHANGED jpeg

\* 200 with a job state, 404, or anything else.
PollAnswer(says) ==
  /\ Answered("Poll")
  /\ client' = IF says = "lost" THEN CompletePollTransportError(client)
                                ELSE AcceptStatus(client, says)
  /\ UNCHANGED <<jpeg, acked>>

\* A whole JPEG in the buffer, left to the UI loop; anything else fails.
DownloadAnswer(whole) ==
  /\ Answered("Download")
  /\ client' = IF whole THEN client ELSE CompleteDownload(client, FALSE)
  /\ jpeg' = IF whole THEN worker.id ELSE jpeg
  /\ UNCHANGED acked
-----------------------------------------------------------------------------
\* StickDisplay.decodeAndStore.
DecodeAndStore(photo, decoded) == IF photo # None /\ decoded THEN photo ELSE screen

\* One turn of loop(): the button, the tone, the photo.  "id" is the UUID of a
\* press the debouncing let through, or None.
Pressed(c, id) == IF id # None /\ PressAccepted(c) THEN Press(c, id) ELSE c

Turn(id, decoded) ==
  LET pressed == Pressed(client, id)
      quiet == [pressed EXCEPT !.shutter = FALSE]
  IN  /\ drawn' = IF pressed # client THEN drawn \cup {id} ELSE drawn
      /\ tones' = IF pressed.shutter THEN [tones EXCEPT ![pressed.request] = @ + 1]
                                    ELSE tones
      /\ client' = IF jpeg = None THEN quiet ELSE CompleteDownload(quiet, decoded)
      /\ screen' = DecodeAndStore(jpeg, decoded)
      /\ jpeg' = None
      /\ UNCHANGED <<worker, wifi, posts, acked>>

\* UUIDs are random: a press draws one never used before.
PressTurn == \E id \in Ids \ drawn, decoded \in BOOLEAN : Turn(id, decoded)

IdleTurn == \E decoded \in BOOLEAN : Turn(None, decoded)

\* UiKeepsUp: the UI loop turns every 10 ms, drawing aside.  It has turned before
\* Wi-Fi is back, and before a status deadline, half a second away, comes up.
\* WorkerKeepsUp: the worker turns every 20 ms.  It has looked for work after a
\* status reply before the next status deadline comes up.

\* Wi-Fi comes and goes.
WifiChanges == /\ jpeg # None => wifi
               /\ wifi' = ~wifi
               /\ UNCHANGED <<client, worker, jpeg, screen, drawn, posts, acked, tones>>

\* The clock reaches a deadline.  Only nextWork reads the clock (and, for a
\* message being shown, completeServerStatus), so it need reach one only there;
\* but a status deadline may have passed during an exchange.
Elapse(deadline) ==
  /\ deadline \notin client.due
  /\ CASE deadline = "status"   -> /\ client.wifi /\ jpeg = None
                                   /\ \/ worker.at \in {"begin", "wait"}
                                      \/ worker.at = "next" /\ worker.kind = None
       [] deadline = "error"    -> /\ client.errorHold /\ ~client.active
                                   /\ \/ worker.at = "next"
                                      \/ worker.at = "wait" /\ worker.kind = "Status"
       [] deadline = "connect"  -> ~client.wifi /\ worker.at = "next"
       [] deadline = "poll"     -> client.active /\ worker.at = "next"
       [] deadline = "download" -> client.retry /\ worker.at = "next"
       [] deadline = "timeout"  -> client.active /\ ~client.timedOut /\ worker.at = "next"
  /\ client' = [client EXCEPT !.due = @ \cup {deadline}]
  /\ UNCHANGED <<worker, wifi, jpeg, screen, drawn, posts, acked, tones>>

Device == \/ Watch
          \/ NextWork
          \/ ConnectWork
          \/ BeginFails
          \/ Begin
          \/ PressTurn
          \/ IdleTurn
          \/ \E deadline \in Deadlines : Elapse(deadline)

\* Any server and any network, but no server has a job under a UUID that never
\* left the device.
AnyAnswer ==
  \/ \E ready, busy \in BOOLEAN, instance \in Instances : StatusAnswer(ready, busy, instance)
  \/ StatusLost
  \/ \E says \in {"accepted", "rejected", "lost"} : SubmitAnswer(says)
  \/ \E says \in {"Processing", "Complete", "Failed", "Missing", "lost"} :
        /\ PollAnswer(says)
        /\ says \in {"Processing", "Complete", "Failed"} => posts[worker.id] > 0
  \/ \E whole \in BOOLEAN :
        /\ DownloadAnswer(whole)
        /\ whole => posts[worker.id] > 0

ClientNext == Device \/ AnyAnswer \/ WifiChanges

ClientSpec == ClientInit /\ [][ClientNext]_cvars
-----------------------------------------------------------------------------
\* The POST of a press leaves the device once, whatever becomes of it: "it
\* never automatically resubmits".  Only a POST of which no byte was sent is
\* tried again.
PostedOnce == \A id \in Ids : posts[id] <= 1

\* The shutter tone sounds for a press only after its POST was answered 2xx,
\* and once.
ToneAfterAcknowledgement ==
  \A id \in Ids : tones[id] <= (IF id \in acked THEN 1 ELSE 0)

\* None of the completion methods is told which request it is about: an answer
\* is always taken for one to the request at hand.  So a POST or a poll is under
\* way only for the active request, a download only for the latest one, and a
\* photo waiting to be decoded is that of the latest request.
AnswersMeetTheirRequest ==
  /\ worker.kind \in {"Submit", "Poll"} => client.active
  /\ worker.kind \in {"Submit", "Poll", "Download"} => worker.id = client.request
  /\ jpeg # None => jpeg = client.request

\* fetchJpeg fills the buffer without the lock under which the UI decodes it:
\* no download runs while a photo waits in the buffer.
BufferIsFree == worker.kind = "Download" => jpeg = None

\* What the screen says is so: it invites a press only if a press would be
\* taken up, and it reports progress only on a request there is, or on a photo
\* being fetched again.
ScreenIsHonest ==
  /\ client.state = "Ready" => ReadyForCapture(client) /\ ~client.active
  /\ client.state \in {"Requesting", "Processing"} => client.active
  /\ client.state = "Downloading" => client.active \/ client.retry
  /\ client.state = "Photo" => ~client.active /\ client.hasPhoto

\* A press that is over: it is not the active request, nothing of it is under
\* way or in the buffer, and no failed decoding waits to be repeated.
Over(id) ==
  /\ id \in drawn /\ jpeg # id
  /\ client.request = id => ~client.active /\ ~client.retry
  /\ worker.kind \in {"Submit", "Poll", "Download"} => worker.id # id

\* A photo on the screen is replaced only by that of the press that was the
\* latest when the turn began (the turn may take up a newer one: PressIsPosted),
\* and then no request is left.  A press that is over, be it that it was
\* answered, rejected or given up, stays over: its photo never comes up again.
\* A failed download leaves the screen alone.
ScreenKeepsPhoto ==
  [][/\ screen' # screen =>
          screen' = client.request /\ screen' \in drawn /\ ~client'.active /\ client'.state = "Photo"
     /\ \A id \in Ids : Over(id) => Over(id)' /\ (screen' = id => screen = id)]_cvars

\* "A debounced press sends POST /v1/captures with a unique ID" (README.md:96):
\* a press of which no POST has left the device is not over without an error
\* message, whatever Wi-Fi, a restart or a begin that fails does to it.  One way
\* is left to lose it: the turn that takes it finds an older photo in the buffer
\* and completes that on it (main.cpp:361-369).
PressIsPosted ==
  [][\A id \in drawn' :
        posts'[id] = 0 /\ (id \in drawn => client.active /\ client.request = id)
        => \/ client'.active /\ client'.request = id
           \/ client'.state = "Error"
           \/ id \notin drawn /\ jpeg # None]_cvars
=============================================================================
