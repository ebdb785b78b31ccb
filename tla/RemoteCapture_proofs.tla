------------------------ MODULE RemoteCapture_proofs ------------------------
(***************************************************************************)
(* Proofs about the device (CaptureClient) and about the device and the    *)
(* camera end to end (RemoteCapture), for any number of presses, processes *)
(* and faults.                                                             *)
(*                                                                         *)
(* ClientInv says what the device's two tasks owe each other at any step:  *)
(* which exchange may be under way with which request, whose photo may be  *)
(* in the buffer, when the shutter may still sound.  CaptureInv adds the   *)
(* process, its jobs and the answer on the wire.  Each method of the class *)
(* has a lemma on what it makes of the object; each action has one on the  *)
(* invariant.                                                              *)
(***************************************************************************)
EXTENDS RemoteCapture, TLAPS

\* An exchange of this kind has been issued and is not over.
InExchange(kind) == worker.kind = kind /\ worker.at \in {"begin", "wait"}

\* The device's types; a request is one of a press.
DeviceTypes ==
  /\ ClientTypeOK
  /\ client.request \in drawn \cup {None}
  /\ client.retry => client.request \in drawn

\* Only a status exchange leaves its kind behind when it is over.
Exchanges ==
  /\ worker.at \in {"begin", "wait"} => worker.kind # None
  /\ worker.at = "wait" => worker.kind # "Connect"
  /\ worker.kind \in {"Submit", "Poll", "Download"} =>
       worker.at \in {"begin", "wait"} /\ jpeg = None /\ worker.id = client.request
  /\ InExchange("Status") => client.wifi

\* A POST is on its way for the request that has none yet.
Posting ==
  /\ client.state = "Requesting" => client.active /\ ~client.submitted
  /\ worker.kind = "Submit" =>
       /\ client.state = "Requesting"
       /\ worker.id \notin acked
       /\ worker.at = "begin" => posts[worker.id] = 0
       /\ worker.at = "wait" => posts[worker.id] = 1
  /\ client.active /\ posts[client.request] > 0 =>
       client.submitted \/ worker.kind = "Submit"
  /\ PostedOnce
  /\ \A id \in Ids : id \in acked => posts[id] = 1
  /\ \A id \in Ids : posts[id] > 0 => id \in drawn

\* A poll is for a request that is still active.
Polling == worker.kind = "Poll" => client.active

\* While a photo is fetched, or waits for the UI loop, no other is asked for.
Fetching ==
  /\ client.state = "Downloading" => client.retry
  /\ worker.kind = "Download" => client.state = "Downloading" /\ "Download" \in client.inFlight
  /\ jpeg # None =>
       /\ jpeg = client.request
       /\ posts[jpeg] > 0
       /\ client.active => client.retry /\ client.submitted
       /\ "Download" \in client.inFlight \/ (~client.active /\ ~client.retry)

\* A tone still to sound is for the latest request, and its first.
Sounding ==
  /\ client.shutter => client.request \in acked /\ tones[client.request] = 0
  /\ ToneAfterAcknowledgement

\* The inductive invariant of the device.
ClientInv == DeviceTypes /\ Exchanges /\ Posting /\ Polling /\ Fetching /\ Sounding /\ ScreenIsHonest

-----------------------------------------------------------------------------
\* The methods of CaptureClient: what each leaves alone and what it sets.

Keeps(c, d, fields) == \A field \in fields : d[field] = c[field]

\* What is left alone by most of the methods.
Request == {"request", "hasPhoto", "shutter", "submitted"}
Link == {"wifi", "apiReady", "serverBusy"}

LEMMA WifiEffect ==
  ASSUME NEW c \in Client, NEW up \in BOOLEAN, NEW d, d = SetWifiConnected(c, up)
  PROVE  /\ d \in Client
         /\ Keeps(c, d, Request \cup {"active", "retry"})
         /\ d.wifi = up
         /\ d.state = Waiting(c)
         /\ "Download" \in d.inFlight <=> "Download" \in c.inFlight
BY DEF SetWifiConnected, Waiting, Client, States, Deadlines, WorkKinds, Keeps, Request

LEMMA ConnectEffect ==
  ASSUME NEW c \in Client, NEW up \in BOOLEAN, NEW d, d = CompleteConnect(c, up)
  PROVE  /\ d \in Client
         /\ Keeps(c, d, Request \cup {"active", "retry"})
         /\ d.wifi = up
         /\ d.state = Waiting(c)
         /\ "Download" \in d.inFlight <=> "Download" \in c.inFlight
<1> DEFINE done == [c EXCEPT !.inFlight = @ \ {"Connect"}]
<1>1. /\ done \in Client
      /\ Waiting(done) = Waiting(c)
      /\ Keeps(c, done, Request \cup {"active", "retry"})
      /\ "Download" \in done.inFlight <=> "Download" \in c.inFlight
  BY DEF Client, WorkKinds, Waiting, Keeps, Request
<1>2. CASE up
  <2>1. d = SetWifiConnected(done, up)
    BY <1>2 DEF CompleteConnect
  <2> HIDE DEF done
  <2> QED BY <1>1, <2>1, WifiEffect DEF Keeps, Request
<1>3. CASE ~up
  BY <1>3 DEF CompleteConnect, Waiting, Client, States, Deadlines, WorkKinds, Keeps, Request
<1> QED BY <1>2, <1>3

LEMMA PressEffect ==
  ASSUME NEW c \in Client, NEW id \in Ids, NEW d, d = Press(c, id)
  PROVE  /\ d \in Client
         /\ Keeps(c, d, Link \cup {"hasPhoto"})
         /\ d.request = id /\ d.active /\ ~d.shutter /\ ~d.submitted /\ ~d.retry
         /\ d.state = "Requesting" /\ "Download" \notin d.inFlight
BY DEF Press, Client, States, Reasons, Deadlines, WorkKinds, Keeps, Link

LEMMA TickEffect ==
  ASSUME NEW c \in Client, NEW d, d = Tick(c)
  PROVE  /\ d \in Client
         /\ Keeps(c, d, Request \cup Link \cup {"active", "retry", "inFlight"})
         /\ \/ d.state \in {c.state, "Error"}
            \/ /\ ~c.active
               /\ \/ d.state = "Photo" /\ c.hasPhoto
                  \/ d.state = "Ready" /\ ReadyForCapture(c)
                  \/ d.state = "Connecting"
<1>1. CASE c.active /\ ~c.timedOut /\ "timeout" \in c.due
  BY <1>1 DEF Tick, Client, States, Reasons, Keeps, Request, Link
<1>2. CASE ~c.active /\ c.state = "Error" /\ c.errorHold /\ "error" \in c.due
  <2>1. d = [c EXCEPT !.errorHold = FALSE, !.reason = "None",
                      !.state = IF c.hasPhoto THEN "Photo"
                                ELSE IF ReadyForCapture(c) THEN "Ready" ELSE "Connecting"]
    BY <1>2 DEF Tick
  <2>2. d \in Client
    BY <2>1 DEF Client, States, Reasons
  <2> QED BY <1>2, <2>1, <2>2 DEF Client, Keeps, Request, Link
<1>3. CASE d = c
  BY <1>3 DEF Keeps
<1> QED BY <1>1, <1>2, <1>3 DEF Tick

LEMMA IssueEffect ==
  ASSUME NEW c \in Client, NEW kind \in WorkKinds, NEW d, d = Issue(c, kind)
  PROVE  /\ d \in Client
         /\ Keeps(c, d, Request \cup Link \cup {"active", "retry"})
         /\ d.inFlight = c.inFlight \cup {kind}
         /\ d.state = IF kind = "Download" THEN "Downloading" ELSE c.state
<1> DEFINE issued == [c EXCEPT !.inFlight = @ \cup {kind}]
<1>1. /\ issued \in Client
      /\ Keeps(c, issued, Request \cup Link \cup {"active", "retry", "state"})
      /\ issued.inFlight = c.inFlight \cup {kind}
  BY DEF Client, Keeps, Request, Link
<1>2. CASE kind = "Download"
  <2>1. d = [issued EXCEPT !.state = "Downloading"]
    BY <1>2 DEF Issue
  <2> HIDE DEF issued
  <2> QED BY <1>1, <1>2, <2>1 DEF Client, States, Keeps, Request, Link
<1>3. CASE kind = "Poll"
  <2>1. d = [issued EXCEPT !.due = @ \ {"poll"}]
    BY <1>3 DEF Issue
  <2> HIDE DEF issued
  <2> QED BY <1>1, <1>3, <2>1 DEF Client, Keeps, Request, Link
<1>4. CASE kind \notin {"Download", "Poll"}
  <2>1. d = issued
    BY <1>4 DEF Issue
  <2> QED BY <1>1, <1>4, <2>1 DEF Keeps, Request, Link
<1> QED BY <1>2, <1>3, <1>4

LEMMA ElapseEffect ==
  ASSUME NEW c \in Client, NEW deadline \in Deadlines,
         NEW d, d = [c EXCEPT !.due = @ \cup {deadline}]
  PROVE  /\ d \in Client
         /\ Keeps(c, d, Request \cup Link \cup {"active", "retry", "inFlight", "state"})
BY DEF Client, Keeps, Request, Link

LEMMA GivenUpEffect ==
  ASSUME NEW c \in Client, NEW d, d \in {Rejected(c), Interrupted(c)}
  PROVE  /\ d \in Client
         /\ Keeps(c, d, Request \cup Link \cup {"inFlight"})
         /\ ~d.active /\ ~d.retry /\ d.state = "Error"
<1>1. CASE d = Rejected(c)
  <2>1. d \in Client
    BY <1>1 DEF Rejected, Client, States, Reasons, Deadlines
  <2> QED BY <1>1, <2>1 DEF Rejected, Client, Keeps, Request, Link
<1>2. CASE d = Interrupted(c)
  <2>1. d \in Client
    BY <1>2 DEF Interrupted, Client, States, Reasons
  <2> QED BY <1>2, <2>1 DEF Interrupted, Client, Keeps, Request, Link
<1> QED BY <1>1, <1>2

LEMMA StatusEffect ==
  ASSUME NEW c \in Client, NEW ready \in BOOLEAN, NEW busy \in BOOLEAN,
         NEW known \in Instances, NEW d, d = CompleteServerStatus(c, ready, busy, known)
  PROVE  /\ d \in Client
         /\ Keeps(c, d, Request \cup {"wifi"})
         /\ \/ /\ Keeps(c, d, {"active", "retry"})
               /\ "Download" \in d.inFlight <=> "Download" \in c.inFlight
               /\ \/ d.state = Waiting(c)
                  \/ c.active /\ d.state = Resumed(c)
                  \/ ~c.active /\ c.state = "Error" /\ d.state = "Error"
                  \/ ~c.active /\ c.hasPhoto /\ d.state = "Photo"
                  \/ ~c.active /\ d.state = "Connecting"
                  \/ ~c.active /\ d.state = "Ready" /\ d.apiReady /\ ~d.serverBusy
            \/ ~d.active /\ ~d.retry /\ d.state = "Error" /\ "Download" \notin d.inFlight
<1> DEFINE heard == [c EXCEPT !.inFlight = @ \ {"Status"}, !.due = @ \ {"status"},
                              !.apiReady = ready, !.serverBusy = ready /\ busy]
           met == [heard EXCEPT !.instance = known]
           over == [met EXCEPT !.inFlight = @ \ {"Poll", "Download"}]
<1>1. /\ heard \in Client
      /\ Keeps(c, heard, Request \cup {"wifi", "active", "retry", "state"})
      /\ "Download" \in heard.inFlight <=> "Download" \in c.inFlight
  BY DEF Client, WorkKinds, Deadlines, Keeps, Request
<1>2. /\ met \in Client
      /\ Keeps(c, met, Request \cup {"wifi", "active", "retry", "state"})
      /\ "Download" \in met.inFlight <=> "Download" \in c.inFlight
      /\ met.apiReady = ready /\ met.serverBusy = (ready /\ busy)
  BY DEF Client, WorkKinds, Deadlines, Keeps, Request
<1>3. CASE ~ready
  <2>1. d = [heard EXCEPT !.state = Waiting(c)]
    BY <1>3 DEF CompleteServerStatus
  <2>2. Waiting(c) \in States
    BY DEF Waiting, States
  <2> HIDE DEF heard
  <2> QED BY <1>1, <2>1, <2>2 DEF Client, Keeps, Request
<1>4. CASE ready /\ c.active /\ c.instance \notin {None, known}
  <2>1. d = Interrupted(over)
    BY <1>4 DEF CompleteServerStatus
  <2> HIDE DEF met
  <2>2. /\ over \in Client
        /\ Keeps(c, over, Request \cup {"wifi"})
        /\ "Download" \notin over.inFlight
    BY <1>2 DEF Client, WorkKinds, Keeps, Request
  <2> HIDE DEF over
  <2> QED BY <2>1, <2>2, GivenUpEffect DEF Keeps, Request, Link
<1>5. CASE ready /\ c.active /\ c.instance \in {None, known}
  <2>1. d = [met EXCEPT !.reason = Recovered(@), !.state = Resumed(c)]
    BY <1>5 DEF CompleteServerStatus
  <2> HIDE DEF met
  <2>2. Recovered(met.reason) \in Reasons /\ Resumed(c) \in States
    BY <1>2 DEF Recovered, Resumed, Client, Reasons, States
  <2>3. d \in Client
    BY <1>2, <2>1, <2>2 DEF Client
  <2> QED BY <1>2, <1>5, <2>1, <2>3 DEF Client, Keeps, Request
<1>6. CASE ready /\ ~c.active /\ Holding(c)
  <2>1. d = met
    BY <1>6 DEF CompleteServerStatus
  <2> QED BY <1>2, <1>6, <2>1 DEF Holding, Keeps, Request
<1>7. CASE ready /\ ~c.active /\ ~Holding(c)
  <2>1. d = [met EXCEPT !.state = IF c.hasPhoto THEN "Photo"
                                  ELSE IF busy THEN "Connecting" ELSE "Ready"]
    BY <1>7 DEF CompleteServerStatus
  <2> HIDE DEF met
  <2>2. d \in Client
    BY <1>2, <2>1 DEF Client, States
  <2> QED BY <1>2, <1>7, <2>1, <2>2 DEF Client, Keeps, Request
<1> QED BY <1>3, <1>4, <1>5, <1>6, <1>7

LEMMA StatusErrorEffect ==
  ASSUME NEW c \in Client, NEW d, d = CompleteStatusTransportError(c)
  PROVE  /\ d \in Client
         /\ Keeps(c, d, Request \cup {"wifi", "active", "retry"})
         /\ "Download" \in d.inFlight <=> "Download" \in c.inFlight
         /\ d.state = IF c.active THEN "Error" ELSE Waiting(c)
BY DEF CompleteStatusTransportError, Waiting, Client, States, Reasons, Deadlines, WorkKinds,
       Keeps, Request

LEMMA SubmitEffect ==
  ASSUME NEW c \in Client, NEW acknowledged \in BOOLEAN,
         NEW d, d = CompleteSubmit(c, acknowledged)
  PROVE  /\ d \in Client
         /\ Keeps(c, d, Link \cup {"request", "hasPhoto", "active", "retry"})
         /\ "Download" \in d.inFlight <=> "Download" \in c.inFlight
         /\ d.shutter = (c.shutter \/ acknowledged)
         /\ d.submitted /\ d.state = "Processing"
BY DEF CompleteSubmit, Client, States, Reasons, Deadlines, WorkKinds, Keeps, Link

LEMMA SubmitStartEffect ==
  ASSUME NEW c \in Client, NEW d, d = SubmitStartFailed(c)
  PROVE  /\ d \in Client
         /\ Keeps(c, d, Request \cup Link \cup {"active", "retry"})
         /\ "Download" \in d.inFlight <=> "Download" \in c.inFlight
         /\ d.state = "Requesting"
BY DEF SubmitStartFailed, Client, States, WorkKinds, Keeps, Request, Link

LEMMA RejectEffect ==
  ASSUME NEW c \in Client, NEW d, d = RejectSubmit(c)
  PROVE  /\ d \in Client
         /\ Keeps(c, d, Request \cup Link)
         /\ "Download" \in d.inFlight <=> "Download" \in c.inFlight
         /\ ~d.active /\ ~d.retry /\ d.state = "Error"
BY DEF RejectSubmit, Rejected, Client, States, Reasons, Deadlines, WorkKinds, Keeps, Request, Link

LEMMA PollErrorEffect ==
  ASSUME NEW c \in Client, NEW d, d = CompletePollTransportError(c)
  PROVE  /\ d \in Client
         /\ Keeps(c, d, Request \cup Link \cup {"active", "retry"})
         /\ "Download" \in d.inFlight <=> "Download" \in c.inFlight
         /\ d.state = "Error"
BY DEF CompletePollTransportError, Client, States, Reasons, Deadlines, WorkKinds, Keeps,
       Request, Link

LEMMA PollEffect ==
  ASSUME NEW c \in Client, NEW status \in {"Processing", "Complete", "Failed", "Missing"},
         NEW d, d = AcceptStatus(c, status)
  PROVE  /\ d \in Client
         /\ Keeps(c, d, Request \cup Link)
         /\ "Download" \in d.inFlight <=> "Download" \in c.inFlight
         /\ \/ d.active = c.active /\ d.retry = c.retry /\ d.state \in {c.state, "Processing"}
            \/ d.active = c.active /\ d.retry /\ d.state = "Downloading"
            \/ ~d.active /\ ~d.retry /\ d.state = "Error"
<1> DEFINE polled == [c EXCEPT !.inFlight = @ \ {"Poll"}, !.due = @ \ {"poll"}]
<1>1. /\ polled \in Client
      /\ Keeps(c, polled, Request \cup Link \cup {"active", "retry", "state", "reason"})
      /\ "Download" \in polled.inFlight <=> "Download" \in c.inFlight
  BY DEF Client, WorkKinds, Deadlines, Keeps, Request, Link
<1>2. CASE status = "Processing"
  <2>1. d = [polled EXCEPT !.reason = Recovered(@),
                           !.state = IF c.timedOut THEN @ ELSE "Processing"]
    BY <1>2 DEF AcceptStatus
  <2> HIDE DEF polled
  <2>2. Recovered(polled.reason) \in Reasons
    BY <1>1 DEF Recovered, Client, Reasons
  <2>3. d \in Client
    BY <1>1, <2>1, <2>2 DEF Client, States
  <2> QED BY <1>1, <2>1, <2>3 DEF Client, Keeps, Request, Link
<1>3. CASE status = "Complete"
  BY <1>3 DEF AcceptStatus, Client, States, WorkKinds, Deadlines, Keeps, Request, Link
<1>4. CASE status = "Failed"
  <2>1. d = Rejected(polled)
    BY <1>4 DEF AcceptStatus
  <2> HIDE DEF polled
  <2> QED BY <1>1, <2>1, GivenUpEffect DEF Keeps, Request, Link
<1>5. CASE status = "Missing"
  <2>1. d = Interrupted(polled)
    BY <1>5 DEF AcceptStatus
  <2> HIDE DEF polled
  <2> QED BY <1>1, <2>1, GivenUpEffect DEF Keeps, Request, Link
<1> QED BY <1>2, <1>3, <1>4, <1>5

LEMMA DecodedEffect ==
  ASSUME NEW c \in Client, NEW d, d = CompleteDownload(c, TRUE)
  PROVE  /\ d \in Client
         /\ Keeps(c, d, Link \cup {"request", "shutter", "submitted"})
         /\ "Download" \notin d.inFlight
         /\ d.hasPhoto /\ ~d.active /\ ~d.retry /\ d.state = "Photo"
BY DEF CompleteDownload, Client, States, WorkKinds, Keeps, Link

LEMMA DownloadFailedEffect ==
  ASSUME NEW c \in Client, NEW d, d = CompleteDownload(c, FALSE)
  PROVE  /\ d \in Client
         /\ Keeps(c, d, Link \cup {"request", "shutter", "submitted", "hasPhoto", "active"})
         /\ "Download" \notin d.inFlight
         /\ d.retry /\ d.state = "Error"
BY DEF CompleteDownload, Client, States, Reasons, Deadlines, WorkKinds, Keeps, Link
-----------------------------------------------------------------------------
\* The steps of the device.

USE DEF Request, Link

\* Where the worker stands after a step that is no exchange.
Idle(place) == /\ worker' \in WorkerState
               /\ worker'.at = place
               /\ worker'.kind \in {None, "Status"}

LEMMA AtIsIdle ==
  ASSUME NEW place \in {"watch", "next"}, worker \in WorkerState, At(place)
  PROVE  Idle(place)
BY DEF At, Idle, WorkerState

LEMMA RestIsIdle ==
  ASSUME worker \in WorkerState, Rest
  PROVE  Idle("watch")
BY DEF Rest, At, Idle, WorkerState

LEMMA WatchStep == ASSUME ClientInv, Watch PROVE ClientInv'
<1>1. PICK up \in BOOLEAN : client' \in {client, SetWifiConnected(client, up)}
  BY DEF Watch, ClientInv, DeviceTypes, ClientTypeOK
<1>2. /\ client' \in Client
      /\ Keeps(client, client', Request \cup {"active", "retry"})
      /\ "Download" \in client'.inFlight <=> "Download" \in client.inFlight
      /\ \/ client' = client
         \/ client'.state = Waiting(client)
  BY <1>1, WifiEffect DEF Keeps, ClientInv, DeviceTypes, ClientTypeOK
<1> USE <1>2 DEF Watch, Keeps
<1>3. DeviceTypes'
  BY DEF ClientInv, DeviceTypes, ClientTypeOK, Fetching, WorkerState, Waiting
<1>4. Exchanges'
  BY DEF ClientInv, DeviceTypes, ClientTypeOK, Exchanges, WorkerState, InExchange, Waiting
<1>5. Posting' /\ Polling'
  BY DEF ClientInv, DeviceTypes, ClientTypeOK, Exchanges, Posting, Polling, PostedOnce,
         WorkerState, InExchange, Waiting
<1>6. Fetching'
  BY DEF ClientInv, DeviceTypes, ClientTypeOK, Exchanges, Fetching, Posting, WorkerState, Waiting
<1>7. Sounding'
  BY DEF ClientInv, DeviceTypes, ClientTypeOK, Exchanges, Posting, Sounding,
         ToneAfterAcknowledgement, Waiting
<1>8. ScreenIsHonest'
  BY DEF ClientInv, DeviceTypes, ClientTypeOK, Client, ScreenIsHonest, Exchanges, Posting,
         Polling, Fetching, ReadyForCapture, InExchange, Waiting
<1> QED BY <1>3, <1>4, <1>5, <1>6, <1>7, <1>8 DEF ClientInv

LEMMA NextWorkStep == ASSUME ClientInv, NextWork PROVE ClientInv'
<1> DEFINE now == Tick(client)
<1>1. worker.at = "next" /\ UNCHANGED <<wifi, jpeg, screen, drawn, posts, acked, tones>>
  BY DEF NextWork
<1>2. /\ now \in Client
      /\ Keeps(client, now, Request \cup Link \cup {"active", "retry", "inFlight"})
      /\ \/ now.state \in {client.state, "Error"}
         \/ /\ ~client.active
            /\ \/ now.state = "Photo" /\ client.hasPhoto
               \/ now.state = "Ready" /\ ReadyForCapture(client)
               \/ now.state = "Connecting"
  BY TickEffect DEF ClientInv, DeviceTypes, ClientTypeOK
<1>3. CASE client' = now /\ At("watch")
  <2>1. Idle("watch")
    BY <1>3, AtIsIdle DEF ClientInv, DeviceTypes, ClientTypeOK
  <2> HIDE DEF now
  <2> USE <1>1, <1>2, <1>3, <2>1, ClientConstants DEF Keeps, Idle, WorkKinds
  <2>2. DeviceTypes'
    BY DEF ClientInv, DeviceTypes, ClientTypeOK, Fetching, WorkerState
  <2>3. Exchanges'
    BY DEF ClientInv, DeviceTypes, ClientTypeOK, Exchanges, WorkerState, InExchange
  <2>4. Posting' /\ Polling'
    BY DEF ClientInv, DeviceTypes, ClientTypeOK, Exchanges, Posting, Polling, PostedOnce,
           WorkerState, InExchange
  <2>5. Fetching'
    BY DEF ClientInv, DeviceTypes, ClientTypeOK, Exchanges, Fetching, Posting, WorkerState
  <2>6. Sounding'
    BY DEF ClientInv, DeviceTypes, ClientTypeOK, Exchanges, Posting, Sounding,
           ToneAfterAcknowledgement
  <2>7. ScreenIsHonest'
    BY DEF ClientInv, DeviceTypes, ClientTypeOK, Client, ScreenIsHonest, Exchanges, Posting,
           Polling, Fetching, ReadyForCapture, InExchange
  <2> QED BY <2>2, <2>3, <2>4, <2>5, <2>6, <2>7 DEF ClientInv
<1>4. ASSUME NEW kind \in WorkKinds, Issues(now, kind), client' = Issue(now, kind),
             worker' = [worker EXCEPT !.at = "begin", !.kind = kind, !.id = client.request]
      PROVE  ClientInv'
  <2>1. /\ client' \in Client
        /\ Keeps(client, client', Request \cup Link \cup {"active", "retry"})
        /\ client'.inFlight = client.inFlight \cup {kind}
        /\ client'.state = IF kind = "Download" THEN "Downloading" ELSE now.state
    BY <1>2, <1>4, IssueEffect DEF Keeps
  <2>2. kind \notin client.inFlight /\ Due(now, kind)
    BY <1>2, <1>4 DEF Issues, Wants, Keeps
  <2>3. /\ kind = "Status" => client.wifi
        /\ kind = "Submit" => now.state = "Requesting"
        /\ kind = "Poll" => client.active /\ ~client.retry
        /\ kind = "Download" => now.state = "Downloading" \/ client.retry
    BY <1>2, <2>2 DEF Due, PollDue, Keeps
  <2>4. worker' \in WorkerState /\ worker'.at = "begin" /\ worker'.kind = kind /\ worker'.id = client.request
     BY <1>4 DEF ClientInv, DeviceTypes, ClientTypeOK, WorkerState, Client
  <2>5. kind = "Download" => client.retry
    BY <1>2, <2>3 DEF ClientInv, Fetching
  <2>6. kind = "Submit" => /\ client.state = "Requesting" /\ now.state = "Requesting"
                           /\ client.active /\ ~client.submitted
    BY <1>2, <2>3 DEF ClientInv, Posting
  <2>7. kind = "Submit" => posts[client.request] = 0 /\ client.request \notin acked
    BY <1>1, <2>6 DEF Client, ClientInv, DeviceTypes, ClientTypeOK, Exchanges, Posting
  <2>8. kind \in {"Submit", "Poll", "Download"} => jpeg = None
    BY <2>2, <2>3, <2>5, <2>6 DEF ClientInv, Fetching
  <2>9. now.state \in {"Requesting", "Processing", "Downloading"} => now.state = client.state
    BY <1>2
  <2> HIDE DEF now
  <2> USE <1>1, <1>2, <2>1, <2>2, <2>3, <2>4, <2>5, <2>6, <2>7, <2>8, <2>9, ClientConstants
      DEF WorkKinds, Keeps
  <2>10. DeviceTypes'
    BY DEF ClientInv, DeviceTypes, ClientTypeOK, Fetching, WorkerState
  <2>11. Exchanges'
    BY DEF ClientInv, DeviceTypes, ClientTypeOK, Exchanges, WorkerState, InExchange
  <2>12. Posting' /\ Polling'
    BY DEF ClientInv, DeviceTypes, ClientTypeOK, Exchanges, Posting, Polling, PostedOnce,
           WorkerState, InExchange
  <2>13. Fetching'
    BY DEF ClientInv, DeviceTypes, ClientTypeOK, Exchanges, Fetching, Posting, WorkerState
  <2>14. Sounding'
    BY DEF ClientInv, DeviceTypes, ClientTypeOK, Exchanges, Posting, Sounding,
           ToneAfterAcknowledgement
  <2>15. ScreenIsHonest'
    BY DEF ClientInv, DeviceTypes, ClientTypeOK, Client, ScreenIsHonest, Exchanges, Posting,
           Polling, Fetching, ReadyForCapture, InExchange
  <2> QED BY <2>10, <2>11, <2>12, <2>13, <2>14, <2>15 DEF ClientInv
<1> QED BY <1>3, <1>4 DEF NextWork

LEMMA ConnectWorkStep == ASSUME ClientInv, ConnectWork PROVE ClientInv'
<1>1. Idle("watch")
  BY AtIsIdle DEF ClientInv, DeviceTypes, ClientTypeOK, ConnectWork
<1>2. /\ client' \in Client
      /\ Keeps(client, client', Request \cup {"active", "retry"})
      /\ "Download" \in client'.inFlight <=> "Download" \in client.inFlight
      /\ client'.state = Waiting(client)
  BY ConnectEffect DEF ConnectWork, ClientInv, DeviceTypes, ClientTypeOK
<1> USE <1>1, <1>2, ClientConstants DEF ConnectWork, Keeps, Idle, WorkKinds
<1>3. DeviceTypes'
  BY DEF ClientInv, DeviceTypes, ClientTypeOK, Fetching, WorkerState, Waiting
<1>4. Exchanges'
  BY DEF ClientInv, DeviceTypes, ClientTypeOK, Exchanges, WorkerState, InExchange, Waiting
<1>5. Posting' /\ Polling'
  BY DEF ClientInv, DeviceTypes, ClientTypeOK, Exchanges, Posting, Polling, PostedOnce,
         WorkerState, InExchange, Waiting
<1>6. Fetching'
  BY DEF ClientInv, DeviceTypes, ClientTypeOK, Exchanges, Fetching, Posting, WorkerState, Waiting
<1>7. Sounding'
  BY DEF ClientInv, DeviceTypes, ClientTypeOK, Exchanges, Posting, Sounding,
         ToneAfterAcknowledgement, Waiting
<1>8. ScreenIsHonest'
  BY DEF ClientInv, DeviceTypes, ClientTypeOK, Client, ScreenIsHonest, Exchanges, Posting,
         Polling, Fetching, ReadyForCapture, InExchange, Waiting
<1> QED BY <1>3, <1>4, <1>5, <1>6, <1>7, <1>8 DEF ClientInv

LEMMA BeginStep == ASSUME ClientInv, Begin PROVE ClientInv'
<1>1. worker' \in WorkerState /\ worker'.at = "wait" /\ worker'.kind = worker.kind /\ worker'.id = worker.id
  BY DEF Begin, ClientInv, DeviceTypes, ClientTypeOK, WorkerState
<1>2. /\ posts' \in [Ids -> Nat]
      /\ worker.kind # "Submit" => posts' = posts
      /\ worker.kind = "Submit" => /\ worker.id \in Ids
                                  /\ posts[worker.id] = 0 /\ posts'[worker.id] = 1
                                  /\ \A id \in Ids : id # worker.id => posts'[id] = posts[id]
  BY DEF Begin, ClientInv, DeviceTypes, ClientTypeOK, Exchanges, Posting, Client
<1> USE <1>1, <1>2 DEF Begin
<1>3. DeviceTypes'
  BY DEF ClientInv, DeviceTypes, ClientTypeOK, Fetching, WorkerState
<1>4. Exchanges'
  BY DEF ClientInv, DeviceTypes, ClientTypeOK, Exchanges, WorkerState, InExchange
<1>5. Posting' /\ Polling'
  BY DEF ClientInv, DeviceTypes, ClientTypeOK, Exchanges, Posting, Polling, PostedOnce,
         WorkerState, InExchange
<1>6. Fetching'
  BY DEF ClientInv, DeviceTypes, ClientTypeOK, Exchanges, Fetching, Posting, WorkerState
<1>7. Sounding'
  BY DEF ClientInv, DeviceTypes, ClientTypeOK, Exchanges, Posting, Sounding,
         ToneAfterAcknowledgement
<1>8. ScreenIsHonest'
  BY DEF ClientInv, DeviceTypes, ClientTypeOK, Client, ScreenIsHonest, Exchanges, Posting,
         Polling, Fetching, ReadyForCapture, InExchange
<1> QED BY <1>3, <1>4, <1>5, <1>6, <1>7, <1>8 DEF ClientInv

LEMMA BeginFailsStep ==
  ASSUME ClientInv, BeginFails
  PROVE  ClientInv'
<1>1. /\ worker.at = "begin" /\ worker.kind \in WorkKinds \ {"Connect"}
      /\ UNCHANGED <<wifi, jpeg, screen, drawn, posts, acked, tones>>
  BY DEF BeginFails, ClientInv, DeviceTypes, ClientTypeOK, WorkerState, Exchanges
<1>2. Idle("watch")
  BY RestIsIdle DEF BeginFails, ClientInv, DeviceTypes, ClientTypeOK
<1>3. client \in Client /\ client' = StartFailed(client, worker.kind)
  BY DEF BeginFails, ClientInv, DeviceTypes, ClientTypeOK
<1> USE <1>1, <1>2, ClientConstants DEF Keeps, Idle, WorkKinds
<1>4. CASE worker.kind = "Status"
  <2>1. client' = CompleteStatusTransportError(client)
    BY <1>3, <1>4 DEF StartFailed
  <2>2. /\ client' \in Client
        /\ Keeps(client, client', Request \cup {"wifi", "active", "retry"})
        /\ "Download" \in client'.inFlight <=> "Download" \in client.inFlight
        /\ client'.state = IF client.active THEN "Error" ELSE Waiting(client)
    BY ONLY <1>3, <2>1, StatusErrorEffect DEF Keeps
  <2> USE <1>4, <2>2
  <2>3. DeviceTypes'
    BY DEF ClientInv, DeviceTypes, ClientTypeOK, Fetching, WorkerState, Waiting
  <2>4. Exchanges'
    BY DEF ClientInv, DeviceTypes, ClientTypeOK, Exchanges, WorkerState, InExchange, Waiting
  <2>5. Posting' /\ Polling'
    BY DEF ClientInv, DeviceTypes, ClientTypeOK, Exchanges, Posting, Polling, PostedOnce,
           WorkerState, InExchange, Waiting
  <2>6. Fetching'
    BY DEF ClientInv, DeviceTypes, ClientTypeOK, Exchanges, Fetching, Posting, WorkerState, Waiting
  <2>7. Sounding'
    BY DEF ClientInv, DeviceTypes, ClientTypeOK, Exchanges, Posting, Sounding,
           ToneAfterAcknowledgement, Waiting
  <2>8. ScreenIsHonest'
    BY DEF ClientInv, DeviceTypes, ClientTypeOK, Client, ScreenIsHonest, Exchanges, Posting,
           Polling, Fetching, ReadyForCapture, InExchange, Waiting
  <2> QED BY <2>3, <2>4, <2>5, <2>6, <2>7, <2>8 DEF ClientInv
<1>5. CASE worker.kind = "Submit"
  <2>1. client' = SubmitStartFailed(client)
    BY <1>3, <1>5 DEF StartFailed
  <2>2. /\ client' \in Client
        /\ Keeps(client, client', Request \cup Link \cup {"active", "retry"})
        /\ "Download" \in client'.inFlight <=> "Download" \in client.inFlight
        /\ client'.state = "Requesting"
    BY ONLY <1>3, <2>1, SubmitStartEffect DEF Keeps
  <2> USE <1>5, <2>2
  <2>3. DeviceTypes'
    BY DEF ClientInv, DeviceTypes, ClientTypeOK, Fetching, WorkerState
  <2>4. Exchanges'
    BY DEF ClientInv, DeviceTypes, ClientTypeOK, Exchanges, WorkerState, InExchange
  <2>5. Posting' /\ Polling'
    BY DEF ClientInv, DeviceTypes, ClientTypeOK, Exchanges, Posting, Polling, PostedOnce,
           WorkerState, InExchange
  <2>6. Fetching'
    BY DEF ClientInv, DeviceTypes, ClientTypeOK, Exchanges, Fetching, Posting, WorkerState
  <2>7. Sounding'
    BY DEF ClientInv, DeviceTypes, ClientTypeOK, Exchanges, Posting, Sounding,
           ToneAfterAcknowledgement
  <2>8. ScreenIsHonest'
    BY DEF ClientInv, DeviceTypes, ClientTypeOK, Client, ScreenIsHonest, Exchanges, Posting,
           Polling, Fetching, ReadyForCapture, InExchange
  <2> QED BY <2>3, <2>4, <2>5, <2>6, <2>7, <2>8 DEF ClientInv
<1>6. CASE worker.kind = "Poll"
  <2>1. client' = CompletePollTransportError(client)
    BY <1>3, <1>6 DEF StartFailed
  <2>2. /\ client' \in Client
        /\ Keeps(client, client', Request \cup Link \cup {"active", "retry"})
        /\ "Download" \in client'.inFlight <=> "Download" \in client.inFlight
        /\ client'.state = "Error"
    BY ONLY <1>3, <2>1, PollErrorEffect DEF Keeps
  <2> USE <1>6, <2>2
  <2>3. DeviceTypes'
    BY DEF ClientInv, DeviceTypes, ClientTypeOK, Fetching, WorkerState
  <2>4. Exchanges'
    BY DEF ClientInv, DeviceTypes, ClientTypeOK, Exchanges, WorkerState, InExchange
  <2>5. Posting' /\ Polling'
    BY DEF ClientInv, DeviceTypes, ClientTypeOK, Exchanges, Posting, Polling, PostedOnce,
           WorkerState, InExchange
  <2>6. Fetching'
    BY DEF ClientInv, DeviceTypes, ClientTypeOK, Exchanges, Fetching, Posting, WorkerState
  <2>7. Sounding'
    BY DEF ClientInv, DeviceTypes, ClientTypeOK, Exchanges, Posting, Sounding,
           ToneAfterAcknowledgement
  <2>8. ScreenIsHonest'
    BY DEF ClientInv, DeviceTypes, ClientTypeOK, Client, ScreenIsHonest, Exchanges, Posting,
           Polling, Fetching, ReadyForCapture, InExchange
  <2> QED BY <2>3, <2>4, <2>5, <2>6, <2>7, <2>8 DEF ClientInv
<1>7. CASE worker.kind = "Download"
  <2>1. client' = CompleteDownload(client, FALSE)
    BY <1>3, <1>7 DEF StartFailed
  <2>2. /\ client' \in Client
        /\ Keeps(client, client', Link \cup {"request", "shutter", "submitted", "hasPhoto", "active"})
        /\ client'.retry /\ client'.state = "Error"
    BY ONLY <1>3, <2>1, DownloadFailedEffect DEF Keeps
  <2> USE <1>7, <2>2
  <2>3. DeviceTypes'
    BY DEF ClientInv, DeviceTypes, ClientTypeOK, Fetching, WorkerState
  <2>4. Exchanges'
    BY DEF ClientInv, DeviceTypes, ClientTypeOK, Exchanges, WorkerState, InExchange
  <2>5. Posting' /\ Polling'
    BY DEF ClientInv, DeviceTypes, ClientTypeOK, Exchanges, Posting, Polling, PostedOnce,
           WorkerState, InExchange
  <2>6. Fetching'
    BY DEF ClientInv, DeviceTypes, ClientTypeOK, Exchanges, Fetching, Posting, WorkerState
  <2>7. Sounding'
    BY DEF ClientInv, DeviceTypes, ClientTypeOK, Exchanges, Posting, Sounding,
           ToneAfterAcknowledgement
  <2>8. ScreenIsHonest'
    BY DEF ClientInv, DeviceTypes, ClientTypeOK, Client, ScreenIsHonest, Exchanges, Posting,
           Polling, Fetching, ReadyForCapture, InExchange
  <2> QED BY <2>3, <2>4, <2>5, <2>6, <2>7, <2>8 DEF ClientInv
<1> QED BY <1>4, <1>5, <1>6, <1>7

LEMMA ElapseStep ==
  ASSUME ClientInv, NEW deadline \in Deadlines, Elapse(deadline)
  PROVE  ClientInv'
<1>1. UNCHANGED <<worker, wifi, jpeg, screen, drawn, posts, acked, tones>>
  BY DEF Elapse
<1>2. /\ client' \in Client
      /\ Keeps(client, client', Request \cup Link \cup {"active", "retry", "inFlight", "state"})
  BY ElapseEffect DEF Elapse, ClientInv, DeviceTypes, ClientTypeOK
<1> USE <1>1, <1>2 DEF Keeps
<1>3. DeviceTypes'
  BY DEF ClientInv, DeviceTypes, ClientTypeOK, Fetching, WorkerState
<1>4. Exchanges'
  BY DEF ClientInv, DeviceTypes, ClientTypeOK, Exchanges, WorkerState, InExchange
<1>5. Posting' /\ Polling'
  BY DEF ClientInv, DeviceTypes, ClientTypeOK, Exchanges, Posting, Polling, PostedOnce,
         WorkerState, InExchange
<1>6. Fetching'
  BY DEF ClientInv, DeviceTypes, ClientTypeOK, Exchanges, Fetching, Posting, WorkerState
<1>7. Sounding'
  BY DEF ClientInv, DeviceTypes, ClientTypeOK, Exchanges, Posting, Sounding,
         ToneAfterAcknowledgement
<1>8. ScreenIsHonest'
  BY DEF ClientInv, DeviceTypes, ClientTypeOK, Client, ScreenIsHonest, Exchanges, Posting,
         Polling, Fetching, ReadyForCapture, InExchange
<1> QED BY <1>3, <1>4, <1>5, <1>6, <1>7, <1>8 DEF ClientInv

LEMMA WifiStep ==
  ASSUME ClientInv, WifiChanges
  PROVE  ClientInv'
BY DEF WifiChanges, ClientInv, DeviceTypes, ClientTypeOK, Exchanges, InExchange,
       Posting, PostedOnce, Polling, Fetching, Sounding, ToneAfterAcknowledgement,
       ScreenIsHonest, ReadyForCapture

LEMMA StatusStep ==
  ASSUME ClientInv, NEW ready \in BOOLEAN, NEW busy \in BOOLEAN, NEW known \in Instances,
         StatusAnswer(ready, busy, known)
  PROVE  ClientInv'
<1>1. /\ worker.at = "wait" /\ worker.kind = "Status"
      /\ UNCHANGED <<wifi, jpeg, screen, drawn, posts, acked, tones>>
  BY DEF StatusAnswer, Answered
<1>2. Idle("watch")
  BY RestIsIdle DEF StatusAnswer, Answered, ClientInv, DeviceTypes, ClientTypeOK
<1>3. /\ client' \in Client
      /\ Keeps(client, client', Request \cup {"wifi"})
      /\ \/ /\ Keeps(client, client', {"active", "retry"})
            /\ "Download" \in client'.inFlight <=> "Download" \in client.inFlight
            /\ \/ client'.state = Waiting(client)
               \/ client.active /\ client'.state = Resumed(client)
               \/ ~client.active /\ client.state = "Error" /\ client'.state = "Error"
               \/ ~client.active /\ client.hasPhoto /\ client'.state = "Photo"
               \/ ~client.active /\ client'.state = "Connecting"
               \/ ~client.active /\ client'.state = "Ready" /\ client'.apiReady /\ ~client'.serverBusy
         \/ ~client'.active /\ ~client'.retry /\ client'.state = "Error"
            /\ "Download" \notin client'.inFlight
  BY StatusEffect DEF StatusAnswer, ClientInv, DeviceTypes, ClientTypeOK, Keeps
<1> USE <1>1, <1>2, <1>3, ClientConstants DEF Keeps, Idle, WorkKinds
<1>4. DeviceTypes'
  BY DEF ClientInv, DeviceTypes, ClientTypeOK, Fetching, WorkerState, Waiting, Resumed
<1>5. Exchanges'
  BY DEF ClientInv, DeviceTypes, ClientTypeOK, Exchanges, WorkerState, InExchange, Waiting, Resumed
<1>6. Posting' /\ Polling'
  BY DEF ClientInv, DeviceTypes, ClientTypeOK, Exchanges, Posting, Polling, PostedOnce,
         WorkerState, InExchange, Waiting, Resumed
<1>7. Fetching'
  BY DEF ClientInv, DeviceTypes, ClientTypeOK, Exchanges, Fetching, Posting, WorkerState,
         Waiting, Resumed
<1>8. Sounding'
  BY DEF ClientInv, DeviceTypes, ClientTypeOK, Exchanges, Posting, Sounding,
         ToneAfterAcknowledgement, Waiting, Resumed
<1>9. ScreenIsHonest'
  BY DEF ClientInv, DeviceTypes, ClientTypeOK, Client, ScreenIsHonest, Exchanges, Posting,
         Polling, Fetching, ReadyForCapture, InExchange, Waiting, Resumed
<1> QED BY <1>4, <1>5, <1>6, <1>7, <1>8, <1>9 DEF ClientInv

LEMMA StatusLostStep ==
  ASSUME ClientInv, StatusLost
  PROVE  ClientInv'
<1>1. /\ worker.at = "wait" /\ worker.kind = "Status"
      /\ UNCHANGED <<wifi, jpeg, screen, drawn, posts, acked, tones>>
  BY DEF StatusLost, Answered
<1>2. Idle("watch")
  BY RestIsIdle DEF StatusLost, Answered, ClientInv, DeviceTypes, ClientTypeOK
<1>3. /\ client' \in Client
      /\ Keeps(client, client', Request \cup {"wifi", "active", "retry"})
      /\ "Download" \in client'.inFlight <=> "Download" \in client.inFlight
      /\ client'.state = IF client.active THEN "Error" ELSE Waiting(client)
  BY StatusErrorEffect DEF StatusLost, ClientInv, DeviceTypes, ClientTypeOK, Keeps
<1> USE <1>1, <1>2, <1>3, ClientConstants DEF Keeps, Idle, WorkKinds
<1>4. DeviceTypes'
  BY DEF ClientInv, DeviceTypes, ClientTypeOK, Fetching, WorkerState, Waiting
<1>5. Exchanges'
  BY DEF ClientInv, DeviceTypes, ClientTypeOK, Exchanges, WorkerState, InExchange, Waiting
<1>6. Posting' /\ Polling'
  BY DEF ClientInv, DeviceTypes, ClientTypeOK, Exchanges, Posting, Polling, PostedOnce,
         WorkerState, InExchange, Waiting
<1>7. Fetching'
  BY DEF ClientInv, DeviceTypes, ClientTypeOK, Exchanges, Fetching, Posting, WorkerState, Waiting
<1>8. Sounding'
  BY DEF ClientInv, DeviceTypes, ClientTypeOK, Exchanges, Posting, Sounding,
         ToneAfterAcknowledgement, Waiting
<1>9. ScreenIsHonest'
  BY DEF ClientInv, DeviceTypes, ClientTypeOK, Client, ScreenIsHonest, Exchanges, Posting,
         Polling, Fetching, ReadyForCapture, InExchange, Waiting
<1> QED BY <1>4, <1>5, <1>6, <1>7, <1>8, <1>9 DEF ClientInv

LEMMA SubmitStep ==
  ASSUME ClientInv, NEW says \in {"accepted", "rejected", "lost"}, SubmitAnswer(says)
  PROVE  ClientInv'
<1>1. /\ worker.at = "wait" /\ worker.kind = "Submit"
      /\ UNCHANGED <<wifi, jpeg, screen, drawn, posts, tones>>
      /\ acked' = IF says = "accepted" THEN acked \cup {worker.id} ELSE acked
  BY DEF SubmitAnswer, Answered
<1>2. Idle("watch")
  BY RestIsIdle DEF SubmitAnswer, Answered, ClientInv, DeviceTypes, ClientTypeOK
<1>3. /\ worker.id = client.request /\ worker.id \in Ids /\ worker.id \notin acked
      /\ posts[worker.id] = 1 /\ jpeg = None /\ client.active
  BY <1>1 DEF ClientInv, DeviceTypes, ClientTypeOK, Exchanges, Posting
<1>4. CASE says \in {"accepted", "lost"}
  <2>1. PICK acknowledged \in BOOLEAN :
          /\ client' = CompleteSubmit(client, acknowledged)
          /\ acknowledged <=> says = "accepted"
    BY <1>4 DEF SubmitAnswer
  <2>2. /\ client' \in Client
        /\ Keeps(client, client', Link \cup {"request", "hasPhoto", "active", "retry"})
        /\ "Download" \in client'.inFlight <=> "Download" \in client.inFlight
        /\ client'.shutter = (client.shutter \/ acknowledged)
        /\ client'.submitted /\ client'.state = "Processing"
    BY <2>1, SubmitEffect DEF ClientInv, DeviceTypes, ClientTypeOK, Keeps
  <2> USE <1>1, <1>2, <1>3, <2>1, <2>2, ClientConstants DEF Keeps, Idle, WorkKinds
  <2>3. DeviceTypes'
    BY DEF ClientInv, DeviceTypes, ClientTypeOK, Fetching, WorkerState
  <2>4. Exchanges'
    BY DEF ClientInv, DeviceTypes, ClientTypeOK, Exchanges, WorkerState, InExchange
  <2>5. Posting' /\ Polling'
    BY DEF ClientInv, DeviceTypes, ClientTypeOK, Exchanges, Posting, Polling, PostedOnce,
           WorkerState, InExchange
  <2>6. Fetching'
    BY DEF ClientInv, DeviceTypes, ClientTypeOK, Exchanges, Fetching, Posting, WorkerState
  <2>7. Sounding'
    BY DEF ClientInv, DeviceTypes, ClientTypeOK, Exchanges, Posting, Sounding,
           ToneAfterAcknowledgement
  <2>8. ScreenIsHonest'
    BY DEF ClientInv, DeviceTypes, ClientTypeOK, Client, ScreenIsHonest, Exchanges, Posting,
           Polling, Fetching, ReadyForCapture, InExchange
  <2> QED BY <2>3, <2>4, <2>5, <2>6, <2>7, <2>8 DEF ClientInv
<1>5. CASE says = "rejected"
  <2>1. /\ client' \in Client
        /\ Keeps(client, client', Request \cup Link)
        /\ "Download" \in client'.inFlight <=> "Download" \in client.inFlight
        /\ ~client'.active /\ ~client'.retry /\ client'.state = "Error"
    BY <1>5, RejectEffect DEF SubmitAnswer, ClientInv, DeviceTypes, ClientTypeOK, Keeps
  <2> USE <1>1, <1>2, <1>3, <1>5, <2>1, ClientConstants DEF Keeps, Idle, WorkKinds
  <2>2. DeviceTypes'
    BY DEF ClientInv, DeviceTypes, ClientTypeOK, Fetching, WorkerState
  <2>3. Exchanges'
    BY DEF ClientInv, DeviceTypes, ClientTypeOK, Exchanges, WorkerState, InExchange
  <2>4. Posting' /\ Polling'
    BY DEF ClientInv, DeviceTypes, ClientTypeOK, Exchanges, Posting, Polling, PostedOnce,
           WorkerState, InExchange
  <2>5. Fetching'
    BY DEF ClientInv, DeviceTypes, ClientTypeOK, Exchanges, Fetching, Posting, WorkerState
  <2>6. Sounding'
    BY DEF ClientInv, DeviceTypes, ClientTypeOK, Exchanges, Posting, Sounding,
           ToneAfterAcknowledgement
  <2>7. ScreenIsHonest'
    BY DEF ClientInv, DeviceTypes, ClientTypeOK, Client, ScreenIsHonest, Exchanges, Posting,
           Polling, Fetching, ReadyForCapture, InExchange
  <2> QED BY <2>2, <2>3, <2>4, <2>5, <2>6, <2>7 DEF ClientInv
<1> QED BY <1>4, <1>5

LEMMA PollStep ==
  ASSUME ClientInv, NEW says \in {"Processing", "Complete", "Failed", "Missing", "lost"},
         PollAnswer(says)
  PROVE  ClientInv'
<1>1. /\ worker.at = "wait" /\ worker.kind = "Poll" /\ jpeg = None /\ client.active
      /\ UNCHANGED <<wifi, jpeg, screen, drawn, posts, acked, tones>>
  BY DEF PollAnswer, Answered, ClientInv, Exchanges, Polling
<1>2. Idle("watch")
  BY RestIsIdle DEF PollAnswer, Answered, ClientInv, DeviceTypes, ClientTypeOK
<1>3. /\ client' \in Client
      /\ Keeps(client, client', Request \cup Link)
      /\ "Download" \in client'.inFlight <=> "Download" \in client.inFlight
      /\ \/ /\ client'.active = client.active /\ client'.retry = client.retry
            /\ client'.state \in {client.state, "Processing", "Error"}
         \/ client'.active = client.active /\ client'.retry /\ client'.state = "Downloading"
         \/ ~client'.active /\ ~client'.retry /\ client'.state = "Error"
  BY PollEffect, PollErrorEffect DEF PollAnswer, ClientInv, DeviceTypes, ClientTypeOK, Keeps
<1> USE <1>1, <1>2, <1>3, ClientConstants DEF Keeps, Idle, WorkKinds
<1>4. DeviceTypes'
  BY DEF ClientInv, DeviceTypes, ClientTypeOK, Fetching, WorkerState
<1>5. Exchanges'
  BY DEF ClientInv, DeviceTypes, ClientTypeOK, Exchanges, WorkerState, InExchange
<1>6. Posting' /\ Polling'
  BY DEF ClientInv, DeviceTypes, ClientTypeOK, Exchanges, Posting, Polling, PostedOnce,
         WorkerState, InExchange
<1>7. Fetching'
  BY DEF ClientInv, DeviceTypes, ClientTypeOK, Exchanges, Fetching, Posting, WorkerState
<1>8. Sounding'
  BY DEF ClientInv, DeviceTypes, ClientTypeOK, Exchanges, Posting, Sounding,
         ToneAfterAcknowledgement
<1>9. ScreenIsHonest'
  BY DEF ClientInv, DeviceTypes, ClientTypeOK, Client, ScreenIsHonest, Exchanges, Posting,
         Polling, Fetching, ReadyForCapture, InExchange
<1> QED BY <1>4, <1>5, <1>6, <1>7, <1>8, <1>9 DEF ClientInv

LEMMA DownloadStep ==
  ASSUME ClientInv, NEW whole \in BOOLEAN, DownloadAnswer(whole), whole => posts[worker.id] > 0
  PROVE  ClientInv'
<1>1. /\ worker.at = "wait" /\ worker.kind = "Download" /\ jpeg = None
      /\ UNCHANGED <<wifi, screen, drawn, posts, acked, tones>>
      /\ worker.id = client.request
      /\ client.state = "Downloading" /\ client.retry /\ "Download" \in client.inFlight
  BY DEF DownloadAnswer, Answered, ClientInv, Exchanges, Fetching
<1>2. Idle("watch")
  BY RestIsIdle DEF DownloadAnswer, Answered, ClientInv, DeviceTypes, ClientTypeOK
<1>3. CASE whole
  <2>1. /\ client' = client /\ jpeg' = worker.id
        /\ client.request \in Ids
        /\ client.active => client.submitted
    BY <1>1, <1>3 DEF DownloadAnswer, ClientInv, DeviceTypes, ClientTypeOK, Posting
  <2> USE <1>1, <1>2, <1>3, <2>1, ClientConstants DEF Idle, WorkKinds
  <2>2. DeviceTypes'
    BY DEF ClientInv, DeviceTypes, ClientTypeOK, Fetching, WorkerState
  <2>3. Exchanges'
    BY DEF ClientInv, DeviceTypes, ClientTypeOK, Exchanges, WorkerState, InExchange
  <2>4. Posting' /\ Polling'
    BY DEF ClientInv, DeviceTypes, ClientTypeOK, Exchanges, Posting, Polling, PostedOnce,
           WorkerState, InExchange
  <2>5. Fetching'
    BY DEF ClientInv, DeviceTypes, ClientTypeOK, Exchanges, Fetching, Posting, WorkerState
  <2>6. Sounding'
    BY DEF ClientInv, DeviceTypes, ClientTypeOK, Exchanges, Posting, Sounding,
           ToneAfterAcknowledgement
  <2>7. ScreenIsHonest'
    BY DEF ClientInv, DeviceTypes, ClientTypeOK, Client, ScreenIsHonest, Exchanges, Posting,
           Polling, Fetching, ReadyForCapture, InExchange
  <2> QED BY <2>2, <2>3, <2>4, <2>5, <2>6, <2>7 DEF ClientInv
<1>4. CASE ~whole
  <2>1. /\ client' \in Client
        /\ Keeps(client, client', Link \cup {"request", "shutter", "submitted", "hasPhoto", "active"})
        /\ client'.retry /\ client'.state = "Error" /\ jpeg' = None
    BY <1>1, <1>4, DownloadFailedEffect DEF DownloadAnswer, ClientInv, DeviceTypes,
       ClientTypeOK, Keeps
  <2> USE <1>1, <1>2, <1>4, <2>1, ClientConstants DEF Keeps, Idle, WorkKinds
  <2>2. DeviceTypes'
    BY DEF ClientInv, DeviceTypes, ClientTypeOK, Fetching, WorkerState
  <2>3. Exchanges'
    BY DEF ClientInv, DeviceTypes, ClientTypeOK, Exchanges, WorkerState, InExchange
  <2>4. Posting' /\ Polling'
    BY DEF ClientInv, DeviceTypes, ClientTypeOK, Exchanges, Posting, Polling, PostedOnce,
           WorkerState, InExchange
  <2>5. Fetching'
    BY DEF ClientInv, DeviceTypes, ClientTypeOK, Exchanges, Fetching, Posting, WorkerState
  <2>6. Sounding'
    BY DEF ClientInv, DeviceTypes, ClientTypeOK, Exchanges, Posting, Sounding,
           ToneAfterAcknowledgement
  <2>7. ScreenIsHonest'
    BY DEF ClientInv, DeviceTypes, ClientTypeOK, Client, ScreenIsHonest, Exchanges, Posting,
           Polling, Fetching, ReadyForCapture, InExchange
  <2> QED BY <2>2, <2>3, <2>4, <2>5, <2>6, <2>7 DEF ClientInv
<1> QED BY <1>3, <1>4

\* A press is taken up only between exchanges, and with an empty buffer or one
\* the same turn empties.
LEMMA PressedEffect ==
  ASSUME ClientInv, NEW id \in (Ids \ drawn) \cup {None}, NEW c, c = Pressed(client, id)
  PROVE  \/ c = client
         \/ /\ id # None /\ id \in Ids \ drawn /\ posts[id] = 0 /\ id \notin acked
            /\ worker.kind \notin {"Submit", "Poll", "Download"}
            /\ c \in Client /\ c # client
            /\ Keeps(client, c, Link \cup {"hasPhoto"})
            /\ c.request = id /\ c.active /\ ~c.shutter /\ ~c.submitted /\ ~c.retry
            /\ c.state = "Requesting" /\ "Download" \notin c.inFlight
<1>1. CASE ~(id # None /\ PressAccepted(client))
  BY <1>1 DEF Pressed
<1>2. CASE id # None /\ PressAccepted(client)
  <2>1. c = Press(client, id)
    BY <1>2 DEF Pressed
  <2>2. id \in Ids \ drawn /\ posts[id] = 0 /\ id \notin acked
    BY <1>2 DEF ClientInv, DeviceTypes, ClientTypeOK, Posting
  <2>3. ~client.active /\ client.state \in {"Ready", "Photo"}
    BY <1>2 DEF PressAccepted
  <2>4. worker.kind \notin {"Submit", "Poll", "Download"}
    BY <2>3 DEF ClientInv, Posting, Polling, Fetching
  <2>5. /\ c \in Client
        /\ Keeps(client, c, Link \cup {"hasPhoto"})
        /\ c.request = id /\ c.active /\ ~c.shutter /\ ~c.submitted /\ ~c.retry
        /\ c.state = "Requesting" /\ "Download" \notin c.inFlight
    BY <2>1, <2>2, PressEffect DEF ClientInv, DeviceTypes, ClientTypeOK
  <2> QED BY <1>2, <2>2, <2>3, <2>4, <2>5
<1> QED BY <1>1, <1>2

LEMMA TurnStep ==
  ASSUME ClientInv, NEW id \in (Ids \ drawn) \cup {None}, NEW decoded \in BOOLEAN, Turn(id, decoded)
  PROVE  ClientInv'
<1> DEFINE c == Pressed(client, id)
           quiet == [c EXCEPT !.shutter = FALSE]
<1>1. /\ UNCHANGED <<worker, wifi, posts, acked>>
      /\ jpeg' = None
      /\ drawn' = IF c # client THEN drawn \cup {id} ELSE drawn
      /\ tones' = IF c.shutter THEN [tones EXCEPT ![c.request] = @ + 1] ELSE tones
      /\ screen' \in {screen, jpeg} /\ (screen' # screen => jpeg # None)
  BY DEF Turn, DecodeAndStore
<1>2. \/ c = client
      \/ /\ id \in Ids \ drawn /\ posts[id] = 0 /\ id \notin acked
         /\ worker.kind \notin {"Submit", "Poll", "Download"}
         /\ c # client /\ c \in Client
         /\ Keeps(client, c, Link \cup {"hasPhoto"})
         /\ c.request = id /\ c.active /\ ~c.shutter /\ ~c.submitted /\ ~c.retry
         /\ c.state = "Requesting" /\ "Download" \notin c.inFlight
  BY PressedEffect
<1>3. c \in Client
  BY <1>2 DEF ClientInv, DeviceTypes, ClientTypeOK
<1>4. /\ quiet \in Client /\ ~quiet.shutter
      /\ Keeps(c, quiet, Link \cup {"state", "request", "hasPhoto", "submitted", "active",
                                    "retry", "inFlight"})
  BY <1>3 DEF Client, Keeps
<1>5. \/ jpeg = None /\ client' = quiet
      \/ jpeg # None /\ client' = CompleteDownload(quiet, TRUE)
      \/ jpeg # None /\ client' = CompleteDownload(quiet, FALSE)
  BY DEF Turn
<1>6. /\ client' \in Client /\ ~client'.shutter
      /\ Keeps(c, client', Link \cup {"request", "submitted"})
      /\ \/ jpeg = None /\ Keeps(c, client', {"state", "hasPhoto", "active", "retry", "inFlight"})
         \/ jpeg # None /\ client'.hasPhoto /\ ~client'.active /\ ~client'.retry /\ client'.state = "Photo"
         \/ /\ jpeg # None /\ Keeps(c, client', {"hasPhoto", "active"})
            /\ client'.retry /\ client'.state = "Error"
  <2>1. CASE jpeg = None /\ client' = quiet
    BY <1>4, <2>1 DEF Keeps
  <2>2. CASE jpeg # None /\ client' = CompleteDownload(quiet, TRUE)
    <3> HIDE DEF quiet
    <3>1. /\ client' \in Client
          /\ Keeps(quiet, client', Link \cup {"request", "shutter", "submitted"})
          /\ client'.hasPhoto /\ ~client'.active /\ ~client'.retry /\ client'.state = "Photo"
      BY <1>4, <2>2, DecodedEffect
    <3> QED BY <1>4, <2>2, <3>1 DEF Keeps
  <2>3. CASE jpeg # None /\ client' = CompleteDownload(quiet, FALSE)
    <3> HIDE DEF quiet
    <3>1. /\ client' \in Client
          /\ Keeps(quiet, client', Link \cup {"request", "shutter", "submitted", "hasPhoto", "active"})
          /\ client'.retry /\ client'.state = "Error"
      BY <1>4, <2>3, DownloadFailedEffect
    <3> QED BY <1>4, <2>3, <3>1 DEF Keeps
  <2> QED BY <1>5, <2>1, <2>2, <2>3
<1> HIDE DEF quiet
<1>7. CASE c = client
  <2> HIDE DEF c
  <2> USE <1>1, <1>3, <1>6, <1>7 DEF Keeps
  <2>1. DeviceTypes'
    BY DEF ClientInv, DeviceTypes, ClientTypeOK, Posting, Sounding, Fetching, WorkerState
  <2>2. Exchanges'
    BY DEF ClientInv, DeviceTypes, ClientTypeOK, Exchanges, WorkerState, InExchange
  <2>3. Posting' /\ Polling'
    BY DEF ClientInv, DeviceTypes, ClientTypeOK, Exchanges, Posting, Polling, PostedOnce,
           WorkerState, InExchange
  <2>4. Fetching'
    BY DEF ClientInv, DeviceTypes, ClientTypeOK, Exchanges, Fetching, Posting, WorkerState
  <2>5. Sounding'
    BY DEF ClientInv, DeviceTypes, ClientTypeOK, Exchanges, Posting, Sounding,
           ToneAfterAcknowledgement
  <2>6. ScreenIsHonest'
    BY DEF ClientInv, DeviceTypes, ClientTypeOK, Client, ScreenIsHonest, Exchanges, Posting,
           Polling, Fetching, ReadyForCapture, InExchange
  <2> QED BY <2>1, <2>2, <2>3, <2>4, <2>5, <2>6 DEF ClientInv
<1>8. CASE c # client
  <2>1. /\ id \in Ids \ drawn /\ posts[id] = 0 /\ id \notin acked
        /\ worker.kind \notin {"Submit", "Poll", "Download"}
        /\ Keeps(client, c, Link \cup {"hasPhoto"})
        /\ c.request = id /\ c.active /\ ~c.shutter /\ ~c.submitted /\ ~c.retry
        /\ c.state = "Requesting" /\ "Download" \notin c.inFlight
    BY <1>2, <1>8
  <2> HIDE DEF c
  <2> USE <1>1, <1>3, <1>6, <1>8, <2>1 DEF Keeps
  <2>2. DeviceTypes'
    BY DEF ClientInv, DeviceTypes, ClientTypeOK, Fetching, WorkerState
  <2>3. Exchanges'
    BY DEF ClientInv, DeviceTypes, ClientTypeOK, Exchanges, WorkerState, InExchange
  <2>4. Posting' /\ Polling'
    BY DEF ClientInv, DeviceTypes, ClientTypeOK, Exchanges, Posting, Polling, PostedOnce,
           WorkerState, InExchange
  <2>5. Fetching'
    BY DEF ClientInv, DeviceTypes, ClientTypeOK, Exchanges, Fetching, Posting, WorkerState
  <2>6. Sounding'
    BY DEF ClientInv, DeviceTypes, ClientTypeOK, Exchanges, Posting, Sounding,
           ToneAfterAcknowledgement
  <2>7. ScreenIsHonest'
    BY DEF ClientInv, DeviceTypes, ClientTypeOK, Client, ScreenIsHonest, Exchanges, Posting,
           Polling, Fetching, ReadyForCapture, InExchange
  <2> QED BY <2>2, <2>3, <2>4, <2>5, <2>6, <2>7 DEF ClientInv
<1> QED BY <1>7, <1>8

LEMMA ClientInitially == ClientInit => ClientInv
<1> SUFFICES ASSUME ClientInit
             PROVE  ClientInv
  OBVIOUS
<1>1. /\ client \in Client
      /\ client.state = "Connecting" /\ client.inFlight = {}
      /\ ~client.active /\ ~client.retry /\ ~client.shutter
  BY DEF ClientInit, NewClient, Client, States, Reasons, WorkKinds, Deadlines
<1>2. worker \in WorkerState /\ worker.at = "watch" /\ worker.kind = None
  BY DEF ClientInit, WorkerState
<1>3. client.request = None
  BY DEF ClientInit, NewClient
<1> USE <1>1, <1>2, <1>3, ClientConstants DEF ClientInit, WorkKinds
<1>4. DeviceTypes
  BY DEF DeviceTypes, ClientTypeOK
<1>5. Exchanges /\ Fetching
  BY DEF Exchanges, InExchange, Fetching
<1>6. Posting /\ Polling
  BY DEF Posting, PostedOnce, Polling
<1>7. Sounding
  BY DEF Sounding, ToneAfterAcknowledgement
<1>8. ScreenIsHonest
  BY DEF ScreenIsHonest
<1> QED BY <1>4, <1>5, <1>6, <1>7, <1>8 DEF ClientInv

LEMMA ClientStep == ClientInv /\ [ClientNext]_cvars => ClientInv'
<1> SUFFICES ASSUME ClientInv, [ClientNext]_cvars
             PROVE  ClientInv'
  OBVIOUS
<1>1. CASE Watch
  BY <1>1, WatchStep
<1>2. CASE NextWork
  BY <1>2, NextWorkStep
<1>3. CASE ConnectWork
  BY <1>3, ConnectWorkStep
<1>4. CASE BeginFails
  BY <1>4, BeginFailsStep
<1>5. CASE Begin
  BY <1>5, BeginStep
<1>6. CASE PressTurn \/ IdleTurn
  BY <1>6, TurnStep DEF PressTurn, IdleTurn
<1>7. ASSUME NEW deadline \in Deadlines, Elapse(deadline)
      PROVE  ClientInv'
  BY <1>7, ElapseStep
<1>8. CASE AnyAnswer
  BY <1>8, StatusStep, StatusLostStep, SubmitStep, PollStep, DownloadStep DEF AnyAnswer
<1>9. CASE WifiChanges
  BY <1>9, WifiStep
<1>10. CASE UNCHANGED cvars
  BY <1>10 DEF cvars, ClientInv, DeviceTypes, ClientTypeOK, Exchanges, InExchange, Posting,
               PostedOnce, Polling, Fetching, Sounding, ToneAfterAcknowledgement,
               ScreenIsHonest, ReadyForCapture
<1> QED
  BY <1>1, <1>2, <1>3, <1>4, <1>5, <1>6, <1>7, <1>8, <1>9, <1>10 DEF ClientNext, Device

\* The device, under any server and any network, keeps to its invariant.
THEOREM ClientInvariance == ClientSpec => []ClientInv
BY ClientInitially, ClientStep, PTL DEF ClientSpec

\* The fields of the client object, the worker's record and the histories keep
\* their types; an active request is one of a press.
THEOREM ClientTypeCorrect == ClientSpec => []ClientTypeOK
<1>1. ClientInv => ClientTypeOK
  BY DEF ClientInv, DeviceTypes
<1> QED BY <1>1, ClientInvariance, PTL

\* The POST of a press leaves the device at most once: a POST of which a byte was
\* sent is never tried again, whatever became of its answer.
THEOREM PostsOnce == ClientSpec => []PostedOnce
<1>1. ClientInv => PostedOnce
  BY DEF ClientInv, Posting
<1> QED BY <1>1, ClientInvariance, PTL

\* takeShutterSound sounds the tone of a press at most once, and only after its
\* POST was answered 2xx.
THEOREM ToneIsHonest == ClientSpec => []ToneAfterAcknowledgement
<1>1. ClientInv => ToneAfterAcknowledgement
  BY DEF ClientInv, Sounding
<1> QED BY <1>1, ClientInvariance, PTL

\* The completion methods, which are not told which request they are about, are
\* called for the request at hand; so is the decoding of the buffer.
THEOREM AnswersMeet == ClientSpec => []AnswersMeetTheirRequest
<1>1. ClientInv => AnswersMeetTheirRequest
  BY DEF ClientInv, AnswersMeetTheirRequest, Exchanges, Posting, Polling, Fetching
<1> QED BY <1>1, ClientInvariance, PTL

\* fetchJpeg never fills jpeg_back_buffer while the UI loop has yet to decode what
\* is in it.
THEOREM BufferStaysFree == ClientSpec => []BufferIsFree
<1>1. ClientInv => BufferIsFree
  BY DEF ClientInv, BufferIsFree, Exchanges
<1> QED BY <1>1, ClientInvariance, PTL

\* The state shown on the screen tells the truth about the request and about
\* whether a press would be taken up.
THEOREM ScreenStaysHonest == ClientSpec => []ScreenIsHonest
<1>1. ClientInv => ScreenIsHonest
  BY DEF ClientInv
<1> QED BY <1>1, ClientInvariance, PTL

\* Only a turn of the UI loop touches the screen.
KeepsPhoto == screen' # screen =>
                screen' = client.request /\ screen' \in drawn /\ ~client'.active /\ client'.state = "Photo"

\* A press that is over comes up no more.
StaysOver == \A id \in Ids : Over(id) => Over(id)' /\ (screen' = id => screen = id)

LEMMA TurnKeepsPhoto ==
  ASSUME ClientInv, NEW id \in (Ids \ drawn) \cup {None}, NEW decoded \in BOOLEAN,
         Turn(id, decoded), screen' # screen
  PROVE  KeepsPhoto
<1> DEFINE c == Pressed(client, id)
           quiet == [c EXCEPT !.shutter = FALSE]
<1>1. screen' = jpeg /\ jpeg # None /\ decoded
  BY DEF Turn, DecodeAndStore
<1>2. jpeg = client.request /\ jpeg \in drawn
  BY <1>1 DEF ClientInv, DeviceTypes, ClientTypeOK, Fetching, Posting
<1>3. c \in Client
  BY PressedEffect DEF ClientInv, DeviceTypes, ClientTypeOK
<1>4. quiet \in Client
  BY <1>3 DEF Client
<1>5. client' = CompleteDownload(quiet, TRUE)
  BY <1>1 DEF Turn
<1> HIDE DEF quiet
<1>6. ~client'.active /\ client'.state = "Photo"
  BY <1>4, <1>5, DecodedEffect
<1> QED BY <1>1, <1>2, <1>6 DEF KeepsPhoto

LEMMA StepKeepsPhoto == ClientInv /\ [ClientNext]_cvars => KeepsPhoto
<1> SUFFICES ASSUME ClientInv, [ClientNext]_cvars, screen' # screen
             PROVE  KeepsPhoto
  BY DEF KeepsPhoto
<1>1. PressTurn \/ IdleTurn
  BY DEF ClientNext, Device, AnyAnswer, cvars, Watch, NextWork, ConnectWork, BeginFails,
         Begin, Elapse, StatusAnswer, StatusLost, SubmitAnswer, PollAnswer, DownloadAnswer,
         Answered, WifiChanges
<1> QED BY <1>1, TurnKeepsPhoto DEF PressTurn, IdleTurn

\* Whatever is not a turn of the UI loop keeps the request, the tones and the
\* screen.
LEMMA OtherStepsAreSilent ==
  ASSUME ClientInv, ClientNext, ~PressTurn, ~IdleTurn
  PROVE  client'.request = client.request /\ UNCHANGED <<drawn, tones, screen>>
<1> USE DEF Keeps
<1>1. UNCHANGED <<drawn, tones, screen>>
  BY DEF ClientNext, Device, AnyAnswer, Watch, NextWork, ConnectWork, BeginFails, Begin, Elapse,
         StatusAnswer, StatusLost, SubmitAnswer, PollAnswer, DownloadAnswer, Answered, WifiChanges
<1>2. client \in Client /\ wifi \in BOOLEAN
  BY DEF ClientInv, DeviceTypes, ClientTypeOK
<1>3. CASE UNCHANGED client
  BY <1>1, <1>3
<1>4. CASE Watch
  <2>1. client' \in {client, SetWifiConnected(client, wifi)}
    BY <1>4 DEF Watch
  <2> QED BY <1>1, <1>2, <2>1, WifiEffect
<1>5. CASE NextWork
  <2>1. Tick(client) \in Client /\ Tick(client).request = client.request
    BY <1>2, TickEffect
  <2>2. \/ client' = Tick(client)
        \/ \E kind \in WorkKinds : client' = Issue(Tick(client), kind)
    BY <1>5 DEF NextWork
  <2> QED BY <1>1, <2>1, <2>2, IssueEffect
<1>6. CASE ConnectWork
  BY <1>1, <1>2, <1>6, ConnectEffect DEF ConnectWork
<1>7. CASE BeginFails
  <2>1. client' \in {CompleteStatusTransportError(client), SubmitStartFailed(client),
                     CompletePollTransportError(client), CompleteDownload(client, FALSE)}
    BY <1>7 DEF BeginFails, StartFailed, ClientInv, DeviceTypes, ClientTypeOK, Exchanges,
                WorkerState, WorkKinds
  <2>2. CASE client' = CompleteStatusTransportError(client)
    BY <1>1, <1>2, <2>2, StatusErrorEffect
  <2>3. CASE client' = SubmitStartFailed(client)
    BY <1>1, <1>2, <2>3, SubmitStartEffect
  <2>4. CASE client' = CompletePollTransportError(client)
    BY <1>1, <1>2, <2>4, PollErrorEffect
  <2>5. CASE client' = CompleteDownload(client, FALSE)
    BY <1>1, <1>2, <2>5, DownloadFailedEffect
  <2> QED BY <2>1, <2>2, <2>3, <2>4, <2>5
<1>8. CASE \E deadline \in Deadlines : Elapse(deadline)
  BY <1>1, <1>2, <1>8, ElapseEffect DEF Elapse
<1>9. CASE AnyAnswer
  <2>1. CASE \E ready, busy \in BOOLEAN, known \in Instances : StatusAnswer(ready, busy, known)
    BY <1>1, <1>2, <2>1, StatusEffect DEF StatusAnswer
  <2>2. CASE StatusLost
    BY <1>1, <1>2, <2>2, StatusErrorEffect DEF StatusLost
  <2>3. ASSUME NEW says \in {"accepted", "rejected", "lost"}, SubmitAnswer(says)
        PROVE  client'.request = client.request
    <3>1. client' \in {CompleteSubmit(client, TRUE), RejectSubmit(client),
                       CompleteSubmit(client, FALSE)}
      BY <2>3 DEF SubmitAnswer
    <3>2. ASSUME NEW acknowledged \in BOOLEAN, client' = CompleteSubmit(client, acknowledged)
          PROVE  client'.request = client.request
      BY <1>2, <3>2, SubmitEffect
    <3>3. CASE client' = RejectSubmit(client)
      BY <1>2, <3>3, RejectEffect
    <3> QED BY <3>1, <3>2, <3>3
  <2>4. ASSUME NEW says \in {"Processing", "Complete", "Failed", "Missing", "lost"},
               PollAnswer(says)
        PROVE  client'.request = client.request
    <3>1. CASE says = "lost"
      BY <1>2, <2>4, <3>1, PollErrorEffect DEF PollAnswer
    <3>2. CASE says # "lost"
      BY <1>2, <2>4, <3>2, PollEffect DEF PollAnswer
    <3> QED BY <3>1, <3>2
  <2>5. ASSUME NEW whole \in BOOLEAN, DownloadAnswer(whole)
        PROVE  client'.request = client.request
    BY <1>2, <2>5, DownloadFailedEffect DEF DownloadAnswer
  <2> QED BY <1>1, <1>9, <2>1, <2>2, <2>3, <2>4, <2>5 DEF AnyAnswer
<1> QED
  BY <1>3, <1>4, <1>5, <1>6, <1>7, <1>8, <1>9 DEF ClientNext, Device, Begin, WifiChanges

\* With no request at hand and none under way the network brings none back.
LEMMA NothingComesBack ==
  ASSUME ClientInv, ClientNext, ~PressTurn, ~IdleTurn, ~client.active, ~client.retry,
         worker.kind \notin {"Submit", "Poll", "Download"}
  PROVE  ~client'.active /\ ~client'.retry /\ UNCHANGED <<jpeg, drawn>>
<1> USE DEF Keeps
<1>1. UNCHANGED <<jpeg, drawn>>
  BY DEF ClientNext, Device, AnyAnswer, Watch, NextWork, ConnectWork, BeginFails, Begin, Elapse,
         StatusAnswer, StatusLost, SubmitAnswer, PollAnswer, DownloadAnswer, Answered, WifiChanges
<1>2. client \in Client /\ wifi \in BOOLEAN
  BY DEF ClientInv, DeviceTypes, ClientTypeOK
<1>3. CASE UNCHANGED client
  BY <1>1, <1>3
<1>4. CASE Watch
  <2>1. client' \in {client, SetWifiConnected(client, wifi)}
    BY <1>4 DEF Watch
  <2> QED BY <1>1, <1>2, <2>1, WifiEffect
<1>5. CASE NextWork
  <2>1. Tick(client) \in Client /\ ~Tick(client).active /\ ~Tick(client).retry
    BY <1>2, TickEffect
  <2>2. \/ client' = Tick(client)
        \/ \E kind \in WorkKinds : client' = Issue(Tick(client), kind)
    BY <1>5 DEF NextWork
  <2> QED BY <1>1, <2>1, <2>2, IssueEffect
<1>6. CASE ConnectWork
  BY <1>1, <1>2, <1>6, ConnectEffect DEF ConnectWork
<1>7. CASE BeginFails
  <2>1. client' = CompleteStatusTransportError(client)
    BY <1>7 DEF BeginFails, StartFailed, ClientInv, DeviceTypes, ClientTypeOK, Exchanges,
                WorkerState, WorkKinds
  <2> QED BY <1>1, <1>2, <2>1, StatusErrorEffect
<1>8. CASE \E deadline \in Deadlines : Elapse(deadline)
  BY <1>1, <1>2, <1>8, ElapseEffect DEF Elapse
<1>9. CASE AnyAnswer
  <2>1. CASE \E ready, busy \in BOOLEAN, known \in Instances : StatusAnswer(ready, busy, known)
    BY <1>1, <1>2, <2>1, StatusEffect DEF StatusAnswer
  <2>2. CASE StatusLost
    BY <1>1, <1>2, <2>2, StatusErrorEffect DEF StatusLost
  <2> QED BY <1>9, <2>1, <2>2
          DEF AnyAnswer, SubmitAnswer, PollAnswer, DownloadAnswer, Answered
<1> QED
  BY <1>3, <1>4, <1>5, <1>6, <1>7, <1>8, <1>9 DEF ClientNext, Device, Begin, WifiChanges

\* A turn takes up a new request or, with the buffer empty, leaves the old one
\* alone.
LEMMA TurnBringsNothingBack ==
  ASSUME ClientInv, NEW id \in (Ids \ drawn) \cup {None}, NEW decoded \in BOOLEAN, Turn(id, decoded)
  PROVE  \/ client'.request \in Ids \ drawn
         \/ /\ client'.request = client.request
            /\ jpeg = None => client'.active = client.active /\ client'.retry = client.retry
<1> DEFINE c == Pressed(client, id)
           quiet == [c EXCEPT !.shutter = FALSE]
<1>1. client' \in {CompleteDownload(quiet, TRUE), CompleteDownload(quiet, FALSE), quiet}
      /\ (jpeg = None => client' = quiet)
  BY DEF Turn
<1>2. c \in Client /\ (c = client \/ c.request \in Ids \ drawn)
  BY PressedEffect DEF ClientInv, DeviceTypes, ClientTypeOK
<1> HIDE DEF c
<1>3. /\ quiet \in Client /\ quiet.request = c.request
      /\ quiet.active = c.active /\ quiet.retry = c.retry
  BY <1>2 DEF Client
<1> HIDE DEF quiet
<1>4. ASSUME NEW d, d = CompleteDownload(quiet, TRUE) \/ d = CompleteDownload(quiet, FALSE)
      PROVE  d.request = c.request
  <2>1. CASE d = CompleteDownload(quiet, TRUE)
    <3>1. Keeps(quiet, d, Link \cup {"request", "shutter", "submitted"})
      BY <1>3, <2>1, DecodedEffect
    <3> QED BY <1>3, <3>1 DEF Keeps
  <2>2. CASE d = CompleteDownload(quiet, FALSE)
    <3>1. Keeps(quiet, d, Link \cup {"request", "shutter", "submitted", "hasPhoto", "active"})
      BY <1>3, <2>2, DownloadFailedEffect
    <3> QED BY <1>3, <3>1 DEF Keeps
  <2> QED BY <1>4, <2>1, <2>2
<1>5. client'.request = c.request
  BY <1>1, <1>3, <1>4
<1> QED BY <1>1, <1>2, <1>3, <1>5

LEMMA OverStays ==
  ASSUME ClientInv, ClientInv', ClientNext, NEW id \in Ids, Over(id)
  PROVE  Over(id)'
<1>1. drawn \subseteq drawn'
  BY DEF ClientNext, Device, AnyAnswer, PressTurn, IdleTurn, Turn, Watch, NextWork, ConnectWork,
         BeginFails, Begin, Elapse, StatusAnswer, StatusLost, SubmitAnswer, PollAnswer,
         DownloadAnswer, Answered, WifiChanges
<1>2. CASE client'.request # id
  BY <1>1, <1>2, ClientConstants DEF Over, ClientInv, Exchanges, Fetching
<1>3. CASE client'.request = id
  <2>1. jpeg = None \/ jpeg = client.request
    BY DEF ClientInv, Fetching
  <2>2. CASE ~PressTurn /\ ~IdleTurn
    <3>1. client.request = id
      BY <1>3, <2>2, OtherStepsAreSilent
    <3>2. /\ ~client.active /\ ~client.retry /\ jpeg = None
          /\ worker.kind \notin {"Submit", "Poll", "Download"}
      BY <2>1, <3>1 DEF Over, ClientInv, Exchanges
    <3>3. ~client'.active /\ ~client'.retry /\ jpeg' = None
      BY <2>2, <3>2, NothingComesBack
    <3>4. worker'.kind \notin {"Submit", "Poll", "Download"}
      BY <3>3 DEF ClientInv, Posting, Polling, Fetching
    <3> QED BY <1>1, <3>3, <3>4, ClientConstants DEF Over
  <2>3. ASSUME NEW press \in (Ids \ drawn) \cup {None}, NEW decoded \in BOOLEAN, Turn(press, decoded)
        PROVE  Over(id)'
    <3>1. jpeg' = None /\ worker' = worker
      BY <2>3 DEF Turn
    <3>2. client'.request \in Ids \ drawn \/ client'.request = client.request
      BY <2>3, TurnBringsNothingBack
    <3>3. client.request = id
      BY <1>3, <3>2 DEF Over
    <3>4. jpeg = None /\ ~client.active /\ ~client.retry
      BY <2>1, <3>3 DEF Over
    <3>5. ~client'.active /\ ~client'.retry
      BY <1>3, <2>3, <3>4, TurnBringsNothingBack DEF Over
    <3> QED BY <1>1, <3>1, <3>5, ClientConstants DEF Over
  <2> QED BY <2>2, <2>3 DEF PressTurn, IdleTurn
<1> QED BY <1>2, <1>3

LEMMA StepStaysOver == ClientInv /\ [ClientNext]_cvars => StaysOver
<1> SUFFICES ASSUME ClientInv, [ClientNext]_cvars PROVE StaysOver
  OBVIOUS
<1>1. CASE UNCHANGED cvars
  BY <1>1 DEF cvars, StaysOver, Over
<1>2. CASE ClientNext
  <2>1. ClientInv'
    BY <1>2, ClientStep
  <2>2. ASSUME NEW id \in Ids, Over(id) PROVE Over(id)'
    BY <1>2, <2>1, <2>2, OverStays
  <2>3. ASSUME NEW id \in Ids, Over(id), screen' = id, screen # id PROVE FALSE
    <3>1. PressTurn \/ IdleTurn
      BY <1>2, <2>3, OtherStepsAreSilent
    <3>2. screen' = jpeg
      BY <2>3, <3>1 DEF PressTurn, IdleTurn, Turn, DecodeAndStore
    <3> QED BY <2>3, <3>2 DEF Over
  <2> QED BY <2>2, <2>3 DEF StaysOver
<1> QED BY <1>1, <1>2

\* A photo on the screen is replaced only by that of the latest press, when its
\* download has been decoded, and never by that of a press that was over.
THEOREM ScreenKeepsItsPhoto == ClientSpec => ScreenKeepsPhoto
<1>1. ClientInv /\ [ClientNext]_cvars => [KeepsPhoto /\ StaysOver]_cvars
  BY StepKeepsPhoto, StepStaysOver
<1>2. ClientSpec => [][KeepsPhoto /\ StaysOver]_cvars
  BY <1>1, ClientInvariance, PTL DEF ClientSpec
<1> QED BY <1>2, PTL DEF ScreenKeepsPhoto, KeepsPhoto, StaysOver

\* A press that has not been POSTed is still at hand after a step, or an error is
\* shown, or the step takes it with a photo in the buffer.
KeepsPress(id) ==
  posts'[id] = 0 /\ (id \in drawn => client.active /\ client.request = id)
  => \/ client'.active /\ client'.request = id
     \/ client'.state = "Error"
     \/ id \notin drawn /\ jpeg # None

\* Whatever is not a turn of the UI loop ends a request only with an error.
LEMMA NoneLeavesSilently ==
  ASSUME ClientInv, ClientNext, ~PressTurn, ~IdleTurn, client.active
  PROVE  client'.active \/ client'.state = "Error"
<1> USE DEF Keeps
<1>1. client \in Client /\ wifi \in BOOLEAN
  BY DEF ClientInv, DeviceTypes, ClientTypeOK
<1>2. CASE UNCHANGED client
  BY <1>2
<1>3. CASE Watch
  <2>1. client' \in {client, SetWifiConnected(client, wifi)}
    BY <1>3 DEF Watch
  <2> QED BY <1>1, <2>1, WifiEffect
<1>4. CASE NextWork
  <2>1. Tick(client) \in Client /\ Tick(client).active
    BY <1>1, TickEffect
  <2>2. \/ client' = Tick(client)
        \/ \E kind \in WorkKinds : client' = Issue(Tick(client), kind)
    BY <1>4 DEF NextWork
  <2> QED BY <2>1, <2>2, IssueEffect
<1>5. CASE ConnectWork
  BY <1>1, <1>5, ConnectEffect DEF ConnectWork
<1>6. CASE BeginFails
  <2>1. client' \in {CompleteStatusTransportError(client), SubmitStartFailed(client),
                     CompletePollTransportError(client), CompleteDownload(client, FALSE)}
    BY <1>6 DEF BeginFails, StartFailed, ClientInv, DeviceTypes, ClientTypeOK, Exchanges,
                WorkerState, WorkKinds
  <2>2. CASE client' = CompleteStatusTransportError(client)
    BY <1>1, <2>2, StatusErrorEffect
  <2>3. CASE client' = SubmitStartFailed(client)
    BY <1>1, <2>3, SubmitStartEffect
  <2>4. CASE client' = CompletePollTransportError(client)
    BY <1>1, <2>4, PollErrorEffect
  <2>5. CASE client' = CompleteDownload(client, FALSE)
    BY <1>1, <2>5, DownloadFailedEffect
  <2> QED BY <2>1, <2>2, <2>3, <2>4, <2>5
<1>7. CASE \E deadline \in Deadlines : Elapse(deadline)
  BY <1>1, <1>7, ElapseEffect DEF Elapse
<1>8. CASE AnyAnswer
  <2>1. CASE \E ready, busy \in BOOLEAN, known \in Instances : StatusAnswer(ready, busy, known)
    BY <1>1, <2>1, StatusEffect DEF StatusAnswer
  <2>2. CASE StatusLost
    BY <1>1, <2>2, StatusErrorEffect DEF StatusLost
  <2>3. ASSUME NEW says \in {"accepted", "rejected", "lost"}, SubmitAnswer(says)
        PROVE  client'.active \/ client'.state = "Error"
    <3>1. client' \in {CompleteSubmit(client, TRUE), RejectSubmit(client),
                       CompleteSubmit(client, FALSE)}
      BY <2>3 DEF SubmitAnswer
    <3>2. ASSUME NEW acknowledged \in BOOLEAN, client' = CompleteSubmit(client, acknowledged)
          PROVE  client'.active
      BY <1>1, <3>2, SubmitEffect
    <3>3. CASE client' = RejectSubmit(client)
      BY <1>1, <3>3, RejectEffect
    <3> QED BY <3>1, <3>2, <3>3
  <2>4. ASSUME NEW says \in {"Processing", "Complete", "Failed", "Missing", "lost"},
               PollAnswer(says)
        PROVE  client'.active \/ client'.state = "Error"
    <3>1. CASE says = "lost"
      BY <1>1, <2>4, <3>1, PollErrorEffect DEF PollAnswer
    <3>2. CASE says # "lost"
      BY <1>1, <2>4, <3>2, PollEffect DEF PollAnswer
    <3> QED BY <3>1, <3>2
  <2>5. ASSUME NEW whole \in BOOLEAN, DownloadAnswer(whole)
        PROVE  client'.active
    BY <1>1, <2>5, DownloadFailedEffect DEF DownloadAnswer
  <2> QED BY <1>8, <2>1, <2>2, <2>3, <2>4, <2>5 DEF AnyAnswer
<1> QED
  BY <1>2, <1>3, <1>4, <1>5, <1>6, <1>7, <1>8 DEF ClientNext, Device, Begin, WifiChanges

\* With the buffer empty a turn takes a press or keeps the request there is.
LEMMA TurnKeepsPress ==
  ASSUME ClientInv, NEW press \in (Ids \ drawn) \cup {None}, NEW decoded \in BOOLEAN,
         Turn(press, decoded), NEW id \in drawn'
  PROVE  KeepsPress(id)
<1> DEFINE c == Pressed(client, press)
           quiet == [c EXCEPT !.shutter = FALSE]
<1> SUFFICES ASSUME posts'[id] = 0, id \in drawn => client.active /\ client.request = id,
                    id \in drawn \/ jpeg = None
             PROVE  client'.active /\ client'.request = id
  BY DEF KeepsPress
<1>1. jpeg = None
  <2>1. CASE id \in drawn
    <3>1. posts[id] = 0
      BY DEF Turn
    <3> QED BY <2>1, <3>1 DEF ClientInv, Fetching, DeviceTypes, ClientTypeOK
  <2> QED BY <2>1
<1>2. client' = quiet /\ drawn' = IF c # client THEN drawn \cup {press} ELSE drawn
  BY <1>1 DEF Turn
<1>3. /\ c \in Client
      /\ c = client \/ (press \in Ids \ drawn /\ c.request = press /\ c.active)
  BY PressedEffect DEF ClientInv, DeviceTypes, ClientTypeOK
<1>4. id \in drawn => c = client
  BY DEF Pressed, PressAccepted
<1> HIDE DEF c
<1>5. quiet.active = c.active /\ quiet.request = c.request
  BY <1>3 DEF Client
<1> QED BY <1>2, <1>3, <1>4, <1>5

LEMMA StepKeepsPress ==
  ClientInv /\ [ClientNext]_cvars => \A id \in drawn' : KeepsPress(id)
<1> SUFFICES ASSUME ClientInv, [ClientNext]_cvars, NEW id \in drawn' PROVE KeepsPress(id)
  OBVIOUS
<1>1. CASE UNCHANGED cvars
  BY <1>1 DEF cvars, KeepsPress
<1>2. CASE ClientNext /\ ~PressTurn /\ ~IdleTurn
  <2>1. client'.request = client.request /\ drawn' = drawn
    BY <1>2, OtherStepsAreSilent
  <2> QED BY <1>2, <2>1, NoneLeavesSilently DEF KeepsPress
<1>3. CASE PressTurn \/ IdleTurn
  BY <1>3, TurnKeepsPress DEF PressTurn, IdleTurn
<1> QED BY <1>1, <1>2, <1>3

\* A press is not over before it was POSTed, unless an error is shown or it was
\* taken in the turn that completes an older photo.
THEOREM PressesArePosted == ClientSpec => PressIsPosted
<1>1. ClientInv /\ [ClientNext]_cvars => [\A id \in drawn' : KeepsPress(id)]_cvars
  BY StepKeepsPress
<1>2. ClientSpec => [][\A id \in drawn' : KeepsPress(id)]_cvars
  BY <1>1, ClientInvariance, PTL DEF ClientSpec
<1> QED BY <1>2, PTL DEF PressIsPosted, KeepsPress
-----------------------------------------------------------------------------
\* The device as a remote shutter.

\* What a turn does to the request, the tones and the screen.
LEMMA TurnSounds ==
  ASSUME ClientInv, NEW id \in (Ids \ drawn) \cup {None}, NEW decoded \in BOOLEAN, Turn(id, decoded)
  PROVE  /\ \/ /\ client'.request \in Ids \ drawn
               /\ drawn' = drawn \cup {client'.request} /\ UNCHANGED tones
            \/ /\ client'.request = client.request /\ UNCHANGED drawn
               /\ client.request \in drawn /\ tones[client.request] = 0
               /\ tones' = [tones EXCEPT ![client.request] = 1]
            \/ client'.request = client.request /\ UNCHANGED <<drawn, tones>>
         /\ \/ jpeg # None /\ jpeg = client.request /\ jpeg \in drawn /\ screen' = jpeg
            \/ UNCHANGED screen
<1> DEFINE c == Pressed(client, id)
           quiet == [c EXCEPT !.shutter = FALSE]
<1>1. /\ drawn' = IF c # client THEN drawn \cup {id} ELSE drawn
      /\ tones' = IF c.shutter THEN [tones EXCEPT ![c.request] = @ + 1] ELSE tones
      /\ client' \in {quiet, CompleteDownload(quiet, TRUE), CompleteDownload(quiet, FALSE)}
      /\ screen' \in {screen, jpeg} /\ (screen' # screen => jpeg # None)
  BY DEF Turn, DecodeAndStore
<1>2. \/ c = client
      \/ id \in Ids \ drawn /\ c # client /\ c \in Client /\ c.request = id /\ ~c.shutter
  BY PressedEffect
<1>3. c \in Client
  BY <1>2 DEF ClientInv, DeviceTypes, ClientTypeOK
<1>4. quiet \in Client /\ quiet.request = c.request
  BY <1>3 DEF Client
<1>5. client'.request = c.request
  <2> HIDE DEF quiet
  <2>1. CASE client' = quiet
    BY <1>4, <2>1
  <2>2. CASE client' = CompleteDownload(quiet, TRUE)
    BY <1>4, <2>2, DecodedEffect DEF Keeps
  <2>3. CASE client' = CompleteDownload(quiet, FALSE)
    BY <1>4, <2>3, DownloadFailedEffect DEF Keeps
  <2> QED BY <1>1, <2>1, <2>2, <2>3
<1>6. jpeg # None => jpeg = client.request /\ jpeg \in drawn
  BY DEF ClientInv, DeviceTypes, ClientTypeOK, Fetching, Posting
<1>7. client.shutter => client.request \in drawn /\ tones[client.request] = 0
  BY DEF ClientInv, DeviceTypes, ClientTypeOK, Posting, Sounding
<1> HIDE DEF c, quiet
<1>8. CASE c = client
  <2>1. tones' = IF client.shutter THEN [tones EXCEPT ![client.request] = 1] ELSE tones
    <3>1. tones' = IF client.shutter THEN [tones EXCEPT ![client.request] = @ + 1] ELSE tones
      BY <1>1, <1>8
    <3>2. client.shutter => tones[client.request] + 1 = 1
      BY <1>7
    <3> QED BY <3>1, <3>2
  <2> QED BY <1>1, <1>5, <1>6, <1>7, <1>8, <2>1
<1>9. CASE c # client
  BY <1>1, <1>2, <1>5, <1>6, <1>9
<1> QED BY <1>8, <1>9
-----------------------------------------------------------------------------
\* What a POST on its way, a job and an exposure say of each other.
Shutters ==
  /\ \A id \in Ids :
       /\ posts[id] = 0 => outcome[id] = "new" /\ shots[id] = 0
       /\ id \in wire => posts[id] > 0 /\ outcome[id] = "new" /\ shots[id] = 0
       /\ outcome[id] = "accepted" => shots[id] = exposures[id]
       /\ outcome[id] \in {"complete", "failed"} => shots[id] = 1
       /\ shots[id] <= 1
  /\ \A id \in AllIds : outcome[id] = "new" => exposures[id] = 0

\* The answer on its way is one to the request the worker waits for.
Answering ==
  inbox # None =>
    /\ worker.at = "wait"
    /\ worker.kind = "Status" =>
         inbox \in [ready : BOOLEAN, busy : BOOLEAN, instance : Instances]
    /\ worker.kind = "Submit" => inbox \in [says : {"accepted", "rejected"}]
    /\ worker.kind = "Poll" =>
         /\ inbox \in [says : {"Processing", "Complete", "Failed", "Missing"}]
         /\ inbox.says # "Missing" => posts[worker.id] > 0
    /\ worker.kind = "Download" =>
         /\ inbox \in [says : {"image", "noimage"}]
         /\ inbox.says = "image" => shots[worker.id] = 1

\* A listening process has an instance id.
Serving == listening => instance # None

\* A photo on the device, in the buffer or on the screen, was taken.
Photos == /\ jpeg # None => shots[jpeg] = 1
          /\ ScreenShowsOwnShot

\* The inductive invariant of the device and the camera.
CaptureInv == CaptureTypeOK /\ ClientInv /\ Serving /\ Shutters /\ Answering /\ Photos

USE DEF AllIds

LEMMA CaptureInitially == CaptureInit => CaptureInv
<1> SUFFICES ASSUME CaptureInit
             PROVE  CaptureInv
  OBVIOUS
<1>1. ClientInv
  BY ClientInitially DEF CaptureInit
<1>2. CaptureTypeOK
  BY <1>1, ClientConstants, CaptureConstants
     DEF CaptureInit, CaptureTypeOK, ClientInv, DeviceTypes, Service!SInit, Service!Outcomes
<1>3. Shutters /\ Serving /\ Answering /\ Photos
  BY ClientConstants DEF CaptureInit, ClientInit, Service!SInit, Shutters, Serving, Answering,
                         Photos, ScreenShowsOwnShot
<1> QED BY <1>1, <1>2, <1>3 DEF CaptureInv

\* An exchange under way is of a kind that can be answered.
LEMMA AnswerableKinds ==
  ASSUME ClientInv, worker.at = "wait"
  PROVE  worker.kind \in {"Status", "Submit", "Poll", "Download"}
BY DEF ClientInv, DeviceTypes, ClientTypeOK, Exchanges, WorkerState, WorkKinds

\* What the worker is told is an answer the device expects of any server.
LEMMA DeliveryIsAnAnswer ==
  ASSUME CaptureInv, Deliver
  PROVE  AnyAnswer
<1>1. inbox # None /\ Take(inbox)
  BY DEF Deliver
<1>2. worker.at = "wait" /\ ClientInv
  BY <1>1 DEF CaptureInv, Answering
<1>3. CASE worker.kind = "Status"
  <2>1. inbox \in [ready : BOOLEAN, busy : BOOLEAN, instance : Instances]
    BY <1>1, <1>3 DEF CaptureInv, Answering
  <2>2. "says" \notin DOMAIN inbox
    BY <2>1
  <2>3. StatusAnswer(inbox.ready, inbox.busy, inbox.instance)
    BY <1>1, <1>3, <2>2 DEF Take
  <2> QED BY <2>1, <2>3 DEF AnyAnswer
<1>4. CASE worker.kind = "Submit"
  <2>1. inbox \in [says : {"accepted", "rejected"}]
    BY <1>1, <1>4 DEF CaptureInv, Answering
  <2>2. SubmitAnswer(inbox.says)
    BY <1>1, <1>4, <2>1 DEF Take
  <2> QED BY <2>1, <2>2 DEF AnyAnswer
<1>5. CASE worker.kind = "Poll"
  <2>1. /\ inbox \in [says : {"Processing", "Complete", "Failed", "Missing"}]
        /\ inbox.says # "Missing" => posts[worker.id] > 0
    BY <1>1, <1>5 DEF CaptureInv, Answering
  <2>2. PollAnswer(inbox.says)
    BY <1>1, <1>5, <2>1 DEF Take
  <2> QED BY <2>1, <2>2 DEF AnyAnswer
<1>6. CASE worker.kind = "Download"
  <2>1. /\ inbox \in [says : {"image", "noimage"}]
        /\ inbox.says = "image" => shots[worker.id] = 1
    BY <1>1, <1>6 DEF CaptureInv, Answering
  <2>2. DownloadAnswer(inbox.says = "image")
    BY <1>1, <1>6 DEF Take
  <2>3. inbox.says = "image" => posts[worker.id] > 0
    <3>1. worker.id \in Ids
      BY <1>2, <1>6 DEF ClientInv, DeviceTypes, ClientTypeOK, Exchanges, Fetching
    <3> QED BY <2>1, <3>1 DEF CaptureInv, CaptureTypeOK, ClientTypeOK, Shutters
  <2> QED BY <2>2, <2>3 DEF AnyAnswer
<1> QED BY <1>2, <1>3, <1>4, <1>5, <1>6, AnswerableKinds

LEMMA GivingUpIsAnAnswer ==
  ASSUME CaptureInv, GiveUp
  PROVE  AnyAnswer
<1> DEFINE silence == [says |-> "transport"]
<1>1. Take(silence) /\ worker.at = "wait" /\ ClientInv
  BY DEF GiveUp, CaptureInv
<1>2. "says" \in DOMAIN silence /\ silence.says = "transport"
  OBVIOUS
<1> HIDE DEF silence
<1>3. CASE worker.kind = "Status"
  BY <1>1, <1>2, <1>3 DEF Take, AnyAnswer
<1>4. CASE worker.kind = "Submit"
  <2>1. SubmitAnswer("lost")
    BY <1>1, <1>2, <1>4 DEF Take
  <2> QED BY <2>1 DEF AnyAnswer
<1>5. CASE worker.kind = "Poll"
  <2>1. PollAnswer("lost")
    BY <1>1, <1>2, <1>5 DEF Take
  <2> QED BY <2>1 DEF AnyAnswer
<1>6. CASE worker.kind = "Download"
  <2>1. DownloadAnswer(FALSE)
    <3>1. (silence.says = "image") = FALSE
      BY <1>2
    <3>2. DownloadAnswer(silence.says = "image")
      BY <1>1, <1>6 DEF Take
    <3> QED BY <3>1, <3>2
  <2> QED BY <2>1 DEF AnyAnswer
<1> QED BY <1>1, <1>3, <1>4, <1>5, <1>6, AnswerableKinds

\* A step of the process leaves the device alone.
ProcessStep == \/ Handlers
               \/ CaptureWorker
               \/ Main
               \/ \E id \in OtherIds : OtherCapture(id)
               \/ \E id \in Ids : Evict(id)
               \/ Quit
               \/ Crash

LEMMA ProcessLeavesDevice == ProcessStep => UNCHANGED cvars
BY DEF ProcessStep, Handlers, ReceivePost, ServeGet, CaptureWorker, Expose, Settle, Main,
       CloseController, ReleaseCamera, Exit, Start, OtherCapture, Evict, Quit, Crash, Gone

LEMMA StepOfTheDevice == CaptureInv /\ [CaptureNext]_evars => [ClientNext]_cvars
<1> SUFFICES ASSUME CaptureInv, [CaptureNext]_evars
             PROVE  [ClientNext]_cvars
  OBVIOUS
<1>1. CASE DeviceAlone
  BY <1>1, CaptureConstants DEF DeviceAlone, Alone, WorkerTurn, UiTurn, UiPress, ClientNext,
                                Device, PressTurn, IdleTurn
<1>2. CASE DeviceFault
  BY <1>2 DEF DeviceFault, ClientNext, Device, IdleTurn
<1>3. CASE WifiReturns
  BY <1>3 DEF WifiReturns, ClientNext
<1>4. CASE Transmit
  BY <1>4 DEF Transmit, ClientNext, Device
<1>5. CASE Deliver
  BY <1>5, DeliveryIsAnAnswer DEF ClientNext
<1>6. CASE GiveUp
  BY <1>6, GivingUpIsAnAnswer DEF ClientNext
<1>7. CASE ProcessStep
  BY <1>7, ProcessLeavesDevice
<1>8. CASE UNCHANGED evars
  BY <1>8 DEF evars
<1> QED
  BY <1>1, <1>2, <1>3, <1>4, <1>5, <1>6, <1>7, <1>8 DEF CaptureNext, ProcessStep

\* A step that leaves the process and the network alone, and no POST behind.
LEMMA QuietStep ==
  ASSUME CaptureInv, ClientInv',
         UNCHANGED <<process, network, spent, shots, posts>>,
         faults' \in 0..MaxFaults,
         worker' = worker \/ worker.at # "wait",
         jpeg' \in {jpeg, None}, screen' \in {screen, jpeg}, drawn \subseteq drawn'
  PROVE  CaptureInv'
<1> USE DEF process, service, network
<1>1. inbox # None => worker' = worker
  BY DEF CaptureInv, Answering
<1>2. CaptureTypeOK'
  BY <1>1 DEF CaptureInv, CaptureTypeOK, ClientInv, DeviceTypes
<1>3. Serving' /\ Shutters'
  BY DEF CaptureInv, Serving, Shutters
<1>4. Answering'
  BY <1>1 DEF CaptureInv, Answering
<1>5. jpeg # None => jpeg \in drawn
  BY DEF CaptureInv, ClientInv, DeviceTypes, ClientTypeOK, Posting, Fetching
<1>6. Photos'
  BY <1>5 DEF CaptureInv, Photos, ScreenShowsOwnShot
<1> QED BY <1>2, <1>3, <1>4, <1>6 DEF CaptureInv

LEMMA DeviceKeepsCapture ==
  ASSUME CaptureInv, ClientInv', DeviceAlone \/ DeviceFault \/ WifiReturns
  PROVE  CaptureInv'
<1> USE DEF CaptureInv, CaptureTypeOK
<1>1. CASE DeviceAlone
  <2>1. UNCHANGED <<process, network, spent, shots, posts>> /\ faults' = faults
    BY <1>1 DEF DeviceAlone, Alone, WorkerTurn, UiTurn, UiPress, Watch, NextWork, ConnectWork,
                Turn, Elapse
  <2>2. worker' = worker \/ worker.at # "wait"
    BY <1>1 DEF DeviceAlone, Alone, WorkerTurn, UiTurn, UiPress, Watch, NextWork, ConnectWork,
                Turn, Elapse
  <2>3. jpeg' \in {jpeg, None} /\ screen' \in {screen, jpeg} /\ drawn \subseteq drawn'
    BY <1>1 DEF DeviceAlone, Alone, WorkerTurn, UiTurn, UiPress, Watch, NextWork, ConnectWork,
                Turn, Elapse, DecodeAndStore
  <2> QED BY <2>1, <2>2, <2>3, QuietStep
<1>2. CASE DeviceFault
  <2>1. UNCHANGED <<process, network, spent, shots, posts>>
    BY <1>2 DEF DeviceFault, Turn, BeginFails, WifiChanges
  <2>2. faults' \in 0..MaxFaults
    BY <1>2, CaptureConstants DEF DeviceFault, Fault
  <2>3. worker' = worker \/ worker.at # "wait"
    BY <1>2 DEF DeviceFault, Turn, BeginFails, WifiChanges
  <2>4. jpeg' \in {jpeg, None} /\ screen' \in {screen, jpeg} /\ drawn \subseteq drawn'
    BY <1>2 DEF DeviceFault, Turn, BeginFails, WifiChanges, DecodeAndStore
  <2> QED BY <2>1, <2>2, <2>3, <2>4, QuietStep
<1>3. CASE WifiReturns
  BY <1>3, QuietStep DEF WifiReturns, WifiChanges
<1> QED BY <1>1, <1>2, <1>3

\* The POST that leaves is the first of its request: no job has its UUID and no
\* exposure was made for it.
LEMMA TransmitKeepsCapture ==
  ASSUME CaptureInv, ClientInv', Transmit
  PROVE  CaptureInv'
<1> USE DEF process, service
<1>1. /\ worker.at = "begin" /\ inbox = None /\ inbox' = None
      /\ UNCHANGED <<client, jpeg, screen, drawn, process, spent, shots, faults>>
      /\ ClientTypeOK'
  BY DEF Transmit, Begin, CaptureInv, Answering, ClientInv, DeviceTypes
<1>2. CASE worker.kind = "Submit"
  <2>1. /\ worker.id \in Ids /\ posts[worker.id] = 0
        /\ posts' = [posts EXCEPT ![worker.id] = @ + 1]
        /\ wire' \in {wire, wire \cup {worker.id}}
        /\ posts \in [Ids -> Nat]
    BY <1>1, <1>2 DEF Transmit, Begin, CaptureInv, ClientInv, DeviceTypes, ClientTypeOK,
                      Exchanges, Posting
  <2>2. CaptureTypeOK'
    BY <1>1, <2>1 DEF CaptureInv, CaptureTypeOK
  <2>3. Shutters'
    BY <1>1, <2>1 DEF CaptureInv, Shutters
  <2>4. Serving' /\ Answering' /\ Photos'
    BY <1>1 DEF CaptureInv, Serving, Answering, Photos, ScreenShowsOwnShot
  <2> QED BY <2>2, <2>3, <2>4 DEF CaptureInv
<1>3. CASE worker.kind # "Submit"
  <2>1. UNCHANGED <<posts, wire>>
    BY <1>3 DEF Transmit, Begin
  <2> QED
    BY <1>1, <2>1 DEF CaptureInv, CaptureTypeOK, Shutters, Serving, Answering, Photos,
                      ScreenShowsOwnShot
<1> QED BY <1>2, <1>3

\* A photo enters the buffer only as the image of a capture that was taken.
LEMMA ExchangeKeepsCapture ==
  ASSUME CaptureInv, ClientInv', Deliver \/ GiveUp
  PROVE  CaptureInv'
<1> USE DEF process, service
<1>1. /\ worker.at = "wait" /\ inbox' = None
      /\ UNCHANGED <<process, wire, spent, shots>> /\ faults' \in 0..MaxFaults
      /\ ClientTypeOK'
  BY CaptureConstants DEF Deliver, GiveUp, Fault, CaptureInv, CaptureTypeOK, Answering,
                          ClientInv, DeviceTypes
<1>2. worker.kind \in {"Status", "Submit", "Poll", "Download"}
  BY <1>1, AnswerableKinds DEF CaptureInv
<1>3. UNCHANGED <<screen, drawn, posts>>
  BY <1>2 DEF Deliver, GiveUp, Take, StatusLost, StatusAnswer, SubmitAnswer, PollAnswer,
              DownloadAnswer, Answered
<1>4. jpeg' # jpeg => /\ worker.kind = "Download" /\ jpeg' = worker.id
                      /\ inbox # None /\ inbox.says = "image"
  BY <1>2 DEF Deliver, GiveUp, Take, StatusLost, StatusAnswer, SubmitAnswer, PollAnswer,
              DownloadAnswer, Answered
<1>5. jpeg' # jpeg => shots[jpeg'] = 1
  BY <1>4 DEF CaptureInv, Answering
<1>6. Photos'
  BY <1>1, <1>3, <1>5 DEF CaptureInv, Photos, ScreenShowsOwnShot
<1>7. CaptureTypeOK'
  BY <1>1 DEF CaptureInv, CaptureTypeOK
<1>8. Serving' /\ Shutters' /\ Answering'
  BY <1>1, <1>3 DEF CaptureInv, Serving, Shutters, Answering
<1> QED BY <1>6, <1>7, <1>8 DEF CaptureInv

LEMMA ReceivePostKeepsCapture ==
  ASSUME CaptureInv, ClientInv', NEW id \in Ids, ReceivePost(id)
  PROVE  CaptureInv'
<1>1. /\ id \in wire /\ wire' = wire \ {id}
      /\ UNCHANGED <<cvars, instance, listening, forgotten, spent, shots, faults, exposures, held, open>>
      /\ outcome' \in {outcome, [outcome EXCEPT ![id] = "accepted"]}
      /\ outcome' # outcome => outcome[id] = "new"
      /\ ClientTypeOK'
  BY DEF ReceivePost, service, Service!Accept, ClientInv, DeviceTypes
<1>2. PostSays(id) \in {"accepted", "rejected"}
  BY DEF PostSays, CaptureInv, CaptureTypeOK
<1>3. /\ inbox' = inbox
      \/ /\ inbox' \in [says : {"accepted", "rejected"}]
         /\ worker.at = "wait" /\ worker.kind = "Submit"
  BY <1>2 DEF ReceivePost, Expects
<1>4. CaptureTypeOK'
  BY <1>1, <1>3 DEF CaptureInv, CaptureTypeOK, Service!Outcomes, Answers, cvars
<1>5. Shutters'
  BY <1>1 DEF CaptureInv, CaptureTypeOK, Shutters, cvars
<1>6. Answering'
  BY <1>1, <1>3 DEF CaptureInv, Answering, cvars
<1>7. Serving' /\ Photos'
  BY <1>1 DEF CaptureInv, Serving, Photos, ScreenShowsOwnShot, cvars
<1> QED BY <1>4, <1>5, <1>6, <1>7 DEF CaptureInv

LEMMA ServeGetKeepsCapture ==
  ASSUME CaptureInv, ClientInv', ServeGet
  PROVE  CaptureInv'
<1>1. /\ UNCHANGED <<cvars, process, wire, spent, shots, faults>>
      /\ worker.at = "wait" /\ listening /\ ClientTypeOK'
  BY DEF ServeGet, Expects, ClientInv, DeviceTypes
<1> DEFINE id == worker.id
<1>2. CASE worker.kind = "Status"
  <2>1. inbox' = StatusNow
    BY <1>2 DEF ServeGet, Expects, Send
  <2>2. StatusNow \in [ready : BOOLEAN, busy : BOOLEAN, instance : Instances]
    BY <1>1 DEF StatusNow, CaptureInv, CaptureTypeOK, Serving
  <2> QED
    BY <1>1, <1>2, <2>1, <2>2 DEF CaptureInv, CaptureTypeOK, Answers, Shutters, Serving, Answering,
       Photos, ScreenShowsOwnShot, cvars, process, service
<1>3. CASE worker.kind = "Poll"
  <2>1. inbox' = [says |-> JobSays(id)] /\ id \in Ids
    BY <1>3 DEF ServeGet, Expects, Send, CaptureInv, ClientInv, DeviceTypes, ClientTypeOK,
                Exchanges, Polling
  <2>2. /\ JobSays(id) \in {"Processing", "Complete", "Failed", "Missing"}
        /\ JobSays(id) # "Missing" => outcome[id] # "new"
    BY <2>1 DEF JobSays, CaptureInv, CaptureTypeOK, Service!Outcomes
  <2>3. JobSays(id) # "Missing" => posts[id] > 0
    BY <2>1, <2>2 DEF CaptureInv, CaptureTypeOK, ClientTypeOK, Shutters
  <2>4. inbox' \in [says : {"Processing", "Complete", "Failed", "Missing"}] /\ inbox'.says = JobSays(id)
    BY <2>1, <2>2
  <2> QED
    BY <1>1, <1>3, <2>3, <2>4 DEF CaptureInv, CaptureTypeOK, Answers, Shutters, Serving, Answering,
       Photos, ScreenShowsOwnShot, cvars, process, service
<1>4. CASE worker.kind = "Download"
  <2>1. inbox' = [says |-> ImageSays(id)] /\ id \in Ids
    BY <1>4 DEF ServeGet, Expects, Send, CaptureInv, ClientInv, DeviceTypes, ClientTypeOK,
                Exchanges, Fetching
  <2>2. ImageSays(id) = "image" => outcome[id] = "complete"
    BY <2>1 DEF ImageSays, JobSays, CaptureInv, CaptureTypeOK, Service!Outcomes
  <2>3. ImageSays(id) = "image" => shots[id] = 1
    BY <2>1, <2>2 DEF CaptureInv, Shutters
  <2>4. inbox' \in [says : {"image", "noimage"}] /\ inbox'.says = ImageSays(id)
    BY <2>1 DEF ImageSays
  <2> QED
    BY <1>1, <1>4, <2>3, <2>4 DEF CaptureInv, CaptureTypeOK, Answers, Shutters, Serving, Answering,
       Photos, ScreenShowsOwnShot, cvars, process, service
<1> QED BY <1>2, <1>3, <1>4 DEF ServeGet, Expects

\* The one step that fires the shutter finds a job of this process, which has
\* not been exposed; so it was exposed in no earlier process either.
LEMMA ExposeKeepsCapture ==
  ASSUME CaptureInv, ClientInv', NEW id \in AllIds, Expose(id)
  PROVE  CaptureInv'
<1>1. /\ UNCHANGED <<cvars, instance, listening, forgotten, network, spent, faults, outcome, open, held>>
      /\ outcome[id] = "accepted" /\ exposures[id] = 0
      /\ exposures' = [exposures EXCEPT ![id] = 1]
      /\ shots' = IF id \in Ids THEN [shots EXCEPT ![id] = @ + 1] ELSE shots
      /\ ClientTypeOK'
  BY DEF Expose, Service!Expose, ClientInv, DeviceTypes
<1>2. id \in Ids => shots[id] = 0
  BY <1>1 DEF CaptureInv, CaptureTypeOK, Shutters
<1>3. CaptureTypeOK'
  BY <1>1 DEF CaptureInv, CaptureTypeOK, network, cvars
<1>4. Shutters'
  BY <1>1, <1>2 DEF CaptureInv, CaptureTypeOK, Shutters, network, cvars
<1>5. \A other \in Ids : shots[other] = 1 => shots'[other] = 1
  BY <1>1, <1>2 DEF CaptureInv, CaptureTypeOK
<1>6. /\ jpeg # None => jpeg \in Ids
      /\ screen # None => screen \in Ids
      /\ worker.kind = "Download" => worker.id \in Ids
  BY DEF CaptureInv, ClientInv, DeviceTypes, ClientTypeOK, Exchanges, Fetching
<1>7. Answering'
  BY <1>1, <1>5, <1>6 DEF CaptureInv, Answering, network, cvars
<1>8. Serving' /\ Photos'
  BY <1>1, <1>5, <1>6 DEF CaptureInv, Serving, Photos, ScreenShowsOwnShot, cvars
<1> QED BY <1>3, <1>4, <1>7, <1>8 DEF CaptureInv

\* The other steps of the service: no shot is fired, and no request of the device
\* gets or loses a job.
LEMMA ServiceKeepsCapture ==
  ASSUME CaptureInv, ClientInv',
         \/ \E id \in AllIds, how \in {"complete", "failed"} : Settle(id, how)
         \/ \E id \in OtherIds : OtherCapture(id)
         \/ CloseController
         \/ ReleaseCamera
  PROVE  CaptureInv'
<1>1. /\ UNCHANGED <<cvars, instance, listening, forgotten, network, spent, shots, faults, exposures>>
      /\ open' \in {open, FALSE} /\ held' \in {held, FALSE}
      /\ ClientTypeOK'
  BY DEF Settle, OtherCapture, CloseController, ReleaseCamera, Service!Settle, Service!Accept,
         Service!Shutdown, Service!Release, ClientInv, DeviceTypes
<1>2. /\ outcome' \in [AllIds -> Service!Outcomes]
      /\ \A id \in AllIds : outcome'[id] = "new" => outcome[id] = "new"
      /\ \A id \in Ids : \/ outcome'[id] = outcome[id]
                         \/ /\ outcome[id] = "accepted" /\ exposures[id] = 1
                            /\ outcome'[id] \in {"complete", "failed"}
  BY CaptureConstants DEF Settle, OtherCapture, CloseController, ReleaseCamera, Service!Settle,
     Service!Accept,
     Service!Shutdown, Service!Release, Service!Outcomes, CaptureInv, CaptureTypeOK
<1>3. CaptureTypeOK'
  BY <1>1, <1>2 DEF CaptureInv, CaptureTypeOK, network, cvars
<1>4. Shutters'
  BY <1>1, <1>2 DEF CaptureInv, CaptureTypeOK, Shutters, network, cvars
<1>5. Serving' /\ Answering' /\ Photos'
  BY <1>1 DEF CaptureInv, Serving, Answering, Photos, ScreenShowsOwnShot, network, cvars
<1> QED BY <1>3, <1>4, <1>5 DEF CaptureInv

\* The process ends, begins, stops listening or forgets a job.
LEMMA LifeKeepsCapture ==
  ASSUME CaptureInv, ClientInv',
         Exit \/ Crash \/ Start \/ Quit \/ \E id \in Ids : Evict(id)
  PROVE  CaptureInv'
<1> USE DEF CaptureInv
<1>1. UNCHANGED <<cvars, shots>> /\ ClientTypeOK' /\ faults' \in 0..MaxFaults
  BY CaptureConstants DEF Exit, Crash, Gone, Start, Quit, Evict, Fault, CaptureTypeOK,
     ClientInv, DeviceTypes
<1>2. CASE Exit \/ Crash
  <2>1. /\ instance # None /\ instance' = None /\ listening' = FALSE
        /\ wire' = {} /\ inbox' = None /\ spent' = spent \cup {instance} /\ forgotten' = {}
        /\ outcome' = [id \in AllIds |-> "new"] /\ exposures' = [id \in AllIds |-> 0]
        /\ open' = TRUE /\ held' = TRUE
    BY <1>2 DEF Exit, Crash, Gone
  <2>2. outcome' \in [AllIds -> Service!Outcomes] /\ exposures' \in [AllIds -> 0..1]
    BY <2>1 DEF Service!Outcomes
  <2>3. spent' \subseteq Instances /\ instance' \notin spent'
    BY <2>1, ClientConstants DEF CaptureTypeOK
  <2>4. /\ instance' \in Instances \cup {None} /\ open' \in BOOLEAN /\ held' \in BOOLEAN
        /\ listening' \in BOOLEAN /\ shots' \in [Ids -> Nat]
        /\ inbox' \in {None} \cup Answers /\ wire' \subseteq Ids
    BY <1>1, <2>1 DEF CaptureTypeOK
  <2>5. forgotten' \subseteq {id \in Ids : outcome'[id] \in {"complete", "failed"}}
    BY <2>1
  <2>6. CaptureTypeOK'
    BY <1>1, <2>1, <2>2, <2>3, <2>4, <2>5 DEF CaptureTypeOK
  <2>7. Shutters'
    BY <1>1, <2>1 DEF CaptureTypeOK, Shutters, cvars
  <2>8. Serving' /\ Answering' /\ Photos'
    BY <1>1, <2>1 DEF Serving, Answering, Photos, ScreenShowsOwnShot, cvars
  <2> QED BY <2>6, <2>7, <2>8
<1>3. CASE Start
  <2>1. /\ UNCHANGED <<service, forgotten, network, spent>>
        /\ instance' \in Instances \ spent /\ listening' = TRUE
    BY <1>3 DEF Start
  <2> QED
    BY <1>1, <2>1, ClientConstants
       DEF CaptureTypeOK, Shutters, Serving, Answering, Photos, ScreenShowsOwnShot, cvars,
           service, network
<1>4. CASE Quit
  <2>1. UNCHANGED <<service, instance, forgotten, network, spent>> /\ listening' = FALSE
    BY <1>4 DEF Quit
  <2> QED
    BY <1>1, <2>1 DEF CaptureTypeOK, Shutters, Serving, Answering, Photos, ScreenShowsOwnShot,
       cvars,
           service, network
<1>5. ASSUME NEW id \in Ids, Evict(id)
      PROVE  CaptureInv'
  <2>1. /\ UNCHANGED <<service, instance, listening, network, spent>>
        /\ outcome[id] \in {"complete", "failed"} /\ forgotten' = forgotten \cup {id}
    BY <1>5 DEF Evict
  <2> QED
    BY <1>1, <2>1 DEF CaptureTypeOK, Shutters, Serving, Answering, Photos, ScreenShowsOwnShot,
       cvars,
           service, network
<1> QED BY <1>2, <1>3, <1>4, <1>5

LEMMA CaptureStep == CaptureInv /\ [CaptureNext]_evars => CaptureInv'
<1> SUFFICES ASSUME CaptureInv, [CaptureNext]_evars
             PROVE  CaptureInv'
  OBVIOUS
<1>1. ClientInv'
  BY StepOfTheDevice, ClientStep DEF CaptureInv
<1>2. CASE DeviceAlone \/ DeviceFault \/ WifiReturns
  BY <1>1, <1>2, DeviceKeepsCapture
<1>3. CASE Transmit
  BY <1>1, <1>3, TransmitKeepsCapture
<1>4. CASE Deliver \/ GiveUp
  BY <1>1, <1>4, ExchangeKeepsCapture
<1>5. CASE Handlers
  BY <1>1, <1>5, ReceivePostKeepsCapture, ServeGetKeepsCapture DEF Handlers
<1>6. CASE CaptureWorker
  BY <1>1, <1>6, ExposeKeepsCapture, ServiceKeepsCapture DEF CaptureWorker
<1>7. CASE Main \/ \E id \in OtherIds : OtherCapture(id)
  BY <1>1, <1>7, ServiceKeepsCapture, LifeKeepsCapture DEF Main
<1>8. CASE Quit \/ Crash \/ \E id \in Ids : Evict(id)
  BY <1>1, <1>8, LifeKeepsCapture
<1>9. CASE UNCHANGED evars
  BY <1>1, <1>9, QuietStep DEF evars, cvars, CaptureInv, CaptureTypeOK
<1> QED BY <1>2, <1>3, <1>4, <1>5, <1>6, <1>7, <1>8, <1>9 DEF CaptureNext

\* The device, the process and the network keep to their invariant through
\* faults, crashes and restarts.
THEOREM CaptureInvariance == CaptureSpec => []CaptureInv
BY CaptureInitially, CaptureStep, PTL DEF CaptureSpec

\* Every variable of the composition keeps its type; a settled job alone is
\* evicted, and no process runs under a spent instance id.
THEOREM CaptureTypeCorrect == CaptureSpec => []CaptureTypeOK
<1>1. CaptureInv => CaptureTypeOK
  BY DEF CaptureInv
<1> QED BY <1>1, CaptureInvariance, PTL

\* The device of the composition behaves as CaptureClient does under any server:
\* whatever the process and the network do, it is told only what AnyAnswer allows.
\* What is proved of the device therefore holds here.
THEOREM DeviceRunsClient == CaptureSpec => ClientSpec
<1>1. CaptureInit => ClientInit
  BY DEF CaptureInit
<1> QED BY <1>1, StepOfTheDevice, CaptureInvariance, PTL DEF CaptureSpec, ClientSpec

\* One press, one exposure: across lost answers, repeated requests, crashes and
\* restarts of the process, no UUID fires the shutter twice, and none fires it
\* whose POST did not leave the device.
THEOREM OneShot == CaptureSpec => []OneShotPerPress
<1>1. CaptureInv => OneShotPerPress
  BY DEF CaptureInv, CaptureTypeOK, ClientTypeOK, ClientInv, Posting, Shutters, OneShotPerPress
<1> QED BY <1>1, CaptureInvariance, PTL

\* The photo on the screen is one that the camera took for a press of this
\* device.
THEOREM ScreenShowsIt == CaptureSpec => []ScreenShowsOwnShot
<1>1. CaptureInv => ScreenShowsOwnShot
  BY DEF CaptureInv, Photos
<1> QED BY <1>1, CaptureInvariance, PTL

\* A step of the camera is an exposure for a press that had none, or leaves the
\* shots alone; every other one is a turn of the device, or silent.
LEMMA ShutterStep == CaptureInv /\ [CaptureNext]_evars => [Shutter!HNext]_(Shutter!hvars)
<1> SUFFICES ASSUME CaptureInv, [CaptureNext]_evars
             PROVE  [Shutter!HNext]_(Shutter!hvars)
  OBVIOUS
<1> USE DEF Shutter!hvars
<1>1. ASSUME NEW id \in AllIds, Expose(id) PROVE [Shutter!HNext]_(Shutter!hvars)
  <2>1. UNCHANGED <<drawn, client, tones, screen>>
    BY <1>1 DEF Expose, cvars
  <2>2. CASE id \in Ids
    <3>1. outcome[id] = "accepted" /\ exposures[id] = 0 /\ shots' = [shots EXCEPT ![id] = @ + 1]
      BY <1>1, <2>2 DEF Expose, Service!Expose
    <3>2. shots[id] = 0
      BY <2>2, <3>1 DEF CaptureInv, Shutters
    <3>3. posts[id] \in Nat /\ posts[id] # 0
      BY <2>2, <3>1 DEF CaptureInv, CaptureTypeOK, ClientTypeOK, Shutters
    <3>4. id \in drawn
      BY <2>2, <3>3 DEF CaptureInv, ClientInv, Posting
    <3>5. shots' = [shots EXCEPT ![id] = 1]
      BY <3>1, <3>2
    <3> QED BY <2>1, <2>2, <3>2, <3>4, <3>5 DEF Shutter!HNext, Shutter!Shoot
  <2>3. CASE id \notin Ids
    BY <1>1, <2>1, <2>3 DEF Expose
  <2> QED BY <2>2, <2>3
<1>2. CASE UNCHANGED shots
  <2>1. [ClientNext]_cvars
    BY StepOfTheDevice
  <2>2. CASE PressTurn \/ IdleTurn
    <3>1. PICK id \in (Ids \ drawn) \cup {None}, decoded \in BOOLEAN : Turn(id, decoded)
      BY <2>2 DEF PressTurn, IdleTurn
    <3>2. /\ \/ /\ client'.request \in Ids \ drawn
                /\ drawn' = drawn \cup {client'.request} /\ UNCHANGED tones
             \/ /\ client'.request = client.request /\ UNCHANGED drawn
                /\ client.request \in drawn /\ tones[client.request] = 0
                /\ tones' = [tones EXCEPT ![client.request] = 1]
             \/ client'.request = client.request /\ UNCHANGED <<drawn, tones>>
          /\ \/ jpeg # None /\ jpeg = client.request /\ jpeg \in drawn /\ screen' = jpeg
             \/ UNCHANGED screen
      BY <3>1, TurnSounds DEF CaptureInv
    <3>3. Shutter!Show \/ UNCHANGED screen
      BY <3>2 DEF CaptureInv, Photos, Shutter!Show
    <3>4. \/ (\E press \in Ids : Shutter!Press(press)) /\ UNCHANGED tones
          \/ Shutter!Sound /\ UNCHANGED <<drawn, client.request>>
          \/ UNCHANGED <<drawn, client.request, tones>>
      BY <3>2 DEF Shutter!Press, Shutter!Sound
    <3> QED BY <1>2, <3>3, <3>4 DEF Shutter!HNext, Shutter!Turn
  <2>3. CASE ~PressTurn /\ ~IdleTurn
    BY <1>2, <2>1, <2>3, OtherStepsAreSilent DEF CaptureInv, cvars
  <2> QED BY <2>2, <2>3
<1>3. UNCHANGED shots \/ \E id \in AllIds : Expose(id)
  BY DEF CaptureNext, evars, DeviceAlone, Alone, DeviceFault, WifiReturns, Transmit, Deliver,
         GiveUp, Handlers, ReceivePost, ServeGet, CaptureWorker, Settle, Main, CloseController,
         ReleaseCamera, Exit, Start, Gone, OtherCapture, Evict, Quit, Crash
<1> QED BY <1>1, <1>2, <1>3

\* Device, network, processes and their crashes together implement RemoteShutter:
\* a press takes at most one photo, sounds at most once, while it is the latest,
\* and the screen takes up only a photo of the latest press that was taken.
THEOREM CaptureIsAShutter == CaptureSpec => ImplementsShutter
<1>1. CaptureInit => Shutter!HInit
  BY DEF CaptureInit, ClientInit, NewClient, Shutter!HInit
<1>2. CaptureInv /\ [CaptureNext]_evars => [Shutter!HNext]_(Shutter!hvars)
  BY ShutterStep
<1> QED
  BY <1>1, <1>2, CaptureInvariance, PTL DEF CaptureSpec, ImplementsShutter, Shutter!HSpec
=============================================================================
