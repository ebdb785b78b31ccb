---------------------------- MODULE RemoteServer ----------------------------
(***************************************************************************)
(* pifilm/capture/remote.py on top of the capture controller: handler      *)
(* threads that answer POST /v1/captures, GET /v1/captures/ID, its image   *)
(* and GET /v1/status, and the bounded registry of the captures this       *)
(* process accepted over HTTP.  The terminal and the window submit to the  *)
(* same controller under ids of their own.                                 *)
(*                                                                         *)
(* A POST holds the registry's lock across its trim, its lookups, submit() *)
(* and the second trim.  It is one action: of what it reads, only the      *)
(* activity of the controller can change meanwhile, and submit() reads     *)
(* that once; and trims that see the worker finish midway evict what a     *)
(* trim before or after that moment would.  A GET looks its id up under    *)
(* the lock and reads the job, then the photo, after letting go of it.     *)
(***************************************************************************)
EXTENDS CaptureController, FiniteSets

CONSTANTS
  LocalIds,       \* ids drawn by the terminal and window loops (uuid4)
  Handlers,       \* handler threads
  MaxConnections, \* MAX_CONNECTIONS: slots of the server's semaphore
  MaxJobs         \* MAX_JOBS: captures the registry remembers

ASSUME RemoteConstants == /\ LocalIds \subseteq Ids
                          /\ MaxConnections \in Nat \ {0}
                          /\ MaxJobs \in Nat \ {0}

VARIABLES
  listed,     \* RemoteCaptureServer._jobs: under each id, those registered before it
  listening,  \* the accept loop runs
  handler,    \* what each handler thread is doing
  promised    \* history: ids whose POST was answered with an accepted job

rvars == <<listed, listening, handler, promised>>
allvars == <<vars, rvars>>

Idle == [at |-> "idle"]
Request == [at : {"request"}]
\* A GET between its lookup and its read of the job; "kept" is TRUE if the id
\* was promised to the client before the GET came in.
Lookup == [at : {"found", "missing"}, what : {"job", "image"}, id : Ids, kept : BOOLEAN]
Photo == [at : {"photo"}, id : Ids]
PostReplies == {"accepted", "closed", "busy", "expired", "refused"}
              \cup JobState
GetReplies == {"unknown", "image", "notcomplete", "invalid", "status"} \cup JobState
Reply == [at : {"reply"}, what : {"post", "job", "image", "status"},
          id : Ids \cup {None}, kept : BOOLEAN, says : PostReplies \cup GetReplies]

\* The registry is bounded by MAX_JOBS, up to the entries that may not be
\* evicted: the unfinished one, and ids refused with "closed", which have no
\* job at all.
RegistryBounded ==
  Cardinality({id \in DOMAIN listed : jobs[id] \in Terminal}) <= MaxJobs

\* What is registered under each id puts the ids in a row.
InOrder(list) ==
  /\ \A id \in DOMAIN list : list[id] \subseteq DOMAIN list \ {id}
  /\ \A id, other \in DOMAIN list : id = other \/ id \in list[other] \/ other \in list[id]
  /\ \A id \in DOMAIN list : \A earlier \in list[id] : list[earlier] \subseteq list[id]

\* The types; the registry is in the order of registration, and it is bounded.
RemoteTypeOK == /\ TypeOK
                /\ DOMAIN listed \subseteq Ids /\ IsFiniteSet(DOMAIN listed)
                /\ listed \in [DOMAIN listed -> SUBSET Ids]
                /\ InOrder(listed)
                /\ RegistryBounded
                /\ listening \in BOOLEAN
                /\ handler \in [Handlers -> {Idle} \cup Request \cup Lookup
                                            \cup Photo \cup Reply]
                /\ promised \subseteq Ids

RemoteInit == /\ Init
              /\ listed = [id \in {} |-> {}]
              /\ listening = TRUE
              /\ handler = [h \in Handlers |-> Idle]
              /\ promised = {}

Become(h, what) == handler' = [handler EXCEPT ![h] = what]
Answer(h, what, id, kept, says) ==
  Become(h, [at |-> "reply", what |-> what, id |-> id, kept |-> kept, says |-> says])
-----------------------------------------------------------------------------
\* The registry without some of its ids.
Without(list, gone) == [id \in DOMAIN list \ gone |-> list[id] \ gone]

Surplus(list) == Cardinality(DOMAIN list) - MaxJobs

\* A trim that forgets to spare unfinished jobs.
TrimOldest(list, state) ==
  Without(list, {id \in DOMAIN list : Cardinality(list[id]) < Surplus(list)})

\* _trim_jobs_locked: while the registry is too long, forget its oldest settled
\* job; unfinished jobs, and ids the controller does not know, stay.
Trim(list, state) ==
  LET settled(ids) == {id \in ids : state[id] \in Terminal}
      evicted == {id \in settled(DOMAIN list) :
                    Cardinality(settled(list[id])) < Surplus(list)}
  IN  Without(list, evicted)

\* process_request: a connection beyond the last slot is closed at once.
Connect(h) ==
  /\ listening
  /\ handler[h] = Idle
  /\ Cardinality({g \in Handlers : handler[g] # Idle}) < MaxConnections
  /\ Become(h, [at |-> "request"])
  /\ UNCHANGED <<vars, listed, listening, promised>>

\* Wrong token, path, length or body, a body that never comes (the socket's
\* timeout), an id that is no UUID: answered, or dropped, without touching
\* registry or controller.
Refuse(h) ==
  /\ handler[h].at = "request"
  /\ Answer(h, "post", None, FALSE, "refused")
  /\ UNCHANGED <<vars, listed, listening, promised>>

\* The ids a client can name: its own, and those /v1/status told it about.
Nameable(id) == id \in LocalIds => jobs[id] # "absent"

\* The same without the test.
NeverExpired(id) == FALSE

\* A POST for an id the controller knows but the registry does not: answered
\* 404, so that an expired or a local capture is not taken up.
Expired(id) == id \notin DOMAIN Trim(listed, jobs) /\ jobs[id] # "absent"

Register(list, id) ==
  [known \in DOMAIN list \cup {id} |-> IF known = id THEN DOMAIN list ELSE list[known]]

\* The registration, trimmed by the next request only.
ListUntrimmed(list, id, says, state) ==
  IF says = "busy" \/ id \in DOMAIN list THEN list ELSE Register(list, id)

\* What a POST that was not turned away adds to the (trimmed) registry.
List(list, id, says, state) ==
  IF says = "busy" \/ id \in DOMAIN list THEN list ELSE Trim(Register(list, id), state)

\* _post, inside "with self._lock".
Post(h, id) ==
  LET trimmed == Trim(listed, jobs)
      says == SubmitReply(id)
  IN  /\ handler[h].at = "request"
      /\ Nameable(id)
      /\ \/ /\ Expired(id)
            /\ listed' = trimmed
            /\ Answer(h, "post", id, id \in promised, "expired")
            /\ UNCHANGED <<vars, promised>>
         \/ /\ ~Expired(id)
            /\ IF says = "accepted" THEN Submit(id) ELSE UNCHANGED vars
            /\ listed' = List(trimmed, id, says, jobs')
            /\ promised' = IF says = "accepted" THEN promised \cup {id} ELSE promised
            /\ Answer(h, "post", id, id \in promised, says)
      /\ UNCHANGED listening

\* _job, inside the lock: trim and look the id up.
Look(h, what, id) ==
  LET trimmed == Trim(listed, jobs)
  IN  /\ handler[h].at = "request"
      /\ Nameable(id)
      /\ listed' = trimmed
      /\ Become(h, [at |-> IF id \in DOMAIN trimmed THEN "found" ELSE "missing",
                    what |-> what, id |-> id, kept |-> id \in promised])
      /\ UNCHANGED <<vars, listening, promised>>

\* The rest of _get and _image, up to opening the photo: the controller is
\* asked for the job after the registry's lock is gone.
Read(h) ==
  LET get == handler[h]
      state == jobs[get.id]
      says == CASE get.at = "missing" \/ state = "absent" -> "unknown"
                [] get.what = "job"                       -> state
                [] OTHER                                  -> "notcomplete"
  IN  /\ get.at \in {"found", "missing"}
      /\ IF get.at = "found" /\ get.what = "image" /\ state = "complete"
         THEN Become(h, [at |-> "photo", id |-> get.id])
         ELSE Answer(h, get.what, get.id, get.kept, says)
      /\ UNCHANGED <<vars, listed, listening, promised>>

\* fitted_jpeg: qualities are tried from 90 downwards, until the picture is
\* small enough for the Stick; fitting are those that are (not necessarily the
\* low ones).
Qualities == {90, 55, 20}
FittedJpeg(readable, fitting) == IF readable /\ fitting # {} THEN "image" ELSE "invalid"

\* _image: the graded file is read as it is by now.
Render(h) ==
  /\ handler[h].at = "photo"
  /\ \E readable \in BOOLEAN, fitting \in SUBSET Qualities :
       Answer(h, "image", handler[h].id, FALSE, FittedJpeg(readable, fitting))
  /\ UNCHANGED <<vars, listed, listening, promised>>

\* GET /v1/status: one controller snapshot.
Status(h) ==
  /\ handler[h].at = "request"
  /\ Answer(h, "status", activeRequestId, FALSE, "status")
  /\ UNCHANGED <<vars, listed, listening, promised>>

\* The answer is written, or the client is gone; the slot is released.
Respond(h) ==
  /\ handler[h].at = "reply"
  /\ Become(h, Idle)
  /\ UNCHANGED <<vars, listed, listening, promised>>

\* RemoteCaptureServer.close: no new connections; handler threads live on.
StopListening ==
  /\ listening
  /\ listening' = FALSE
  /\ UNCHANGED <<vars, listed, handler, promised>>

\* The terminal or the window presses the shutter under a fresh id.
LocalSubmit(id) == id \in LocalIds /\ Submit(id) /\ UNCHANGED rvars

\* main's finally clause closes the listener before the controller.
MainClose == ~listening /\ Close /\ UNCHANGED rvars

Controller == (CloseReturn \/ Worker \/ Exited) /\ UNCHANGED rvars

HandlerStep(h) == \/ Connect(h)
                  \/ Refuse(h)
                  \/ \E id \in Ids : Post(h, id)
                  \/ \E id \in Ids, what \in {"job", "image"} : Look(h, what, id)
                  \/ Read(h)
                  \/ Render(h)
                  \/ Status(h)
                  \/ Respond(h)

RemoteNext == \/ \E h \in Handlers : HandlerStep(h)
              \/ \E id \in LocalIds : LocalSubmit(id)
              \/ StopListening
              \/ MainClose
              \/ Controller

RemoteSpec == RemoteInit /\ [][RemoteNext]_allvars
-----------------------------------------------------------------------------
\* A client that was promised a capture can ask for it until it has been
\* settled: no GET that came in after the promise is answered "unknown" while
\* the job is queued or processing, whatever was evicted meanwhile.
PromiseIsAnswered ==
  \A h \in Handlers :
     LET r == handler[h]
     IN  r.at = "reply" /\ r.says \in {"unknown", "expired"} /\ r.kept
           => jobs[r.id] \in Terminal

\* A photo is served for a complete job only, and for one a client submitted,
\* not one the terminal or the window took.
PhotoOfOwnCapture ==
  \A h \in Handlers :
     LET r == handler[h]
     IN  r.at = "reply" /\ r.says = "image"
           => jobs[r.id] = "complete" /\ r.id \in promised \ LocalIds
=============================================================================
