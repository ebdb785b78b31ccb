# A formal model of the pifilm camera

A StickS3 remote presses the shutter of a Raspberry Pi camera over HTTP; the Pi
captures, grades and saves one photo at a time and serves a thumbnail back. The
look it grades with is trained on another machine from downloaded references.
This directory holds TLA+ modules of the parts of that system that have state, TLC
configurations that check them on small instances, and TLAPS proofs of what
matters most for every instance. File names below are relative to the
repository's `src/` (`firmware/` is `firmware/sticks3/`).

    tlc -workers 2 -config MCRemoteServer.cfg MCRemoteServer.tla
    tlapm CaptureController_proofs.tla

## 1. The system

| part | code | state it keeps | operations | who talks to it |
|---|---|---|---|---|
| capture controller | `pifilm/capture/controller.py` | jobs by id, active id, last completed job, closed flag, work queue, one worker thread | submit, status, snapshot, close; the worker: get, set_processing, capture, finish, close camera | HTTP handlers, window loop, terminal loop, `main` |
| remote server | `pifilm/capture/remote.py` | ordered registry of at most 100 ids, 8 connection slots, instance id | POST capture, GET job, GET image, GET status, close | the device, over HTTP; calls the controller |
| capture client | `firmware/src/capture_client.cpp`, `.h` | UI state, request id, seven flags of work in flight, five deadlines, instance id | press, tick, nextWork, ten completion methods | the two tasks of `main.cpp`, under one mutex |
| device tasks | `firmware/src/main.cpp`, `display.cpp` | JPEG buffer with its ready flag, stored photo | networkWorker (Core 0), loop (UI) | Wi-Fi, the server |
| capture session | `pifilm/capture/app.py:96-176` | the day's directory, captures.jsonl | allocate a name, capture (up to four writes), preview | the controller's worker |
| capture program | `app.py:192-438, 529-746` | mode, tracked and displayed request | main, window loop, terminal loop | controller, session, server, power monitor |
| cameras | `camera.py`, `picamera.py` | raw/decoded mode; libcamera object and borrowed requests | open, read, close | the session |
| power monitor | `power.py` | last reading and its time, closed event | poll, snapshot, close | status handler, `main` |
| battery monitor | `firmware/src/battery_status.cpp` | average, shown level, charge state, streak | pollDue, update | both device tasks |
| batch regrading | `batch.py` | an output folder | select, skip, save | the shell |
| artifact store | `artifacts.py` | the directory of the look | write, publish, load | trainer, capture, experiments |
| corpus fetch, training | `train/fetch.py`, `dataset.py`, `fit.py` | image folder, manifest, staging | list, repair, download; split, read, fit, publish | the shell |
| experiments | `experiments/*.py`, `scripts/prepare_refinement.py` | four output directories | freeze, prepare, train, evaluate | the shell |
| scripts | `scripts/*.py`, `firmware/scripts` | none of their own | restart the service, sync, hotspot | systemd, rclone, nmcli |
| image pipeline, numerics | `pipeline.py`, `normalize.py`, `lut.py`, `train/lutfit.py`, ... | none | numeric functions | session, trainer |

What is hard in it:

* **Concurrency.** Handler threads, a window loop and a terminal loop share one
  controller; the device's UI and network tasks share one client object and a
  buffer that the mutex does not cover.
* **Ambiguous delivery.** A POST whose answer is lost may have exposed the
  camera, may yet do so, or may never have arrived. The device resolves it by
  polling the same id, never by sending it again.
* **Restarts.** The registry and the jobs live in memory; the device tells a new
  process by its `instance_id`.
* **Bounds.** The registry forgets settled jobs, the connection slots run out,
  the device's clock wraps.
* **Shutdown.** The listener closes, then the controller drains, then its worker
  releases the camera; handler threads live on meanwhile.
* **Half-done work.** A capture writes up to four files and a log line, a
  training renames twice, a fetch downloads for hours: each may end anywhere, and
  the next run starts from what lies there.
* **Hardware that half works.** A driver's set that fails may have taken effect; a
  borrowed request may not go back; a gauge hangs.
* **Files read one after the other.** The two halves of a look, the images of a
  corpus and the members of a frozen set are copied while others replace them.

What makes each modelled part correct:

* controller: one job at a time; an id exposes the camera at most once; a settled
  job is final; close() drains and comes back;
* server: only captures of this process's clients are served; a promise of
  "accepted" can be followed up until the job is settled; the registry is bounded;
* client: a press is POSTed once; an answer is taken for the request it belongs
  to; the buffer is not written while it is read; the screen does not lie;
* together: one press, one exposure at most, its own photo on the screen, and a
  button that comes back;
* photo folder: an original once saved is never touched; a log line speaks of
  whole files of its own capture; cameras are believed and given back rightly; the
  cloud holds no half-written photo;
* power: no stale level on a badge in touch, a mark that does not flicker, a gauge
  that comes back is reported;
* training: every listed file is accounted for, damaged ones are repaired, nothing
  partial is trained on, a load is of one artifact, a look once published survives;
* experiments: nothing frozen is trained on, what is frozen or compared belongs together.

## 2. The modules

    CaptureService <-- CaptureController (implements it, proved)
                         <-- RemoteServer, CaptureProgram
    CaptureService, CaptureClient <-- RemoteCapture
    RemoteShutter <-- RemoteCapture (implements it, proved)
    Camera <-- V4L2Camera, Picamera2Camera <-- PhotoFolder
    BatteryMonitor <-- PowerStatus
    PublishedLook <-- ArtifactStore (implements it, proved), CorpusFetch <-- TrainingPipeline
    PublishedLook, Regrading <-- Experiments

`<--` is read "is used by". Proofs are in eight modules, named for what they
are about: `CaptureController_proofs`, which `RemoteServer_proofs` and
`CaptureProgram_proofs` extend, `RemoteCapture_proofs` (with CaptureClient's),
`PhotoFolder_proofs`, `PowerStatus_proofs`, `TrainingPipeline_proofs` (with
ArtifactStore's and CorpusFetch's) and `Experiments_proofs`. `MC...` modules hold
instances.

**CaptureService** says what the capture side promises, with no thread, lock or
queue in it: a request is `new`, `accepted`, `complete` or `failed`, `Accept`
needs an idle open service, `Expose` happens once between `Accept` and `Settle`,
`Release` of the camera only when idle and shut down.

**CaptureController** has one action per lock section. `Submit`, `Close` and
`Finish` are bodies of `with self._lock`; `Get` is `queue.get()`;
`SetProcessing` is `_set_processing` with the call of `session.capture()` after
it. `SubmitReply` is what `submit()` returns (`closed`, `busy`, the snapshot it
has, or `accepted`), and a submit that creates no job changes nothing. `closer`
is the thread that called `close()`: `Close` puts the stop mark behind what is
queued, `CloseReturn` is the end of `join()`. A later `close()` returns at once
and changes nothing. `captures` is a history variable.

**RemoteServer** adds the HTTP side. `listed` is the `OrderedDict`: a function
from each id in it to the ids registered before it, so that its order can be
reasoned about without induction; `Trim` evicts down to the bound, the oldest
settled entry first, and `Expired` looks after the trim, as `_get_job` does. Each
connection slot holds a handler that goes `request` -> (`found`/`missing` ->)
`reply`. `Post` is one step because `_post` keeps its lock across both trims,
the lookups and `submit()`. A GET is three: `Look` under the lock, `Read` of the job
after it, and `Render` of the photo. Every rejection for a wrong token, path,
length or body is one action, `Refuse`: none of them touches the state. Slots
beyond the last are not a state: the connection is dropped. A handler whose
client has gone ends in `Respond` too. `promised` is history, `kept` marks a GET
that came in after its id was promised.

**RemoteShutter** is what all of that promises to whoever holds the device: a
press may sound once, while it is the latest, and be photographed once, then or
later; the screen may take up a photo of the latest press. There is no request,
network or process in it. RemoteCapture maps `pressed` to `drawn`, `latest` to
`client.request` and `shown` to `screen`; a turn of the UI loop can be a press, a
tone and a photo in one.

**CaptureProgram** is the main thread of `app.py` from the point where camera and
session exist: `StartRemote`, `StartLocal` and `Fallback` pick the loop from the
command line and the host (`options`, all 32 of them), `NewController` starts a
controller over the camera *as it is*, and `owner` says whose finally clause
closes it. One turn of the window loop is three steps, as the worker and the
handler threads run in between: `Poll` (one snapshot; a photo not yet shown is
shown), `Track` (the state of the tracked request, the colour bars) and a key.
`screen` is what the window shows last. `Leave` is the way out of a loop,
`Finally` main's. A camera that is closed delivers no photo (`WorkerThread`):
V4L2Camera and Picamera2Camera raise, the fake camera of the tests does not.
What comes before the `try` of main is in PhotoFolder (the choice of camera) and
PowerStatus (the monitor); the terminal's mode is left out.

**CaptureClient** keeps the C++ object as a record `client`; each method is an
operator from record to record (`CompleteSubmit(c, acknowledged)` is
`completeSubmit(acknowledged, now)`). The network task is `Watch` (the loop's
look at `WiFi.status()`), `NextWork`, then `Begin` or `BeginFails` or
`ConnectWork`, then one of the `...Answer` actions, each a lock section of its own. `Turn`
is one pass of `loop()`, one step because it holds the mutex throughout: a press
if there is one, the tone, a waiting JPEG. `AnyAnswer` is any server. Time is symbolic: a
deadline is a member of `client.due` when it has passed; "now + d" removes it and
`Elapse` puts it back. Left out: the debouncing (a press is the edge that passed
it), `elapsedSeconds`, the back-off's length, texts and logging. An empty
build configuration (`configured()` false) is not modelled: such a device never joins a network.

**RemoteCapture** puts the two ends together. The process is CaptureService
(which the controller is proved to implement) behind the answers of the server:
`PostSays`, `JobSays`, `StatusNow`, `ImageSays`. `wire` holds POSTs that
have left and are not handled yet, so a POST that the device has given up can
still be carried out. `GiveUp` is the 5 s time-out or a lost connection. `Quit`,
`CloseController`, `ReleaseCamera`, `Exit` are main's order of shutdown; `Crash`
is the end of the process at any moment; `Start` is a new one with an
`instance_id` never used before. Of the registry it keeps what the device can
notice: which settled jobs have been evicted.

**Camera**, **V4L2Camera**, **Picamera2Camera** are the cameras behind the
session. A `frame` is where it came from and whether it carries bytes and a DNG
of its own. In V4L2Camera `raw` is what the object believes and `sends` what the
driver does; `SetTo` is any answer of a set (one that reports failure may have
worked), `Buffers` what a read may deliver. `V4L2Attempt` is one of the three attempts of `read`.
In Picamera2Camera the construction is one action per call that may raise,
`borrowed` counts the requests that are out, and `Released` is the finally of `read`.

**PhotoFolder** composes them with CaptureSession, main's choice of a camera and
the sync. `pc` walks through a capture: `reading`, then one file after the other,
named by the suffix being written, then `record`; a write is `BeginWrite`
(truncated, not whole) and `EndWrite`, and `CaptureFails` or `Killed` come in
anywhere. `FreeStem` is `_allocate`; `disk` outlives the program. `SyncFile` copies
one file that is old enough.

**BatteryMonitor** is `update` in bounded integers (sixteenths of a percent, C++
division); **PowerStatus** runs it at the end of the way from the X728's register:
the polling thread (`ReadReturns`, `ReadRaises`, `Wakes`; a gauge that hangs is
a read that takes no step), `Snapshot` with its age, one status exchange
(`ServeStatus`, then `TakeStatus` or `LoseStatus`) and `Close` with its join of
two seconds. A tick is `interval_s`.

**PublishedLook** promises of a look's directory that it is missing or holds an
artifact that was written whole. **ArtifactStore** has the trainers with their
staging, both renames, roll-back and backups, and readers that open params and
table one after the other. **CorpusFetch** is `pifilm-fetch`: the depth-first
walk, a member a step (`List`, `Enter`, `Skip`; `ahead` holds what the generators
on the stack have not looked at yet, innermost first), the choice of titles, then
each file suspected, kept or downloaded; a manifest is torn while it is being
written. What `--sample` and `--limit` keep is any part of the titles, in order. **TrainingPipeline** lets trainings read the folder,
in three passes, while fetches go on, and publish through ArtifactStore.

**Regrading** is `pifilm-process` over a folder the camera goes on filling. Of a
capture it has what others read: the original, `<t>_original.jpg` or
`<t>_ungraded.jpg`, the starter `<t>_graded.jpg`, which a raw and a decoded shot of
one stem share (the second one's replaces the first one's), and the line of
`captures.jsonl`; it may fail before each (`FailCapture`). The folder may also hold
images of somebody else's, whose names do not end like the camera's. An output is
begun, half, and then whole.
**Experiments** has the four tools of `experiments/`, any of them several times at
once: each checks, stages and publishes (`Stages`, `Publish`); the inputs may be
prepared or a user's own. The freeze takes what is named `*_ungraded_graded.jpg`
(`Triplets`), wants each original in the log, copies the original with the starter
of its stem (`FreezeStarter`), then the graded photo (`FreezeGraded`, with the
comparison of the sizes), and in the end the look. Beside the tools run
PublishedLook, for the trainings that replace the baseline, and Regrading.

## 3. The runs

| run | instance | distinct states | what it shows |
|---|---|---|---|
| `capture_controller` | 3 ids | 419 | types, one live job, one exposure per id, close() drains, settled is final; with fairness, accepted requests settle and close() returns; the refinement of CaptureService |
| `remote_server` | 3 remote ids, 1 local, 2 handlers, registry of 1 | 755k | a promised job can be followed up until it is settled; only complete photos of remote captures are served; the registry is bounded |
| `capture_client` | 2 presses, 2 instances | 910k | tone only after a 2xx; answers meet their request; the buffer is free; the screen is honest; a photo is replaced only by the latest press's, which is then over, and a press that is over stays over; a press is POSTed or ends with an error, but for one turn (see below) |
| `remote_capture` | 2 presses, 1 local capture, 2 processes, 1 fault, 1 eviction | 2.25M | POSTed once and exposed at most once per press across restarts and late POSTs; device, network and processes refine RemoteShutter, so the photo shown is of a press that was photographed |
| `remote_capture_live` | 1 press, 2 processes, 1 fault | 61k | every press is over in the end; the button comes back for ever |
| `capture_program` | 3 ids, every command line and host, 1 Ctrl-C | 480k | on every way out what was accepted is settled and the camera released, never under a capture; the bars are up only for a request being tracked; the last photo is shown, also when it came and went between two polls |
| `photo_files` | 2 captures, 2 seconds, 2 starts, 2 devices, every camera | 1.45M | originals are never touched; records speak of whole files of their capture; the V4L2 camera's belief is real; requests and cameras are given back; the cloud holds half a photo only where one was left |
| `power_status` | 2 readings, max age of 1 tick | 309k | a steady badge; no stale level; a gauge that recovers is reported |
| `training_pipeline` | 5 titles, 2 catalogues (one a circle), 2 fetches, 1 damaged file, 2 trainers, 1 reader | 550k | every member is accounted for once; damage is repaired; training reads validated images, apart from the held-back ones; loads are of one artifact; a look survives |
| `experiments` | 3 shots, 2 tools, 2 batches, 2 looks | 703k | nothing held out is trained on; a baseline is one artifact; what is frozen together is of one shot, but for a starter that a later one of its stem has replaced |
| `fallback_camera` | 2 ids | | violated: see findings |
| `forgotten_capture` | 1 press, 1 eviction, no fault | | violated: see findings |

Why the bounds are enough. Three ids are one being captured, one that is
refused or resubmitted, and one to come after; the controller treats ids alike.
A registry of one entry with three remote ids sees an eviction, a POST for the
evicted id and a later one; a longer registry only delays them. Two
handlers are a race; a third repeats it. Two presses are the one whose answer
is late and the one that might be mistaken for it, two instances the restart in
between. In the program, three captures are one from each of two submitters and one that
overtakes them between two polls. One fault of *any* kind (crash, quit, lost answer, failed begin, lost
Wi-Fi, broken photo) at *any* moment is what the end-to-end runs allow; the
client's own run has no such bound. `remote_capture` leaves the two-minute
deadline to `capture_client`: `Tick` only changes what is displayed.
`MaxEvicted` bounds evictions of the device's jobs.

Two captures, two seconds and two starts give a collision within a second, within
a run and across runs, a fallback between two captures, and a file that is being
written at every age the sync tells apart (`MinAge` is one second there).
The readings 13% on battery and 16% on external power lie three apart, the
deadband, and with the average of the way between them the badge takes every
branch of `update`. With a maximal age of one tick there are a fresh, a just fresh
and a stale reading. The titles contain two of one item, one of another licence, one
that is no photograph and one whose title says so; two fetches are a damaged run and
the rerun. One corpus is read at a time: readings change nothing, so two do not
meet. In `experiments` the shots are one to train on and a raw and a decoded one
of one second, the decoded one first: so the starter of a shot that is frozen may
be replaced, or half written, at any moment. All are of one size, so that the
dimensions do not give a mix-up away. Images of somebody else's are in no run
(`Others` is empty there): the proofs cover them. Its constraint `Bounded`
(`MCExperiments.tla`) leaves out
interleavings of parts that do not touch: two tools of different kinds meet only
in the outputs, so two are at work together only if of one kind or one is about to publish;
camera and regrading are seen by the freeze alone, which reads photos before the
look, so nothing is taken or graded once a look is written; at most one
original goes without a line in the log. The proofs cover what it leaves out.

Runs with counters that can be used up (presses, instances, faults, captures,
fetches, fits) do not look for deadlock: then the system may stop.

Fairness. `FairSpec` of the controller: the worker thread is scheduled and
`session.capture()` ends; nobody has to submit or close. `FairCaptureSpec`: both
tasks run (FreeRTOS, no task of higher priority holds the mutex), each clock
deadline that stays due comes up (strong, since it is armed again and again), a
request that cannot be answered ends by its time-out (`setTimeout(5000)`), what has been sent
arrives and is handled, faults aside, Wi-Fi comes back, and somebody (systemd's
`Restart=`) starts the process again. Nothing forces a press, a fault or the
absence of one.

`FairProgramSpec`: the main thread goes on unless it waits for a key, the worker
runs and captures end; no key is forced. The constant `Patient` assumes that nobody presses Ctrl-C
while a finally clause runs: such an interrupt leaves the rest of the clause
undone, and with it captures unsettled and, for a loop that made its own controller, the
camera closed under one.

`FairPowerSpec`: the polling thread goes on after a read (not necessarily *in* one: a
gauge that hangs never returns), the server and the Stick handle what is on its
way, a join ends with its time-out. Ticks are strongly fair: a tick waits while an
answer is on its way, which is again and again over, and time does not stop for it.

Assumptions about speed, named in `CaptureClient.tla`: **UiKeepsUp**, the UI loop
(10 ms) has turned before Wi-Fi is back or the next status deadline, half a
second away, comes up; **WorkerKeepsUp**, the network task (20 ms) has looked for work
after a status reply before the next status deadline. The first does not exclude that
a photo waits in the buffer during one status exchange; what can follow from that
is the exception in `PressIsPosted` (below). In PowerStatus a Stick in
touch asks at least once in ten seconds (it is due every half second and gives up
after five), so no tick passes twice without an exchange. In PhotoFolder a write
takes less than `--min-age`, 30 s.

Every property has a mutant: a variant of one definition, written beside it
(`SubmitReply`/`OverbookingReply`, `List`/`ListUntrimmed`,
`CompleteSubmit`/`CompleteSubmitAgain`, ...), under which the run finds the
property violated.

### Findings

* `fallback_camera`: `main` falls back from a lost captures-only window to the
  terminal after the window loop has closed the camera (`app.py:436-438`,
  721, 735-736).
* `forgotten_capture`: a job evicted after a poll said "complete" is asked for
  for ever (`capture_client.cpp:127`), against `firmware/README.md:29-31`.

Seen while modelling, and not checked by a run of their own:

* a press can be taken and never POSTed (`main.cpp:361-369`), against
  `README.md:96`. A photo that did not decode is fetched again although its
  request was interrupted (`capture_client.cpp:259-263`); while it waits in the
  buffer a status reply makes the button free (192), and the turn of the UI loop
  that takes the press then completes the old photo on the new request: when it
  decodes, that clears `active_request_` (254) and no POST goes out; when it does not,
  the POST still does. `PressIsPosted` excepts this turn, and TLC finds it violated
  without the exception; `ScreenKeepsPhoto` goes by the press that was the latest
  when the turn began and says nothing of it, nor can `AnswersMeetTheirRequest`,
  which is about the states between turns;
* `a.jpg` and `a.JPG` share the output `a_jpg_graded.jpg` (`batch.py:60`,
  `imageio.py:142`), against `batch.py:12-15`: the second is left out, or replaces
  the first with `--overwrite`. `OutputName` does so too;
* a POST that meets the closed controller is answered 202 and the device sounds
  "accepted" (`remote.py:174-185`), against `README.md:97-98`;
* after a fallback from raw to decoded frames within a second the first
  capture's `_graded.jpg` is overwritten (`app.py:121`); its original is not;
* the set() that gives up raw mode at the start is not looked at
  (`camera.py:257-262`); `BeliefIsReal` excepts that case by name;
* a reader between the two renames of a publish is refused, where
  `artifacts.py:24-26` promises the old or the new artifact; after a Ctrl-C between
  them the look is left in a hidden backup;
* the licences in a look's provenance are of the last manifest, while training
  lists the folder (`fit.py:147, 259`);
* `load_partition` compares train and validation photos only, where
  `docs/training.md:336` says no hash may appear twice;
* a half-written output of a killed `pifilm-process` is kept by its next run
  (`batch.py:93`) and may be frozen; `evaluate` refuses it;
* a starter that a later shot of its stem has replaced is frozen with the earlier
  original, if the sizes agree (`regression.py:77`): `TripletsAreOfOneShot` says so.

## 4. The proofs

Nothing is assumed but the named ASSUMEs of the modules, which TLC evaluates in
every run: that `None` is no request id, instance or kind of work, that the word
for the colour bars is no request id, that counters and bounds are natural
numbers, how a catalogue and a reading look. Two theorems about the program have
`Patient` as a hypothesis, said where they stand. Each proof has an inductive
invariant, one lemma or step per action, and theorems that follow from it; the
invariants were model-checked on the runs as well, where TLC can evaluate them.
Every safety property of the passing runs is a theorem.

| module | for every | theorems that state a run's property |
|---|---|---|
| `CaptureController_proofs` | set of ids | `Serialized`, `AtMostOnce`, `ClosedDrained`, `SettledForGood`, `Implementation` |
| `RemoteServer_proofs` | set of ids and handlers, `MaxJobs` | `RemoteTypeCorrect`, `PromisesAreAnswered`, `OwnPhotos` |
| `RemoteCapture_proofs` | number of presses, instances, faults, evictions | `ToneIsHonest`, `AnswersMeet`, `BufferStaysFree`, `ScreenStaysHonest`, `ScreenKeepsItsPhoto`, `PressesArePosted`; `OneShot`, `CaptureIsAShutter` |
| `CaptureProgram_proofs` | command line, host, number of captures and Ctrl-Cs | `BarsComeDown`, `ExitIsClean`, `CaptureKeepsCamera` |
| `PhotoFolder_proofs` | number of captures and starts, `MinAge`, request buffers | `RealBelief`, `GivenBack`, `WholeInTheCloud`, `RecordsBacked`, `OriginalsKept` |
| `PowerStatus_proofs` | readings, `max_age_s` | `SteadyBadge`, `FreshBadge` |
| `TrainingPipeline_proofs` | catalogue, trainers, readers, tables, fetches | `LoadsAreWhole`, `Survival`, `TrainsOnValidated`, `RepairsDamage`, `EveryFileIsAccounted` |
| `Experiments_proofs` | photos, partitions, number of tools | `NothingLeaks`, `BaselinesAreReal`, `TripletsMatch` |

Six theorems say that a detailed specification implements another one:
`Implementation` (the controller, of CaptureService, by the mapping `Outcome`),
`StoreIsALook` (the store, of PublishedLook), `CaptureIsAShutter` (device,
network and processes, of RemoteShutter), and, each by its own variables,
`ServerRunsController` (RemoteServer, of CaptureController), `DeviceRunsClient`
(RemoteCapture, of CaptureClient before any server) and `PipelineRunsStore`
(TrainingPipeline, of ArtifactStore). So the controller's theorems hold under the
HTTP handlers, the client's hold end to end, and the store's hold while fetches go on.

**CaptureController_proofs**. None of the safety properties is inductive: that
the worker finds its job live is known only from the queue. `Core` adds
`QueueShape` (the queue is empty, holds the one queued request, the stop mark,
or the request with the stop mark behind it), `WorkerHoldsActive` (between two
lock sections the worker holds the active request, in the state that section
left it) and `CloserInStep` (where the closing thread stands says whether
`closed` is set and the worker done). `Core` is what holds of a controller over any camera;
`Inv` adds what holds only of the first one: at most one exposure per id, and
that the camera is open until the worker is done (`WorkerReleases`).

**RemoteServer_proofs**. `RemoteInv` joins `Inv` with the registry (its order is
a linear one, its existing jobs are at most `MaxJobs`), with `PromisesAreListed`
(what was promised and is not settled is still listed, which holds because the
trim spares live jobs and only one job is live) and with `FindingHolds`: what a
handler learnt under the registry's lock and still goes by after letting it go
stays true, since jobs never go back and a settled one never changes.

**RemoteCapture_proofs**. The methods of CaptureClient have a lemma each that
says what they leave alone and what they set; the actions rest on these.
`ClientInv` says what the two tasks owe each other: `Exchanges` (an exchange
under way is for the request at hand, and none of a request's while a photo
waits in the buffer), `Posting` (a POST under way is the first of a request that
is neither acknowledged nor over), `Polling`, `Fetching` (whose photo may be in
the buffer, and that the request it belongs to is submitted, or over) and
`Sounding` (a tone still to come is for the latest request, and its first).
`CaptureInv` adds the process: `Shutters` relates a POST on the wire, the job and
the exposures of all instances together, `Answering` the answer on its way to the
request the worker waits for, `Photos` what is in the buffer or on the screen to
a shot that was taken. `ScreenKeepsItsPhoto` also rests on `Over`: that a press is
neither active nor under way nor in the buffer nor to be fetched again. No method
brings it back (`NothingComesBack`), so no turn does (`TurnBringsNothingBack`,
`OverStays`). For `PressesArePosted`, only a turn ends a request without an error
(`NoneLeavesSilently`), and a photo in the buffer is of a request that was POSTed
(`Fetching`). `CaptureIsAShutter` needs both: that a tone is the first
and of the latest press is `Sounding`, that an exposure is the first is
`Shutters`, and that a photo of the latest press alone is taken up is `Fetching`
with `Photos`; every other step, and every restart, is a stutter. What the
shutter shows at all times, `ScreenShowsIt` states of the composition itself; no
run checks it beside the refinement, which implies it. UiKeepsUp and WorkerKeepsUp are guards of the model's
actions and so premises of these theorems (section 3).

**CaptureProgram_proofs**. The program makes controllers one after the other, over
a camera that an earlier one may have closed, so it keeps `Core` and not `Inv`.
`ProgramInv` adds `Owners` (whose finally clause closes the controller, place by
place), `Orderly` (at the places where no controller of a loop is left, nothing is in
flight) and `Showing` (what the window loop will still notice: between two of its
looks a tracked request may fail, or complete and be overtaken). `ExitIsClean` and
`CaptureKeepsCamera` assume `Patient`, that no Ctrl-C comes inside a finally
clause; without it they are false, and TLC shows it. `BarsComeDown` needs no such
assumption.

**PhotoFolder_proofs**. `BeliefIsReal` is inductive as it stands;
`RequestsInv` says that one request may be out inside a read, and that there is a
library object exactly while the program owns one; `CloudInv` that half a file in
the folder is the one being written, which is too young, or abandoned.
`FolderInv` is about names: `Numbered` counts captures, so that the k-th photo
of a second is at least the k-th capture; hence the CHOOSE of `FreeStem` has a
least free name to choose (`FreeStemIsFree`), and `OwnNames` keeps it free until
the capture's own write. `Saved` and `Logged` follow a capture from there to its line.

**PowerStatus_proofs**. The register's bytes, the quarter steps of the average
and the debounce are lemmas (`DecodedIsPercentage`, `AverageInScale`,
`MarkDebounced`); `AnswerIsFresh` carries the age from the server to the badge.

**TrainingPipeline_proofs**. Of the store, `WholeOrMissing` says that every
directory a rename moves holds what was written whole (of a whole artifact the
params determine the table) and `Missed` where a look is while it is moved. Of
the folder, `ImagesInv` says that under an image's own name there is only what a
rename put there, or a damaged form of it, and that nothing damaged is listed
but what the last manifest listed damaged or did not list. `PipelineInv` carries that through
the three passes of a training; that the pools stay apart rests on a file lying
under the name of its own title. `AccountInv` follows every file of the category:
while the walk goes on, what a category it entered lists was seen or is ahead
(`WalkInv`), so that at its end what it saw is closed and, by `WalkEnds`, all that
can be reached; from then on each title is on one of the lists, there once
(`Accounted`). Because the walk is a state machine and not a recursive function,
none of this needs an induction over catalogues. The rest are lemmas about
sequences without repetitions: `SubsequenceOnce` and what `SelectTitles`,
`FetchImageInfo`, a turn of the download loop and the manifest do to one.

**Experiments_proofs**. The tools check at one moment and publish at a later one;
`Staged` and `Sound` say what of each check is still true by then: a snapshot
that is there never changes, params name their table for ever. `GradedInv` says
that a graded file which the freeze takes is of the shot of its name, since no
other image has that stem and suffix (`BatchAssumption`). A starter
is of the last shot of its stem, so that of a shot with a line in the log is its
own and whole, or a follower's (`CameraInv`); that the freeze asks for that line is
what `TripletsMatch` rests on.

Model-checked only: what needs fairness (`AcceptedSettles`, `CloseReturns`,
`RequestIsReleased`, `ButtonComesBack`, `RecoveryIsReported`,
`LatestIsShown`), which this prover does not reach.

## 5. Not modelled

The image pipeline, the fit, its gates and the metrics are floating-point functions
without control state. JSON and HTTP syntax, TLS, logging, drawing and the GUI
toolkit are left out. `deploy_remote.py`, `pi_hotspot.py` and `generate_config.py`
format shell commands whose effects are outside the repository; of
`nextcloud_sync.py` only what is copied when. In CorpusFetch the batching of API
requests and its back-off are one step. Deadlines of the device are symbolic, so
the wrap of its millisecond clock after 49.7 days is not seen.

## 6. What comes next

1. The device's clock with a small word, for the wrap of its deadlines.
2. The deployment's restart as shell steps, with the process it finds.
3. An abstract specification of the photo folder that PhotoFolder implements.
