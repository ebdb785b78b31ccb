---------------------------- MODULE PhotoFolder ----------------------------
(***************************************************************************)
(* The folder of photos: CaptureSession of src/pifilm/capture/app.py writes *)
(* it from one of the three cameras, scripts/nextcloud_sync.py copies it to *)
(* the cloud.  A process may end at any step, a write may fail, the clock   *)
(* names the files by the second.                                           *)
(*                                                                         *)
(* The clock ticks by the second, the unit of the names.  MinAge stands for *)
(* the 30 seconds of --min-age; a write is assumed to take less.            *)
(***************************************************************************)
EXTENDS V4L2Camera, Picamera2Camera

CONSTANTS
    MaxShots,   \* captures
    MaxTick,    \* the clock's last value
    MaxStarts,  \* starts of the program
    MinAge      \* --min-age

ASSUME BoundsAssumption ==
    /\ {MaxShots, MaxTick, MaxStarts} \subseteq Nat
    /\ MinAge \in Nat \ {0}

VARIABLES
    pc,         \* where the program's one camera user stands
    backend,    \* the camera main chose
    saveDng,    \* not --no-dng
    starts,     \* starts so far
    shot,       \* captures so far; the last one is under way unless pc = "ready"
    stem,       \* the name _allocate gave the capture under way
    open,       \* the file of this step is open and half written
    disk,       \* from names to files
    log,        \* captures.jsonl
    now,        \* the clock
    cloud,      \* from names to files
    abandoned   \* history: names of which a write was ever cut off

folderVars == <<shot, stem, open, disk, log, abandoned>>
chosenVars == <<backend, saveDng, starts>>
deviceVars == <<v4l2Vars, picameraVars>>
outerVars == <<now, cloud>>
vars == <<deviceVars, frame, folderVars, pc, chosenVars, outerVars>>

NoStem == [at |-> 0, k |-> 1]

Suffixes == {"original", "ungraded", "dng", "graded"}

PhotoInit ==
    /\ V4L2Init /\ PicameraInit
    /\ frame = NoFrame
    /\ pc = "down" /\ backend = "fake" /\ saveDng = FALSE /\ starts = 0
    /\ shot = 0 /\ stem = NoStem /\ open = FALSE
    /\ disk = << >> /\ log = {} /\ now = 0 /\ cloud = << >> /\ abandoned = {}

(***************************************************************************)
(* main: the arguments decide which camera is opened, or that none is.      *)
(***************************************************************************)
Arguments == [camera : {"any", "v4l2", "picamera2"}, device : BOOLEAN, fake : BOOLEAN,
              picameraFlags : BOOLEAN, dng : BOOLEAN]

Backend(args, installed) ==
    IF args.fake THEN "fake"
    ELSE IF args.camera # "any" THEN args.camera
    ELSE IF ~args.device /\ installed THEN "picamera2" ELSE "v4l2"

(* The three parser.error refusals, one for each way to have no Picamera2.  *)
Refused(args, installed) ==
    \/ args.camera = "picamera2" /\ args.device
    \/ args.camera = "v4l2" /\ args.picameraFlags
    \/ Backend(args, installed) # "picamera2" /\ args.picameraFlags

Opened(chosen) ==
    \/ /\ chosen = "v4l2"
       /\ \E delivering \in SUBSET Devices : V4L2Open(delivering)
       /\ UNCHANGED picameraVars
    \/ chosen = "picamera2" /\ PicameraOpen /\ UNCHANGED v4l2Vars
    \/ chosen = "fake" /\ UNCHANGED <<v4l2Vars, picameraVars>>

Start ==
    /\ pc = "down" /\ starts < MaxStarts
    /\ \E args \in Arguments, installed \in BOOLEAN :
        /\ ~Refused(args, installed)
        /\ backend' = Backend(args, installed)
        /\ saveDng' = args.dng
        /\ Opened(backend')
    /\ pc' = IF backend' = "picamera2" THEN "opening" ELSE "ready"
    /\ starts' = starts + 1
    /\ frame' = NoFrame
    /\ UNCHANGED <<folderVars, outerVars>>

(* No token, UPS, artifact or camera: main prints it and returns 2.         *)
StartFails ==
    /\ pc = "down" /\ starts < MaxStarts
    /\ starts' = starts + 1
    /\ UNCHANGED <<deviceVars, frame, folderVars, pc, backend, saveDng, outerVars>>

OpenPicamera ==
    /\ pc = "opening"
    /\ PicameraSetup
    /\ pc' = CASE library' = "none" -> "down" [] library' = "started" -> "ready"
                [] OTHER -> "opening"
    /\ backend' = IF pc' = "down" THEN "fake" ELSE backend
    /\ saveDng' = (saveDng /\ pc' # "down")
    /\ UNCHANGED <<v4l2Vars, frame, folderVars, starts, outerVars>>

(***************************************************************************)
(* The program lets the camera go on its way out, or is killed: then the    *)
(* kernel does, and a file that is being written stays as it is.            *)
(***************************************************************************)
Leave ==
    /\ V4L2Close
    /\ PicameraClose
    /\ pc' = "down" /\ backend' = "fake" /\ saveDng' = FALSE
    /\ frame' = NoFrame
    /\ UNCHANGED <<starts, outerVars>>

Quit == pc = "ready" /\ Leave /\ UNCHANGED folderVars

Current == [stem |-> stem, suffix |-> pc]

CutOff ==
    /\ abandoned' = IF open THEN abandoned \union {Current} ELSE abandoned
    /\ open' = FALSE
    /\ stem' = NoStem

Killed ==
    /\ pc # "down"
    /\ Leave
    /\ CutOff
    /\ UNCHANGED <<shot, disk, log>>

(***************************************************************************)
(* capture() and preview_frame() begin with a read; the preview's is not a  *)
(* full one.                                                                *)
(***************************************************************************)
Shutter ==
    /\ pc = "ready" /\ shot < MaxShots
    /\ pc' = "reading" /\ shot' = shot + 1 /\ frame' = NoFrame
    /\ UNCHANGED <<deviceVars, chosenVars, stem, open, disk, log, abandoned, outerVars>>

PreviewFrame ==
    /\ pc = "ready"
    /\ pc' = "looking" /\ frame' = NoFrame
    /\ UNCHANGED <<deviceVars, folderVars, chosenVars, outerVars>>

Reading == pc \in {"reading", "looking"}

ReadV4L2 ==
    /\ Reading /\ backend = "v4l2" /\ frame = NoFrame
    /\ V4L2Attempt \/ V4L2Exhausted
    /\ UNCHANGED <<picameraVars, folderVars, pc, chosenVars, outerVars>>

ReadFake ==
    /\ Reading /\ backend = "fake" /\ frame = NoFrame
    /\ FakeRead
    /\ UNCHANGED <<deviceVars, folderVars, pc, chosenVars, outerVars>>

RequestInHand == borrowed > withheld

ReadPicamera ==
    /\ Reading /\ backend = "picamera2" /\ frame = NoFrame
    /\ \/ ~RequestInHand /\ CaptureRequest
       \/ ~RequestInHand /\ PicameraRefuses
       \/ RequestInHand /\ ConvertAndRelease(pc = "reading", saveDng)
    /\ UNCHANGED <<v4l2Vars, folderVars, pc, chosenVars, outerVars>>

(* The read raised, or the frame was for the preview.                       *)
ReadOver ==
    /\ Reading /\ frame # NoFrame
    /\ pc = "looking" \/ ~HasFrame
    /\ pc' = "ready" /\ frame' = NoFrame
    /\ UNCHANGED <<deviceVars, folderVars, chosenVars, outerVars>>

(***************************************************************************)
(* capture(): the frame is graded, named and written.                       *)
(***************************************************************************)
OriginalSuffixAlways == "original"

OriginalSuffix == IF frame.jpeg \/ frame.source = "picamera2" THEN "original" ELSE "ungraded"

(* _allocate: the first stem of this second that is free under the suffix.  *)
FirstStem(suffix) == [at |-> now, k |-> 1]

FreeStem(suffix) ==
    LET Taken(k) == [stem |-> [at |-> now, k |-> k], suffix |-> suffix] \in DOMAIN disk
        k == CHOOSE k \in 1..MaxShots : ~Taken(k) /\ \A j \in 1..(k - 1) : Taken(j)
    IN [at |-> now, k |-> k]

Allocate ==
    /\ pc = "reading" /\ HasFrame
    /\ stem' = FreeStem(OriginalSuffix)
    /\ pc' = OriginalSuffix
    /\ UNCHANGED <<deviceVars, frame, shot, open, disk, log, abandoned, chosenVars, outerVars>>

Put(files, name, file) ==
    [n \in DOMAIN files \union {name} |-> IF n = name THEN file ELSE files[n]]

Written(whole) ==
    Put(disk, Current, [shot |-> shot, whole |-> whole, own |-> pc = "original" /\ frame.jpeg,
                        at |-> now])

(* write_bytes and save_jpeg: the file is truncated, then filled.           *)
BeginWrite ==
    /\ pc \in Suffixes /\ ~open
    /\ disk' = Written(FALSE)
    /\ open' = TRUE
    /\ UNCHANGED <<deviceVars, frame, pc, chosenVars, shot, stem, log, abandoned, outerVars>>

NextStep ==
    CASE pc = "graded" -> "record"
      [] pc = "original" /\ frame.dng /\ saveDng -> "dng"
      [] OTHER -> "graded"

EndWrite ==
    /\ pc \in Suffixes /\ open
    /\ disk' = Written(TRUE)
    /\ open' = FALSE
    /\ pc' = NextStep
    /\ UNCHANGED <<deviceVars, frame, chosenVars, shot, stem, log, abandoned, outerVars>>

(* An OSError of a write, of the log, or of the pipeline before them: the   *)
(* capture fails, what was written stays.                                   *)
CaptureFails ==
    /\ pc \in Suffixes \union {"record"}
    /\ pc' = "ready" /\ frame' = NoFrame
    /\ CutOff
    /\ UNCHANGED <<deviceVars, chosenVars, shot, disk, log, outerVars>>

OriginalName == [stem |-> stem, suffix |-> OriginalSuffix]
GradedName(name) == [name EXCEPT !.suffix = "graded"]

Record ==
    /\ pc = "record"
    /\ log' = log \union {[shot |-> shot, original |-> OriginalName, source |-> frame.source]}
    /\ pc' = "ready" /\ frame' = NoFrame /\ stem' = NoStem
    /\ UNCHANGED <<deviceVars, chosenVars, shot, open, disk, abandoned, outerVars>>

(***************************************************************************)
(* run_sync: rclone copy --min-age copies what is new or changed and old    *)
(* enough, file by file, and deletes nothing.  Off the home network it does *)
(* nothing.                                                                 *)
(***************************************************************************)
AnyAge(file) == TRUE

OldEnough(file) == now - file.at >= MinAge

SyncFile ==
    \E name \in DOMAIN disk :
        /\ OldEnough(disk[name])
        /\ name \in DOMAIN cloud => cloud[name] # disk[name]
        /\ cloud' = Put(cloud, name, disk[name])
        /\ UNCHANGED <<deviceVars, frame, folderVars, pc, chosenVars, now>>

Tick ==
    /\ now < MaxTick
    /\ open => now + 1 - disk[Current].at < MinAge
    /\ now' = now + 1
    /\ UNCHANGED <<deviceVars, frame, folderVars, pc, chosenVars, cloud>>

PhotoNext ==
    \/ Start \/ StartFails \/ OpenPicamera \/ Quit \/ Killed
    \/ Shutter \/ PreviewFrame
    \/ ReadV4L2 \/ ReadFake \/ ReadPicamera \/ ReadOver
    \/ Allocate \/ BeginWrite \/ EndWrite \/ CaptureFails \/ Record
    \/ SyncFile \/ Tick

PhotoSpec == PhotoInit /\ [][PhotoNext]_vars

(***************************************************************************)
(* Properties                                                              *)
(***************************************************************************)

(* What a capture has saved as the original or as its DNG is never touched  *)
(* again, by a later capture of the same second, after a fallback, or by    *)
(* another run of the program (_allocate).                                  *)
OriginalsAreKept ==
    [][\A name \in DOMAIN disk :
          disk[name].whole /\ name.suffix # "graded" =>
              name \in DOMAIN disk' /\ disk'[name] = disk[name]]_vars

(* A line of captures.jsonl is only written for files that are all there:   *)
(* the original is whole, of that very capture, and called _original only   *)
(* if its bytes are the camera's own or the sensor's; there is a graded     *)
(* file of its name, whole unless a later capture is writing over it.       *)
RecordsAreBacked ==
    \A line \in log :
        /\ line.original \in DOMAIN disk
        /\ LET file == disk[line.original] IN
               /\ file.whole /\ file.shot = line.shot
               /\ line.original.suffix = "original" <=> file.own \/ line.source = "picamera2"
        /\ GradedName(line.original) \in DOMAIN disk
        /\ LET graded == disk[GradedName(line.original)] IN
               graded.whole \/ graded.shot > line.shot

(* Requests are given back between reads, also in the preview, and the      *)
(* camera itself once the program is down, also when its construction got   *)
(* only half way (_cleanup_camera).                                         *)
RequestsAreGivenBack ==
    /\ RequestsAreReleased(Reading)
    /\ pc = "down" => library = "none"

(* The cloud never holds half a photo, unless half a photo is what the      *)
(* program left behind when it was killed or the write failed: the sync may *)
(* run at any moment of a capture (--min-age).                              *)
CloudHasWholeFiles ==
    \A name \in DOMAIN cloud : cloud[name].whole \/ name \in abandoned
=============================================================================
