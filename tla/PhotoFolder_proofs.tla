------------------------- MODULE PhotoFolder_proofs -------------------------
(***************************************************************************)
(* For any number of captures, starts, request buffers and any --min-age:   *)
(* the USB camera is not mistaken about what its driver sends, requests of  *)
(* libcamera are given back, and the cloud holds half a photo only where    *)
(* the folder was left with one.  Each of the three rests on an invariant   *)
(* of its own, for the parts of the state they speak of hardly meet.        *)
(***************************************************************************)
EXTENDS PhotoFolder, FiniteSetTheorems, WellFoundedInduction, TLAPS

-----------------------------------------------------------------------------
(***************************************************************************)
(* The USB camera.  BeliefIsReal is inductive as it stands.                 *)
(***************************************************************************)

\* A fallback is believed only after a set() that worked.
LEMMA AttemptBelief == ASSUME BeliefIsReal, V4L2Attempt PROVE BeliefIsReal'
<1> USE DEF BeliefIsReal
<1>1. \/ UNCHANGED <<held, unforced, raw, sends>>
      \/ UNCHANGED <<held, unforced>> /\ FallbackToDecoded
  BY Zenon DEF V4L2Attempt
<1>2. CASE FallbackToDecoded
  <2>1. ~raw' => sends' = "bgr"
    <3>1. PICK answer \in SetTo("bgr", sends) : sends' = answer.sends /\ raw' = ~answer.ok
      BY <1>2 DEF FallbackToDecoded
    <3>2. answer.ok = FALSE \/ answer.sends = "bgr"
      <4>1. CASE answer = [ok |-> TRUE, sends |-> "bgr"]
        BY <4>1
      <4>2. CASE answer \in [ok : {FALSE}, sends : {"bgr", sends}]
        BY <4>2, Zenon
      <4> QED
        BY <4>1, <4>2, Zenon DEF SetTo
    <3>3. answer.ok = FALSE => raw'
      BY <3>1, Zenon
    <3> QED
      BY <3>1, <3>2, <3>3
  <2> QED
    BY <2>1
<1> QED
  BY <1>1, <1>2

\* A device that was just opened has given the frame that was asked for, or
\* what _enable_raw_mode left it in is known.
LEMMA OpenBelief == ASSUME EnableRawMode PROVE BeliefIsReal'
BY DEF EnableRawMode, GiveUp, BeliefIsReal

LEMMA StepBelief == ASSUME BeliefIsReal, [PhotoNext]_vars PROVE BeliefIsReal'
<1>1. CASE UNCHANGED v4l2Vars
  BY <1>1 DEF v4l2Vars, BeliefIsReal
<1>2. CASE V4L2Close
  BY <1>2 DEF V4L2Close, BeliefIsReal
<1>3. CASE Start
  <2>1. UNCHANGED v4l2Vars \/ EnableRawMode
    BY <1>3 DEF Start, Opened, V4L2Open
  <2> QED
    BY <2>1, <1>1, OpenBelief
<1>4. CASE ReadV4L2
  <2>1. V4L2Attempt \/ V4L2Exhausted
    BY <1>4 DEF ReadV4L2
  <2>2. CASE V4L2Exhausted
    BY <2>2 DEF V4L2Exhausted, BeliefIsReal
  <2> QED
    BY <2>1, <2>2, AttemptBelief
<1>5. CASE PhotoNext /\ ~Start /\ ~ReadV4L2
  <2>1. UNCHANGED v4l2Vars \/ V4L2Close
    BY <1>5 DEF PhotoNext, StartFails, OpenPicamera, Quit, Killed, Leave, Shutter, PreviewFrame,
                ReadFake, ReadPicamera, ReadOver, Allocate, BeginWrite, EndWrite, CaptureFails,
                Record, SyncFile, Tick, deviceVars
  <2> QED
    BY <2>1, <1>1, <1>2
<1>6. CASE UNCHANGED vars
  BY <1>6, <1>1 DEF vars, deviceVars
<1> QED
  BY <1>3, <1>4, <1>5, <1>6

\* The camera never takes compressed buffers for pictures, but where its
\* driver refused while the constructor gave up (_fallback_to_decoded).
THEOREM RealBelief == PhotoSpec => []BeliefIsReal
<1>1. PhotoInit => BeliefIsReal
  BY DEF PhotoInit, V4L2Init, BeliefIsReal
<1> QED
  BY <1>1, StepBelief, PTL DEF PhotoSpec
-----------------------------------------------------------------------------
(***************************************************************************)
(* libcamera's requests.  In a read one request may be out that was not     *)
(* before; there is a library object exactly while the program owns one.    *)
(***************************************************************************)
InRead == Reading /\ backend = "picamera2" /\ frame = NoFrame

RequestsInv ==
  /\ withheld \in Nat
  /\ borrowed = withheld \/ (InRead /\ borrowed = withheld + 1)
  /\ owned <=> library # "none"
  /\ pc = "down" => library = "none"

LEMMA StepRequests == ASSUME RequestsInv, [PhotoNext]_vars PROVE RequestsInv'
<1> USE DEF RequestsInv, InRead, Reading
<1>1. CASE Start
  BY <1>1 DEF Start, Opened, PicameraOpen, picameraVars
<1>2. CASE StartFails
  BY <1>2 DEF StartFails, deviceVars, picameraVars
<1>3. CASE OpenPicamera
  <2>1. PicameraSetup /\ pc = "opening"
    BY <1>3 DEF OpenPicamera
  <2>2. /\ UNCHANGED <<borrowed, withheld>>
        /\ owned' <=> library' # "none"
    BY <2>1 DEF PicameraSetup, Configure, ApplyCameraControls, StartCamera, SetupFails, Reaches,
                CleanupCamera
  <2>3. pc' \in {"down", "ready", "opening"} /\ (pc' = "down" => library' = "none")
    BY <1>3 DEF OpenPicamera
  <2> QED
    BY <2>1, <2>2, <2>3
<1>4. CASE Leave
  BY <1>4 DEF Leave, PicameraClose
<1>5. CASE Shutter \/ PreviewFrame
  BY <1>5 DEF Shutter, PreviewFrame, deviceVars, picameraVars, chosenVars
<1>6. CASE ReadV4L2 \/ ReadFake
  BY <1>6 DEF ReadV4L2, ReadFake, deviceVars, picameraVars, chosenVars
<1>7. CASE ReadPicamera
  <2>1. UNCHANGED <<pc, backend>> /\ InRead
    BY <1>7 DEF ReadPicamera, chosenVars
  <2>2. /\ UNCHANGED <<library, owned>>
        /\ \/ borrowed = withheld /\ borrowed' = borrowed + 1 /\ UNCHANGED <<withheld, frame>>
           \/ borrowed = withheld /\ UNCHANGED <<borrowed, withheld>>
           \/ /\ borrowed = withheld + 1 /\ withheld' \in {withheld, withheld + 1}
              /\ borrowed' = withheld'
    BY <1>7 DEF ReadPicamera, RequestInHand, CaptureRequest, PicameraRefuses, picameraVars,
                ConvertAndRelease, Released,
                FrameOf
  <2> QED
    BY <2>1, <2>2
<1>8. CASE ReadOver
  BY <1>8 DEF ReadOver, deviceVars, picameraVars, chosenVars
<1>9. CASE Allocate \/ BeginWrite \/ EndWrite \/ CaptureFails \/ Record
  <2>1. pc \in Suffixes \union {"record"} \/ (pc = "reading" /\ frame # NoFrame)
    <3>1. HasFrame => frame # NoFrame
      BY DEF HasFrame, NoFrame, FrameOf
    <3> QED
      BY <1>9, <3>1 DEF Allocate, BeginWrite, EndWrite, CaptureFails, Record
  <2>2. pc' \in Suffixes \union {"record", "ready"} /\ UNCHANGED picameraVars
    BY <1>9 DEF Allocate, OriginalSuffix, BeginWrite, EndWrite, NextStep, CaptureFails, Record,
                Suffixes, deviceVars
  <2> QED
    BY <2>1, <2>2 DEF Suffixes, picameraVars
<1>10. CASE SyncFile \/ Tick \/ UNCHANGED vars
  BY <1>10 DEF SyncFile, Tick, vars, deviceVars, picameraVars, chosenVars
<1> QED
  BY <1>1, <1>2, <1>3, <1>4, <1>5, <1>6, <1>7, <1>8, <1>9, <1>10 DEF PhotoNext, Quit, Killed

\* No read, however it ends, and no start that gets half way keeps what it
\* borrowed (read's finally, _cleanup_camera).
THEOREM GivenBack == PhotoSpec => []RequestsAreGivenBack
<1>1. PhotoInit => RequestsInv
  BY DEF PhotoInit, PicameraInit, RequestsInv
<1>2. RequestsInv => RequestsAreGivenBack
  BY DEF RequestsInv, InRead, RequestsAreGivenBack, RequestsAreReleased
<1> QED
  BY <1>1, <1>2, StepRequests, PTL DEF PhotoSpec
-----------------------------------------------------------------------------
(***************************************************************************)
(* The cloud.  Half a file in the folder is the one that is being written,  *)
(* which is too young to be copied, or was abandoned.                       *)
(***************************************************************************)
CloudInv ==
  /\ now \in Nat
  /\ open => pc \in Suffixes /\ Current \in DOMAIN disk /\ now - disk[Current].at < MinAge
  /\ \A name \in DOMAIN disk : disk[name].at \in Nat
  /\ \A name \in DOMAIN disk :
        disk[name].whole \/ name \in abandoned \/ (open /\ name = Current)
  /\ CloudHasWholeFiles

\* A write touches its own file and no other.
LEMMA WrittenFile ==
  ASSUME NEW whole \in BOOLEAN
  PROVE  /\ DOMAIN Written(whole) = DOMAIN disk \union {Current}
         /\ Written(whole)[Current].whole = whole /\ Written(whole)[Current].at = now
         /\ Written(whole)[Current].shot = shot
         /\ Written(whole)[Current].own = (pc = "original" /\ frame.jpeg)
         /\ \A name \in DOMAIN disk : name # Current => Written(whole)[name] = disk[name]
BY DEF Written, Put

LEMMA WriteCloud == ASSUME CloudInv, BeginWrite \/ EndWrite PROVE CloudInv'
<1> USE DEF CloudInv, outerVars
<1>1. CASE BeginWrite
  <2>1. disk' = Written(FALSE) /\ Current' = Current /\ ~open /\ open' /\ pc \in Suffixes
    BY <1>1 DEF BeginWrite, Current
  <2>2. UNCHANGED <<pc, stem, now, cloud, abandoned>>
    BY <1>1 DEF BeginWrite
  <2>3. /\ DOMAIN disk' = DOMAIN disk \union {Current} /\ disk'[Current].at = now
        /\ \A name \in DOMAIN disk : name # Current => disk'[name] = disk[name]
    BY <2>1, WrittenFile
  <2>4. \A name \in DOMAIN disk' : disk'[name].at \in Nat
    BY <2>3
  <2>5. \A name \in DOMAIN disk' :
          disk'[name].whole \/ name \in abandoned \/ name = Current
    BY <2>1, <2>3
  <2>6. now - disk'[Current].at < MinAge
    BY <2>3, BoundsAssumption
  <2> QED
    BY <2>1, <2>2, <2>3, <2>4, <2>5, <2>6 DEF CloudHasWholeFiles
<1>2. CASE EndWrite
  <2>1. disk' = Written(TRUE) /\ ~open' /\ open
    BY <1>2 DEF EndWrite
  <2> QED
    BY <1>2, <2>1, WrittenFile DEF EndWrite, CloudHasWholeFiles
<1> QED
  BY <1>1, <1>2

\* What is cut off in the middle of a write is abandoned.
LEMMA CutOffCloud ==
  ASSUME CloudInv, CutOff, UNCHANGED <<disk, now, cloud>> PROVE CloudInv'
BY DEF CloudInv, CutOff, CloudHasWholeFiles

LEMMA SyncCloud == ASSUME CloudInv, SyncFile PROVE CloudInv'
<1> USE DEF CloudInv
<1>1. PICK name \in DOMAIN disk :
        OldEnough(disk[name]) /\ cloud' = Put(cloud, name, disk[name])
  BY DEF SyncFile
<1>2. UNCHANGED <<pc, stem, open, disk, abandoned, now>>
  BY DEF SyncFile, folderVars
<1>3. disk[name].whole \/ name \in abandoned
  BY <1>1, BoundsAssumption DEF OldEnough
<1>4. CloudHasWholeFiles'
  BY <1>1, <1>2, <1>3 DEF CloudHasWholeFiles, Put
<1> QED
  BY <1>2, <1>4 DEF Current

LEMMA StepCloud == ASSUME CloudInv, [PhotoNext]_vars PROVE CloudInv'
<1> USE DEF CloudInv
<1>1. CASE BeginWrite \/ EndWrite
  BY <1>1, WriteCloud
<1>2. CASE Killed \/ CaptureFails
  BY <1>2, CutOffCloud DEF Killed, CaptureFails, Leave, outerVars
<1>3. CASE SyncFile
  BY <1>3, SyncCloud
<1>4. CASE Tick
  BY <1>4 DEF Tick, folderVars, Current, CloudHasWholeFiles
<1>5. CASE pc \notin Suffixes /\ UNCHANGED <<open, disk, abandoned, outerVars>>
  BY <1>5 DEF outerVars, CloudHasWholeFiles
<1>6. CASE UNCHANGED <<pc, folderVars, outerVars>>
  BY <1>6 DEF folderVars, outerVars, Current, CloudHasWholeFiles
<1>7. CASE Start \/ StartFails \/ OpenPicamera \/ Quit \/ Shutter \/ PreviewFrame \/ ReadOver
  BY <1>7, <1>5 DEF Start, StartFails, OpenPicamera, Quit, Leave, Shutter, PreviewFrame, ReadOver,
                    Reading, Suffixes, folderVars, outerVars
<1>8. CASE ReadV4L2 \/ ReadFake \/ ReadPicamera \/ UNCHANGED vars
  BY <1>8, <1>6 DEF ReadV4L2, ReadFake, ReadPicamera, vars
<1>9. CASE Allocate \/ Record
  BY <1>9, <1>5 DEF Allocate, Record, Suffixes, outerVars
<1> QED
  BY <1>1, <1>2, <1>3, <1>4, <1>7, <1>8, <1>9 DEF PhotoNext

\* The sync may run at any moment of a capture: it never takes a file that is
\* being written (--min-age).
THEOREM WholeInTheCloud == PhotoSpec => []CloudHasWholeFiles
<1>1. PhotoInit => CloudInv
  BY DEF PhotoInit, CloudInv, CloudHasWholeFiles
<1>2. CloudInv => CloudHasWholeFiles
  BY DEF CloudInv
<1> QED
  BY <1>1, <1>2, StepCloud, PTL DEF PhotoSpec
-----------------------------------------------------------------------------
(***************************************************************************)
(* The folder.  What a capture finds free stays its own until it is written *)
(* because there is one capture at a time and nobody else puts files there; *)
(* that a free name is found at all, the CHOOSE of FreeStem, rests on the   *)
(* numbering of the captures.                                               *)
(***************************************************************************)
Capturing == Suffixes \union {"record"}
FirstFiles == {"original", "ungraded"}

DngName == [stem |-> stem, suffix |-> "dng"]

\* Captures are numbered as they come; the k-th photo of a second is at least
\* the k-th capture, and while a capture reads nothing in the folder is its own.
Numbered ==
  /\ shot \in 0..MaxShots
  /\ \A name \in DOMAIN disk :
       /\ disk[name].shot \in 0..shot
       /\ name.suffix \in FirstFiles => name.stem.k <= disk[name].shot
       /\ pc = "reading" => disk[name].shot < shot
  /\ pc = "reading" => shot # 0

\* A file that is being written is not whole.
Filling == open => /\ pc \in Suffixes
                   /\ Current \in DOMAIN disk /\ ~disk[Current].whole

\* The name is free until the capture's own first write, and so is that of the
\* DNG, which nobody has without the original.
OwnNames ==
  /\ pc \in FirstFiles => pc = OriginalSuffix /\ stem.k \in 1..shot
  /\ pc \in FirstFiles \union {"dng"} /\ ~open => Current \notin DOMAIN disk
  /\ pc = "original" => DngName \notin DOMAIN disk
  /\ pc = "dng" => OriginalSuffix = "original"
  /\ \A name \in DOMAIN disk :
       name.suffix = "dng" => [stem |-> name.stem, suffix |-> "original"] \in DOMAIN disk

\* The capture's original, once it is written.
Saved ==
  /\ pc \in {"dng", "graded", "record"} =>
       /\ OriginalName \in DOMAIN disk
       /\ disk[OriginalName].whole /\ disk[OriginalName].shot = shot
       /\ OriginalSuffix = "original" <=> disk[OriginalName].own \/ frame.source = "picamera2"
  /\ pc = "record" => /\ GradedName(OriginalName) \in DOMAIN disk
                      /\ disk[GradedName(OriginalName)].whole

\* What is recorded is past.
Logged == \A line \in log : /\ line.shot \in 0..shot
                            /\ pc \in Capturing \union {"reading"} => line.shot < shot
                            /\ line.original.suffix \in FirstFiles

FolderInv == /\ Numbered /\ Filling /\ OwnNames /\ Saved /\ Logged
             /\ RecordsAreBacked

\* A set of positive numbers with an upper bound has a least one.
LEMMA Least ==
  ASSUME NEW n \in Nat, NEW S, S \subseteq 1..n, S # {}
  PROVE  \E k \in S : \A j \in S : k <= j
<1> DEFINE R == StrictSubsetOrdering(1..n)
           Initials == {1..k : k \in S}
<1>1. IsWellFoundedOn(R, SUBSET (1..n))
  <2>1. IsFiniteSet(1..n)
    BY FS_Interval
  <2> QED
    BY <2>1, FS_StrictSubsetOrderingWellFounded, FS_FiniteSubsetsOfFinite
<1>2. \A x, y \in SUBSET (1..n) : x \subseteq y /\ x # y => <<x, y>> \in R
  BY DEF StrictSubsetOrdering
<1>3. Initials \subseteq SUBSET (1..n) /\ Initials # {}
  <2>1. PICK k \in S : TRUE
    OBVIOUS
  <2> QED
    BY <2>1
<1> HIDE DEF R
<1>4. PICK x \in Initials : \A y \in Initials : ~ (<<y, x>> \in R)
  <2> HIDE DEF Initials
  <2> QED
    BY <1>1, <1>3, WFMin
<1>5. PICK k \in S : x = 1..k
  OBVIOUS
<1>6. ASSUME NEW j \in S PROVE k <= j
  <2>1. ~ (1..j \subseteq 1..k /\ 1..j # 1..k)
    BY <1>2, <1>3, <1>4, <1>5
  <2>2. k \in 1..k /\ k \in Nat /\ j \in Nat
    OBVIOUS
  <2>3. k \in 1..j \/ ~(1..j \subseteq 1..k)
    BY <2>1, <2>2
  <2>4. j <= k => 1..j \subseteq 1..k
    BY <2>2
  <2> QED
    BY <2>2, <2>3, <2>4
<1> QED
  BY <1>6

\* _allocate finds a name, free under the suffix and among the first of this
\* second: the k-th photo of a second is not before the k-th capture.
LEMMA FreeStemIsFree ==
  ASSUME FolderInv, pc = "reading", NEW suffix \in FirstFiles
  PROVE  /\ FreeStem(suffix).k \in 1..shot
         /\ [stem |-> FreeStem(suffix), suffix |-> suffix] \notin DOMAIN disk
<1> DEFINE Name(k) == [stem |-> [at |-> now, k |-> k], suffix |-> suffix]
           Free == {k \in 1..MaxShots : Name(k) \notin DOMAIN disk}
           IsFirst(k) == Name(k) \notin DOMAIN disk /\ \A j \in 1..(k - 1) : Name(j) \in DOMAIN disk
           first == CHOOSE k \in 1..MaxShots : IsFirst(k)
<1>1. shot \in 1..MaxShots /\ MaxShots \in Nat
  BY BoundsAssumption DEF FolderInv, Numbered
<1>2. Name(shot) \notin DOMAIN disk
  <2> SUFFICES ASSUME Name(shot) \in DOMAIN disk PROVE FALSE
    OBVIOUS
  <2>1. Name(shot).stem.k = shot /\ Name(shot).suffix = suffix
    OBVIOUS
  <2>2. shot <= disk[Name(shot)].shot /\ disk[Name(shot)].shot < shot /\ disk[Name(shot)].shot \in Nat
    <3> HIDE DEF Name
    <3> QED
      BY <1>1, <2>1 DEF FolderInv, Numbered
  <2> QED
    BY <1>1, <2>2
<1>3. \E k \in 1..MaxShots : IsFirst(k)
  <2>1. shot \in Free /\ Free \subseteq 1..MaxShots
    BY <1>1, <1>2
  <2>2. PICK k \in Free : \A j \in Free : k <= j
    <3> HIDE DEF Free
    <3> QED
      BY <1>1, <2>1, Least
  <2>3. ASSUME NEW j \in 1..(k - 1) PROVE Name(j) \in DOMAIN disk
    BY <1>1, <2>2
  <2> QED
    BY <2>2, <2>3
<1>4. first \in 1..MaxShots /\ IsFirst(first)
  <2> HIDE DEF IsFirst
  <2> QED
    BY <1>3
<1>5. FreeStem(suffix) = [at |-> now, k |-> first]
  BY DEF FreeStem
<1> HIDE DEF first
<1>6. first <= shot
  <2> SUFFICES ASSUME shot < first PROVE FALSE
    BY <1>1, <1>4
  <2>1. shot \in 1..(first - 1)
    BY <1>1, <1>4
  <2> QED
    BY <1>2, <1>4, <2>1
<1> QED
  BY <1>1, <1>4, <1>5, <1>6

\* While no capture is under way, and when one ends, the folder is as it was.
LEMMA RestFolder ==
  ASSUME FolderInv, UNCHANGED <<shot, disk, log>>, pc' \notin Capturing \union {"reading"}, ~open'
  PROVE  FolderInv'
BY DEF FolderInv, Numbered, Filling, OwnNames, Saved, Logged, RecordsAreBacked, Capturing,
       FirstFiles, Suffixes

\* Nor does a read, the sync or the clock touch it.
LEMMA SameFolder ==
  ASSUME FolderInv, UNCHANGED <<pc, folderVars>>, UNCHANGED frame \/ pc \notin Capturing
  PROVE  FolderInv'
BY DEF FolderInv, Numbered, Filling, OwnNames, Saved, Logged, RecordsAreBacked, Capturing,
       FirstFiles, Suffixes, folderVars, Current, DngName, OriginalName, OriginalSuffix

LEMMA AllocateFolder == ASSUME FolderInv, Allocate PROVE FolderInv'
<1> USE DEF FolderInv
<1>1. /\ pc = "reading" /\ pc' = OriginalSuffix /\ stem' = FreeStem(OriginalSuffix)
      /\ UNCHANGED <<shot, open, disk, log, frame>>
  BY DEF Allocate
<1>2. OriginalSuffix \in FirstFiles /\ OriginalSuffix' = OriginalSuffix
  BY <1>1 DEF OriginalSuffix, FirstFiles
<1>3. stem'.k \in 1..shot /\ Current' \notin DOMAIN disk
  BY <1>1, <1>2, FreeStemIsFree DEF Current
<1>4. ~open
  BY <1>1 DEF Filling, Suffixes
<1>5. pc' = "original" => DngName' \notin DOMAIN disk
  BY <1>3 DEF OwnNames, DngName, Current
<1>6. OwnNames'
  BY <1>1, <1>2, <1>3, <1>5 DEF OwnNames, FirstFiles
<1> QED
  BY <1>1, <1>2, <1>4, <1>6 DEF Numbered, Filling, Saved, Logged, RecordsAreBacked, Capturing,
     FirstFiles, Suffixes

\* A write leaves alone what is recorded: the files of a line are not those it
\* writes, but for the graded one of an earlier capture of the same name.
LEMMA WriteBacked ==
  ASSUME FolderInv, BeginWrite \/ EndWrite
  PROVE  RecordsAreBacked'
<1> USE DEF FolderInv
<1>1. PICK whole \in BOOLEAN : disk' = Written(whole)
  BY DEF BeginWrite, EndWrite
<1>2. pc \in Suffixes /\ UNCHANGED <<log, shot>>
  BY DEF BeginWrite, EndWrite
<1>3. /\ DOMAIN disk' = DOMAIN disk \union {Current} /\ disk'[Current].shot = shot
      /\ \A name \in DOMAIN disk : name # Current => disk'[name] = disk[name]
  BY <1>1, WrittenFile
<1>4. SUFFICES ASSUME NEW line \in log
               PROVE  /\ line.original \in DOMAIN disk'
                      /\ disk'[line.original] = disk[line.original]
                      /\ GradedName(line.original) \in DOMAIN disk'
                      /\ LET graded == disk'[GradedName(line.original)]
                         IN  graded.whole \/ graded.shot > line.shot
  BY <1>2 DEF RecordsAreBacked
<1>5. line.original \in DOMAIN disk /\ disk[line.original].whole
  BY DEF RecordsAreBacked
<1>6. line.original # Current
  <2>1. CASE pc = "graded"
    BY <2>1 DEF Logged, FirstFiles, Current
  <2>2. CASE pc # "graded"
    BY <1>2, <1>5, <2>2 DEF BeginWrite, EndWrite, Filling, OwnNames, Suffixes, FirstFiles
  <2> QED
    BY <2>1, <2>2
<1>7. line.shot < shot /\ line.shot \in Nat /\ shot \in Nat
  BY <1>2, BoundsAssumption DEF Logged, Capturing, Numbered
<1>8. CASE GradedName(line.original) = Current
  BY <1>3, <1>5, <1>6, <1>7, <1>8
<1>9. CASE GradedName(line.original) # Current
  BY <1>3, <1>5, <1>6, <1>9 DEF RecordsAreBacked
<1> QED
  BY <1>8, <1>9

LEMMA WriteFolder == ASSUME FolderInv, BeginWrite \/ EndWrite PROVE FolderInv'
<1> USE DEF FolderInv
<1>2. /\ pc \in Suffixes /\ UNCHANGED <<log, shot, stem, frame>>
      /\ OriginalSuffix' = OriginalSuffix /\ OriginalName' = OriginalName /\ DngName' = DngName
  BY DEF BeginWrite, EndWrite, OriginalSuffix, OriginalName, DngName
<1>3. /\ DOMAIN disk' = DOMAIN disk \union {Current}
      /\ disk'[Current].shot = shot
      /\ disk'[Current].own = (pc = "original" /\ frame.jpeg)
      /\ \A name \in DOMAIN disk : name # Current => disk'[name] = disk[name]
  <2>1. CASE disk' = Written(FALSE)
    BY <2>1, WrittenFile
  <2>2. CASE disk' = Written(TRUE)
    BY <2>2, WrittenFile
  <2> QED
    BY <2>1, <2>2 DEF BeginWrite, EndWrite
<1>4. /\ Current.stem = stem /\ Current.suffix = pc /\ shot \in Nat
      /\ pc # "reading" /\ pc' # "reading"
  <2>1. pc' \in {pc, "dng", "graded", "record"}
    BY DEF BeginWrite, EndWrite, NextStep
  <2>2. shot \in Nat
    BY BoundsAssumption DEF Numbered
  <2> QED
    BY <1>2, <2>1, <2>2 DEF Current, Suffixes
<1>5. Numbered'
  BY <1>2, <1>3, <1>4 DEF Numbered, OwnNames
<1>6. pc' \in Capturing /\ Logged'
  BY <1>2 DEF Logged, Capturing, BeginWrite, EndWrite, NextStep, Suffixes
<1>7. RecordsAreBacked'
  BY WriteBacked
<1>8. OriginalName.suffix \in FirstFiles /\ OriginalSuffix \in FirstFiles
  BY DEF OriginalName, OriginalSuffix, FirstFiles
<1>9. pc \in {"dng", "graded"} => /\ OriginalName # Current
                                  /\ OriginalName \in DOMAIN disk'
                                  /\ disk'[OriginalName] = disk[OriginalName]
  BY <1>3, <1>4, <1>8 DEF Saved, FirstFiles
<1>10. \A name \in DOMAIN disk' :
         name.suffix = "dng" => [stem |-> name.stem, suffix |-> "original"] \in DOMAIN disk'
  <2>1. pc = "dng" => [stem |-> stem, suffix |-> "original"] \in DOMAIN disk
    BY DEF Saved, OwnNames, OriginalName
  <2> QED
    BY <1>3, <1>4, <2>1 DEF OwnNames
<1>11. pc = "original" => DngName \notin DOMAIN disk'
  BY <1>3, <1>4 DEF OwnNames, DngName
<1>12. CASE BeginWrite
  <2>1. pc' = pc /\ open' /\ ~open /\ Current' = Current
    BY <1>12 DEF BeginWrite, Current
  <2>2. ~disk'[Current].whole
    BY <1>12, WrittenFile DEF BeginWrite
  <2>3. Filling'
    BY <1>2, <1>3, <2>1, <2>2 DEF Filling
  <2>4. OwnNames'
    BY <1>2, <1>10, <1>11, <2>1 DEF OwnNames
  <2>5. Saved'
    BY <1>2, <1>9, <2>1 DEF Saved, Suffixes
  <2> QED
    BY <1>5, <1>6, <1>7, <2>3, <2>4, <2>5
<1>13. CASE EndWrite
  <2>1. pc' = NextStep /\ ~open' /\ disk'[Current].whole
    BY <1>13, WrittenFile DEF EndWrite
  <2>2. pc' \in {"dng", "graded", "record"} /\ (pc' = "dng" => pc = "original")
        /\ (pc' = "record" <=> pc = "graded")
    BY <2>1 DEF NextStep
  <2>3. OwnNames'
    <3>1. pc' = "dng" => Current' = DngName /\ OriginalSuffix = "original"
      BY <1>2, <2>2 DEF Current, DngName, OwnNames, FirstFiles
    <3> QED
      BY <1>2, <1>10, <1>11, <2>2, <3>1 DEF OwnNames, FirstFiles
  <2>4. /\ OriginalName \in DOMAIN disk'
        /\ disk'[OriginalName].whole /\ disk'[OriginalName].shot = shot
        /\ OriginalSuffix = "original" <=> disk'[OriginalName].own \/ frame.source = "picamera2"
    <3>1. CASE pc \in FirstFiles
      <4>1. OriginalName = Current /\ pc = OriginalSuffix
        BY <3>1 DEF OwnNames, OriginalName, Current
      <4> QED
        BY <1>3, <2>1, <4>1 DEF OriginalSuffix
    <3>2. CASE pc \in {"dng", "graded"}
      BY <1>9, <3>2 DEF Saved
    <3> QED
      BY <1>2, <3>1, <3>2 DEF Suffixes, FirstFiles
  <2>5. pc = "graded" => GradedName(OriginalName) = Current
    BY DEF GradedName, OriginalName, Current
  <2>6. Saved'
    BY <1>2, <1>3, <2>1, <2>2, <2>4, <2>5 DEF Saved, GradedName
  <2> QED
    BY <1>5, <1>6, <1>7, <2>1, <2>3, <2>6 DEF Filling
<1> QED
  BY <1>12, <1>13

LEMMA RecordFolder == ASSUME FolderInv, Record PROVE FolderInv'
<1> USE DEF FolderInv
<1> DEFINE new == [shot |-> shot, original |-> OriginalName, source |-> frame.source]
<1>1. /\ pc = "record" /\ pc' = "ready" /\ UNCHANGED <<shot, open, disk>>
      /\ log' = log \union {new}
  BY DEF Record
<1>2. /\ new.shot = shot /\ new.original = OriginalName /\ new.source = frame.source
      /\ new.original.suffix = OriginalSuffix
  BY DEF OriginalName
<1>3. ~open
  BY <1>1 DEF Filling, Suffixes
<1>4. OriginalSuffix \in FirstFiles /\ shot \in Nat
  BY BoundsAssumption DEF OriginalSuffix, FirstFiles, Numbered
<1> HIDE DEF new
<1>5. Logged'
  BY <1>1, <1>2, <1>4 DEF Logged, Capturing, Suffixes
<1>6. RecordsAreBacked'
  <2> SUFFICES ASSUME NEW line \in log'
               PROVE  /\ line.original \in DOMAIN disk
                      /\ LET file == disk[line.original] IN
                            /\ file.whole /\ file.shot = line.shot
                            /\ line.original.suffix = "original" <=> file.own \/ line.source = "picamera2"
                      /\ GradedName(line.original) \in DOMAIN disk
                      /\ LET graded == disk[GradedName(line.original)] IN
                            graded.whole \/ graded.shot > line.shot
    BY <1>1 DEF RecordsAreBacked
  <2>1. CASE line \in log
    BY <2>1 DEF RecordsAreBacked
  <2>2. CASE line = new
    BY <1>1, <1>2, <2>2 DEF Saved
  <2> QED
    BY <1>1, <2>1, <2>2
<1> QED
  BY <1>1, <1>3, <1>5, <1>6 DEF Numbered, Filling, OwnNames, Saved, FirstFiles, Suffixes

LEMMA StepFolder == ASSUME FolderInv, [PhotoNext]_vars PROVE FolderInv'
<1> USE DEF FolderInv
<1>1. CASE Start \/ StartFails \/ OpenPicamera \/ Quit \/ PreviewFrame \/ ReadOver
  <2>1. ~open /\ UNCHANGED folderVars /\ pc' \notin Capturing \union {"reading"}
    BY <1>1 DEF Start, StartFails, OpenPicamera, Quit, Leave, PreviewFrame, ReadOver, Reading,
       Filling, Suffixes, Capturing
  <2> QED
    BY <2>1, RestFolder DEF folderVars
<1>2. CASE Killed \/ CaptureFails
  BY <1>2, RestFolder DEF Killed, CaptureFails, Leave, CutOff, Capturing, Suffixes
<1>3. CASE Shutter
  <2>1. /\ pc = "ready" /\ pc' = "reading" /\ shot < MaxShots /\ shot' = shot + 1
        /\ UNCHANGED <<stem, open, disk, log>>
    BY <1>3 DEF Shutter
  <2>2. shot \in Nat /\ MaxShots \in Nat /\ ~open
    BY <2>1, BoundsAssumption DEF Numbered, Filling, Suffixes
  <2>3. Numbered' /\ Logged'
    BY <2>1, <2>2 DEF Numbered, Logged
  <2> QED
    BY <2>1, <2>2, <2>3 DEF Filling, OwnNames, Saved, RecordsAreBacked, FirstFiles
<1>4. CASE ReadV4L2 \/ ReadFake \/ ReadPicamera
  BY <1>4, SameFolder DEF ReadV4L2, ReadFake, ReadPicamera, Reading, Capturing, Suffixes
<1>5. CASE SyncFile \/ Tick \/ UNCHANGED vars
  BY <1>5, SameFolder DEF SyncFile, Tick, vars
<1> QED
  BY <1>1, <1>2, <1>3, <1>4, <1>5, AllocateFolder, WriteFolder, RecordFolder DEF PhotoNext

\* The invariant of the folder, for any number of captures and starts.
THEOREM FolderInvariance == PhotoSpec => []FolderInv
<1>1. PhotoInit => FolderInv
  BY BoundsAssumption
  DEF PhotoInit, FolderInv, Numbered, Filling, OwnNames, Saved, Logged, RecordsAreBacked,
      FirstFiles, Suffixes, Capturing
<1> QED
  BY <1>1, StepFolder, PTL DEF PhotoSpec

\* A line of captures.jsonl is never written for files that are missing, half
\* written, or another capture's, and what it names stays.
THEOREM RecordsBacked == PhotoSpec => []RecordsAreBacked
  BY FolderInvariance, PTL DEF FolderInv

\* No capture, in whatever second, run or state of the folder, writes over an
\* original or a DNG that is there.
THEOREM OriginalsKept == PhotoSpec => OriginalsAreKept
<1>1. FolderInv /\ [PhotoNext]_vars =>
        [\A name \in DOMAIN disk :
            disk[name].whole /\ name.suffix # "graded" =>
                name \in DOMAIN disk' /\ disk'[name] = disk[name]]_vars
  <2> SUFFICES ASSUME FolderInv, PhotoNext, NEW name \in DOMAIN disk,
                      disk[name].whole, name.suffix # "graded"
               PROVE  name \in DOMAIN disk' /\ disk'[name] = disk[name]
    OBVIOUS
  <2>1. CASE UNCHANGED disk
    BY <2>1
  <2>2. CASE BeginWrite \/ EndWrite
    <3>1. PICK whole \in BOOLEAN : disk' = Written(whole)
      BY <2>2 DEF BeginWrite, EndWrite
    <3>2. name # Current
      <4>1. CASE pc = "graded"
        BY <4>1 DEF Current
      <4>2. CASE pc # "graded"
        BY <2>2, <4>2 DEF BeginWrite, EndWrite, FolderInv, Filling, OwnNames, Suffixes, FirstFiles
      <4> QED
        BY <4>1, <4>2
    <3> QED
      BY <3>1, <3>2, WrittenFile
  <2> QED
    BY <2>1, <2>2
    DEF PhotoNext, Start, StartFails, OpenPicamera, Quit, Killed, Leave, Shutter, PreviewFrame,
        ReadV4L2, ReadFake, ReadPicamera, ReadOver, Allocate, CaptureFails, Record, SyncFile, Tick,
        folderVars
<1> QED
  BY <1>1, FolderInvariance, PTL DEF PhotoSpec, OriginalsAreKept
=============================================================================
