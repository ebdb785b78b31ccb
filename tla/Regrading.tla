----------------------------- MODULE Regrading -----------------------------
(***************************************************************************)
(* pifilm-process, src/pifilm/capture/batch.py: the originals of a capture  *)
(* folder are graded again, each into a file of another folder, while the   *)
(* camera goes on adding to the first.  A run may be killed and repeated.   *)
(*                                                                         *)
(* An image file is [stem, suffix, ext]; for one of the camera the stem is  *)
(* the time of the shot, which _allocate makes free for one suffix only.    *)
(* What else happens to a capture is PhotoFolder's.                         *)
(***************************************************************************)
EXTENDS Naturals, FiniteSets

CONSTANTS
    Shots,       \* originals the camera may come to write
    Others,      \* images somebody else has put into the folder
    MaxBatches

ASSUME BatchAssumption ==
    /\ MaxBatches \in Nat
    /\ \A shot \in Shots :
        /\ shot = [stem |-> shot.stem, suffix |-> shot.suffix, ext |-> "jpg"]
        /\ shot.suffix \in {"original", "ungraded"}
    /\ \A file \in Others : file = [stem |-> file.stem, suffix |-> "none", ext |-> file.ext]

VARIABLES
    images,    \* the image files of the capture folder, the camera's graded ones apart
    starters,  \* the camera's <stem>_graded.jpg, from stems to what is in the file
    logged,    \* originals with a line in captures.jsonl
    taking,    \* the capture under way
    followers, \* history: originals written beside one of their stem
    graded,    \* the output folder, from names to what is in the file
    batch,     \* the run
    batches

cameraVars == <<images, starters, logged, taking, followers>>
batchVars == <<graded, batch, batches>>
regradingVars == <<cameraVars, batchVars>>

NoShot == [pc |-> "idle"]
NoBatch == [pc |-> "idle", todo |-> {}, chosen |-> {}, overwrite |-> FALSE]

RegradingInit ==
    /\ images = Others /\ starters = << >> /\ logged = {}
    /\ taking = NoShot /\ followers = {}
    /\ graded = << >> /\ batch = NoBatch /\ batches = 0

Written(folder, name, of, whole) ==
    [n \in DOMAIN folder \union {name} |->
        IF n = name THEN [of |-> of, whole |-> whole] ELSE folder[n]]

(***************************************************************************)
(* CaptureSession.capture: the original, the graded picture, the line.  The *)
(* graded picture of a stem is that of its last shot, raw or decoded.       *)
(***************************************************************************)
SaveOriginal(shot) ==
    /\ taking = NoShot /\ shot \in Shots \ images
    /\ images' = images \union {shot}
    /\ followers' = IF \E other \in images \intersect Shots : other.stem = shot.stem
                    THEN followers \union {shot} ELSE followers
    /\ taking' = [pc |-> "open", shot |-> shot]
    /\ UNCHANGED <<starters, logged>>

OpenStarter ==
    /\ taking.pc = "open"
    /\ starters' = Written(starters, taking.shot.stem, taking.shot, FALSE)
    /\ taking' = [taking EXCEPT !.pc = "save"]
    /\ UNCHANGED <<images, logged, followers>>

SaveStarter ==
    /\ taking.pc = "save"
    /\ starters' = Written(starters, taking.shot.stem, taking.shot, TRUE)
    /\ taking' = [taking EXCEPT !.pc = "log"]
    /\ UNCHANGED <<images, logged, followers>>

Log ==
    /\ taking.pc = "log"
    /\ logged' = logged \union {taking.shot}
    /\ taking' = NoShot
    /\ UNCHANGED <<images, starters, followers>>

(* A write that fails, or the end of the program.                           *)
FailCapture ==
    /\ taking # NoShot
    /\ taking' = NoShot
    /\ UNCHANGED <<images, starters, logged, followers>>

CameraNext ==
    \/ \E shot \in Shots : SaveOriginal(shot)
    \/ OpenStarter \/ SaveStarter \/ Log \/ FailCapture

(***************************************************************************)
(* process_dir.                                                             *)
(***************************************************************************)
Listed == images \union {[stem |-> stem, suffix |-> "graded", ext |-> "jpg"] :
                            stem \in DOMAIN starters}

IsGraded(file) == file.suffix = "graded"
IsSource(file) == file.suffix \in {"original", "ungraded"}

SelectInputs(files, all) ==
    LET candidates == {file \in files : ~IsGraded(file)}
        sources == {file \in candidates : IsSource(file)}
    IN  IF all \/ sources = {} THEN candidates ELSE sources

Lower(ext) == IF ext = "JPG" THEN "jpg" ELSE ext

OutputName(file, chosen) ==
    [stem |-> file.stem, suffix |-> file.suffix,
     tag |-> IF \E other \in chosen : /\ other # file /\ other.stem = file.stem
                                      /\ other.suffix = file.suffix
             THEN Lower(file.ext) ELSE "none"]

StartBatch ==
    /\ batch.pc = "idle" /\ batches < MaxBatches
    /\ Listed # {}
    /\ \E all, overwrite \in BOOLEAN :
        LET chosen == SelectInputs(Listed, all)
        IN  batch' = [pc |-> "next", todo |-> chosen, chosen |-> chosen, overwrite |-> overwrite]
    /\ batches' = batches + 1
    /\ UNCHANGED graded

(* The order is that of list_images; nothing here depends on which it is.   *)
NextInput == CHOOSE file \in batch.todo : TRUE
Output == OutputName(NextInput, batch.chosen)
Holds(whole) == graded' = Written(graded, Output, NextInput, whole)

SkipExisting ==
    /\ batch.pc = "next" /\ batch.todo # {}
    /\ Output \in DOMAIN graded /\ ~batch.overwrite
    /\ batch' = [batch EXCEPT !.todo = @ \ {NextInput}]
    /\ UNCHANGED <<graded, batches>>

BeginSave ==
    /\ batch.pc = "next" /\ batch.todo # {}
    /\ Output \in DOMAIN graded => batch.overwrite
    /\ Holds(FALSE)
    /\ batch' = [batch EXCEPT !.pc = "save"]
    /\ UNCHANGED batches

EndSave ==
    /\ batch.pc = "save"
    /\ Holds(TRUE)
    /\ batch' = [batch EXCEPT !.pc = "next", !.todo = @ \ {NextInput}]
    /\ UNCHANGED batches

(* Done, stopped by an image that does not load, or killed.                 *)
EndBatch ==
    /\ batch.pc # "idle"
    /\ batch' = NoBatch
    /\ UNCHANGED <<graded, batches>>

BatchNext == StartBatch \/ SkipExisting \/ BeginSave \/ EndSave \/ EndBatch

RegradingNext ==
    \/ CameraNext /\ UNCHANGED batchVars
    \/ BatchNext /\ UNCHANGED cameraVars

RegradingSpec == RegradingInit /\ [][RegradingNext]_regradingVars
=============================================================================
