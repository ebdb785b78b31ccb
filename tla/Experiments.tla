---------------------------- MODULE Experiments ----------------------------
(***************************************************************************)
(* src/pifilm/experiments and src/scripts/prepare_refinement.py: a set of    *)
(* captures is frozen for comparison, inputs are prepared with the frozen   *)
(* captures held out, a candidate look is trained on them and compared with *)
(* the frozen baseline.  Each tool works in a staging directory and renames *)
(* it to its output, which no tool ever replaces; several may run at once.  *)
(*                                                                         *)
(* A file's SHA-256 is its content.                                         *)
(***************************************************************************)
EXTENDS PublishedLook, Regrading, SequencesExt

CONSTANTS
    Tools,         \* processes running one of the tools
    Training,      \* SOURCE_IDS, stems of the photos to train on
    Validation,    \* VALIDATION, from stems of frozen photos to scenes
    References,    \* REFERENCES, from reference photos to [role, group]
    Size,          \* the dimensions of each shot
    HandMade       \* inputs directories users have written themselves

ASSUME HandMadeAssumption == \A inputs \in HandMade : ~inputs.prepared

VARIABLES
    outputs,  \* the output directories, one of each kind
    tool      \* what each process does and has staged

experimentVars == <<outputs, tool>>

Kinds == {"snapshot", "inputs", "candidate", "comparison"}
Missing == [kind |-> "missing"]
NoTool == [kind |-> "none", pc |-> "idle", todo |-> {}, staged |-> Missing]

Ungraded(stem) == [stem |-> stem, suffix |-> "ungraded", ext |-> "jpg"]

ExperimentsInit ==
    /\ outputs = [kind \in Kinds |-> Missing]
    /\ tool = [x \in Tools |-> NoTool]

There(kind) == outputs[kind] # Missing

Begin(x, kind) == tool[x].pc = "idle" /\ ~There(kind)

Stages(x, kind, pc, todo, staged) ==
    tool' = [tool EXCEPT ![x] = [kind |-> kind, pc |-> pc, todo |-> todo, staged |-> staged]]

(* As if a rename replaced the directory.                                   *)
PublishOver(x) ==
    /\ tool[x].pc = "publish"
    /\ outputs' = [outputs EXCEPT ![tool[x].kind] = tool[x].staged]
    /\ tool' = [tool EXCEPT ![x] = NoTool]

Publish(x) ==
    /\ tool[x].pc = "publish" /\ ~There(tool[x].kind)
    /\ outputs' = [outputs EXCEPT ![tool[x].kind] = tool[x].staged]
    /\ tool' = [tool EXCEPT ![x] = NoTool]

(* An error, an output that is there by now, or a kill: the staging         *)
(* directory goes or is never looked at again.                              *)
GiveUpTool(x) ==
    /\ tool[x].pc # "idle"
    /\ tool' = [tool EXCEPT ![x] = NoTool]
    /\ UNCHANGED outputs

(***************************************************************************)
(* freeze_regression.  A copy whose source has one hash before and after,   *)
(* and the copy too, is of one moment; two copies are of two moments.       *)
(***************************************************************************)
Snapshot(photos, baseline) ==
    [kind |-> "snapshot", photos |-> photos, baseline |-> baseline]

(* *_ungraded_graded.jpg                                                    *)
Triplet(stem) == [stem |-> stem, suffix |-> "ungraded", tag |-> "none"]
Triplets == {name \in DOMAIN graded : name = Triplet(name.stem)}

FreezeBegin(x) ==
    /\ Begin(x, "snapshot")
    /\ Triplets # {}
    /\ Stages(x, "snapshot", "records", Triplets, Snapshot({}, Empty))
    /\ UNCHANGED outputs

(* As if a capture without a line in the log were frozen too.               *)
FreezeUnrecorded(x) ==
    /\ tool[x].pc = "records"
    /\ Stages(x, "snapshot", "photos", tool[x].todo, tool[x].staged)
    /\ UNCHANGED outputs

(* The log is read once; a photo that is not in it ends the tool later on.  *)
FreezeRecords(x) ==
    /\ tool[x].pc = "records"
    /\ \A name \in tool[x].todo : Ungraded(name.stem) \in logged
    /\ Stages(x, "snapshot", "photos", tool[x].todo, tool[x].staged)
    /\ UNCHANGED outputs

(* The original, which never changes, with the starter file of its stem.    *)
FreezeStarter(x) ==
    /\ tool[x].pc = "photos"
    /\ \E name \in tool[x].todo :
        /\ name.stem \in DOMAIN starters
        /\ Stages(x, "snapshot", "v3", tool[x].todo \ {name},
                  [photos |-> tool[x].staged.photos,
                   ungraded |-> Ungraded(name.stem), starter |-> starters[name.stem]])
    /\ UNCHANGED outputs

(* The dimensions are read from the three files themselves.                 *)
FreezeGraded(x) ==
    /\ tool[x].pc = "v3"
    /\ LET begun == tool[x].staged
           stem == begun.ungraded.stem
           picture == graded[Triplet(stem)]
           photo == [ungraded |-> begun.ungraded, starter |-> begun.starter, v3 |-> picture]
       IN  /\ Size[begun.ungraded] = Size[starters[stem].of]
           /\ Size[begun.ungraded] = Size[picture.of]
           /\ Stages(x, "snapshot", IF tool[x].todo = {} THEN "cube" ELSE "photos",
                     tool[x].todo, Snapshot(begun.photos \union {photo}, Empty))
    /\ UNCHANGED outputs

FreezeCube(x) ==
    /\ tool[x].pc = "cube" /\ dest # NoDir
    /\ Stages(x, "snapshot", "params", {},
              Snapshot(tool[x].staged.photos, [lut |-> dest.lut, params |-> NoParams]))
    /\ UNCHANGED outputs

FreezeParams(x) ==
    /\ tool[x].pc = "params" /\ dest # NoDir
    /\ Stages(x, "snapshot", "publish", {},
              Snapshot(tool[x].staged.photos,
                       [lut |-> tool[x].staged.baseline.lut, params |-> dest.params]))
    /\ UNCHANGED outputs

(***************************************************************************)
(* load_partition: records of [file, sha256, role, group] and the files.    *)
(***************************************************************************)
Roles == {"train", "validation", "regression", "excluded"}

RecordsOf(partition, roles) ==
    {i \in DOMAIN partition.records : partition.records[i].role \in roles}

LoadPartition(partition, excluded) ==
    LET record == partition.records
        fitted == RecordsOf(partition, {"train", "validation"})
        Groups(role) == {record[i].group : i \in RecordsOf(partition, {role})}
    IN  /\ RecordsOf(partition, Roles) = DOMAIN record
        /\ \A i \in DOMAIN record : partition.files[record[i].file] = record[i].sha256
        /\ \A i, j \in DOMAIN record : i # j => record[i].file # record[j].file
        /\ \A i \in RecordsOf(partition, {"train"}) : record[i].sha256 \notin excluded
        /\ \A i, j \in fitted : i # j => record[i].sha256 # record[j].sha256
        /\ Groups("train") \intersect Groups("validation") = {}
        /\ Groups("train") # {} /\ Groups("validation") # {}

(***************************************************************************)
(* prepare_refinement: the photos of a camera folder to train on, frozen    *)
(* ones to validate with, and every frozen photo excluded from training.    *)
(***************************************************************************)
Entry(photo, role, group) == [photo |-> photo, role |-> role, group |-> group]

(* Each chosen photo is copied to a file of its own and recorded with it.   *)
Partition(entries) ==
    [records |-> SetToSeq({[file |-> entry, sha256 |-> entry.photo, role |-> entry.role,
                            group |-> entry.group] : entry \in entries}),
     files |-> [entry \in entries |-> entry.photo]]

Frozen == {photo.ungraded : photo \in outputs["snapshot"].photos}

PreparedCamera(camera) ==
    Partition({Entry(shot, "train", "bedroom") : shot \in camera}
                \union {Entry(Ungraded(stem), "validation", Validation[stem]) :
                            stem \in DOMAIN Validation})

PreparedReferences ==
    Partition({Entry(photo, References[photo].role, References[photo].group) :
                    photo \in DOMAIN References})

PrepareInputs(x, camera) ==
    /\ Begin(x, "inputs") /\ There("snapshot")
    /\ {shot.stem : shot \in camera} = Training
    /\ \A stem \in DOMAIN Validation : Ungraded(stem) \in Frozen
    /\ LoadPartition(PreparedCamera(camera), Frozen)
    /\ LoadPartition(PreparedReferences, {})
    /\ Stages(x, "inputs", "publish", {},
              [kind |-> "inputs", prepared |-> TRUE, camera |-> PreparedCamera(camera),
               references |-> PreparedReferences, excluded |-> Frozen,
               baseline |-> outputs["snapshot"].baseline])
    /\ UNCHANGED outputs

(***************************************************************************)
(* train_candidate.  The partitions are checked first; the photos are read  *)
(* afterwards.                                                              *)
(***************************************************************************)
PhotosOf(partition, role) ==
    {partition.files[partition.records[i].file] : i \in RecordsOf(partition, {role})}
FilesOf(partition) ==
    {partition.records[i].file : i \in RecordsOf(partition, {"train", "validation"})}

Candidate(inputs, trained, validated) ==
    [kind |-> "candidate", baseline |-> inputs.baseline, trained |-> trained,
     validated |-> validated, provenance |-> inputs]

TrainBegin(x, inputs) ==
    /\ Begin(x, "candidate") /\ inputs # Missing
    /\ LoadPartition(inputs.camera, inputs.excluded)
    /\ LoadPartition(inputs.references, {})
    /\ FilesOf(inputs.camera) \intersect FilesOf(inputs.references) = {}
    /\ Load(inputs.baseline)
    /\ Stages(x, "candidate", "train", {}, Candidate(inputs, << >>, << >>))
    /\ UNCHANGED outputs

TrainCandidate(x) ==
    /\ tool[x].pc = "train"
    /\ LET inputs == tool[x].staged.provenance
           Of(role) == <<PhotosOf(inputs.camera, role), PhotosOf(inputs.references, role)>>
       IN  Stages(x, "candidate", "publish", {},
                  Candidate(inputs, Of("train"), Of("validation")))
    /\ UNCHANGED outputs

(***************************************************************************)
(* evaluate_candidates.  Looks with another normalisation than the          *)
(* baseline's are not compared.                                             *)
(***************************************************************************)
Evaluate(x) ==
    /\ Begin(x, "comparison") /\ There("snapshot")
    /\ LET snapshot == outputs["snapshot"] IN
        /\ Load(snapshot.baseline)
        /\ \A photo \in snapshot.photos : photo.starter.whole /\ photo.v3.whole
        /\ \E compared \in BOOLEAN :
            /\ compared => There("candidate")
                            /\ outputs["candidate"].baseline.params = snapshot.baseline.params
            /\ Stages(x, "comparison", "publish", {},
                      [kind |-> "comparison", baseline |-> snapshot.baseline,
                       photos |-> snapshot.photos,
                       candidate |-> IF compared THEN outputs["candidate"] ELSE Missing])
    /\ UNCHANGED outputs

ToolNext(x) ==
    \/ FreezeBegin(x) \/ FreezeRecords(x) \/ FreezeStarter(x) \/ FreezeGraded(x)
    \/ FreezeCube(x) \/ FreezeParams(x)
    \/ \E camera \in SUBSET {shot \in Shots : shot.suffix = "ungraded"} :
          PrepareInputs(x, camera)
    \/ \E inputs \in HandMade \union {outputs["inputs"]} : TrainBegin(x, inputs)
    \/ TrainCandidate(x) \/ Evaluate(x)
    \/ Publish(x) \/ GiveUpTool(x)

(***************************************************************************)
(* The experiments beside trainings, regrading and the camera.              *)
(***************************************************************************)
ExperimentsNext ==
    \E x \in Tools : ToolNext(x)

labVars == <<lookVars, regradingVars, experimentVars>>

LabInit == LookInit /\ RegradingInit /\ ExperimentsInit

LabNext ==
    \/ LookNext /\ UNCHANGED <<regradingVars, experimentVars>>
    \/ RegradingNext /\ UNCHANGED <<lookVars, experimentVars>>
    \/ ExperimentsNext /\ UNCHANGED <<lookVars, regradingVars>>

LabSpec == LabInit /\ [][LabNext]_labVars

(***************************************************************************)
(* No look was fitted to a photo its inputs exclude or it was validated     *)
(* with, nor, when the inputs were prepared from the frozen captures, to    *)
(* one of those as they are on the disk, although several tools freeze,     *)
(* prepare and train at once (partitions.py:1, training.md:331).            *)
(***************************************************************************)
HeldOut ==
    There("candidate") =>
        LET candidate == outputs["candidate"] IN
        /\ candidate.trained[1] \intersect candidate.provenance.excluded = {}
        /\ \A n \in {1, 2} : candidate.trained[n] \intersect candidate.validated[n] = {}
        /\ candidate.provenance.prepared => candidate.trained[1] \intersect Frozen = {}

(***************************************************************************)
(* Comparisons and candidates (unless their inputs are written by hand)     *)
(* rest on a baseline whose table and params were written as one artifact,  *)
(* also when a training published another one between the copies of the two *)
(* files (artifacts.py:16-21).                                              *)
(***************************************************************************)
BaselineIsOneArtifact ==
    \A kind \in {"candidate", "comparison"} :
        There(kind) /\ (kind = "candidate" => outputs[kind].provenance.prepared)
            => [lut |-> outputs[kind].baseline.lut,
                params |-> outputs[kind].baseline.params] \in written

(***************************************************************************)
(* The files frozen together are of one shot, although starters are found   *)
(* by their stem alone, which a raw and a decoded shot may share, and the   *)
(* camera, pifilm-process and the freeze go on at once: the starter is the  *)
(* shot's own and whole, or that of a later shot, which has replaced it     *)
(* (regression.py:77; app.py:121, 148).                                     *)
(***************************************************************************)
TripletsAreOfOneShot ==
    There("snapshot") =>
        \A photo \in outputs["snapshot"].photos :
            /\ photo.v3.of = photo.ungraded
            /\ photo.starter.of = photo.ungraded => photo.starter.whole
            /\ photo.starter.of # photo.ungraded => photo.starter.of \in followers
=============================================================================
