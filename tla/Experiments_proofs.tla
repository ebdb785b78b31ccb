------------------------- MODULE Experiments_proofs -------------------------
(***************************************************************************)
(* For any photos, tools and inputs: no candidate was fitted to what it was *)
(* to be tested on, every baseline compared with is one artifact, and the   *)
(* files frozen together belong together.                                   *)
(*                                                                         *)
(* The tools check their inputs at one moment and publish at a later one,   *)
(* when the snapshot, the look or the graded photos may be others.  Inv     *)
(* says what of each check is still true by then: a snapshot that is there  *)
(* never changes, params once written name their table for ever, and the    *)
(* starter of a logged shot goes over to another one of its stem at most.   *)
(***************************************************************************)
EXTENDS Experiments, TLAPS

\* What the look promises (PublishedLook).
LookInv == written \subseteq Whole /\ dest \in written \union {NoDir}

\* Params copied from a look at some moment.
FromOneLook(params) ==
  params = NoParams \/ \E artifact \in written : artifact.params = params

OneArtifact(baseline) == [lut |-> baseline.lut, params |-> baseline.params] \in written

\* A starter file that may be frozen with an original.
Fits(shot, starter) ==
  (starter.of = shot /\ starter.whole) \/ (starter.of # shot /\ starter.of \in followers)

\* What the camera has taken and written.
CameraInv ==
  /\ images \subseteq Shots \union Others /\ logged \subseteq images \intersect Shots
  /\ \A shot \in logged : shot.stem \in DOMAIN starters /\ Fits(shot, starters[shot.stem])
  /\ taking # NoShot =>
       /\ DOMAIN taking = {"pc", "shot"}
       /\ taking.shot \in Shots \ logged /\ taking.shot \in images
       /\ \A shot \in logged : shot.stem = taking.shot.stem => taking.shot \in followers
       /\ taking.pc = "log" => /\ taking.shot.stem \in DOMAIN starters
                               /\ starters[taking.shot.stem] = [of |-> taking.shot, whole |-> TRUE]

\* A graded photo that freeze_regression takes is of the shot of that name.
Named(name, picture) == name = Triplet(name.stem) => picture.of = Ungraded(name.stem)

GradedInv ==
  /\ \A name \in DOMAIN graded : Named(name, graded[name])
  /\ DOMAIN batch = {"pc", "todo", "chosen", "overwrite"}
  /\ batch.todo \subseteq Shots \union Others
  /\ batch.pc = "save" => batch.todo # {}

\* Inputs that train_candidate has checked.
Checked(inputs) ==
  /\ LoadPartition(inputs.camera, inputs.excluded)
  /\ LoadPartition(inputs.references, {})
  /\ inputs.prepared => /\ There("snapshot") /\ inputs.excluded = Frozen
                        /\ OneArtifact(inputs.baseline)

Matched(photos) ==
  \A photo \in photos : photo.v3.of = photo.ungraded /\ Fits(photo.ungraded, photo.starter)

\* What freeze_regression is to freeze, and what it has begun with.
ToFreeze(names) ==
  \A name \in names : name = Triplet(name.stem) /\ name \in DOMAIN graded
Recorded(names) == \A name \in names : Ungraded(name.stem) \in logged
Begun(staged) ==
  /\ staged.ungraded = Ungraded(staged.ungraded.stem)
  /\ Triplet(staged.ungraded.stem) \in DOMAIN graded
  /\ Fits(staged.ungraded, staged.starter)

\* What is, or is about to be, published as an output of each kind.
Sound(kind, output) ==
  CASE kind = "snapshot" ->
         /\ FromOneLook(output.baseline.params)
         /\ Matched(output.photos)
    [] kind = "inputs" ->
         output.prepared => /\ There("snapshot") /\ output.excluded = Frozen
                            /\ FromOneLook(output.baseline.params)
    [] kind = "candidate" ->
         /\ output.trained[1] \intersect output.provenance.excluded = {}
         /\ \A n \in {1, 2} : output.trained[n] \intersect output.validated[n] = {}
         /\ output.provenance.prepared =>
              /\ There("snapshot") /\ output.provenance.excluded = Frozen
              /\ OneArtifact(output.baseline)
    [] kind = "comparison" -> OneArtifact(output.baseline)
    [] OTHER -> FALSE

\* What a tool has under way.
Staged(x) ==
  /\ tool[x].pc \in {"idle", "records", "photos", "v3", "cube", "params", "train", "publish"}
  /\ tool[x].pc \in {"records", "photos", "v3"} => ToFreeze(tool[x].todo)
  /\ tool[x].pc \in {"photos", "v3"} => Recorded(tool[x].todo)
  /\ tool[x].pc \in {"records", "photos", "v3", "cube", "params"} => Matched(tool[x].staged.photos)
  /\ tool[x].pc = "v3" => Begun(tool[x].staged)
  /\ tool[x].pc = "train" => Checked(tool[x].staged.provenance)
  /\ tool[x].pc = "publish" => tool[x].kind \in Kinds /\ Sound(tool[x].kind, tool[x].staged)

Inv ==
  /\ LookInv /\ CameraInv /\ GradedInv
  /\ DOMAIN outputs = Kinds /\ DOMAIN tool = Tools
  /\ \A kind \in Kinds : There(kind) => Sound(kind, outputs[kind])
  /\ \A x \in Tools : Staged(x)
-----------------------------------------------------------------------------
\* Params copied at one moment and a table at another, once they are found to
\* fit, are an artifact (Artifacts.load).
LEMMA FitsIsOne ==
  ASSUME LookInv, NEW baseline, FromOneLook(baseline.params), Load(baseline)
  PROVE  OneArtifact(baseline)
<1>1. baseline.params # NoParams
  BY FitsAssumption DEF Load, Matches, NoParams
<1>2. PICK artifact \in written : artifact.params = baseline.params
  BY <1>1 DEF FromOneLook
<1>3. artifact = [lut |-> baseline.lut, params |-> baseline.params]
  BY <1>2 DEF LookInv, Whole, Artifact, Load, Matches
<1> QED
  BY <1>2, <1>3 DEF OneArtifact

\* What load_partition accepts keeps the photos trained on apart from those
\* excluded and from those validated with.
LEMMA PartitionHoldsOut ==
  ASSUME NEW partition, NEW excluded, LoadPartition(partition, excluded)
  PROVE  /\ PhotosOf(partition, "train") \intersect excluded = {}
         /\ PhotosOf(partition, "train") \intersect PhotosOf(partition, "validation") = {}
<1> DEFINE record == partition.records
<1>1. \A i \in DOMAIN record : partition.files[record[i].file] = record[i].sha256
  BY DEF LoadPartition
<1>2. ASSUME NEW photo \in PhotosOf(partition, "train")
      PROVE  \E i \in RecordsOf(partition, {"train"}) : photo = record[i].sha256
  BY <1>1 DEF PhotosOf, RecordsOf
<1>3. ASSUME NEW photo \in PhotosOf(partition, "validation")
      PROVE  \E i \in RecordsOf(partition, {"validation"}) : photo = record[i].sha256
  BY <1>1 DEF PhotosOf, RecordsOf
<1>4. \A i \in RecordsOf(partition, {"train"}), j \in RecordsOf(partition, {"validation"}) :
         record[i].sha256 # record[j].sha256
  BY DEF LoadPartition, RecordsOf
<1>5. \A i \in RecordsOf(partition, {"train"}) : record[i].sha256 \notin excluded
  BY DEF LoadPartition
<1> QED
  BY <1>2, <1>3, <1>4, <1>5

\* Nothing is there.
LEMMA InitInv == LabInit => Inv
BY DEF LabInit, LookInit, RegradingInit, ExperimentsInit, Inv, LookInv, CameraInv, GradedInv,
   NoBatch, Staged, NoTool, There, Missing

\* What does not lose anything: looks, lines of the log, graded names and a
\* snapshot stay.
Grows ==
  /\ written \subseteq written' /\ logged \subseteq logged' /\ followers \subseteq followers'
  /\ DOMAIN graded \subseteq DOMAIN graded'
  /\ There("snapshot") => outputs'["snapshot"] = outputs["snapshot"]

LEMMA FitsKept == Grows => \A shot, starter : Fits(shot, starter) => Fits(shot, starter)'
BY DEF Grows, Fits

LEMMA MatchedKept == Grows => \A photos : Matched(photos) => Matched(photos)'
BY FitsKept DEF Matched

LEMMA SoundKept == Grows => \A kind, output : Sound(kind, output) => Sound(kind, output)'
<1> SUFFICES ASSUME Grows, NEW kind, NEW output, Sound(kind, output) PROVE Sound(kind, output)'
  OBVIOUS
<1>1. There("snapshot") => There("snapshot")' /\ Frozen' = Frozen
  BY DEF Grows, There, Frozen
<1>2. FromOneLook(output.baseline.params) => FromOneLook(output.baseline.params)'
  BY DEF Grows, FromOneLook
<1>3. OneArtifact(output.baseline) => OneArtifact(output.baseline)'
  BY DEF Grows, OneArtifact
<1>4. CASE kind = "snapshot"
  BY <1>4, <1>2, MatchedKept DEF Sound
<1>5. CASE kind = "inputs"
  BY <1>5, <1>1, <1>2 DEF Sound
<1>6. CASE kind = "candidate"
  BY <1>6, <1>1, <1>3 DEF Sound
<1>7. CASE kind = "comparison"
  BY <1>7, <1>3 DEF Sound
<1> QED
  BY <1>4, <1>5, <1>6, <1>7 DEF Sound

LEMMA StagedKept ==
  ASSUME Grows, NEW x \in Tools, tool'[x] = tool[x], Staged(x)
  PROVE  Staged(x)'
<1>1. /\ ToFreeze(tool[x].todo) => ToFreeze(tool[x].todo)'
      /\ Recorded(tool[x].todo) => Recorded(tool[x].todo)'
  BY DEF Grows, ToFreeze, Recorded
<1>2. There("snapshot") => There("snapshot")' /\ Frozen' = Frozen
  BY DEF Grows, There, Frozen
<1>3. Checked(tool[x].staged.provenance) => Checked(tool[x].staged.provenance)'
  BY <1>2 DEF Grows, Checked, OneArtifact
<1>4. tool[x].pc = "publish" => Sound(tool[x].kind, tool[x].staged)'
  BY SoundKept DEF Staged
<1>5. Begun(tool[x].staged) => Begun(tool[x].staged)'
  BY FitsKept DEF Grows, Begun
<1>6. Matched(tool[x].staged.photos) => Matched(tool[x].staged.photos)'
  BY MatchedKept
<1> QED
  BY <1>1, <1>3, <1>4, <1>5, <1>6 DEF Staged

\* A look is written, appears or goes.
LEMMA LookStep ==
  ASSUME Inv, LookNext, UNCHANGED <<regradingVars, experimentVars>>
  PROVE  Inv'
<1>1. LookInv'
  BY DEF LookNext, Write, Appear, Vanish, Inv, LookInv
<1>2. UNCHANGED <<images, starters, logged, taking, followers, graded, batch, outputs, tool>>
  BY DEF regradingVars, cameraVars, batchVars, experimentVars
<1>3. Grows
  BY <1>2 DEF LookNext, Write, Appear, Vanish, Grows
<1>4. \A x \in Tools : Staged(x)'
  BY <1>2, <1>3, StagedKept DEF Inv
<1>5. \A kind \in Kinds : There(kind)' => Sound(kind, outputs[kind])'
  BY <1>2, <1>3, SoundKept DEF Inv, There
<1>6. CameraInv' /\ GradedInv'
  BY <1>2 DEF Inv, CameraInv, GradedInv, Named, Fits
<1> QED
  BY <1>1, <1>2, <1>4, <1>5, <1>6 DEF Inv

\* Looks and experiments are left alone, nothing is lost.
LEMMA FolderStep ==
  ASSUME Inv, UNCHANGED <<lookVars, experimentVars>>, CameraInv', GradedInv',
         logged \subseteq logged', followers \subseteq followers', DOMAIN graded \subseteq DOMAIN graded'
  PROVE  Inv'
<1> USE DEF Inv
<1>1. UNCHANGED <<written, dest, outputs, tool>>
  BY DEF lookVars, experimentVars
<1>2. Grows
  BY <1>1 DEF Grows
<1>3. \A x \in Tools : Staged(x)'
  BY <1>1, <1>2, StagedKept
<1>4. \A kind \in Kinds : There(kind)' => Sound(kind, outputs[kind])'
  BY <1>1, <1>2, SoundKept DEF There
<1>5. LookInv'
  BY <1>1 DEF LookInv
<1> QED
  BY <1>1, <1>3, <1>4, <1>5

\* The camera: the starter of a logged shot is its own until another shot of
\* the stem opens the file again.
LEMMA CameraStep ==
  ASSUME Inv, CameraNext, UNCHANGED <<lookVars, batchVars, experimentVars>>
  PROVE  Inv'
<1> USE DEF Inv
<1>1. UNCHANGED <<graded, batch>> /\ GradedInv'
  BY DEF batchVars, GradedInv, Named
<1> DEFINE Goal == CameraInv' /\ logged \subseteq logged' /\ followers \subseteq followers'
<1> SUFFICES Goal
  BY <1>1, FolderStep
<1>2. ASSUME NEW shot \in Shots, SaveOriginal(shot) PROVE Goal
  <2>1. /\ taking = NoShot /\ shot \in Shots \ images /\ images' = images \union {shot}
        /\ taking' = [pc |-> "open", shot |-> shot] /\ UNCHANGED <<starters, logged>>
        /\ followers \subseteq followers'
    BY <1>2 DEF SaveOriginal
  <2>2. \A other \in logged : other.stem = shot.stem => shot \in followers'
    BY <1>2 DEF SaveOriginal, CameraInv
  <2>3. \A other \in logged' : /\ other.stem \in DOMAIN starters'
                               /\ Fits(other, starters[other.stem])'
    BY <2>1 DEF CameraInv, Fits
  <2> QED
    BY <2>1, <2>2, <2>3 DEF CameraInv
<1>3. CASE OpenStarter \/ SaveStarter
  <2>1. taking # NoShot
    <3>1. NoShot.pc = "idle"
      BY DEF NoShot
    <3>2. taking.pc \in {"open", "save"}
      BY <1>3 DEF OpenStarter, SaveStarter
    <3> QED
      BY <3>1, <3>2
  <2>2. /\ UNCHANGED <<images, logged, followers>>
        /\ DOMAIN taking' = {"pc", "shot"} /\ taking'.shot = taking.shot
    BY <1>3, <2>1 DEF OpenStarter, SaveStarter, CameraInv
  <2>3. PICK whole \in BOOLEAN :
          starters' = Written(starters, taking.shot.stem, taking.shot, whole)
    BY <1>3 DEF OpenStarter, SaveStarter
  <2>4. /\ DOMAIN starters' = DOMAIN starters \union {taking.shot.stem}
        /\ \A stem \in DOMAIN starters' :
              starters'[stem] = IF stem = taking.shot.stem
                                THEN [of |-> taking.shot, whole |-> whole]
                                ELSE starters[stem]
    BY <2>3 DEF Written
  <2>5. ASSUME NEW shot \in logged
        PROVE  shot.stem \in DOMAIN starters' /\ Fits(shot, starters[shot.stem])'
    <3>1. shot.stem \in DOMAIN starters /\ Fits(shot, starters[shot.stem])
      BY DEF CameraInv
    <3>2. CASE shot.stem = taking.shot.stem
      <4>1. taking.shot \in followers /\ taking.shot # shot
        BY <2>1, <3>2 DEF CameraInv
      <4> QED
        BY <4>1, <3>1, <3>2, <2>2, <2>4 DEF Fits
    <3>3. CASE shot.stem # taking.shot.stem
      BY <3>1, <3>3, <2>2, <2>4 DEF Fits
    <3> QED
      BY <3>2, <3>3
  <2>6. taking'.pc = "log" => starters'[taking.shot.stem] = [of |-> taking.shot, whole |-> TRUE]
    BY <1>3, <2>1 DEF OpenStarter, SaveStarter, Written, CameraInv
  <2> QED
    BY <2>1, <2>2, <2>4, <2>5, <2>6 DEF CameraInv
<1>4. CASE Log
  <2>1. /\ taking # NoShot /\ taking.pc = "log" /\ taking' = NoShot
        /\ logged' = logged \union {taking.shot} /\ UNCHANGED <<images, starters, followers>>
    BY <1>4 DEF Log, NoShot
  <2>2. /\ taking.shot.stem \in DOMAIN starters
        /\ starters[taking.shot.stem] = [of |-> taking.shot, whole |-> TRUE]
        /\ taking.shot \in images \intersect Shots
    BY <2>1 DEF CameraInv
  <2>3. Fits(taking.shot, starters[taking.shot.stem])
    BY <2>2 DEF Fits
  <2> QED
    BY <2>1, <2>2, <2>3 DEF CameraInv, Fits
<1>5. CASE FailCapture
  BY <1>5 DEF FailCapture, CameraInv, Fits
<1> QED
  BY <1>2, <1>3, <1>4, <1>5 DEF CameraNext

\* What a run writes it writes under the name of the file it is of.
LEMMA HoldsNamed ==
  ASSUME GradedInv, batch.todo # {}, NEW whole, Holds(whole)
  PROVE  /\ DOMAIN graded \subseteq DOMAIN graded'
         /\ \A name \in DOMAIN graded' : Named(name, graded'[name])
<1>1. NextInput \in Shots \union Others
  BY DEF NextInput, GradedInv
<1>2. Named(Output, [of |-> NextInput, whole |-> whole])
  <2> SUFFICES ASSUME Output = Triplet(Output.stem) PROVE NextInput = Ungraded(Output.stem)
    BY DEF Named
  <2>1. NextInput.suffix = "ungraded" /\ Output.stem = NextInput.stem
    BY DEF Output, OutputName, Triplet
  <2>2. NextInput \in Shots
    BY <1>1, <2>1, BatchAssumption
  <2> QED
    BY <2>1, <2>2, BatchAssumption DEF Ungraded
<1>3. /\ DOMAIN graded' = DOMAIN graded \union {Output}
      /\ \A name \in DOMAIN graded' :
            graded'[name] = IF name = Output THEN [of |-> NextInput, whole |-> whole]
                            ELSE graded[name]
  BY DEF Holds, Written
<1> QED
  BY <1>2, <1>3 DEF GradedInv

\* pifilm-process.
LEMMA BatchStep ==
  ASSUME Inv, BatchNext, UNCHANGED <<lookVars, cameraVars, experimentVars>>
  PROVE  Inv'
<1> USE DEF Inv
<1>1. UNCHANGED <<images, starters, logged, taking, followers>> /\ CameraInv'
  BY DEF cameraVars, CameraInv, Fits
<1> DEFINE Goal == GradedInv' /\ DOMAIN graded \subseteq DOMAIN graded'
<1> SUFFICES Goal
  BY <1>1, FolderStep
<1>2. CASE StartBatch
  <2>1. PICK all \in BOOLEAN, overwrite \in BOOLEAN :
          LET chosen == SelectInputs(Listed, all)
          IN  batch' = [pc |-> "next", todo |-> chosen, chosen |-> chosen, overwrite |-> overwrite]
    BY <1>2 DEF StartBatch
  <2>2. SelectInputs(Listed, all) \subseteq images
    BY DEF SelectInputs, Listed, IsGraded
  <2>3. /\ DOMAIN batch' = {"pc", "todo", "chosen", "overwrite"} /\ batch'.pc = "next"
        /\ batch'.todo = SelectInputs(Listed, all)
    BY <2>1
  <2> QED
    BY <2>2, <2>3, <1>2 DEF StartBatch, GradedInv, CameraInv
<1>3. CASE SkipExisting
  BY <1>3 DEF SkipExisting, GradedInv
<1>4. CASE BeginSave
  <2>1. /\ batch.todo # {} /\ batch'.todo = batch.todo /\ DOMAIN batch' = DOMAIN batch
    BY <1>4 DEF BeginSave
  <2> QED
    BY <2>1, <1>4, HoldsNamed DEF BeginSave, GradedInv
<1>5. CASE EndSave
  <2>1. /\ batch'.todo = batch.todo \ {NextInput} /\ DOMAIN batch' = DOMAIN batch
        /\ batch'.pc = "next" /\ batch.todo # {}
    BY <1>5 DEF EndSave, GradedInv
  <2> QED
    BY <2>1, <1>5, HoldsNamed DEF EndSave, GradedInv
<1>6. CASE EndBatch
  BY <1>6 DEF EndBatch, NoBatch, GradedInv
<1> QED
  BY <1>2, <1>3, <1>4, <1>5, <1>6 DEF BatchNext

OthersRest(x) ==
  DOMAIN tool' = Tools /\ \A y \in Tools \ {x} : tool'[y] = tool[y]

\* A step of one tool short of publishing: only what that tool has staged
\* changes.
LEMMA ToolStep ==
  ASSUME Inv, NEW x \in Tools, UNCHANGED <<lookVars, regradingVars, outputs>>,
         OthersRest(x), Staged(x)'
  PROVE  Inv'
<1> USE DEF Inv, OthersRest
<1>1. UNCHANGED <<written, dest, images, starters, logged, taking, followers, graded, batch>>
  BY DEF lookVars, regradingVars, cameraVars, batchVars
<1>2. Grows
  BY <1>1 DEF Grows
<1>3. \A y \in Tools : Staged(y)'
  BY <1>2, StagedKept
<1>4. \A kind \in Kinds : There(kind)' => Sound(kind, outputs[kind])'
  BY <1>2, SoundKept DEF There
<1>5. LookInv' /\ CameraInv' /\ GradedInv'
  BY <1>1 DEF LookInv, CameraInv, GradedInv, Named, Fits
<1> QED
  BY <1>3, <1>4, <1>5

\* freeze_regression, which reads photos and look while others write them.
LEMMA FreezeStep ==
  ASSUME Inv, NEW x \in Tools, UNCHANGED <<lookVars, regradingVars>>,
         \/ FreezeBegin(x) \/ FreezeRecords(x) \/ FreezeStarter(x) \/ FreezeGraded(x)
         \/ FreezeCube(x) \/ FreezeParams(x)
  PROVE  Inv'
<1>1. UNCHANGED <<written, dest, starters, logged, followers, graded, outputs>>
  BY DEF lookVars, regradingVars, cameraVars, batchVars, FreezeBegin, FreezeRecords,
         FreezeStarter, FreezeGraded, FreezeCube, FreezeParams
<1> OthersRest(x)
  BY DEF FreezeBegin, FreezeRecords, FreezeStarter, FreezeGraded, FreezeCube, FreezeParams,
         Stages, OthersRest, Inv
<1>2. Grows
  BY <1>1 DEF Grows
<1>3. CASE FreezeBegin(x)
  <2>1. tool'[x] = [kind |-> "snapshot", pc |-> "records", todo |-> Triplets,
                    staged |-> Snapshot({}, Empty)]
    BY <1>3 DEF FreezeBegin, Stages, Inv
  <2>2. ToFreeze(tool[x].todo)'
    BY <1>1, <2>1 DEF ToFreeze, Triplets
  <2>3. Matched(tool[x].staged.photos)'
    BY <2>1 DEF Matched, Snapshot
  <2>4. Staged(x)'
    BY <2>1, <2>2, <2>3 DEF Staged
  <2> QED
    BY <2>4, <1>1, ToolStep
<1>4. CASE FreezeRecords(x)
  <2>1. tool'[x] = [kind |-> "snapshot", pc |-> "photos", todo |-> tool[x].todo,
                    staged |-> tool[x].staged]
    BY <1>4 DEF FreezeRecords, Stages, Inv
  <2>2. /\ ToFreeze(tool[x].todo)' /\ Recorded(tool[x].todo)'
        /\ Matched(tool[x].staged.photos)
    BY <1>1, <1>4, <2>1 DEF FreezeRecords, Inv, Staged, ToFreeze, Recorded
  <2>3. Matched(tool[x].staged.photos)'
    BY <2>1, <2>2, <1>2, MatchedKept
  <2>4. Staged(x)'
    BY <2>1, <2>2, <2>3 DEF Staged
  <2> QED
    BY <2>4, <1>1, ToolStep
<1>5. CASE FreezeStarter(x)
  <2>1. PICK name \in tool[x].todo :
          Stages(x, "snapshot", "v3", tool[x].todo \ {name},
                 [photos |-> tool[x].staged.photos,
                  ungraded |-> Ungraded(name.stem), starter |-> starters[name.stem]])
    BY <1>5 DEF FreezeStarter
  <2>2. /\ tool'[x].pc = "v3" /\ tool'[x].todo = tool[x].todo \ {name}
        /\ tool'[x].staged.photos = tool[x].staged.photos
        /\ tool'[x].staged.ungraded = Ungraded(name.stem)
        /\ tool'[x].staged.starter = starters[name.stem]
    BY <2>1 DEF Stages, Inv
  <2>3. /\ ToFreeze(tool[x].todo) /\ Recorded(tool[x].todo) /\ Matched(tool[x].staged.photos)
    BY <1>5 DEF FreezeStarter, Inv, Staged
  <2>4. ToFreeze(tool[x].todo)' /\ Recorded(tool[x].todo)'
    BY <2>2, <2>3, <1>1 DEF ToFreeze, Recorded
  <2>5. Matched(tool[x].staged.photos)'
    BY <2>2, <2>3, <1>2, MatchedKept
  <2>6. Begun(tool[x].staged)'
    <3>1. Ungraded(name.stem).stem = name.stem
      BY DEF Ungraded
    <3>2. Fits(Ungraded(name.stem), starters[name.stem])
      BY <2>3, <3>1 DEF Recorded, Inv, CameraInv
    <3>3. Triplet(name.stem) \in DOMAIN graded'
      BY <2>3, <1>1 DEF ToFreeze
    <3>4. Fits(Ungraded(name.stem), starters[name.stem])'
      BY <3>2, <1>2, <1>1 DEF Fits
    <3>5. Fits(tool[x].staged.ungraded, tool[x].staged.starter)'
      BY <3>4, <2>2, <1>1 DEF Fits
    <3> QED
      BY <3>1, <3>3, <3>5, <2>2 DEF Begun
  <2>7. Staged(x)'
    BY <2>2, <2>4, <2>5, <2>6 DEF Staged
  <2> QED
    BY <2>7, <1>1, ToolStep
<1>6. CASE FreezeGraded(x)
  <2> DEFINE begun == tool[x].staged
             stem == begun.ungraded.stem
             photo == [ungraded |-> begun.ungraded, starter |-> begun.starter,
                       v3 |-> graded[Triplet(stem)]]
             photos == begun.photos \union {photo}
  <2>1. /\ tool'[x].pc = IF tool[x].todo = {} THEN "cube" ELSE "photos"
        /\ tool'[x].todo = tool[x].todo /\ tool'[x].staged.photos = photos
    BY <1>6 DEF FreezeGraded, Stages, Snapshot, Inv
  <2>2. /\ ToFreeze(tool[x].todo) /\ Recorded(tool[x].todo)
        /\ Matched(begun.photos) /\ Begun(begun)
    BY <1>6 DEF FreezeGraded, Inv, Staged
  <2>3. photo.v3.of = photo.ungraded
    <3>1. Named(Triplet(stem), graded[Triplet(stem)])
      BY <2>2 DEF Begun, Inv, GradedInv
    <3>2. Triplet(stem).stem = stem
      BY DEF Triplet
    <3> QED
      BY <3>1, <3>2, <2>2 DEF Named, Begun
  <2>4. Matched(photos)
    BY <2>2, <2>3 DEF Matched, Begun
  <2> HIDE DEF photos
  <2>5. Matched(tool[x].staged.photos)'
    BY <2>1, <2>4, <1>2, MatchedKept
  <2>6. ToFreeze(tool[x].todo)' /\ Recorded(tool[x].todo)'
    BY <2>1, <2>2, <1>1 DEF ToFreeze, Recorded
  <2>7. Staged(x)'
    BY <2>1, <2>5, <2>6 DEF Staged
  <2> QED
    BY <2>7, <1>1, ToolStep
<1>7. CASE FreezeCube(x)
  <2> DEFINE staged == Snapshot(tool[x].staged.photos, [lut |-> dest.lut, params |-> NoParams])
  <2>1. Stages(x, "snapshot", "params", {}, staged)
    BY <1>7 DEF FreezeCube
  <2>2. tool'[x].pc = "params" /\ tool'[x].staged.photos = tool[x].staged.photos
    BY <2>1 DEF Stages, Inv, Snapshot
  <2>3. Matched(tool[x].staged.photos)'
    BY <2>2, <1>2, <1>7, MatchedKept DEF FreezeCube, Inv, Staged
  <2>4. Staged(x)'
    BY <2>2, <2>3 DEF Staged
  <2> QED
    BY <2>1, <2>4, <1>1, ToolStep
<1>8. CASE FreezeParams(x)
  <2> DEFINE staged == Snapshot(tool[x].staged.photos,
                                [lut |-> tool[x].staged.baseline.lut, params |-> dest.params])
  <2>1. Stages(x, "snapshot", "publish", {}, staged)
    BY <1>8 DEF FreezeParams
  <2>2. tool'[x].pc = "publish" /\ tool'[x].kind = "snapshot" /\ tool'[x].staged = staged
    BY <2>1 DEF Stages, Inv
  <2>3. /\ tool'[x].staged.baseline.params = dest.params
        /\ tool'[x].staged.photos = tool[x].staged.photos
    BY <2>2 DEF Snapshot
  <2>4. FromOneLook(tool[x].staged.baseline.params)'
    BY <2>3, <1>1, <1>8 DEF FreezeParams, FromOneLook, Inv, LookInv
  <2>5. Matched(tool[x].staged.photos)'
    BY <2>3, <1>2, <1>8, MatchedKept DEF FreezeParams, Inv, Staged
  <2>6. Sound("snapshot", tool[x].staged)'
    BY <2>4, <2>5 DEF Sound
  <2>7. Staged(x)'
    BY <2>2, <2>6 DEF Staged, Kinds
  <2> QED
    BY <2>1, <2>7, <1>1, ToolStep
<1> QED
  BY <1>3, <1>4, <1>7, <1>8, <1>5, <1>6

\* prepare_refinement excludes what is frozen.
LEMMA PrepareStep ==
  ASSUME Inv, NEW x \in Tools, NEW camera, UNCHANGED <<lookVars, regradingVars>>,
         PrepareInputs(x, camera)
  PROVE  Inv'
<1>1. /\ tool'[x].pc = "publish" /\ tool'[x].kind = "inputs"
      /\ tool'[x].staged.excluded = Frozen
      /\ tool'[x].staged.baseline = outputs["snapshot"].baseline
      /\ There("snapshot") /\ UNCHANGED outputs
  BY DEF PrepareInputs, Stages, Inv
<1>2. OthersRest(x)
  BY DEF PrepareInputs, Stages, OthersRest, Inv
<1>3. FromOneLook(outputs["snapshot"].baseline.params)
  BY <1>1 DEF Inv, Sound, Kinds
<1>4. /\ There("snapshot")' /\ Frozen' = Frozen
      /\ FromOneLook(outputs["snapshot"].baseline.params)'
  BY <1>1, <1>3 DEF There, Frozen, FromOneLook, lookVars
<1>5. Sound("inputs", tool[x].staged)'
  BY <1>1, <1>4 DEF Sound
<1>6. Staged(x)'
  BY <1>1, <1>5 DEF Staged, Kinds
<1> QED
  BY <1>1, <1>2, <1>6, ToolStep

\* train_candidate, whose inputs are prepared or written by hand.
LEMMA TrainStep ==
  ASSUME Inv, NEW x \in Tools, UNCHANGED <<lookVars, regradingVars>>,
         \/ \E inputs \in HandMade \union {outputs["inputs"]} : TrainBegin(x, inputs)
         \/ TrainCandidate(x)
  PROVE  Inv'
<1>1. UNCHANGED outputs /\ OthersRest(x)
  BY DEF TrainBegin, TrainCandidate, Stages, OthersRest, Inv
<1>2. There("snapshot")' = There("snapshot") /\ Frozen' = Frozen /\ written' = written
  BY <1>1 DEF There, Frozen, lookVars
<1>3. ASSUME NEW inputs \in HandMade \union {outputs["inputs"]}, TrainBegin(x, inputs)
      PROVE  Inv'
  <2>1. tool'[x].pc = "train" /\ tool'[x].staged.provenance = inputs
    BY <1>3 DEF TrainBegin, Stages, Candidate, Inv
  <2>2. Checked(inputs)
    <3>1. ASSUME inputs.prepared
          PROVE  There("snapshot") /\ inputs.excluded = Frozen /\ FromOneLook(inputs.baseline.params)
      <4>1. inputs = outputs["inputs"] /\ There("inputs")
        BY <1>3, <3>1, HandMadeAssumption DEF TrainBegin, There
      <4> QED
        BY <4>1, <3>1 DEF Inv, Sound, Kinds
    <3>2. inputs.prepared => OneArtifact(inputs.baseline)
      BY <3>1, <1>3, FitsIsOne DEF TrainBegin, Inv
    <3> QED
      BY <3>1, <3>2, <1>3 DEF TrainBegin, Checked
  <2>3. Checked(tool[x].staged.provenance)'
    BY <2>1, <2>2, <1>2 DEF Checked, OneArtifact
  <2>4. Staged(x)'
    BY <2>1, <2>3 DEF Staged
  <2> QED
    BY <2>4, <1>1, ToolStep
<1>4. CASE TrainCandidate(x)
  <2> DEFINE inputs == tool[x].staged.provenance
             Of(role) == <<PhotosOf(inputs.camera, role), PhotosOf(inputs.references, role)>>
  <2>1. Checked(inputs)
    BY <1>4 DEF TrainCandidate, Inv, Staged
  <2>2. /\ tool'[x].pc = "publish" /\ tool'[x].kind = "candidate"
        /\ tool'[x].staged = Candidate(inputs, Of("train"), Of("validation"))
    BY <1>4 DEF TrainCandidate, Stages, Inv
  <2>3. /\ Of("train")[1] \intersect inputs.excluded = {}
        /\ \A n \in {1, 2} : Of("train")[n] \intersect Of("validation")[n] = {}
    BY <2>1, PartitionHoldsOut DEF Checked
  <2>4. /\ tool'[x].staged.trained = Of("train")
        /\ tool'[x].staged.validated = Of("validation")
        /\ tool'[x].staged.provenance = inputs
        /\ tool'[x].staged.baseline = inputs.baseline
    BY <2>2 DEF Candidate
  <2>5. inputs.prepared => /\ There("snapshot")' /\ inputs.excluded = Frozen'
                           /\ OneArtifact(inputs.baseline)
    BY <2>1, <1>2 DEF Checked
  <2> HIDE DEF inputs, Of
  <2>6. Sound("candidate", tool[x].staged)'
    BY <2>3, <2>4, <2>5, <1>2 DEF Sound, OneArtifact
  <2>7. Staged(x)'
    BY <2>2, <2>6 DEF Staged, Kinds
  <2> QED
    BY <2>7, <1>1, ToolStep
<1> QED
  BY <1>3, <1>4

\* evaluate_candidates.
LEMMA EvaluateStep ==
  ASSUME Inv, NEW x \in Tools, UNCHANGED <<lookVars, regradingVars>>, Evaluate(x)
  PROVE  Inv'
<1>1. /\ tool'[x].pc = "publish" /\ tool'[x].kind = "comparison"
      /\ tool'[x].staged.baseline = outputs["snapshot"].baseline
      /\ Load(outputs["snapshot"].baseline)
      /\ There("snapshot") /\ UNCHANGED outputs
  BY DEF Evaluate, Stages, Inv
<1>2. OthersRest(x)
  BY DEF Evaluate, Stages, OthersRest, Inv
<1>3. OneArtifact(outputs["snapshot"].baseline)
  BY <1>1, FitsIsOne DEF Inv, Sound, Kinds
<1>4. Sound("comparison", tool[x].staged)'
  BY <1>1, <1>3 DEF Sound, OneArtifact, lookVars
<1>5. Staged(x)'
  BY <1>1, <1>4 DEF Staged, Kinds
<1> QED
  BY <1>1, <1>2, <1>5, ToolStep

\* The rename, which never replaces an output, and the end of a tool.
LEMMA PublishStep ==
  ASSUME Inv, NEW x \in Tools, UNCHANGED <<lookVars, regradingVars>>,
         Publish(x) \/ GiveUpTool(x)
  PROVE  Inv'
<1>1. OthersRest(x) /\ tool'[x] = NoTool
  BY DEF Publish, GiveUpTool, OthersRest, Inv
<1>2. Staged(x)'
  BY <1>1 DEF Staged, NoTool
<1>3. CASE GiveUpTool(x)
  BY <1>1, <1>2, <1>3, ToolStep DEF GiveUpTool
<1>4. CASE Publish(x)
  <2>1. tool[x].kind \in Kinds /\ Sound(tool[x].kind, tool[x].staged)
    BY <1>4 DEF Publish, Inv, Staged
  <2>2. /\ DOMAIN outputs' = Kinds
        /\ \A kind \in Kinds : outputs'[kind] = IF kind = tool[x].kind THEN tool[x].staged
                                                ELSE outputs[kind]
    BY <2>1, <1>4 DEF Publish, Inv
  <2>3. UNCHANGED <<written, dest, images, starters, logged, taking, followers, graded, batch>>
    BY DEF lookVars, regradingVars, cameraVars, batchVars
  <2>4. Grows
    BY <2>2, <2>3, <1>4 DEF Grows, Publish, Kinds
  <2>5. \A y \in Tools : Staged(y)'
    BY <2>4, <1>1, <1>2, StagedKept DEF OthersRest, Inv
  <2>6. ASSUME NEW kind \in Kinds, There(kind)' PROVE Sound(kind, outputs[kind])'
    BY <2>1, <2>2, <2>4, <2>6, SoundKept DEF There, Inv
  <2>7. LookInv' /\ CameraInv' /\ GradedInv'
    BY <2>3 DEF Inv, LookInv, CameraInv, GradedInv, Named, Fits
  <2> QED
    BY <2>2, <2>5, <2>6, <2>7, <1>1 DEF Inv, OthersRest
<1> QED
  BY <1>3, <1>4

LEMMA StepInv == Inv /\ [LabNext]_labVars => Inv'
<1> SUFFICES ASSUME Inv, [LabNext]_labVars PROVE Inv'
  OBVIOUS
<1>1. CASE LookNext /\ UNCHANGED <<regradingVars, experimentVars>>
  BY <1>1, LookStep
<1>2. CASE RegradingNext /\ UNCHANGED <<lookVars, experimentVars>>
  <2>1. CASE CameraNext /\ UNCHANGED batchVars
    BY <1>2, <2>1, CameraStep
  <2>2. CASE BatchNext /\ UNCHANGED cameraVars
    BY <1>2, <2>2, BatchStep
  <2> QED
    BY <1>2, <2>1, <2>2 DEF RegradingNext
<1>3. ASSUME NEW x \in Tools, ToolNext(x), UNCHANGED <<lookVars, regradingVars>>
      PROVE  Inv'
  BY <1>3, FreezeStep, PrepareStep, TrainStep, EvaluateStep, PublishStep DEF ToolNext
<1>4. CASE UNCHANGED labVars
  <2>1. /\ UNCHANGED <<written, dest, outputs, tool>>
        /\ UNCHANGED <<images, starters, logged, taking, followers, graded, batch>>
    BY <1>4 DEF labVars, lookVars, regradingVars, cameraVars, batchVars, experimentVars
  <2>2. CameraInv' /\ GradedInv'
    BY <2>1 DEF Inv, CameraInv, GradedInv, Named, Fits
  <2> QED
    BY <1>4, <2>1, <2>2, FolderStep DEF labVars
<1> QED
  BY <1>1, <1>2, <1>3, <1>4 DEF LabNext, ExperimentsNext
-----------------------------------------------------------------------------
\* Whatever the camera, trainings, pifilm-process and the tools do at once.
THEOREM Invariance == LabSpec => []Inv
BY InitInv, StepInv, PTL DEF LabSpec

\* No candidate is tested on what it was fitted to.
THEOREM NothingLeaks == LabSpec => []HeldOut
<1>1. Inv => HeldOut
  BY DEF Inv, HeldOut, Sound, Kinds
<1> QED
  BY <1>1, Invariance, PTL

\* What candidates are compared with is a look somebody trained.
THEOREM BaselinesAreReal == LabSpec => []BaselineIsOneArtifact
<1>1. Inv => BaselineIsOneArtifact
  BY DEF Inv, BaselineIsOneArtifact, Sound, Kinds, OneArtifact
<1> QED
  BY <1>1, Invariance, PTL

\* What is frozen of a shot belongs to it.
THEOREM TripletsMatch == LabSpec => []TripletsAreOfOneShot
<1>1. Inv => TripletsAreOfOneShot
  BY DEF Inv, TripletsAreOfOneShot, Sound, Kinds, Matched, Fits
<1> QED
  BY <1>1, Invariance, PTL
=============================================================================
