---------------------- MODULE TrainingPipeline_proofs ----------------------
(***************************************************************************)
(* The machine the look is made on, for any number of trainers and readers  *)
(* and any catalogue: first the store of artifacts, then the folder of      *)
(* images that the fetch fills, then what becomes of every file that can be *)
(* reached, then what a training reads from the folder.                     *)
(***************************************************************************)
EXTENDS TrainingPipeline, FiniteSetTheorems, SequenceTheorems, TLAPS

-----------------------------------------------------------------------------
(***************************************************************************)
(* The store.  What a load accepts is one artifact, an artifact once        *)
(* published survives, and the store implements PublishedLook.              *)
(*                                                                         *)
(* All of it rests on where whole artifacts are.  The table a reader finds  *)
(* may be of another artifact than its params; but params are only found    *)
(* where an artifact was written whole, and then the hash makes the table   *)
(* the one written with them.                                               *)
(***************************************************************************)
\* What a trainer has staged when it gets to a step.
StagedSoFar(t) ==
  /\ trainer[t].pc \in {"idle", "clean"} => staging[t] = NoDir
  /\ trainer[t].pc # "idle" => trainer[t].fit \in 1..MaxFits
  /\ trainer[t].pc = "params" => staging[t].lut \in Luts
  /\ trainer[t].pc \in {"publish", "aside", "swap"} => staging[t] \in written

\* Directories in their place hold what was written whole, or are missing.
WholeOrMissing ==
  /\ written \subseteq Whole
  /\ dest \in written \union {NoDir}
  /\ \A t \in Trainers : /\ backup[t] \in written \union {NoDir}
                         /\ StagedSoFar(t)

\* The params a reader has are those of an artifact; so is the pair it keeps.
ReadSoFar ==
  \A r \in Readers :
     /\ reader[r].pc = "lut" => \E artifact \in written : artifact.params = reader[r].params
     /\ reader[r].pc = "loaded" =>
          [lut |-> reader[r].lut, params |-> reader[r].params] \in written

\* Where a published artifact is while it is not in its place.
Missed ==
  published /\ dest = NoDir =>
     \/ \E t \in Trainers : Between(t)
     \/ cut /\ old # {}

StoreInv == StoreTypeOK /\ WholeOrMissing /\ ReadSoFar /\ Missed
-----------------------------------------------------------------------------
\* A whole artifact is not a missing directory.
LEMMA WholeIsThere == \A dir : Load(dir) => dir # NoDir
BY FitsAssumption DEF Load, Matches, NoDir

\* Of a whole artifact the params determine the table.
LEMMA ParamsNameTable ==
  ASSUME NEW artifact \in Whole, NEW lut, Matches(lut, artifact.params)
  PROVE  artifact = [lut |-> lut, params |-> artifact.params]
BY DEF Whole, Artifact, Load, Matches

\* No artifact, no trainer at work.
LEMMA InitInv == StoreInit => StoreInv
<1> SUFFICES ASSUME StoreInit PROVE StoreInv
  OBVIOUS
<1> USE FitsAssumption DEF StoreInit
<1>1. NoDir \in Directories
  BY DEF Directories, NoDir
<1>2. Resting \in [pc : {"idle", "cube", "params", "publish", "aside", "swap", "clean"},
                  fit : 0..MaxFits]
  BY DEF Resting
<1>3. Unread \in [pc : {"idle", "lut", "loaded"}, lut : Luts \union {"none"},
                 params : Params \union {NoParams}]
  BY DEF Unread
<1>4. StoreTypeOK
  <2>1. fits \in 0..MaxFits
    OBVIOUS
  <2>2. trainer \in [Trainers -> [pc : {"idle", "cube", "params", "publish", "aside", "swap",
                                       "clean"}, fit : 0..MaxFits]]
    BY <1>2
  <2>3. reader \in [Readers -> [pc : {"idle", "lut", "loaded"}, lut : Luts \union {"none"},
                               params : Params \union {NoParams}]]
    BY <1>3
  <2> QED
    BY <1>1, <2>1, <2>2, <2>3 DEF StoreTypeOK
<1>5. WholeOrMissing /\ ReadSoFar /\ Missed
  BY DEF WholeOrMissing, StagedSoFar, ReadSoFar, Missed, Resting, Unread
<1> QED
  BY <1>4, <1>5 DEF StoreInv

\* The reader's steps: dest is read in two moments.
LEMMA ReaderInv == ASSUME StoreInv, NEW r \in Readers, ReaderNext(r) PROVE StoreInv'
<1> USE DEF StoreInv
<1>1. /\ UNCHANGED <<diskVars, trainer, fits, historyVars>>
      /\ \A s \in Readers : s # r => reader'[s] = reader[s]
  BY DEF ReaderNext, ReadParams, ReadLut, LeaveReader, StoreTypeOK
<1>2. WholeOrMissing' /\ Missed'
  BY <1>1 DEF WholeOrMissing, StagedSoFar, Missed, Between, diskVars, historyVars
<1>3. CASE ReadParams(r)
  <2>1. CASE dest.params = NoParams
    BY <2>1, <1>1, <1>2, <1>3 DEF ReadParams, StoreTypeOK, ReadSoFar, Unread, diskVars, historyVars
  <2>2. CASE dest.params # NoParams
    <3>1. dest \in written
      BY <2>2 DEF WholeOrMissing, NoDir
    <3>2. reader'[r] = [pc |-> "lut", lut |-> "none", params |-> dest.params]
      BY <2>2, <1>3 DEF ReadParams, StoreTypeOK, Unread
    <3>3. ReadSoFar'
      BY <3>1, <3>2, <1>1 DEF ReadSoFar, historyVars
    <3>4. dest.params \in Params
      BY <3>1 DEF WholeOrMissing, Whole, Artifact
    <3>5. StoreTypeOK'
      BY <3>2, <3>4, <1>1, <1>3 DEF ReadParams, StoreTypeOK, Unread, diskVars, historyVars
    <3> QED
      BY <3>3, <3>5, <1>2
  <2> QED
    BY <2>1, <2>2
<1>4. CASE ReadLut(r)
  <2>1. CASE Matches(dest.lut, reader[r].params)
    <3>1. PICK artifact \in written : artifact.params = reader[r].params
      BY <1>4 DEF ReadLut, ReadSoFar
    <3>2. artifact = [lut |-> dest.lut, params |-> reader[r].params]
      BY <2>1, <3>1, ParamsNameTable DEF WholeOrMissing
    <3>3. reader'[r] = [pc |-> "loaded", lut |-> dest.lut, params |-> reader[r].params]
      BY <2>1, <1>4 DEF ReadLut, StoreTypeOK
    <3>4. ReadSoFar'
      BY <3>1, <3>2, <3>3, <1>1 DEF ReadSoFar, historyVars
    <3>5. StoreTypeOK'
      BY <2>1, <3>3, <1>1, <1>4 DEF ReadLut, StoreTypeOK, Matches, diskVars, historyVars
    <3> QED
      BY <3>4, <3>5, <1>2
  <2>2. CASE ~Matches(dest.lut, reader[r].params)
    BY <2>2, <1>1, <1>2, <1>4 DEF ReadLut, StoreTypeOK, ReadSoFar, Unread, diskVars, historyVars
  <2> QED
    BY <2>1, <2>2
<1>5. CASE LeaveReader(r)
  BY <1>1, <1>2, <1>5 DEF LeaveReader, StoreTypeOK, ReadSoFar, Unread, diskVars, historyVars
<1> QED
  BY <1>3, <1>4, <1>5 DEF ReaderNext

\* A step of one trainer leaves the directories of the others what they are.
LEMMA OthersKept ==
  ASSUME WholeOrMissing, NEW t \in Trainers, written \subseteq written',
         \A s \in Trainers \ {t} : /\ staging'[s] = staging[s] /\ backup'[s] = backup[s]
                                   /\ trainer'[s] = trainer[s]
  PROVE  \A s \in Trainers \ {t} : backup'[s] \in written' \union {NoDir} /\ StagedSoFar(s)'
BY DEF WholeOrMissing, StagedSoFar

\* Until a trainer publishes, it touches nothing but its staging directory.
LEMMA StagingInv ==
  ASSUME StoreInv, NEW t \in Trainers, Stage(t) \/ WriteCube(t) \/ WriteParams(t)
  PROVE  StoreInv'
<1> USE FitsAssumption DEF StoreInv
<1>1. /\ UNCHANGED <<dest, backup, old, reader, published, cut>>
      /\ \A s \in Trainers \ {t} : staging'[s] = staging[s] /\ trainer'[s] = trainer[s]
      /\ written \subseteq written'
  BY DEF Stage, WriteCube, WriteParams, Goes, StoreTypeOK, historyVars
<1>2. \A s \in Trainers \ {t} : backup'[s] \in written' \union {NoDir} /\ StagedSoFar(s)'
  BY <1>1, OthersKept
<1>3. ReadSoFar'
  BY <1>1 DEF ReadSoFar
<1>4. Missed'
  <2>1. trainer[t].pc # "swap"
    BY DEF Stage, WriteCube, WriteParams
  <2> QED
    BY <2>1, <1>1 DEF Missed, Between, StoreTypeOK
<1>5. CASE Stage(t)
  <2>1. trainer'[t] = [pc |-> "cube", fit |-> fits + 1] /\ staging'[t] = Empty
    BY <1>5 DEF Stage, StoreTypeOK
  <2>2. fits + 1 \in 1..MaxFits /\ fits' \in 0..MaxFits
    BY <1>5 DEF Stage, StoreTypeOK
  <2>3. StoreTypeOK'
    <3>1. Empty \in Directories
      BY DEF Empty, Directories
    <3> QED
      BY <3>1, <2>2, <1>1, <1>5 DEF Stage, StoreTypeOK, historyVars
  <2>4. WholeOrMissing'
    BY <2>1, <2>2, <1>1, <1>2, <1>5 DEF Stage, WholeOrMissing, StagedSoFar, historyVars
  <2> QED
    BY <2>3, <2>4, <1>3, <1>4
<1>6. CASE WriteCube(t)
  <2>1. PICK lut \in Luts : staging' = [staging EXCEPT ![t].lut = lut]
    BY <1>6 DEF WriteCube
  <2>2. staging'[t].lut = lut
    BY <2>1 DEF StoreTypeOK, Directories
  <2>3. StoreTypeOK'
    <3>1. staging' \in [Trainers -> Directories]
      <4>1. staging[t] \in Directories
        BY DEF StoreTypeOK
      <4>2. [staging[t] EXCEPT !.lut = lut] \in Directories
        BY <4>1 DEF Directories
      <4> QED
        BY <4>2, <2>1 DEF StoreTypeOK
    <3>2. trainer' \in [Trainers -> [pc : {"idle", "cube", "params", "publish", "aside", "swap",
                                          "clean"}, fit : 0..MaxFits]]
      BY <1>6 DEF WriteCube, Goes, StoreTypeOK
    <3> QED
      BY <3>1, <3>2, <1>1, <1>6 DEF WriteCube, StoreTypeOK, historyVars
  <2>4. trainer'[t].pc = "params" /\ trainer'[t].fit = trainer[t].fit
    BY <1>6 DEF WriteCube, Goes, StoreTypeOK
  <2>5. WholeOrMissing'
    <3>1. StagedSoFar(t)'
      BY <2>2, <2>4, <1>6 DEF WriteCube, WholeOrMissing, StagedSoFar
    <3> QED
      BY <3>1, <1>1, <1>2, <1>6 DEF WriteCube, WholeOrMissing, historyVars
  <2> QED
    BY <2>3, <2>5, <1>3, <1>4
<1>7. CASE WriteParams(t)
  <2> DEFINE artifact == [lut |-> staging[t].lut,
                          params |-> [lutSha1 |-> staging[t].lut, fit |-> trainer[t].fit]]
  <2>1. staging' = [staging EXCEPT ![t] = artifact]
    <3>1. staging[t] \in [lut : Luts \union {"none", "missing"}, params : Params \union {NoParams}]
      BY DEF StoreTypeOK, Directories
    <3>2. [staging[t] EXCEPT !.params = artifact.params] = artifact
      BY <3>1
    <3>3. staging' = [staging EXCEPT ![t] = [@ EXCEPT !.params = artifact.params]]
      BY <1>7 DEF WriteParams
    <3> HIDE DEF artifact
    <3> QED
      BY <3>2, <3>3
  <2>2. artifact \in Whole
    BY <1>7 DEF WriteParams, WholeOrMissing, StagedSoFar, Whole, Artifact, Params, Load, Matches
  <2>3. staging'[t] = artifact /\ written' = written \union {artifact}
    BY <2>1, <1>7 DEF WriteParams, StoreTypeOK
  <2> HIDE DEF artifact
  <2>4. trainer'[t].pc = "publish" /\ trainer'[t].fit = trainer[t].fit
    BY <1>7 DEF WriteParams, Goes, StoreTypeOK
  <2>5. StoreTypeOK'
    BY <2>1, <2>2, <2>3, <1>1, <1>7 DEF WriteParams, Goes, StoreTypeOK, Directories, Whole,
       Artifact
  <2>6. WholeOrMissing'
    BY <2>2, <2>3, <2>4, <1>1, <1>2, <1>7 DEF WriteParams, WholeOrMissing, StagedSoFar,
       StoreTypeOK
  <2> QED
    BY <2>5, <2>6, <1>3, <1>4
<1> QED
  BY <1>5, <1>6, <1>7

\* Validation and the first rename.
LEMMA AsideInv ==
  ASSUME StoreInv, NEW t \in Trainers, Validate(t) \/ MoveAside(t) \/ NothingToMove(t)
  PROVE  StoreInv'
<1> USE DEF StoreInv
<1>1. /\ UNCHANGED <<old, reader, fits, written, published, cut>>
      /\ \A s \in Trainers \ {t} : /\ staging'[s] = staging[s] /\ backup'[s] = backup[s]
                                   /\ trainer'[s] = trainer[s]
  BY DEF Validate, MoveAside, NothingToMove, Goes, Rest, Dropped, StoreTypeOK, historyVars,
     diskVars
<1>2. \A s \in Trainers \ {t} : backup'[s] \in written' \union {NoDir} /\ StagedSoFar(s)'
  BY <1>1, OthersKept
<1>3. ReadSoFar'
  BY <1>1 DEF ReadSoFar
<1>4. \A s \in Trainers \ {t} : Between(s) => Between(s)'
  BY <1>1 DEF Between
<1>5. CASE Validate(t)
  <2>1. /\ UNCHANGED <<dest, staging, backup>>
        /\ trainer[t].pc = "publish" /\ trainer'[t].pc \in {"aside", "swap"}
        /\ trainer'[t].fit = trainer[t].fit
    BY <1>5 DEF Validate, Goes, diskVars, StoreTypeOK
  <2>2. StoreTypeOK'
    BY <2>1, <1>1, <1>5 DEF Validate, Goes, StoreTypeOK
  <2>3. WholeOrMissing'
    BY <2>1, <1>1, <1>2 DEF WholeOrMissing, StagedSoFar
  <2>4. Missed'
    BY <2>1, <1>1, <1>4 DEF Missed, Between
  <2> QED
    BY <2>2, <2>3, <2>4, <1>3
<1>6. CASE MoveAside(t)
  <2>1. /\ dest' = NoDir /\ dest # NoDir /\ dest \in written
        /\ backup'[t] = dest /\ staging'[t] = staging[t]
        /\ trainer[t].pc = "aside" /\ trainer'[t].pc = "swap"
        /\ trainer'[t].fit = trainer[t].fit
    BY <1>6 DEF MoveAside, Goes, StoreTypeOK, WholeOrMissing
  <2>2. StoreTypeOK'
    BY <1>1, <1>6 DEF MoveAside, Goes, StoreTypeOK, Directories, NoDir
  <2>3. WholeOrMissing'
    BY <2>1, <1>1, <1>2 DEF WholeOrMissing, StagedSoFar
  <2>4. Between(t)'
    BY <2>1 DEF Between, WholeOrMissing, Whole
  <2>5. Missed'
    BY <2>4 DEF Missed
  <2> QED
    BY <2>2, <2>3, <2>5, <1>3
<1>7. CASE NothingToMove(t)
  <2>1. /\ UNCHANGED <<dest, backup>> /\ trainer[t].pc = "aside"
        /\ trainer'[t] = Resting /\ staging'[t] = NoDir
    BY <1>7 DEF NothingToMove, Rest, Dropped, StoreTypeOK
  <2>2. StoreTypeOK'
    BY <1>1, <1>7, FitsAssumption
    DEF NothingToMove, Rest, Dropped, Resting, StoreTypeOK, Directories, NoDir
  <2>3. WholeOrMissing'
    BY <2>1, <1>1, <1>2 DEF WholeOrMissing, StagedSoFar, Resting
  <2>4. Missed'
    BY <2>1, <1>1, <1>4 DEF Missed, Between, Resting
  <2> QED
    BY <2>2, <2>3, <2>4, <1>3
<1> QED
  BY <1>5, <1>6, <1>7

\* The second rename, the roll-back and the removal of the backup.
LEMMA SwapInv ==
  ASSUME StoreInv, NEW t \in Trainers, MoveIn(t) \/ RollBack(t) \/ RemoveBackup(t)
  PROVE  StoreInv'
<1> USE DEF StoreInv
<1>1. /\ UNCHANGED <<reader, fits, written, cut>> /\ old \subseteq old'
      /\ \A s \in Trainers \ {t} : /\ staging'[s] = staging[s] /\ backup'[s] = backup[s]
                                   /\ trainer'[s] = trainer[s]
  BY DEF MoveIn, RollBack, RemoveBackup, Goes, Rest, Dropped, Left, StoreTypeOK, historyVars
<1>2. \A s \in Trainers \ {t} : backup'[s] \in written' \union {NoDir} /\ StagedSoFar(s)'
  BY <1>1, OthersKept
<1>3. ReadSoFar'
  BY <1>1 DEF ReadSoFar
<1>4. \A s \in Trainers \ {t} : Between(s) => Between(s)'
  BY <1>1 DEF Between
<1>5. old' \subseteq Artifact
  <2>1. Load(backup[t]) => backup[t] \in Artifact
    BY WholeIsThere DEF WholeOrMissing, Whole
  <2> QED
    BY <2>1 DEF MoveIn, RollBack, RemoveBackup, Left, StoreTypeOK
<1>6. CASE MoveIn(t)
  <2>1. /\ dest' = staging[t] /\ staging[t] \in written /\ staging'[t] = NoDir
        /\ backup'[t] = backup[t]
        /\ trainer'[t].pc = "clean" /\ trainer'[t].fit = trainer[t].fit
        /\ trainer[t].fit \in 1..MaxFits
    BY <1>6 DEF MoveIn, Goes, Dropped, StoreTypeOK, WholeOrMissing, StagedSoFar
  <2>2. StoreTypeOK'
    BY <2>1, <1>1, <1>6 DEF MoveIn, Goes, Dropped, StoreTypeOK, Directories, NoDir
  <2>3. WholeOrMissing'
    BY <2>1, <1>1, <1>2 DEF WholeOrMissing, StagedSoFar
  <2>4. Missed'
    BY <2>1, WholeIsThere DEF Missed, WholeOrMissing, Whole
  <2> QED
    BY <2>2, <2>3, <2>4, <1>3
<1>7. CASE RollBack(t)
  <2>1. /\ staging'[t] = NoDir /\ backup'[t] = NoDir /\ trainer'[t] = Resting
        /\ published' = published /\ trainer[t].pc = "swap"
        /\ dest' = IF dest = NoDir THEN backup[t] ELSE dest
    BY <1>7 DEF RollBack, Rest, Dropped, StoreTypeOK, historyVars
  <2>2. StoreTypeOK'
    BY <2>1, <1>1, <1>5, <1>7, FitsAssumption
    DEF RollBack, Rest, Dropped, Resting, StoreTypeOK, Directories, NoDir
  <2>3. WholeOrMissing'
    BY <2>1, <1>1, <1>2 DEF WholeOrMissing, StagedSoFar, Resting
  <2>4. Missed'
    <3>1. CASE dest' = NoDir
      <4>1. dest = NoDir /\ ~Between(t)
        BY <3>1, <2>1, WholeIsThere DEF Between
      <4> QED
        BY <4>1, <2>1, <1>1, <1>4 DEF Missed
    <3> QED
      BY <3>1 DEF Missed
  <2> QED
    BY <2>2, <2>3, <2>4, <1>3
<1>8. CASE RemoveBackup(t)
  <2>1. /\ UNCHANGED <<dest, published>> /\ staging'[t] = NoDir /\ backup'[t] = NoDir
        /\ trainer'[t] = Resting /\ trainer[t].pc = "clean"
    BY <1>8 DEF RemoveBackup, Rest, StoreTypeOK, WholeOrMissing, StagedSoFar, historyVars
  <2>2. StoreTypeOK'
    BY <1>1, <1>5, <1>8, FitsAssumption
    DEF RemoveBackup, Rest, Resting, StoreTypeOK, Directories, NoDir, historyVars
  <2>3. WholeOrMissing'
    BY <2>1, <1>1, <1>2 DEF WholeOrMissing, StagedSoFar, Resting
  <2>4. Missed'
    BY <2>1, <1>1, <1>4 DEF Missed, Between
  <2> QED
    BY <2>2, <2>3, <2>4, <1>3
<1> QED
  BY <1>6, <1>7, <1>8

\* The end of a trainer, wherever it comes.
LEMMA EndedInv ==
  ASSUME StoreInv, NEW t \in Trainers, Interrupted(t) \/ Killed(t)
  PROVE  StoreInv'
<1> USE DEF StoreInv
<1>1. /\ UNCHANGED <<dest, reader, fits, written, published>>
      /\ staging'[t] = NoDir /\ backup'[t] = NoDir /\ trainer'[t] = Resting
      /\ \A s \in Trainers \ {t} : /\ staging'[s] = staging[s] /\ backup'[s] = backup[s]
                                   /\ trainer'[s] = trainer[s]
      /\ cut' = (cut \/ (trainer[t].pc = "swap" /\ dest = NoDir))
  BY DEF Interrupted, Killed, Ended, Rest, Dropped, StoreTypeOK
<1>2. /\ old \subseteq old'
      /\ Load(backup[t]) => backup[t] \in old'
      /\ old' \subseteq old \union {dir \in {backup[t], staging[t]} : Load(dir)}
  BY DEF Interrupted, Killed, Left
<1>3. old' \subseteq Artifact
  <2>1. ASSUME NEW dir \in Directories, Load(dir) PROVE dir \in Artifact \/ dir.params = NoParams
    BY <2>1 DEF Load, Matches, Directories, Artifact
  <2>2. ASSUME NEW dir \in Directories, Load(dir) PROVE dir.params # NoParams
    BY <2>2, FitsAssumption DEF Load, Matches, NoParams
  <2> QED
    BY <2>1, <2>2, <1>2 DEF StoreTypeOK
<1>4. StoreTypeOK'
  <2>1. Resting \in [pc : {"idle", "cube", "params", "publish", "aside", "swap", "clean"},
                    fit : 0..MaxFits]
    BY FitsAssumption DEF Resting
  <2>2. NoDir \in Directories
    BY DEF NoDir, Directories
  <2>3. cut' \in BOOLEAN
    BY <1>1 DEF StoreTypeOK
  <2> QED
    BY <2>1, <2>2, <2>3, <1>1, <1>3
    DEF Interrupted, Killed, Ended, Rest, Dropped, StoreTypeOK
<1>5. WholeOrMissing'
  BY <1>1, OthersKept DEF WholeOrMissing, StagedSoFar, Resting
<1>6. ReadSoFar'
  BY <1>1 DEF ReadSoFar
<1>7. Missed'
  <2>1. CASE Between(t) /\ dest = NoDir
    BY <2>1, <1>1, <1>2 DEF Missed, Between
  <2>2. CASE ~Between(t) /\ dest = NoDir /\ published
    <3>1. (\E s \in Trainers \ {t} : Between(s)) \/ (cut /\ old # {})
      BY <2>2 DEF Missed
    <3> QED
      BY <3>1, <1>1, <1>2 DEF Missed, Between
  <2> QED
    BY <2>1, <2>2, <1>1 DEF Missed
<1> QED
  BY <1>4, <1>5, <1>6, <1>7

LEMMA StepInv == StoreInv /\ [StoreNext]_storeVars => StoreInv'
<1> SUFFICES ASSUME StoreInv, [StoreNext]_storeVars PROVE StoreInv'
  OBVIOUS
<1>1. ASSUME NEW t \in Trainers, Stage(t) \/ TrainerNext(t) PROVE StoreInv'
  BY <1>1, StagingInv, AsideInv, SwapInv, EndedInv DEF TrainerNext
<1>2. ASSUME NEW r \in Readers, ReaderNext(r) PROVE StoreInv'
  BY <1>2, ReaderInv
<1>3. ASSUME UNCHANGED storeVars PROVE StoreInv'
  BY <1>3 DEF StoreInv, StoreTypeOK, WholeOrMissing, StagedSoFar, ReadSoFar, Missed, Between,
     storeVars, diskVars, historyVars
<1> QED
  BY <1>1, <1>2, <1>3 DEF StoreNext
-----------------------------------------------------------------------------
\* Whatever trainers and readers do and wherever they are killed.
THEOREM StoreInvariance == StoreSpec => []StoreInv
BY InitInv, StepInv, PTL DEF StoreSpec

\* Every variable keeps its type.
THEOREM StoreTypeCorrect == StoreSpec => []StoreTypeOK
<1>1. StoreInv => StoreTypeOK
  BY DEF StoreInv
<1> QED
  BY <1>1, StoreInvariance, PTL

\* A load that straddles a publish is refused or gives one artifact
\* (artifacts.py:16-21).
THEOREM LoadsAreWhole == StoreSpec => []LoadedIsOneArtifact
<1>1. StoreInv => LoadedIsOneArtifact
  BY DEF StoreInv, ReadSoFar, LoadedIsOneArtifact
<1> QED
  BY <1>1, StoreInvariance, PTL

\* No publish, finished, failed or cut off, loses the last artifact.
THEOREM Survival == StoreSpec => []ArtifactSurvives
<1>1. StoreInv => ArtifactSurvives
  <2> SUFFICES ASSUME StoreInv, published PROVE ArtifactSurvives!2
    BY DEF ArtifactSurvives
  <2>1. CASE dest = NoDir
    BY <2>1 DEF StoreInv, Missed, Between
  <2>2. CASE dest # NoDir
    BY <2>2 DEF StoreInv, WholeOrMissing, Whole
  <2> QED
    BY <2>1, <2>2
<1> QED
  BY <1>1, StoreInvariance, PTL

\* The store is a published look: what programs may assume of the directory
\* without knowing how it is replaced.
THEOREM StoreIsALook == StoreSpec => LookSpec
<1>1. StoreInit => LookInit
  BY DEF StoreInit, LookInit
<1>2. StoreInv /\ [StoreNext]_storeVars => [LookNext]_lookVars
  <2> SUFFICES ASSUME StoreInv, [StoreNext]_storeVars PROVE [LookNext]_lookVars
    OBVIOUS
  <2>1. ASSUME NEW t \in Trainers, WriteParams(t) PROVE [LookNext]_lookVars
    <3>1. staging'[t] \in written' /\ UNCHANGED dest /\ written' = written \union {staging'[t]}
      BY <2>1 DEF WriteParams
    <3>2. staging'[t] \in Whole
      BY <2>1, <3>1, StagingInv DEF StoreInv, WholeOrMissing
    <3> QED
      BY <3>1, <3>2 DEF LookNext, Write
  <2>2. ASSUME NEW t \in Trainers, MoveIn(t) PROVE LookNext
    BY <2>2 DEF MoveIn, StoreInv, WholeOrMissing, StagedSoFar, LookNext, Appear
  <2>3. ASSUME NEW t \in Trainers, RollBack(t) PROVE [LookNext]_lookVars
    BY <2>3 DEF RollBack, StoreInv, WholeOrMissing, LookNext, Appear, lookVars, historyVars
  <2>4. ASSUME NEW t \in Trainers, MoveAside(t) PROVE LookNext
    BY <2>4 DEF MoveAside, LookNext, Vanish, historyVars
  <2>5. ASSUME NEW t \in Trainers,
               \/ Stage(t) \/ WriteCube(t) \/ Validate(t) \/ NothingToMove(t)
               \/ RemoveBackup(t) \/ Interrupted(t) \/ Killed(t)
        PROVE  UNCHANGED lookVars
    BY <2>5 DEF Stage, WriteCube, Validate, NothingToMove, RemoveBackup, Interrupted, Killed,
       Ended, lookVars, diskVars, historyVars
  <2>6. ASSUME NEW r \in Readers, ReaderNext(r) PROVE UNCHANGED lookVars
    BY <2>6 DEF ReaderNext, ReadParams, ReadLut, LeaveReader, lookVars, diskVars, historyVars
  <2>7. ASSUME UNCHANGED storeVars PROVE UNCHANGED lookVars
    BY <2>7 DEF storeVars, diskVars, historyVars, lookVars
  <2> QED
    BY <2>1, <2>2, <2>3, <2>4, <2>5, <2>6, <2>7 DEF StoreNext, TrainerNext
<1> QED
  BY <1>1, <1>2, StoreInvariance, PTL DEF StoreSpec, LookSpec
-----------------------------------------------------------------------------
(***************************************************************************)
(* The folder of images.  A file is under its own name as soon as it is     *)
(* there, so that different names are different titles.                     *)
(***************************************************************************)
FetchShape == fetch = [pc |-> fetch.pc, previous |-> fetch.previous, ahead |-> fetch.ahead,
                       seen |-> fetch.seen, found |-> fetch.found, todo |-> fetch.todo,
                       dropped |-> fetch.dropped, files |-> fetch.files,
                       rejected |-> fetch.rejected]

Sound(name, bytes) == /\ bytes = [of |-> bytes.of, kind |-> bytes.kind]
                      /\ bytes.kind # "partial"
                      /\ Commons[bytes.of].photo
                      /\ FileName(bytes.of) = name

\* What the run under way has put on its list is not damaged, unless the last
\* manifest says that it always was.
MayList(previous, e) ==
  e.bytes.kind = "damaged" => \/ FileName(e.title) \notin DOMAIN previous
                              \/ previous[FileName(e.title)] = e.bytes

ImagesInv ==
  /\ FetchShape
  /\ \A name \in Have : Sound(name, folder[name])
  /\ fetch.pc = "part" => Commons[Title].photo
  /\ \E S : fetch.files \in Seq(S) /\ \A e \in S : MayList(fetch.previous, e)

LEMMA ImagesInit == FetchInit => ImagesInv
<1> SUFFICES ASSUME FetchInit PROVE ImagesInv
  OBVIOUS
<1>1. FetchShape /\ Have = {} /\ fetch.pc = "idle" /\ fetch.files \in Seq({})
  BY DEF FetchInit, NoFetch, FetchShape, Have
<1> QED
  BY <1>1 DEF ImagesInv

\* A file goes on the list.
LEMMA AcceptedImages ==
  ASSUME ImagesInv, NEW bytes, Accepted(bytes),
         MayList(fetch.previous, [title |-> Title, bytes |-> bytes])
  PROVE  /\ FetchShape' /\ fetch'.pc = "next"
         /\ \E S : fetch'.files \in Seq(S) /\ \A e \in S : MayList(fetch'.previous, e)
<1> DEFINE new == [title |-> Title, bytes |-> bytes]
<1>1. /\ FetchShape' /\ fetch'.pc = "next"
      /\ fetch'.files = Append(fetch.files, new) /\ fetch'.previous = fetch.previous
  BY DEF ImagesInv, FetchShape, Accepted
<1>2. PICK S : fetch.files \in Seq(S) /\ \A e \in S : MayList(fetch.previous, e)
  BY DEF ImagesInv
<1> HIDE DEF new
<1>3. fetch.files \in Seq(S \union {new})
  BY <1>2
<1>4. fetch'.files \in Seq(S \union {new})
  BY <1>1, <1>3
<1>5. \A e \in S \union {new} : MayList(fetch'.previous, e)
  BY <1>1, <1>2 DEF new
<1> QED
  BY <1>1, <1>4, <1>5

LEMMA ImagesStep == ASSUME ImagesInv, [FetchNext]_fetchVars PROVE ImagesInv'
<1> USE DEF ImagesInv, Have
<1>1. CASE StartFetch \/ IterMembers \/ ChooseFiles
  <2>1. /\ UNCHANGED folder /\ FetchShape' /\ fetch'.pc # "part"
        /\ \/ fetch'.files = << >>
           \/ fetch'.files = fetch.files /\ fetch'.previous = fetch.previous
    <3>1. CASE StartFetch
      BY <3>1 DEF StartFetch, NoFetch, FetchShape
    <3>2. CASE IterMembers
      BY <3>2 DEF IterMembers, List, Enter, Skip, FetchShape
    <3>3. CASE ChooseFiles
      <4>1. \/ fetch' = NoFetch
            \/ \E todo, dropped, rejected :
                 fetch' = [NoFetch EXCEPT !.pc = "next", !.todo = todo, !.dropped = dropped,
                             !.previous = fetch.previous, !.rejected = rejected]
        <5> SUFFICES ASSUME fetch' # NoFetch
                     PROVE  \E todo, dropped, rejected :
                              fetch' = [NoFetch EXCEPT !.pc = "next", !.todo = todo,
                                          !.dropped = dropped, !.previous = fetch.previous,
                                          !.rejected = rejected]
          OBVIOUS
        <5> QED
          BY <3>3, Zenon DEF ChooseFiles
      <4>2. UNCHANGED folder
        BY <3>3 DEF ChooseFiles
      <4>3. CASE fetch' = NoFetch
        BY <4>2, <4>3 DEF NoFetch, FetchShape
      <4>4. CASE fetch' # NoFetch
        <5>1. PICK todo, dropped, rejected :
                fetch' = [NoFetch EXCEPT !.pc = "next", !.todo = todo, !.dropped = dropped,
                            !.previous = fetch.previous, !.rejected = rejected]
          BY <4>1, <4>4, Zenon
        <5> QED
          BY <4>2, <5>1 DEF NoFetch, FetchShape
      <4> QED
        BY <4>3, <4>4
    <3> QED
      BY <1>1, <3>1, <3>2, <3>3
  <2>2. \E S : fetch'.files \in Seq(S) /\ \A e \in S : MayList(fetch'.previous, e)
    <3>1. CASE fetch'.files = << >>
      <4>1. fetch'.files \in Seq({}) /\ \A e \in {} : MayList(fetch'.previous, e)
        BY <3>1
      <4> QED
        BY <4>1
    <3>2. CASE fetch'.files = fetch.files /\ fetch'.previous = fetch.previous
      BY <3>2
    <3> QED
      BY <2>1, <3>1, <3>2
  <2>3. \A name \in Have' : Sound(name, folder'[name])
    BY <2>1
  <2>4. FetchShape' /\ fetch'.pc # "part"
    BY <2>1
  <2> QED
    BY <2>2, <2>3, <2>4
<1>2. CASE Repair
  <2>1. UNCHANGED fetch /\ \A name \in Have' : name \in Have /\ folder'[name] = folder[name]
    BY <1>2 DEF Repair, Without, Restrict
  <2> QED
    BY <2>1 DEF FetchShape, Title
<1>3. CASE KeepExisting
  <2>1. MayList(fetch.previous, [title |-> Title, bytes |-> folder[Name]])
    BY <1>3 DEF KeepExisting, Suspect, MayList, Name
  <2>2. Accepted(folder[Name]) /\ UNCHANGED folder
    BY <1>3 DEF KeepExisting
  <2> QED
    BY <2>1, <2>2, AcceptedImages
<1>4. CASE DownloadFails
  <2>1. FetchShape' /\ fetch'.pc = "next" /\ fetch'.files = fetch.files
        /\ fetch'.previous = fetch.previous /\ UNCHANGED folder
    BY <1>4 DEF DownloadFails, FetchShape
  <2> QED
    BY <2>1
<1>5. CASE WritePart
  <2>1. FetchShape' /\ fetch'.todo = fetch.todo /\ fetch'.files = fetch.files
        /\ fetch'.previous = fetch.previous /\ UNCHANGED folder /\ Commons[Title].photo
    BY <1>5 DEF WritePart, FetchShape
  <2> QED
    BY <2>1 DEF Title
<1>6. CASE Rename
  <2> DEFINE new == [of |-> Title, kind |-> "whole"]
  <2>1. Accepted(new) /\ fetch.pc = "part" /\ Stored(new)
    BY <1>6 DEF Rename
  <2>2. Sound(Name, new)
    BY <2>1 DEF Sound, Name
  <2>3. MayList(fetch.previous, [title |-> Title, bytes |-> new])
    BY DEF MayList
  <2> HIDE DEF new
  <2>4. \A name \in Have' : \/ name = Name /\ folder'[name] = new
                            \/ name \in Have /\ folder'[name] = folder[name]
    BY <2>1 DEF Stored
  <2> QED
    BY <2>1, <2>2, <2>3, <2>4, AcceptedImages
<1>7. CASE BeginManifest
  <2>1. FetchShape' /\ fetch'.pc = "manifest" /\ fetch'.files = fetch.files
        /\ fetch'.previous = fetch.previous /\ UNCHANGED folder
    BY <1>7 DEF BeginManifest, FetchShape
  <2> QED
    BY <2>1
<1>8. CASE EndManifest \/ FetchKilled \/ ApiGivesUp
  <2>1. UNCHANGED folder /\ fetch' = NoFetch
    BY <1>8 DEF EndManifest, FetchKilled, ApiGivesUp
  <2>2. FetchShape' /\ fetch'.pc = "idle" /\ fetch'.files \in Seq({})
    BY <2>1 DEF NoFetch, FetchShape
  <2> QED
    BY <2>1, <2>2
<1>9. CASE Damage
  <2>1. PICK name \in Have : folder' = [folder EXCEPT ![name].kind = "damaged"]
    BY <1>9 DEF Damage
  <2>2. UNCHANGED fetch
    BY <1>9 DEF Damage
  <2>3. /\ Have' = Have /\ \A other \in Have : other # name => folder'[other] = folder[other]
        /\ folder'[name] = [folder[name] EXCEPT !.kind = "damaged"]
    BY <2>1
  <2>4. Sound(name, folder'[name])
    BY <2>3 DEF Sound
  <2> QED
    BY <2>2, <2>3, <2>4 DEF FetchShape, Title
<1>10. CASE UNCHANGED <<folder, fetch>>
  BY <1>10 DEF FetchShape, Title
<1> QED
  BY <1>1, <1>2, <1>3, <1>4, <1>5, <1>6, <1>7, <1>8, <1>9, <1>10
  DEF FetchNext, fetchVars

\* What EndManifest writes down is the list of the run.
LEMMA ListedStep ==
  ASSUME ImagesInv, [FetchNext]_fetchVars
  PROVE  [\A i \in DOMAIN manifest'.entries :
            LET e == manifest'.entries[i]
                name == FileName(e.title)
            IN  /\ manifest' # manifest
                /\ e.bytes.kind = "damaged"
                => \/ name \notin DOMAIN fetch.previous
                   \/ fetch.previous[name] = e.bytes]_fetchVars
<1> SUFFICES ASSUME FetchNext, NEW i \in DOMAIN manifest'.entries, manifest' # manifest
             PROVE  MayList(fetch.previous, manifest'.entries[i])
  BY DEF MayList
<1>1. CASE BeginManifest
  BY <1>1 DEF BeginManifest, Torn, NoManifest
<1>2. CASE EndManifest
  <2>1. manifest'.entries = fetch.files
    BY <1>2 DEF EndManifest
  <2>2. PICK S : fetch.files \in Seq(S) /\ \A e \in S : MayList(fetch.previous, e)
    BY DEF ImagesInv
  <2>3. fetch.files[i] \in S
    BY <2>1, <2>2
  <2> QED
    BY <2>1, <2>2, <2>3
<1> QED
  BY <1>1, <1>2
  DEF FetchNext, StartFetch, IterMembers, ApiGivesUp, ChooseFiles, Repair, KeepExisting,
      DownloadFails, WritePart, Rename, FetchKilled, Damage
-----------------------------------------------------------------------------
(***************************************************************************)
(* What becomes of every file below the category.  The walk keeps what a    *)
(* search keeps: all that a category it entered lists was seen or is ahead. *)
(* At its end what it saw is closed, so it is all there is to reach.        *)
(***************************************************************************)
Once(s) == s \in Seq(ToSet(s)) /\ IsInjective(s)

WalkInv ==
  /\ Once(fetch.found) /\ ToSet(fetch.found) = fetch.seen \intersect Titles
  /\ fetch.seen \subseteq Reached \union Below
  /\ fetch.ahead \in Seq(Reached \union Below)
  /\ Root \in fetch.seen \union ToSet(fetch.ahead)
  /\ \A category \in fetch.seen \intersect Categories :
        ToSet(catalogue[category]) \subseteq fetch.seen \union ToSet(fetch.ahead)

\* From the choice of files on each title is on one list, and there once.
Entered(files) == [i \in DOMAIN files |-> files[i].title]

Accounted(files, todo, rejected, dropped) ==
  /\ files \in Seq(ToSet(files))
  /\ Once(Entered(files)) /\ Once(todo) /\ Once(rejected)
  /\ ToSet(Entered(files)) \intersect ToSet(todo) = {}
  /\ ToSet(rejected) \intersect (ToSet(Entered(files)) \union ToSet(todo)) = {}
  /\ ToSet(Entered(files)) \union ToSet(todo) \union ToSet(rejected) = Below \ dropped

AccountInv ==
  /\ catalogue \in Catalogues
  /\ fetch.pc \in {"idle", "walk", "next", "part", "manifest"}
  /\ fetch.pc = "walk" => WalkInv
  /\ fetch.pc \in {"next", "part", "manifest"} =>
       Accounted(fetch.files, fetch.todo, fetch.rejected, fetch.dropped)
  /\ fetch.pc = "part" => fetch.todo # << >>
  /\ fetch.pc = "manifest" => fetch.todo = << >>
  /\ EveryMemberIsAccounted
-----------------------------------------------------------------------------
-----------------------------------------------------------------------------
\* Sequences in which nothing comes twice.

LEMMA OnceFacts ==
  ASSUME NEW s, Once(s)
  PROVE  /\ Len(s) \in Nat /\ DOMAIN s = 1..Len(s)
         /\ \A i \in DOMAIN s : s[i] \in ToSet(s)
         /\ \A i, j \in DOMAIN s : s[i] = s[j] => i = j
BY DEF Once, IsInjective, ToSet

LEMMA OnceEmpty == Once(<< >>) /\ ToSet(<< >>) = {}
BY DEF Once, IsInjective, ToSet

LEMMA OnceTail ==
  ASSUME NEW s, Once(s), s # << >>
  PROVE  /\ Once(Tail(s)) /\ Head(s) \in ToSet(s)
         /\ ToSet(Tail(s)) = ToSet(s) \ {Head(s)}
<1>1. /\ Len(s) \in Nat \ {0} /\ DOMAIN s = 1..Len(s) /\ Head(s) = s[1]
      /\ \A i, j \in DOMAIN s : s[i] = s[j] => i = j
  BY OnceFacts DEF Once
<1>2. /\ Len(Tail(s)) = Len(s) - 1 /\ DOMAIN Tail(s) = 1..(Len(s) - 1)
      /\ \A i \in 1..(Len(s) - 1) : Tail(s)[i] = s[i + 1]
  BY HeadTailProperties, LenProperties DEF Once
<1>3. Head(s) \in ToSet(s)
  BY <1>1 DEF ToSet
<1>4. ToSet(Tail(s)) = ToSet(s) \ {Head(s)}
  <2>1. ASSUME NEW x \in ToSet(Tail(s)) PROVE x \in ToSet(s) \ {Head(s)}
    BY <1>1, <1>2 DEF ToSet
  <2>2. ASSUME NEW x \in ToSet(s), x # Head(s) PROVE x \in ToSet(Tail(s))
    <3>1. PICK i \in 1..Len(s) : x = s[i]
      BY <1>1 DEF ToSet
    <3>2. i - 1 \in 1..(Len(s) - 1) /\ Tail(s)[i - 1] = x
      BY <1>1, <1>2, <2>2, <3>1
    <3> QED
      BY <1>2, <3>2 DEF ToSet
  <2> QED
    BY <2>1, <2>2
<1>5. Tail(s) \in Seq(ToSet(Tail(s)))
  <2>1. Tail(s) \in Seq(ToSet(s))
    BY HeadTailProperties DEF Once
  <2>2. Tail(s) \in [1..Len(Tail(s)) -> ToSet(Tail(s))] /\ Len(Tail(s)) \in Nat
    BY <2>1, LenProperties DEF ToSet
  <2> QED
    BY <2>2, SeqDef
<1>6. IsInjective(Tail(s))
  BY <1>1, <1>2 DEF IsInjective
<1> QED
  BY <1>3, <1>4, <1>5, <1>6 DEF Once

LEMMA OnceAppend ==
  ASSUME NEW s, Once(s), NEW x, x \notin ToSet(s)
  PROVE  Once(Append(s, x)) /\ ToSet(Append(s, x)) = ToSet(s) \union {x}
<1> DEFINE T == ToSet(s) \union {x}
<1>1. s \in Seq(T) /\ x \in T
  BY SeqMonotonic DEF Once
<1>2. Len(s) \in Nat /\ DOMAIN s = 1..Len(s)
  BY OnceFacts
<1>3. /\ Append(s, x) \in Seq(T) /\ DOMAIN Append(s, x) = 1..(Len(s) + 1)
      /\ \A i \in 1..Len(s) : Append(s, x)[i] = s[i]
      /\ Append(s, x)[Len(s) + 1] = x
  <2> HIDE DEF T
  <2> QED
    BY <1>1, <1>2, AppendProperties, LenProperties
<1>4. ToSet(Append(s, x)) = T
  BY <1>2, <1>3 DEF ToSet
<1>5. IsInjective(Append(s, x))
  <2>1. \A i, j \in 1..Len(s) : s[i] = s[j] => i = j
    BY <1>2, OnceFacts
  <2>2. \A i \in 1..Len(s) : s[i] # x
    BY <1>2 DEF ToSet
  <2> QED
    BY <1>2, <1>3, <2>1, <2>2 DEF IsInjective
<1> QED
  BY <1>3, <1>4, <1>5 DEF Once

LEMMA OnceConcat ==
  ASSUME NEW s, NEW t, Once(s), Once(t), ToSet(s) \intersect ToSet(t) = {}
  PROVE  Once(s \o t) /\ ToSet(s \o t) = ToSet(s) \union ToSet(t)
<1> DEFINE T == ToSet(s) \union ToSet(t)
<1>1. s \in Seq(T) /\ t \in Seq(T)
  BY SeqMonotonic DEF Once
<1>2. /\ Len(s) \in Nat /\ DOMAIN s = 1..Len(s) /\ Len(t) \in Nat /\ DOMAIN t = 1..Len(t)
      /\ \A i, j \in DOMAIN s : s[i] = s[j] => i = j
      /\ \A i, j \in DOMAIN t : t[i] = t[j] => i = j
      /\ \A i \in DOMAIN s, j \in DOMAIN t : s[i] # t[j]
  BY OnceFacts
<1>3. /\ s \o t \in Seq(T) /\ DOMAIN (s \o t) = 1..(Len(s) + Len(t))
      /\ \A i \in 1..(Len(s) + Len(t)) :
            (s \o t)[i] = IF i <= Len(s) THEN s[i] ELSE t[i - Len(s)]
  <2> HIDE DEF T
  <2> QED
    BY <1>1, ConcatProperties, LenProperties
<1>4. ToSet(s \o t) = T
  <2>1. ASSUME NEW x \in ToSet(s \o t) PROVE x \in T
    BY <1>2, <1>3 DEF ToSet
  <2>2. ASSUME NEW i \in DOMAIN s PROVE s[i] \in ToSet(s \o t)
    BY <1>2, <1>3 DEF ToSet
  <2>3. ASSUME NEW i \in DOMAIN t PROVE t[i] \in ToSet(s \o t)
    <3>1. i + Len(s) \in 1..(Len(s) + Len(t)) /\ (s \o t)[i + Len(s)] = t[i]
      BY <1>2, <1>3
    <3> QED
      BY <1>3, <3>1 DEF ToSet
  <2> QED
    BY <2>1, <2>2, <2>3 DEF ToSet
<1>5. IsInjective(s \o t)
  BY <1>2, <1>3 DEF IsInjective
<1> QED
  BY <1>3, <1>4, <1>5 DEF Once

\* Of n positions, each is the first, or second, ... or n-th one.
LEMMA Ranks ==
  ASSUME NEW n \in Nat, NEW positions, positions \subseteq 1..n
  PROVE  /\ Cardinality(positions) \in Nat
         /\ \A i \in positions : Cardinality({j \in positions : j < i}) \in Nat
         /\ \A k \in 1..Cardinality(positions) :
              \E i \in positions : Cardinality({j \in positions : j < i}) = k - 1
         /\ \A i \in positions : Cardinality({j \in positions : j < i}) + 1
                                    \in 1..Cardinality(positions)
         /\ \A i, k \in positions :
              Cardinality({j \in positions : j < i}) = Cardinality({j \in positions : j < k})
                => i = k
<1> DEFINE Before(i) == {j \in positions : j < i}
           size == Cardinality(positions)
           rank == [i \in positions |-> Cardinality(Before(i)) + 1]
<1>1. IsFiniteSet(positions) /\ size \in Nat /\ positions \subseteq Nat
  <2>1. IsFiniteSet(1..n)
    BY FS_Interval
  <2>2. IsFiniteSet(positions)
    BY <2>1, FS_Subset
  <2> QED
    BY <2>2, FS_CardinalityType
<1>2. ASSUME NEW i \in positions
      PROVE  /\ IsFiniteSet(Before(i)) /\ Cardinality(Before(i)) \in Nat
             /\ Cardinality(Before(i) \union {i}) = Cardinality(Before(i)) + 1
  <2>1. IsFiniteSet(Before(i)) /\ Cardinality(Before(i)) \in Nat
    BY <1>1, FS_Subset, FS_CardinalityType
  <2>2. i \notin Before(i)
    BY <1>1
  <2> HIDE DEF Before
  <2> QED
    BY <2>1, <2>2, FS_AddElement
<1>3. ASSUME NEW i \in positions, NEW k \in positions, i < k
      PROVE  Cardinality(Before(i)) + 1 <= Cardinality(Before(k))
  <2>1. Before(i) \union {i} \subseteq Before(k)
    <3>1. \A j \in positions : j < i => j < k
      BY <1>1, <1>3
    <3> QED
      BY <1>3, <3>1
  <2>2. IsFiniteSet(Before(k)) /\ Cardinality(Before(i) \union {i}) = Cardinality(Before(i)) + 1
    BY <1>2
  <2> HIDE DEF Before
  <2>3. Cardinality(Before(i) \union {i}) <= Cardinality(Before(k))
    BY <2>1, <2>2, FS_Subset
  <2> QED
    BY <2>2, <2>3
<1>4. ASSUME NEW i \in positions
      PROVE  rank[i] = Cardinality(Before(i)) + 1 /\ rank[i] \in 1..size
  <2>1. Before(i) \union {i} \subseteq positions
    OBVIOUS
  <2>2. rank[i] = Cardinality(Before(i)) + 1
    OBVIOUS
  <2> HIDE DEF Before, rank
  <2>3. Cardinality(Before(i) \union {i}) <= size
    BY <1>1, <2>1, FS_Subset
  <2> QED
    BY <1>1, <1>2, <2>2, <2>3
<1>5. \A i, k \in positions : rank[i] = rank[k] => i = k
  <2>1. ASSUME NEW i \in positions, NEW k \in positions, i < k
        PROVE  rank[i] # rank[k]
    <3>1. /\ rank[i] = Cardinality(Before(i)) + 1 /\ rank[k] = Cardinality(Before(k)) + 1
          /\ Cardinality(Before(i)) \in Nat /\ Cardinality(Before(k)) \in Nat
      BY <1>2, <1>4
    <3>2. Cardinality(Before(i)) + 1 <= Cardinality(Before(k))
      BY <1>3, <2>1
    <3> HIDE DEF Before, rank
    <3> QED
      BY <3>1, <3>2
  <2> HIDE DEF rank
  <2> QED
    BY <1>1, <2>1
<1>6. rank \in Injection(positions, 1..size)
  BY <1>4, <1>5 DEF Injection, IsInjective
<1>7. IsFiniteSet(1..size) /\ Cardinality(1..size) = size
  BY <1>1, FS_Interval
<1>8. rank \in Surjection(positions, 1..size)
  <2> HIDE DEF rank, size
  <2> QED
    BY <1>1, <1>6, <1>7, FS_Injection DEF size
<1>9. ASSUME NEW k \in 1..size PROVE \E i \in positions : Cardinality(Before(i)) = k - 1
  <2>1. PICK i \in positions : rank[i] = k
    BY <1>8 DEF Surjection
  <2>2. rank[i] = Cardinality(Before(i)) + 1 /\ Cardinality(Before(i)) \in Nat
    BY <1>2, <1>4
  <2> HIDE DEF Before, rank
  <2> QED
    BY <2>1, <2>2
<1>10. \A i, k \in positions : Cardinality(Before(i)) = Cardinality(Before(k)) => i = k
  BY <1>4, <1>5
<1>11. \A i \in positions : Cardinality(Before(i)) + 1 \in 1..size
  BY <1>4
<1> HIDE DEF Before
<1> QED
  BY <1>1, <1>2, <1>9, <1>10, <1>11 DEF Before

LEMMA SubsequenceOnce ==
  ASSUME NEW s, Once(s), NEW positions, positions \subseteq DOMAIN s
  PROVE  /\ Once(Subsequence(s, positions))
         /\ ToSet(Subsequence(s, positions)) = {s[i] : i \in positions}
<1> DEFINE Rank(i) == Cardinality({j \in positions : j < i})
           size == Cardinality(positions)
           At(n) == CHOOSE i \in positions : Rank(i) = n - 1
           sub == Subsequence(s, positions)
<1>1. /\ Len(s) \in Nat /\ DOMAIN s = 1..Len(s)
      /\ \A i, j \in DOMAIN s : s[i] = s[j] => i = j
  BY OnceFacts
<1>2. /\ size \in Nat
      /\ \A i \in positions : Rank(i) \in Nat
      /\ \A n \in 1..size : \E i \in positions : Rank(i) = n - 1
      /\ \A i \in positions : Rank(i) + 1 \in 1..size
      /\ \A i, j \in positions : Rank(i) = Rank(j) => i = j
  BY <1>1, Ranks
<1>3. \A n \in 1..size : At(n) \in positions /\ Rank(At(n)) = n - 1
  BY <1>2
<1>4. sub = [n \in 1..size |-> s[At(n)]]
  BY DEF Subsequence
<1> HIDE DEF Rank, size, At, sub
<1>5. ToSet(sub) = {s[i] : i \in positions}
  <2>1. ASSUME NEW i \in positions PROVE s[i] \in ToSet(sub)
    <3>1. Rank(i) \in Int /\ Rank(i) + 1 \in 1..size
      BY <1>2
    <3>2. At(Rank(i) + 1) = i
      BY <1>2, <1>3, <3>1
    <3> QED
      BY <1>4, <3>1, <3>2 DEF ToSet
  <2> QED
    BY <1>3, <1>4, <2>1 DEF ToSet
<1>6. sub \in Seq(ToSet(sub))
  BY <1>2, <1>4 DEF ToSet
<1>7. IsInjective(sub)
  <2> SUFFICES ASSUME NEW n \in 1..size, NEW m \in 1..size, sub[n] = sub[m]
               PROVE  n = m
    BY <1>4 DEF IsInjective
  <2>1. At(n) = At(m)
    BY <1>1, <1>3, <1>4
  <2> QED
    BY <1>2, <1>3, <2>1
<1> QED
  BY <1>5, <1>6, <1>7 DEF Once, sub

\* Positions that do not meet hold entries that do not meet.
LEMMA ApartOnce ==
  ASSUME NEW s, Once(s), NEW P, NEW Q, P \subseteq DOMAIN s, Q \subseteq DOMAIN s,
         P \intersect Q = {}
  PROVE  ToSet(Subsequence(s, P)) \intersect ToSet(Subsequence(s, Q)) = {}
<1>1. \A i \in P, j \in Q : s[i] # s[j]
  BY OnceFacts
<1> QED
  BY <1>1, SubsequenceOnce

LEMMA SplitOnce ==
  ASSUME NEW s, Once(s), NEW P, P \subseteq DOMAIN s
  PROVE  LET t == Subsequence(s, P)
             u == Subsequence(s, DOMAIN s \ P)
         IN  /\ Once(t) /\ Once(u) /\ ToSet(t) \intersect ToSet(u) = {}
             /\ ToSet(t) \union ToSet(u) = ToSet(s)
<1>1. /\ Once(Subsequence(s, P)) /\ ToSet(Subsequence(s, P)) = {s[i] : i \in P}
      /\ Once(Subsequence(s, DOMAIN s \ P))
      /\ ToSet(Subsequence(s, DOMAIN s \ P)) = {s[i] : i \in DOMAIN s \ P}
  BY SubsequenceOnce
<1>2. ToSet(Subsequence(s, P)) \intersect ToSet(Subsequence(s, DOMAIN s \ P)) = {}
  BY ApartOnce
<1>3. ToSet(s) = {s[i] : i \in DOMAIN s}
  BY DEF ToSet
<1> QED
  BY <1>1, <1>2, <1>3

LEMMA SelectedOnce ==
  ASSUME NEW s, Once(s)
  PROVE  /\ Once(SelectTitles(s).accepted) /\ Once(SelectTitles(s).rejected)
         /\ ToSet(SelectTitles(s).accepted) \intersect ToSet(SelectTitles(s).rejected) = {}
         /\ ToSet(SelectTitles(s).accepted) \union ToSet(SelectTitles(s).rejected) = ToSet(s)
<1> DEFINE lccn(i) == Commons[s[i]].lccn
           duplicate(i) == \E j \in 1..(i - 1) : ~Commons[s[j]].skipped /\ lccn(j) = lccn(i)
           rejected == {i \in DOMAIN s : \/ Commons[s[i]].skipped
                                         \/ lccn(i) # NoLccn /\ duplicate(i)}
           numbered == {i \in DOMAIN s \ rejected : lccn(i) # NoLccn}
           others == (DOMAIN s \ rejected) \ numbered
<1>1. /\ SelectTitles(s).accepted = Subsequence(s, numbered) \o Subsequence(s, others)
      /\ SelectTitles(s).rejected = Subsequence(s, rejected)
  BY DEF SelectTitles
<1>2. /\ rejected \subseteq DOMAIN s /\ numbered \subseteq DOMAIN s /\ others \subseteq DOMAIN s
      /\ numbered \intersect others = {}
      /\ rejected \union numbered \union others = DOMAIN s
      /\ rejected \intersect (numbered \union others) = {}
  OBVIOUS
<1> HIDE DEF rejected, numbered, others
<1>3. /\ Once(Subsequence(s, rejected)) /\ Once(Subsequence(s, numbered))
      /\ Once(Subsequence(s, others))
      /\ ToSet(Subsequence(s, rejected)) = {s[i] : i \in rejected}
      /\ ToSet(Subsequence(s, numbered)) = {s[i] : i \in numbered}
      /\ ToSet(Subsequence(s, others)) = {s[i] : i \in others}
  BY <1>2, SubsequenceOnce
<1>4. ToSet(Subsequence(s, numbered)) \intersect ToSet(Subsequence(s, others)) = {}
  BY <1>2, ApartOnce
<1>5. /\ Once(SelectTitles(s).accepted)
      /\ ToSet(SelectTitles(s).accepted) = {s[i] : i \in numbered} \union {s[i] : i \in others}
  <2> DEFINE t == Subsequence(s, numbered)
             u == Subsequence(s, others)
  <2>1. Once(t) /\ Once(u) /\ ToSet(t) \intersect ToSet(u) = {}
    BY <1>3, <1>4
  <2>2. Once(t \o u) /\ ToSet(t \o u) = ToSet(t) \union ToSet(u)
    <3> HIDE DEF t, u
    <3> QED
      BY <2>1, OnceConcat
  <2> QED
    BY <1>1, <1>3, <2>2
<1>6. \A i, j \in DOMAIN s : s[i] = s[j] => i = j
  BY OnceFacts
<1>7. ToSet(s) = {s[i] : i \in DOMAIN s}
  BY DEF ToSet
<1>8. /\ ToSet(SelectTitles(s).rejected) = {s[i] : i \in rejected}
      /\ Once(SelectTitles(s).rejected)
  BY <1>1, <1>3
<1>9. ToSet(SelectTitles(s).accepted) \intersect ToSet(SelectTitles(s).rejected) = {}
  BY <1>2, <1>5, <1>6, <1>8
<1>10. ToSet(SelectTitles(s).accepted) \union ToSet(SelectTitles(s).rejected) = ToSet(s)
  BY <1>2, <1>5, <1>7, <1>8
<1> QED
  BY <1>5, <1>8, <1>9, <1>10

LEMMA SamplesOnce ==
  ASSUME NEW s, Once(s), NEW titles \in Samples(s)
  PROVE  Once(titles) /\ ToSet(titles) \subseteq ToSet(s)
<1>1. PICK kept \in SUBSET (DOMAIN s) : titles = Subsequence(s, kept)
  BY DEF Samples
<1>2. Once(titles) /\ ToSet(titles) = {s[i] : i \in kept}
  BY <1>1, SubsequenceOnce
<1> QED
  BY <1>2 DEF ToSet

LEMMA InfosOnce ==
  ASSUME NEW s, Once(s), NEW licences
  PROVE  LET info == FetchImageInfo(s, licences)
         IN  /\ Once(info.infos) /\ Once(info.rejected)
             /\ ToSet(info.infos) \intersect ToSet(info.rejected) = {}
             /\ ToSet(info.infos) \union ToSet(info.rejected) = ToSet(s)
<1> DEFINE passing == {i \in DOMAIN s : /\ Commons[s[i]].usable
                                        /\ LicenceAllowed(Commons[s[i]].licence, licences)}
<1>1. /\ FetchImageInfo(s, licences).infos = Subsequence(s, passing)
      /\ FetchImageInfo(s, licences).rejected = Subsequence(s, DOMAIN s \ passing)
  BY DEF FetchImageInfo
<1>2. passing \subseteq DOMAIN s
  OBVIOUS
<1> HIDE DEF passing
<1> QED
  BY <1>1, <1>2, SplitOnce
-----------------------------------------------------------------------------
\* What can be reached.

LEMMA RootReached == Root \in Reached
BY CatalogueAssumption DEF Reached

LEMMA ReachedIsClosed ==
  ASSUME catalogue \in Catalogues, NEW category \in Reached
  PROVE  /\ category \in Categories
         /\ catalogue[category] \in Seq(Reached \union Below)
         /\ ToSet(catalogue[category]) \subseteq Reached \union Below
<1>1. category \in Categories /\ catalogue[category] \in Seq(Titles \union Categories)
  BY CatalogueAssumption DEF Reached
<1>2. ToSet(catalogue[category]) \subseteq Titles \union Categories
  <2>1. DOMAIN catalogue[category] = 1..Len(catalogue[category])
    BY <1>1, LenProperties
  <2> QED
    BY <1>1, <2>1, ElementOfSeq DEF ToSet
<1>3. ToSet(catalogue[category]) \subseteq Reached \union Below
  <2> SUFFICES ASSUME NEW x \in ToSet(catalogue[category]) PROVE x \in Reached \union Below
    OBVIOUS
  <2>1. CASE x \in Titles
    BY <2>1 DEF Below
  <2>2. CASE x \in Categories
    <3> SUFFICES ASSUME NEW S \in SUBSET Categories, Root \in S, Closed(S)
                 PROVE  x \in S
      BY <2>2 DEF Reached
    <3>1. category \in S
      BY DEF Reached
    <3> QED
      BY <2>2, <3>1 DEF Closed, Subcategories
  <2> QED
    BY <1>2, <2>1, <2>2
<1>4. catalogue[category] \in [1..Len(catalogue[category]) -> ToSet(catalogue[category])]
      /\ Len(catalogue[category]) \in Nat
  BY <1>1, LenProperties DEF ToSet
<1>5. catalogue[category] \in Seq(ToSet(catalogue[category]))
  BY <1>4, SeqDef
<1> QED
  BY <1>1, <1>3, <1>5, SeqMonotonic

\* What a walk saw when nothing is ahead is what there is below the root.
LEMMA WalkEnds ==
  ASSUME catalogue \in Catalogues, WalkInv, fetch.ahead = << >>
  PROVE  fetch.seen \intersect Titles = Below
<1> DEFINE S == fetch.seen \intersect Categories
<1>1. ToSet(fetch.ahead) = {}
  BY OnceEmpty
<1>2. Root \in S
  BY <1>1, CatalogueAssumption DEF WalkInv
<1>3. \A category \in S : ToSet(catalogue[category]) \subseteq fetch.seen
  BY <1>1 DEF WalkInv
<1>4. Closed(S)
  BY <1>3 DEF Closed, Subcategories
<1>5. Reached \subseteq S
  BY <1>2, <1>4 DEF Reached
<1>6. Below \subseteq fetch.seen \intersect Titles
  BY <1>3, <1>5 DEF Below
<1>7. fetch.seen \intersect Titles \subseteq Below
  BY CatalogueAssumption DEF WalkInv, Reached
<1> QED
  BY <1>6, <1>7

LEMMA SameCatalogue ==
  ASSUME catalogue' = catalogue
  PROVE  Below' = Below /\ Reached' = Reached
BY DEF Below, Reached, Closed, Subcategories

LEMMA SameManifest ==
  ASSUME catalogue' = catalogue, manifest' = manifest, EveryMemberIsAccounted
  PROVE  EveryMemberIsAccounted'
BY SameCatalogue DEF EveryMemberIsAccounted
-----------------------------------------------------------------------------
\* One step.

LEMMA HeadAndTail ==
  ASSUME NEW S, NEW s \in Seq(S), s # << >>
  PROVE  /\ Head(s) \in S /\ Tail(s) \in Seq(S)
         /\ ToSet(s) = {Head(s)} \union ToSet(Tail(s))
<1>1. /\ Len(s) \in Nat \ {0} /\ DOMAIN s = 1..Len(s) /\ Head(s) = s[1]
      /\ Head(s) \in S /\ Tail(s) \in Seq(S)
      /\ DOMAIN Tail(s) = 1..(Len(s) - 1)
      /\ \A i \in 1..(Len(s) - 1) : Tail(s)[i] = s[i + 1]
  BY HeadTailProperties, LenProperties
<1>2. ASSUME NEW x \in ToSet(s), x # Head(s) PROVE x \in ToSet(Tail(s))
  <2>1. PICK i \in 1..Len(s) : x = s[i]
    BY <1>1 DEF ToSet
  <2>2. i - 1 \in 1..(Len(s) - 1) /\ Tail(s)[i - 1] = x
    BY <1>1, <1>2, <2>1
  <2> QED
    BY <1>1, <2>2 DEF ToSet
<1>3. \A x \in ToSet(Tail(s)) : x \in ToSet(s)
  BY <1>1 DEF ToSet
<1>4. Head(s) \in ToSet(s)
  BY <1>1 DEF ToSet
<1> QED
  BY <1>1, <1>2, <1>3, <1>4

LEMMA ConcatSet ==
  ASSUME NEW S, NEW s \in Seq(S), NEW t \in Seq(S)
  PROVE  s \o t \in Seq(S) /\ ToSet(s \o t) = ToSet(s) \union ToSet(t)
<1>1. /\ Len(s) \in Nat /\ DOMAIN s = 1..Len(s) /\ Len(t) \in Nat /\ DOMAIN t = 1..Len(t)
      /\ s \o t \in Seq(S) /\ DOMAIN (s \o t) = 1..(Len(s) + Len(t))
      /\ \A i \in 1..(Len(s) + Len(t)) :
            (s \o t)[i] = IF i <= Len(s) THEN s[i] ELSE t[i - Len(s)]
  BY ConcatProperties, LenProperties
<1>2. ASSUME NEW i \in 1..Len(s) PROVE s[i] \in ToSet(s \o t)
  BY <1>1 DEF ToSet
<1>3. ASSUME NEW i \in 1..Len(t) PROVE t[i] \in ToSet(s \o t)
  <2>1. i + Len(s) \in 1..(Len(s) + Len(t)) /\ (s \o t)[i + Len(s)] = t[i]
    BY <1>1
  <2> QED
    BY <1>1, <2>1 DEF ToSet
<1>4. ASSUME NEW x \in ToSet(s \o t) PROVE x \in ToSet(s) \union ToSet(t)
  BY <1>1 DEF ToSet
<1>5. \A x \in ToSet(s) \union ToSet(t) : x \in ToSet(s \o t)
  BY <1>1, <1>2, <1>3 DEF ToSet
<1> QED
  BY <1>1, <1>4, <1>5

LEMMA AcceptedAccounted ==
  ASSUME NEW files, NEW todo, NEW rejected, NEW dropped,
         Accounted(files, todo, rejected, dropped), todo # << >>,
         NEW file, file.title = Head(todo)
  PROVE  Accounted(Append(files, file), Tail(todo), rejected, dropped)
<1>1. /\ Once(Tail(todo)) /\ Head(todo) \in ToSet(todo)
      /\ ToSet(Tail(todo)) = ToSet(todo) \ {Head(todo)}
  BY OnceTail DEF Accounted
<1>2. /\ Once(Append(Entered(files), Head(todo)))
      /\ ToSet(Append(Entered(files), Head(todo))) = ToSet(Entered(files)) \union {Head(todo)}
  BY <1>1, OnceAppend DEF Accounted
<1> DEFINE F == ToSet(files) \union {file}
<1>3. files \in Seq(F) /\ file \in F
  BY SeqMonotonic DEF Accounted
<1>4. /\ Append(files, file) \in Seq(F) /\ Len(files) \in Nat /\ DOMAIN files = 1..Len(files)
      /\ DOMAIN Append(files, file) = 1..(Len(files) + 1)
      /\ \A i \in 1..Len(files) : Append(files, file)[i] = files[i]
      /\ Append(files, file)[Len(files) + 1] = file
  <2> HIDE DEF F
  <2> QED
    BY <1>3, AppendProperties, LenProperties
<1>5. ToSet(Append(files, file)) = F
  BY <1>4 DEF ToSet
<1>6. Entered(Append(files, file)) = Append(Entered(files), Head(todo))
  <2> DEFINE e == Entered(files)
             T == ToSet(e) \union {Head(todo)}
  <2>1. e \in Seq(T) /\ DOMAIN e = DOMAIN files /\ \A i \in DOMAIN files : e[i] = files[i].title
    BY SeqMonotonic DEF Accounted, Once, Entered
  <2>2. Len(e) = Len(files)
    <3> HIDE DEF e, T
    <3> QED
      BY <1>4, <2>1, LenProperties
  <2>3. /\ DOMAIN Append(e, Head(todo)) = 1..(Len(files) + 1)
        /\ \A i \in 1..Len(files) : Append(e, Head(todo))[i] = files[i].title
        /\ Append(e, Head(todo))[Len(files) + 1] = Head(todo)
        /\ Append(e, Head(todo)) \in Seq(T)
    <3>1. Head(todo) \in T
      OBVIOUS
    <3> HIDE DEF e, T
    <3> QED
      BY <1>4, <2>1, <2>2, <3>1, AppendProperties, LenProperties
  <2>4. Append(e, Head(todo)) = [i \in 1..(Len(files) + 1) |-> Append(e, Head(todo))[i]]
    <3> DEFINE g == Append(e, Head(todo))
    <3>1. g \in Seq(T) /\ DOMAIN g = 1..(Len(files) + 1)
      BY <2>3
    <3> HIDE DEF e, T, g
    <3>2. g \in [1..Len(g) -> T]
      BY <3>1, LenProperties
    <3>3. g = [i \in DOMAIN g |-> g[i]]
      BY <3>2
    <3> QED
      BY <3>1, <3>3 DEF g
  <2>5. Entered(Append(files, file)) = [i \in 1..(Len(files) + 1) |-> Append(files, file)[i].title]
    BY <1>4 DEF Entered
  <2>6. \A i \in 1..(Len(files) + 1) : Append(files, file)[i].title = Append(e, Head(todo))[i]
    <3> SUFFICES ASSUME NEW i \in 1..(Len(files) + 1)
                 PROVE  Append(files, file)[i].title = Append(e, Head(todo))[i]
      OBVIOUS
    <3>1. CASE i = Len(files) + 1
      BY <1>4, <2>3, <3>1
    <3>2. CASE i \in 1..Len(files)
      BY <1>4, <2>3, <3>2
    <3>3. Len(files) \in Nat
      BY <1>4
    <3>4. i = Len(files) + 1 \/ i \in 1..Len(files)
      BY <3>3
    <3> QED
      BY <3>1, <3>2, <3>4
  <2> HIDE DEF e
  <2>7. Entered(Append(files, file)) = Append(e, Head(todo))
    BY <2>4, <2>5, <2>6
  <2> QED
    BY <2>7 DEF e
<1> QED
  BY <1>1, <1>2, <1>4, <1>5, <1>6 DEF Accounted

LEMMA RejectedAccounted ==
  ASSUME NEW files, NEW todo, NEW rejected, NEW dropped,
         Accounted(files, todo, rejected, dropped), todo # << >>
  PROVE  Accounted(files, Tail(todo), Append(rejected, Head(todo)), dropped)
<1>1. /\ Once(Tail(todo)) /\ Head(todo) \in ToSet(todo)
      /\ ToSet(Tail(todo)) = ToSet(todo) \ {Head(todo)}
  BY OnceTail DEF Accounted
<1>2. /\ Once(Append(rejected, Head(todo)))
      /\ ToSet(Append(rejected, Head(todo))) = ToSet(rejected) \union {Head(todo)}
  BY <1>1, OnceAppend DEF Accounted
<1> QED
  BY <1>1, <1>2 DEF Accounted

LEMMA AccountInit == FetchInit => AccountInv
BY DEF FetchInit, AccountInv, NoFetch, EveryMemberIsAccounted, NoManifest

LEMMA AccountStep ==
  ASSUME ImagesInv, AccountInv, [FetchNext]_fetchVars
  PROVE  AccountInv'
<1>0. FetchShape
  BY DEF ImagesInv
<1>1. CASE UNCHANGED fetchVars
  BY <1>1, SameManifest, SameCatalogue
     DEF fetchVars, AccountInv, WalkInv, Accounted, EveryMemberIsAccounted
<1>2. CASE StartFetch
  <2>1. /\ catalogue' = catalogue /\ manifest' = manifest
        /\ fetch'.pc = "walk" /\ fetch'.found = << >> /\ fetch'.seen = {}
        /\ fetch'.ahead = <<Root>>
    BY <1>2 DEF StartFetch, NoFetch
  <2>2. <<Root>> \in Seq(Reached \union Below) /\ Root \in ToSet(<<Root>>)
    BY RootReached DEF ToSet
  <2>3. Once(fetch'.found) /\ ToSet(fetch'.found) = {}
    BY <2>1, OnceEmpty
  <2>4. WalkInv'
    BY <2>1, <2>2, <2>3, SameCatalogue DEF WalkInv
  <2> QED
    BY <2>1, <2>4, SameManifest DEF AccountInv
<1>3. CASE IterMembers
  <2> DEFINE R == Reached \union Below
             rest == Tail(fetch.ahead)
  <2>1. /\ catalogue' = catalogue /\ manifest' = manifest /\ fetch.pc = "walk" /\ WalkInv
        /\ catalogue \in Catalogues
    BY <1>3 DEF IterMembers, AccountInv
  <2>2. /\ Member \in R /\ rest \in Seq(R)
        /\ ToSet(fetch.ahead) = {Member} \union ToSet(rest)
    <3>1. fetch.ahead \in Seq(R) /\ fetch.ahead # << >>
      BY <1>3, <2>1 DEF IterMembers, WalkInv
    <3> HIDE DEF R
    <3> QED
      BY <3>1, HeadAndTail DEF Member
  <2>3. fetch'.pc = "walk"
    BY <1>0, <1>3, <2>1 DEF FetchShape, IterMembers, List, Enter, Skip
  <2>4. WalkInv'
    <3>1. CASE List
      <4>1. /\ fetch'.ahead = rest /\ fetch'.seen = fetch.seen \union {Member}
            /\ fetch'.found = Append(fetch.found, Member) /\ Member \in Titles \ fetch.seen
        BY <1>0, <3>1 DEF FetchShape, List
      <4>2. /\ Once(fetch'.found)
            /\ ToSet(fetch'.found) = ToSet(fetch.found) \union {Member}
        BY <2>1, <4>1, OnceAppend DEF WalkInv
      <4>3. Member \notin Categories
        BY <4>1, CatalogueAssumption
      <4> QED
        BY <2>1, <2>2, <4>1, <4>2, <4>3, SameCatalogue DEF WalkInv
    <3>2. CASE Enter
      <4>1. /\ fetch'.ahead = catalogue[Member] \o rest
            /\ fetch'.seen = fetch.seen \union {Member}
            /\ fetch'.found = fetch.found /\ Member \in Categories \ fetch.seen
        BY <1>0, <3>2 DEF FetchShape, Enter
      <4>2. Member \in Reached /\ Member \notin Titles
        BY <2>2, <4>1, CatalogueAssumption DEF Below
      <4>3. catalogue[Member] \in Seq(R)
        BY <2>1, <4>2, ReachedIsClosed
      <4>4. /\ fetch'.ahead \in Seq(R)
            /\ ToSet(fetch'.ahead) = ToSet(catalogue[Member]) \union ToSet(rest)
        <5> HIDE DEF R, rest
        <5> QED
          BY <2>2, <4>1, <4>3, ConcatSet
      <4>5. \A category \in fetch.seen \intersect Categories :
               ToSet(catalogue[category]) \subseteq fetch.seen \union {Member} \union ToSet(rest)
        BY <2>1, <2>2 DEF WalkInv
      <4>6. \A category \in fetch'.seen \intersect Categories :
               ToSet(catalogue[category]) \subseteq fetch'.seen \union ToSet(fetch'.ahead)
        BY <4>1, <4>4, <4>5
      <4>7. Root \in fetch'.seen \union ToSet(fetch'.ahead)
        BY <2>1, <2>2, <4>1, <4>4 DEF WalkInv
      <4> QED
        BY <2>1, <4>1, <4>2, <4>4, <4>6, <4>7, SameCatalogue DEF WalkInv
    <3>3. CASE Skip
      <4>1. /\ fetch'.ahead = rest /\ fetch'.seen = fetch.seen
            /\ fetch'.found = fetch.found /\ Member \in fetch.seen
        BY <1>0, <3>3 DEF FetchShape, Skip
      <4> QED
        BY <2>1, <2>2, <4>1, SameCatalogue DEF WalkInv
    <3> QED
      BY <1>3, <3>1, <3>2, <3>3 DEF IterMembers
  <2> QED
    BY <2>1, <2>3, <2>4, SameManifest DEF AccountInv
<1>4. CASE ApiGivesUp \/ FetchKilled
  <2>1. catalogue' = catalogue /\ manifest' = manifest /\ fetch'.pc = "idle"
    BY <1>4 DEF ApiGivesUp, FetchKilled, NoFetch
  <2> QED
    BY <2>1, SameManifest DEF AccountInv
<1>5. CASE ChooseFiles
  <2>1. /\ catalogue' = catalogue /\ manifest' = manifest /\ WalkInv
        /\ fetch.ahead = << >> /\ catalogue \in Catalogues
    BY <1>5 DEF ChooseFiles, AccountInv
  <2> DEFINE selected == SelectTitles(fetch.found)
  <2>2. PICK licences \in {{"pd"}, Licences}, titles \in Samples(selected.accepted) :
          LET info == FetchImageInfo(titles, licences)
              names == {FileName(info.infos[i]) : i \in DOMAIN info.infos}
          IN  fetch' = IF Cardinality(names) # Len(info.infos) THEN NoFetch
                       ELSE [NoFetch EXCEPT !.pc = "next", !.todo = info.infos,
                                !.dropped = ToSet(selected.accepted) \ ToSet(titles),
                                !.previous = fetch.previous,
                                !.rejected = selected.rejected \o info.rejected]
    BY <1>5 DEF ChooseFiles
  <2> DEFINE info == FetchImageInfo(titles, licences)
             dropped == ToSet(selected.accepted) \ ToSet(titles)
  <2>3. CASE fetch' = NoFetch
    BY <2>1, <2>3, SameManifest DEF AccountInv, NoFetch
  <2>4. CASE fetch' = [NoFetch EXCEPT !.pc = "next", !.todo = info.infos,
                          !.dropped = dropped, !.previous = fetch.previous,
                          !.rejected = selected.rejected \o info.rejected]
    <3>1. /\ fetch'.pc = "next" /\ fetch'.files = << >> /\ fetch'.todo = info.infos
          /\ fetch'.dropped = dropped
          /\ fetch'.rejected = selected.rejected \o info.rejected
      BY <2>4 DEF NoFetch
    <3>2. Once(fetch.found) /\ ToSet(fetch.found) = Below
      BY <2>1, WalkEnds DEF WalkInv
    <3>3. /\ Once(selected.accepted) /\ Once(selected.rejected)
          /\ ToSet(selected.accepted) \intersect ToSet(selected.rejected) = {}
          /\ ToSet(selected.accepted) \union ToSet(selected.rejected) = Below
      BY <3>2, SelectedOnce
    <3>4. Once(titles) /\ ToSet(titles) \subseteq ToSet(selected.accepted)
      BY <3>3, SamplesOnce
    <3>5. /\ Once(info.infos) /\ Once(info.rejected)
          /\ ToSet(info.infos) \intersect ToSet(info.rejected) = {}
          /\ ToSet(info.infos) \union ToSet(info.rejected) = ToSet(titles)
      BY <3>4, InfosOnce
    <3> HIDE DEF selected, info
    <3>6. /\ Once(selected.rejected \o info.rejected)
          /\ ToSet(selected.rejected \o info.rejected)
               = ToSet(selected.rejected) \union ToSet(info.rejected)
      BY <3>3, <3>4, <3>5, OnceConcat
    <3>7. Entered(<< >>) = << >> /\ << >> \in Seq(ToSet(<< >>))
      BY DEF Entered
    <3>8. Accounted(<< >>, info.infos, selected.rejected \o info.rejected, dropped)
      BY <3>3, <3>4, <3>5, <3>6, <3>7, OnceEmpty DEF Accounted
    <3>9. Accounted(fetch.files, fetch.todo, fetch.rejected, fetch.dropped)'
      BY <2>1, <3>1, <3>8, SameCatalogue DEF Accounted
    <3> QED
      BY <2>1, <3>1, <3>9, SameManifest DEF AccountInv
  <2> QED
    BY <2>2, <2>3, <2>4
<1>6. CASE KeepExisting \/ Rename
  <2>1. PICK bytes : Accepted(bytes)
    BY <1>6 DEF KeepExisting, Rename
  <2>2. /\ catalogue' = catalogue /\ manifest' = manifest /\ fetch.pc \in {"next", "part"}
        /\ fetch.todo # << >> /\ catalogue \in Catalogues
        /\ Accounted(fetch.files, fetch.todo, fetch.rejected, fetch.dropped)
    BY <1>6 DEF KeepExisting, Rename, AccountInv
  <2> DEFINE file == [title |-> Title, bytes |-> bytes]
  <2>3. /\ fetch'.pc = "next" /\ fetch'.todo = Tail(fetch.todo)
        /\ fetch'.files = Append(fetch.files, file)
        /\ fetch'.rejected = fetch.rejected /\ fetch'.dropped = fetch.dropped
    BY <1>0, <2>1 DEF FetchShape, Accepted
  <2>4. file.title = Head(fetch.todo)
    BY DEF Title
  <2> HIDE DEF file
  <2>5. Accounted(fetch'.files, fetch'.todo, fetch'.rejected, fetch'.dropped)
    BY <2>2, <2>3, <2>4, AcceptedAccounted
  <2>6. Accounted(fetch.files, fetch.todo, fetch.rejected, fetch.dropped)'
    BY <2>2, <2>5, SameCatalogue DEF Accounted
  <2> QED
    BY <2>2, <2>3, <2>6, SameManifest DEF AccountInv
<1>7. CASE DownloadFails
  <2>1. /\ catalogue' = catalogue /\ manifest' = manifest /\ fetch.pc \in {"next", "part"}
        /\ fetch.todo # << >> /\ catalogue \in Catalogues
        /\ Accounted(fetch.files, fetch.todo, fetch.rejected, fetch.dropped)
    BY <1>7 DEF DownloadFails, AccountInv
  <2>2. /\ fetch'.pc = "next" /\ fetch'.todo = Tail(fetch.todo)
        /\ fetch'.files = fetch.files /\ fetch'.dropped = fetch.dropped
        /\ fetch'.rejected = Append(fetch.rejected, Head(fetch.todo))
    BY <1>0, <1>7 DEF FetchShape, DownloadFails, Title
  <2>3. Accounted(fetch'.files, fetch'.todo, fetch'.rejected, fetch'.dropped)
    BY <2>1, <2>2, RejectedAccounted
  <2>4. Accounted(fetch.files, fetch.todo, fetch.rejected, fetch.dropped)'
    BY <2>1, <2>3, SameCatalogue DEF Accounted
  <2> QED
    BY <2>1, <2>2, <2>4, SameManifest DEF AccountInv
<1>8. CASE WritePart
  <2>1. /\ catalogue' = catalogue /\ manifest' = manifest /\ fetch'.pc = "part"
        /\ fetch.pc = "next" /\ fetch'.todo = fetch.todo /\ fetch.todo # << >>
        /\ fetch'.files = fetch.files /\ fetch'.dropped = fetch.dropped
        /\ fetch'.rejected = fetch.rejected
    BY <1>0, <1>8 DEF FetchShape, WritePart
  <2>2. Accounted(fetch.files, fetch.todo, fetch.rejected, fetch.dropped)'
    BY <2>1, SameCatalogue DEF Accounted, AccountInv
  <2> QED
    BY <2>1, <2>2, SameManifest DEF AccountInv
<1>9. CASE BeginManifest
  <2>1. /\ catalogue' = catalogue /\ manifest'.kind = "torn" /\ fetch'.pc = "manifest"
        /\ fetch.pc = "next" /\ fetch'.todo = fetch.todo /\ fetch.todo = << >>
        /\ fetch'.files = fetch.files /\ fetch'.dropped = fetch.dropped
        /\ fetch'.rejected = fetch.rejected
    BY <1>0, <1>9 DEF FetchShape, BeginManifest, Torn, NoManifest
  <2>2. Accounted(fetch.files, fetch.todo, fetch.rejected, fetch.dropped)'
    BY <2>1, SameCatalogue DEF Accounted, AccountInv
  <2> QED
    BY <2>1, <2>2 DEF AccountInv, EveryMemberIsAccounted
<1>10. CASE EndManifest
  <2>1. /\ catalogue' = catalogue /\ fetch'.pc = "idle"
        /\ manifest'.entries = fetch.files /\ manifest'.rejected = fetch.rejected
        /\ manifest'.dropped = fetch.dropped /\ fetch.todo = << >>
        /\ Accounted(fetch.files, fetch.todo, fetch.rejected, fetch.dropped)
    BY <1>10 DEF EndManifest, NoFetch, AccountInv
  <2>2. ToSet(fetch.todo) = {}
    BY <2>1, OnceEmpty
  <2> DEFINE accounted == Entered(fetch.files) \o fetch.rejected
  <2>3. Once(accounted) /\ ToSet(accounted) = Below \ fetch.dropped
    BY <2>1, <2>2, OnceConcat DEF Accounted
  <2>4. EveryMemberIsAccounted'
    BY <2>1, <2>3, SameCatalogue DEF EveryMemberIsAccounted, Once, Entered
  <2> QED
    BY <2>1, <2>4 DEF AccountInv
<1>11. CASE Repair \/ Damage
  <2>1. catalogue' = catalogue /\ manifest' = manifest /\ fetch' = fetch
    BY <1>11 DEF Repair, Damage
  <2> QED
    BY <2>1, SameManifest, SameCatalogue DEF AccountInv, WalkInv, Accounted
<1> QED
  BY <1>1, <1>2, <1>3, <1>4, <1>5, <1>6, <1>7, <1>8, <1>9, <1>10, <1>11 DEF FetchNext
-----------------------------------------------------------------------------
(***************************************************************************)
(* The training.  The two pools are read one after the other, while a fetch *)
(* may replace the files; but what was read under a name is of that name.   *)
(***************************************************************************)
CorpusShape == corpus = [pc |-> corpus.pc, by |-> corpus.by, train |-> corpus.train,
                         val |-> corpus.val, trainPool |-> corpus.trainPool,
                         valPool |-> corpus.valPool]

ReadUnder(pool, names) ==
  \A bytes \in pool : Sound(FileName(bytes.of), bytes) /\ FileName(bytes.of) \in names

PipelineInv ==
  /\ ImagesInv
  /\ CorpusShape
  /\ corpus.train \intersect corpus.val = {}
  /\ ReadUnder(corpus.trainPool, corpus.train)
  /\ ReadUnder(corpus.valPool, corpus.val)

\* An empty corpus.
LEMMA NoCorpusRead ==
  ASSUME corpus' = NoCorpus
  PROVE  /\ CorpusShape' /\ corpus'.train \intersect corpus'.val = {}
         /\ ReadUnder(corpus'.trainPool, corpus'.train)
         /\ ReadUnder(corpus'.valPool, corpus'.val)
BY DEF NoCorpus, CorpusShape, ReadUnder

LEMMA PoolIsRead ==
  ASSUME ImagesInv, NEW names, names \subseteq Have
  PROVE  ReadUnder(Pool(names), names)
BY DEF ImagesInv, Sound, Pool, ReadUnder, Have

LEMMA PipelineStep == ASSUME PipelineInv, [PipelineNext]_pipelineVars PROVE PipelineInv'
<1> USE DEF PipelineInv
<1>1. ImagesInv'
  <2>1. [FetchNext]_fetchVars
    BY DEF PipelineNext, pipelineVars, BuildCorpus, TrainOnFolder, BuildTrainPool, BuildValPool,
       AbandonCorpus
  <2> QED
    BY <2>1, ImagesStep
<1>2. CASE UNCHANGED corpus
  BY <1>1, <1>2 DEF CorpusShape
<1>3. ASSUME NEW t \in Trainers, BuildCorpus(t) PROVE PipelineInv'
  <2>1. PICK split \in SplitPaths(Have) :
          corpus' = [NoCorpus EXCEPT !.pc = "train", !.by = t, !.train = split.train,
                                     !.val = split.val]
    BY <1>3 DEF BuildCorpus
  <2>2. split.train \intersect split.val = {}
    BY DEF SplitPaths
  <2>3. CorpusShape' /\ corpus'.train = split.train /\ corpus'.val = split.val
        /\ corpus'.trainPool = {} /\ corpus'.valPool = {}
    BY <2>1 DEF NoCorpus, CorpusShape
  <2> QED
    BY <1>1, <2>2, <2>3 DEF ReadUnder
<1>4. CASE BuildTrainPool
  <2>1. /\ CorpusShape' /\ corpus'.train = corpus.train /\ corpus'.val = corpus.val
        /\ corpus'.trainPool = Pool(corpus.train) /\ corpus'.valPool = corpus.valPool
        /\ corpus.train \subseteq Have
    BY <1>4 DEF BuildTrainPool, CorpusShape
  <2> QED
    BY <1>1, <2>1, PoolIsRead
<1>5. CASE BuildValPool
  <2>1. /\ CorpusShape' /\ corpus'.train = corpus.train /\ corpus'.val = corpus.val
        /\ corpus'.valPool = Pool(corpus.val) /\ corpus'.trainPool = corpus.trainPool
        /\ corpus.val \subseteq Have
    BY <1>5 DEF BuildValPool, CorpusShape
  <2> QED
    BY <1>1, <2>1, PoolIsRead
<1>6. CASE corpus' = NoCorpus
  BY <1>1, <1>6, NoCorpusRead
<1> QED
  BY <1>2, <1>3, <1>4, <1>5, <1>6 DEF PipelineNext, TrainOnFolder, AbandonCorpus, pipelineVars

\* The invariant of the folder and of what was read from it.
THEOREM PipelineInvariance == PipelineSpec => []PipelineInv
<1>1. PipelineInit => PipelineInv
  <2> SUFFICES ASSUME PipelineInit PROVE PipelineInv
    OBVIOUS
  <2>1. ImagesInv
    BY ImagesInit DEF PipelineInit
  <2> QED
    BY <2>1 DEF PipelineInit, PipelineInv, NoCorpus, CorpusShape, ReadUnder
<1> QED
  BY <1>1, PipelineStep, PTL DEF PipelineSpec

\* The invariant of the fetch's account.
THEOREM AccountInvariance == PipelineSpec => []AccountInv
<1>1. PipelineInit => AccountInv
  BY AccountInit DEF PipelineInit
<1>2. PipelineInv /\ AccountInv /\ [PipelineNext]_pipelineVars => AccountInv'
  <2> SUFFICES ASSUME PipelineInv, AccountInv, [PipelineNext]_pipelineVars PROVE AccountInv'
    OBVIOUS
  <2>1. [FetchNext]_fetchVars
    BY DEF PipelineNext, pipelineVars, BuildCorpus, TrainOnFolder, BuildTrainPool, BuildValPool,
       AbandonCorpus
  <2> QED
    BY <2>1, AccountStep DEF PipelineInv
<1> QED
  BY <1>1, <1>2, PipelineInvariance, PTL DEF PipelineSpec

\* Whatever the catalogue: each file that can be reached from the category, by
\* however many ways and round whatever circles, is in the manifest, once.
THEOREM EveryFileIsAccounted == PipelineSpec => []EveryMemberIsAccounted
<1>1. AccountInv => EveryMemberIsAccounted
  BY DEF AccountInv
<1> QED
  BY <1>1, AccountInvariance, PTL

\* No training, whenever it reads and whatever fetch was killed or is running,
\* gets half an image, one that is no photograph, or one in both pools.
THEOREM TrainsOnValidated == PipelineSpec => []TrainedOnValidated
<1>1. PipelineInv => TrainedOnValidated
  BY DEF PipelineInv, ReadUnder, Sound, TrainedOnValidated
<1> QED
  BY <1>1, PipelineInvariance, PTL

\* No run of the fetch takes over bytes that went bad since the last one.
THEOREM RepairsDamage == PipelineSpec => DamageIsRepaired
<1>1. PipelineInv /\ [PipelineNext]_pipelineVars => [FetchNext]_fetchVars
  BY DEF PipelineNext, pipelineVars, BuildCorpus, TrainOnFolder, BuildTrainPool, BuildValPool,
     AbandonCorpus
<1>2. PipelineInv => ImagesInv
  BY DEF PipelineInv
<1> QED
  BY <1>1, <1>2, ListedStep, PipelineInvariance, PTL DEF PipelineSpec, DamageIsRepaired

\* The store of the machine behaves as a store: what is proved of the store
\* holds while trainings read the folder that a fetch fills.
THEOREM PipelineRunsStore == PipelineSpec => StoreSpec
<1>1. PipelineInit => StoreInit
  BY DEF PipelineInit
<1>2. [PipelineNext]_pipelineVars => [StoreNext]_storeVars
  BY DEF PipelineNext, pipelineVars, StoreNext, BuildCorpus, TrainOnFolder, BuildTrainPool,
     BuildValPool, AbandonCorpus
<1> QED
  BY <1>1, <1>2, PTL DEF PipelineSpec, StoreSpec
=============================================================================
