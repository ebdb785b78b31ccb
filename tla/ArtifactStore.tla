--------------------------- MODULE ArtifactStore ---------------------------
(***************************************************************************)
(* The trained look on disk, src/pifilm/artifacts.py: train() of            *)
(* src/pifilm/train/fit.py writes it aside and publishes it by two renames, *)
(* while programs load it by path and other trainers publish too.           *)
(***************************************************************************)
EXTENDS PublishedLook

CONSTANTS
    Trainers,  \* pifilm-train processes with one --out
    Readers    \* programs that load from it

VARIABLES
    staging,   \* each trainer's staging directory
    backup,    \* each trainer's backup directory
    old,       \* the directories nobody will come back for
    trainer,   \* where each trainer stands, and in which fit
    reader,    \* what each reader has read
    fits,
    published, \* history: dest held an artifact once
    cut        \* history: a publish ended between its renames

diskVars == <<dest, staging, backup, old>>
historyVars == <<written, published, cut>>
storeVars == <<diskVars, trainer, reader, fits, historyVars>>

Resting == [pc |-> "idle", fit |-> 0]
Unread == [pc |-> "idle", lut |-> "none", params |-> NoParams]

StoreInit ==
    /\ dest = NoDir /\ old = {}
    /\ staging = [t \in Trainers |-> NoDir]
    /\ backup = [t \in Trainers |-> NoDir]
    /\ trainer = [t \in Trainers |-> Resting]
    /\ reader = [r \in Readers |-> Unread]
    /\ fits = 0
    /\ written = {} /\ published = FALSE /\ cut = FALSE

(***************************************************************************)
(* Artifacts.load: params.json first, then the table it names; what does    *)
(* not fit together is refused.                                             *)
(***************************************************************************)
ReadParams(r) ==
    /\ reader[r].pc = "idle"
    /\ reader' = [reader EXCEPT ![r] = IF dest.params = NoParams THEN Unread
                                        ELSE [Unread EXCEPT !.pc = "lut", !.params = dest.params]]
    /\ UNCHANGED <<diskVars, trainer, fits, historyVars>>

ReadLut(r) ==
    /\ reader[r].pc = "lut"
    /\ reader' = [reader EXCEPT ![r] = IF Matches(dest.lut, @.params)
                                        THEN [@ EXCEPT !.pc = "loaded", !.lut = dest.lut]
                                        ELSE Unread]
    /\ UNCHANGED <<diskVars, trainer, fits, historyVars>>

LeaveReader(r) ==
    /\ reader[r].pc # "idle"
    /\ reader' = [reader EXCEPT ![r] = Unread]
    /\ UNCHANGED <<diskVars, trainer, fits, historyVars>>

(***************************************************************************)
(* train: the fit, then write_artifact and write_report into a staging      *)
(* directory of its own, then publish.                                      *)
(***************************************************************************)
Goes(t, pc) == trainer' = [trainer EXCEPT ![t].pc = pc]

Stage(t) ==
    /\ trainer[t].pc = "idle" /\ fits < MaxFits
    /\ fits' = fits + 1
    /\ trainer' = [trainer EXCEPT ![t] = [pc |-> "cube", fit |-> fits + 1]]
    /\ staging' = [staging EXCEPT ![t] = Empty]
    /\ UNCHANGED <<dest, backup, old, reader, historyVars>>

WriteCube(t) ==
    /\ trainer[t].pc = "cube"
    /\ \E lut \in Luts : staging' = [staging EXCEPT ![t].lut = lut]
    /\ Goes(t, "params")
    /\ UNCHANGED <<dest, backup, old, reader, fits, historyVars>>

WriteParams(t) ==
    /\ trainer[t].pc = "params"
    /\ staging' = [staging EXCEPT
                    ![t].params = [lutSha1 |-> staging[t].lut, fit |-> trainer[t].fit]]
    /\ written' = written \union {staging'[t]}
    /\ Goes(t, "publish")
    /\ UNCHANGED <<dest, backup, old, reader, fits, published, cut>>

(* What the finally of train and the end of the process leave behind.       *)
Left(dirs) == old' = old \union {dir \in dirs : Load(dir)}
Rest(t) == trainer' = [trainer EXCEPT ![t] = Resting]
Dropped(t) == staging' = [staging EXCEPT ![t] = NoDir]

(***************************************************************************)
(* publish.  Staging is validated before anything moves.                    *)
(***************************************************************************)
Validate(t) ==
    /\ trainer[t].pc = "publish" /\ Load(staging[t])
    /\ Goes(t, IF dest = NoDir THEN "swap" ELSE "aside")
    /\ UNCHANGED <<diskVars, reader, fits, historyVars>>

(* Removing the old artifact rather than moving it aside.                   *)
RemoveOld(t) ==
    /\ trainer[t].pc = "aside" /\ dest # NoDir
    /\ dest' = NoDir
    /\ Goes(t, "swap")
    /\ UNCHANGED <<staging, backup, old, reader, fits, historyVars>>

MoveAside(t) ==
    /\ trainer[t].pc = "aside" /\ dest # NoDir
    /\ backup' = [backup EXCEPT ![t] = dest]
    /\ dest' = NoDir
    /\ Goes(t, "swap")
    /\ UNCHANGED <<staging, old, reader, fits, historyVars>>

(* Another trainer has just moved dest; there is no backup to put back.     *)
NothingToMove(t) ==
    /\ trainer[t].pc = "aside" /\ dest = NoDir
    /\ Rest(t) /\ Dropped(t)
    /\ UNCHANGED <<dest, backup, old, reader, fits, historyVars>>

MoveIn(t) ==
    /\ trainer[t].pc = "swap" /\ dest = NoDir
    /\ dest' = staging[t]
    /\ Dropped(t)
    /\ published' = TRUE
    /\ Goes(t, "clean")
    /\ UNCHANGED <<backup, old, reader, fits, written, cut>>

(* OSError, for one because dest is there again: the backup goes back if    *)
(* dest is missing.                                                         *)
RollBack(t) ==
    /\ trainer[t].pc = "swap"
    /\ IF dest = NoDir
       THEN dest' = backup[t] /\ Left({})
       ELSE UNCHANGED dest /\ Left({backup[t]})
    /\ backup' = [backup EXCEPT ![t] = NoDir]
    /\ Rest(t) /\ Dropped(t)
    /\ UNCHANGED <<reader, fits, historyVars>>

RemoveBackup(t) ==
    /\ trainer[t].pc = "clean"
    /\ backup' = [backup EXCEPT ![t] = NoDir]
    /\ Rest(t)
    /\ UNCHANGED <<dest, staging, old, reader, fits, historyVars>>

(***************************************************************************)
(* Ctrl-C, or an error other than those: publish catches OSError alone, so  *)
(* no roll-back, but train's finally removes the staging directory.  A kill *)
(* leaves both directories.                                                 *)
(***************************************************************************)
Ended(t) ==
    /\ trainer[t].pc # "idle"
    /\ backup' = [backup EXCEPT ![t] = NoDir]
    /\ cut' = (cut \/ (trainer[t].pc = "swap" /\ dest = NoDir))
    /\ Rest(t) /\ Dropped(t)
    /\ UNCHANGED <<dest, reader, fits, written, published>>

Interrupted(t) == Ended(t) /\ Left({backup[t]})
Killed(t) == Ended(t) /\ Left({backup[t], staging[t]})

TrainerNext(t) ==
    \/ WriteCube(t) \/ WriteParams(t) \/ Validate(t)
    \/ MoveAside(t) \/ NothingToMove(t) \/ MoveIn(t) \/ RollBack(t) \/ RemoveBackup(t)
    \/ Interrupted(t) \/ Killed(t)

ReaderNext(r) == ReadParams(r) \/ ReadLut(r) \/ LeaveReader(r)

StoreNext ==
    \/ \E t \in Trainers : Stage(t) \/ TrainerNext(t)
    \/ \E r \in Readers : ReaderNext(r)

StoreSpec == StoreInit /\ [][StoreNext]_storeVars

StoreTypeOK ==
    /\ dest \in Directories /\ old \subseteq Artifact
    /\ staging \in [Trainers -> Directories] /\ backup \in [Trainers -> Directories]
    /\ trainer \in [Trainers -> [pc : {"idle", "cube", "params", "publish", "aside", "swap",
                                       "clean"}, fit : 0..MaxFits]]
    /\ reader \in [Readers -> [pc : {"idle", "lut", "loaded"}, lut : Luts \union {"none"},
                               params : Params \union {NoParams}]]
    /\ fits \in 0..MaxFits
    /\ written \subseteq Artifact /\ published \in BOOLEAN /\ cut \in BOOLEAN

(***************************************************************************)
(* A table and params that a load has accepted were written as one artifact, *)
(* although the two files are opened one after the other while trainers      *)
(* replace the directory (artifacts.py:16-21).                              *)
(***************************************************************************)
LoadedIsOneArtifact ==
    \A r \in Readers : reader[r].pc = "loaded" =>
        [lut |-> reader[r].lut, params |-> reader[r].params] \in written

(***************************************************************************)
(* Once published, there is a whole artifact on the disk wherever trainers   *)
(* are killed or fail; and it is missing from its place only between the     *)
(* renames of a publish, or after one that ended there (artifacts.py:207).  *)
(***************************************************************************)
Between(t) == trainer[t].pc = "swap" /\ Load(backup[t])

ArtifactSurvives ==
    published =>
        /\ \/ Load(dest) \/ old # {}
           \/ \E t \in Trainers : Load(staging[t]) \/ Load(backup[t])
        /\ dest = NoDir => cut \/ \E t \in Trainers : Between(t)
=============================================================================
