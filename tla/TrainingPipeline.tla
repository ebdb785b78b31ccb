-------------------------- MODULE TrainingPipeline --------------------------
(***************************************************************************)
(* The machine the look is made on: pifilm-fetch fills the reference folder, *)
(* pifilm-train reads the images there are in it and publishes an artifact,  *)
(* programs load it.  build_corpus lists the folder, not the manifest.       *)
(***************************************************************************)
EXTENDS CorpusFetch, ArtifactStore

CONSTANTS
    MinTargetImages,
    ValEvery          \* one image in so many is held back; 5 in the code

ASSUME CorpusAssumption == MinTargetImages \in Nat /\ ValEvery \in Nat \ {0}

VARIABLE corpus  \* the reading of the folder that is under way

pipelineVars == <<fetchVars, storeVars, corpus>>

NoCorpus == [pc |-> "idle", by |-> "nobody", train |-> {}, val |-> {},
             trainPool |-> {}, valPool |-> {}]

PipelineInit == FetchInit /\ StoreInit /\ corpus = NoCorpus

(* The generator is seeded; which images it draws stays open here.          *)
SplitPaths(paths) ==
    {[train |-> paths \ val, val |-> val] :
        val \in {S \in SUBSET paths : Cardinality(S) = Cardinality(paths) \div ValEvery}}

(* CorpusTooSmall refuses a small folder, unless --allow-small.  One        *)
(* training reads at a time: readings change nothing, so two of them do not *)
(* meet.                                                                    *)
BuildCorpus(t) ==
    /\ corpus.pc = "idle" /\ trainer[t].pc = "idle" /\ fits < MaxFits
    /\ Have # {}
    /\ \E allowSmall \in BOOLEAN : Cardinality(Have) >= MinTargetImages \/ allowSmall
    /\ \E split \in SplitPaths(Have) :
        corpus' = [NoCorpus EXCEPT !.pc = "train", !.by = t, !.train = split.train,
                                   !.val = split.val]
    /\ UNCHANGED <<fetchVars, storeVars>>

(* build_pool opens the images as they are by now; one that is gone by now  *)
(* ends the training.                                                       *)
Pool(names) == {folder[name] : name \in names}

BuildTrainPool ==
    /\ corpus.pc = "train" /\ corpus.train \subseteq Have
    /\ corpus' = [corpus EXCEPT !.pc = "val", !.trainPool = Pool(corpus.train)]
    /\ UNCHANGED <<fetchVars, storeVars>>

BuildValPool ==
    /\ corpus.pc = "val" /\ corpus.val \subseteq Have
    /\ corpus' = [corpus EXCEPT !.pc = "hash", !.valPool = Pool(corpus.val)]
    /\ UNCHANGED <<fetchVars, storeVars>>

(* corpus_sha1 opens them once more; then the fit.                          *)
TrainOnFolder(t) ==
    /\ corpus.pc = "hash" /\ corpus.by = t
    /\ corpus.train \union corpus.val \subseteq Have
    /\ Stage(t)
    /\ corpus' = NoCorpus
    /\ UNCHANGED fetchVars

AbandonCorpus ==
    /\ corpus.pc # "idle"
    /\ corpus' = NoCorpus
    /\ UNCHANGED <<fetchVars, storeVars>>

PipelineNext ==
    \/ FetchNext /\ UNCHANGED <<storeVars, corpus>>
    \/ \E t \in Trainers : BuildCorpus(t) \/ TrainOnFolder(t)
    \/ BuildTrainPool \/ BuildValPool \/ AbandonCorpus
    \/ \E t \in Trainers : TrainerNext(t) /\ UNCHANGED <<fetchVars, corpus>>
    \/ \E r \in Readers : ReaderNext(r) /\ UNCHANGED <<fetchVars, corpus>>

PipelineSpec == PipelineInit /\ [][PipelineNext]_pipelineVars

(***************************************************************************)
(* Every image trained on was completely written and passed validate_image, *)
(* wherever earlier fetches were killed and also while one is running       *)
(* (fetch.py:297: "Never leaves a partial file"); and none of it is in the  *)
(* pool the fit is validated with (dataset.py:19-27), although the two are  *)
(* read one after the other.                                                *)
(***************************************************************************)
TrainedOnValidated ==
    /\ \A bytes \in corpus.trainPool \union corpus.valPool :
        bytes.kind # "partial" /\ Commons[bytes.of].photo
    /\ {bytes.of : bytes \in corpus.trainPool}
            \intersect {bytes.of : bytes \in corpus.valPool} = {}
=============================================================================
