--------------------------- MODULE PublishedLook ---------------------------
(***************************************************************************)
(* What src/pifilm/artifacts.py promises of the directory a look is          *)
(* published in: at any time it is missing or holds an artifact that was     *)
(* written whole, and it is replaced by way of missing.                     *)
(*                                                                         *)
(* An artifact is a .cube and the params.json with its hash; the number of  *)
(* the fit stands for the params (normalisation, grain, provenance).  Two   *)
(* fits may well give one and the same table.                               *)
(***************************************************************************)
EXTENDS Naturals

CONSTANTS
    Luts,      \* tables
    MaxFits

ASSUME FitsAssumption == MaxFits \in Nat /\ {"none", "missing"} \intersect Luts = {}

VARIABLES
    dest,      \* the directory of --out
    written    \* the artifacts written whole so far, there or elsewhere

lookVars == <<dest, written>>

NoParams == [lutSha1 |-> "none", fit |-> 0]
Params == [lutSha1 : Luts, fit : 1..MaxFits]
Artifact == [lut : Luts, params : Params]
NoDir == [lut |-> "none", params |-> NoParams]
Empty == [lut |-> "missing", params |-> NoParams]
Directories == [lut : Luts \union {"none", "missing"}, params : Params \union {NoParams}]

(* Artifacts.load refuses a table that is not the one params.json names.    *)
(* Without the hash: any table will do.                                     *)
MatchesUnchecked(lut, params) == lut \in Luts
Matches(lut, params) == lut \in Luts /\ params.lutSha1 = lut

Load(dir) == Matches(dir.lut, dir.params)

Whole == {artifact \in Artifact : Load(artifact)}

LookInit == dest = NoDir /\ written = {}

Write(artifact) == written' = written \union {artifact} /\ UNCHANGED dest

Appear == dest = NoDir /\ dest' \in written /\ UNCHANGED written

Vanish == dest' = NoDir /\ UNCHANGED written

LookNext == \/ \E artifact \in Whole : Write(artifact)
            \/ Appear
            \/ Vanish

LookSpec == LookInit /\ [][LookNext]_lookVars
=============================================================================
