--------------------------- MODULE MCExperiments ---------------------------
(***************************************************************************)
(* Experiments for TLC: two tools at a time, two looks, two runs of pifilm-  *)
(* process.                                                                 *)
(***************************************************************************)
EXTENDS Experiments

(* Three shots: one to train on, and a raw and a decoded one of one second. *)
MCShots == {Ungraded("a"), Ungraded("b"), [Ungraded("b") EXCEPT !.suffix = "original"]}
(* Of one size, so that the dimensions do not give a mix-up away.           *)
MCSize == [shot \in MCShots |-> 1]
MCTraining == {"a"}
MCValidation == [stem \in {"b"} |-> "street"]
MCReferences == [photo \in {Ungraded("beach"), Ungraded("cake")} |->
                    IF photo = Ungraded("beach") THEN [role |-> "train", group |-> "sea"]
                    ELSE [role |-> "validation", group |-> "cakes"]]

(* Inputs of a user: as they should be, and with an excluded photo in them. *)
MCHandMade ==
    {[kind |-> "inputs", prepared |-> FALSE, excluded |-> excluded,
      camera |-> Partition({Entry(Ungraded("a"), "train", "bedroom"),
                            Entry(Ungraded("b"), "validation", "street")}),
      references |-> PreparedReferences,
      baseline |-> [lut |-> lut, params |-> [lutSha1 |-> lut, fit |-> 1]]] :
        excluded \in {{}, {Ungraded("a")}}, lut \in Luts}

(* Bounds.  Tools of different kinds meet only in outputs: two at once are  *)
(* of one kind, or one of them is about to publish.  Only the freeze reads  *)
(* the photos and the look, one after the other: nothing is taken or graded *)
(* once a look is written, the freeze is over or two tools are at work.  A  *)
(* second look comes while one is.  One original goes unlogged, before any  *)
(* look.  The decoded shot of the pair is the first of all.                 *)
Busy == {x \in Tools : tool[x] # NoTool}

Bounded ==
    /\ Cardinality({tool[x].kind : x \in {y \in Busy : tool[y].pc # "publish"}}) <= 1
    /\ written # {} \/ There("snapshot") \/ Busy = Tools =>
        batch = NoBatch /\ taking = NoShot
    /\ Busy = Tools => Cardinality(written) <= 1
    /\ Cardinality(images \ logged) <= IF written = {} THEN 1 ELSE 0
    /\ images # {} => Ungraded("b") \in images

MCSymmetry == Permutations(Tools) \union Permutations(Luts)
=============================================================================
