------------------------ MODULE MCTrainingPipeline ------------------------
(***************************************************************************)
(* TrainingPipeline for TLC: five titles in a circle of two categories, two  *)
(* fetches with one damaged file, two fits shared by two trainers, one      *)
(* reader.                                                                  *)
(***************************************************************************)
EXTENDS TrainingPipeline

Info(lccn, licence, photo) ==
    [skipped |-> FALSE, lccn |-> lccn, licence |-> licence, usable |-> TRUE, photo |-> photo]

MCTitles == {"slide", "twin", "beach", "document", "poster"}
MCCategories == {"films", "stills"}

(* Two titles of one Library of Congress item, one under CC BY, one that is *)
(* no photograph, one whose title says so.                                  *)
MCCommons ==
    [title \in MCTitles |->
        CASE title = "slide" -> Info(1, "pd", TRUE)
          [] title = "twin" -> Info(1, "pd", TRUE)
          [] title = "beach" -> Info(0, "cc-by", TRUE)
          [] title = "document" -> Info(0, "pd", FALSE)
          [] title = "poster" -> [Info(0, "pd", TRUE) EXCEPT !.skipped = TRUE]]

(* A circle, with files on both sides; and a plain category.                *)
MCCatalogues ==
    {[category \in MCCategories |->
        IF category = "films" THEN <<"beach", "stills", "slide", "poster">>
        ELSE <<"slide", "films", "twin", "stills", "beach">>],
     [category \in MCCategories |->
        IF category = "films" THEN <<"document", "slide">> ELSE << >>]}

MCSymmetry == Permutations(Trainers) \union Permutations(Luts)
=============================================================================
