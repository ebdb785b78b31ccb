---------------------------- MODULE CorpusFetch ----------------------------
(***************************************************************************)
(* pifilm-fetch, src/pifilm/train/fetch.py: the files of a Wikimedia Commons *)
(* category are listed, chosen and downloaded into a folder with a          *)
(* manifest.  Any run may be killed at any step; the next one starts from   *)
(* what lies in the folder.                                                 *)
(*                                                                         *)
(* The bytes of a file are the title they came from and what became of     *)
(* them; two files have one hash exactly when their bytes are equal.        *)
(***************************************************************************)
EXTENDS Naturals, FiniteSets, SequencesExt

CONSTANTS
    Titles,      \* the files of Commons
    Categories,
    Root,        \* the category asked for
    Commons,     \* what the API says of each title
    Catalogues,  \* from categories to the members the API lists, in order
    MaxFetches,
    MaxDamage

NoLccn == 0

ASSUME CatalogueAssumption ==
    /\ Root \in Categories /\ Titles \intersect Categories = {}
    /\ Catalogues \subseteq [Categories -> Seq(Titles \union Categories)]
    /\ Commons \in [Titles -> [skipped : BOOLEAN, lccn : Nat, licence : STRING,
                               usable : BOOLEAN, photo : BOOLEAN]]
    /\ {MaxFetches, MaxDamage} \subseteq Nat

VARIABLES
    catalogue,  \* Commons as it is, never written
    folder,     \* from names of images to bytes
    parts,      \* names with a .part file
    manifest,   \* manifest.json; with it, what --sample and --limit left out
    fetch,      \* the run
    fetches,
    damage      \* files gone bad so far

fetchVars == <<catalogue, folder, parts, manifest, fetch, fetches, damage>>

Bytes == [of : Titles, kind : {"whole", "damaged", "partial"}]
Licences == {"pd", "cc-by", "cc-by-sa"}
NoManifest == [kind |-> "absent", entries |-> << >>, rejected |-> << >>, dropped |-> {}]
Torn == [NoManifest EXCEPT !.kind = "torn"]
NoFetch == [pc |-> "idle", previous |-> << >>, ahead |-> << >>, seen |-> {}, found |-> << >>,
            todo |-> << >>, dropped |-> {}, files |-> << >>, rejected |-> << >>]

FetchInit ==
    /\ catalogue \in Catalogues
    /\ folder = << >> /\ parts = {} /\ manifest = NoManifest
    /\ fetch = NoFetch /\ fetches = 0 /\ damage = 0

(***************************************************************************)
(* Listing and choosing.                                                    *)
(***************************************************************************)
FileName(title) ==
    IF Commons[title].lccn # NoLccn THEN <<"lccn", Commons[title].lccn>> ELSE <<"page", title>>

LicenceAllowed(licence, licences) == licence \in licences

(* The entries of s at these positions, in their order.                     *)
Subsequence(s, positions) ==
    [n \in 1..Cardinality(positions) |->
        s[CHOOSE i \in positions : Cardinality({j \in positions : j < i}) = n - 1]]

(* A manifest that does not parse counts as none.                           *)
Previous ==
    LET entries == ToSet(manifest.entries)
    IN  [name \in {FileName(e.title) : e \in entries} |->
            (CHOOSE e \in entries : FileName(e.title) = name).bytes]

StartFetch ==
    /\ fetch.pc = "idle" /\ fetches < MaxFetches
    /\ fetches' = fetches + 1
    /\ fetch' = [NoFetch EXCEPT !.pc = "walk", !.previous = Previous, !.ahead = <<Root>>]
    /\ UNCHANGED <<catalogue, folder, parts, manifest, damage>>

(* iter_category_members by the member: depth first, so that the members of *)
(* a category come before what follows it in its parent.                    *)
Member == Head(fetch.ahead)

(* As it was when 79 of 835 files were listed twice.                        *)
ListAgain ==
    /\ Member \in Titles
    /\ fetch' = [fetch EXCEPT !.ahead = Tail(@), !.seen = @ \union {Member},
                              !.found = Append(@, Member)]

List ==
    /\ Member \in Titles \ fetch.seen
    /\ fetch' = [fetch EXCEPT !.ahead = Tail(@), !.seen = @ \union {Member},
                              !.found = Append(@, Member)]

Enter ==
    /\ Member \in Categories \ fetch.seen
    /\ fetch' = [fetch EXCEPT !.ahead = catalogue[Member] \o Tail(@),
                              !.seen = @ \union {Member}]

Skip ==
    /\ Member \in fetch.seen
    /\ fetch' = [fetch EXCEPT !.ahead = Tail(@)]

IterMembers ==
    /\ fetch.pc = "walk" /\ fetch.ahead # << >>
    /\ List \/ Enter \/ Skip
    /\ UNCHANGED <<catalogue, folder, parts, manifest, fetches, damage>>

(* api_get: no attempt at one of the requests is answered (FetchError).     *)
ApiGivesUp ==
    /\ fetch.pc = "walk"
    /\ fetch' = NoFetch
    /\ UNCHANGED <<catalogue, folder, parts, manifest, fetches, damage>>

(* Titles with a Library of Congress number first, each number once.        *)
SelectTitles(found) ==
    LET lccn(i) == Commons[found[i]].lccn
        duplicate(i) == \E j \in 1..(i - 1) : ~Commons[found[j]].skipped /\ lccn(j) = lccn(i)
        rejected == {i \in DOMAIN found : \/ Commons[found[i]].skipped
                                          \/ lccn(i) # NoLccn /\ duplicate(i)}
        numbered == {i \in DOMAIN found \ rejected : lccn(i) # NoLccn}
    IN  [accepted |-> Subsequence(found, numbered)
                        \o Subsequence(found, (DOMAIN found \ rejected) \ numbered),
         rejected |-> Subsequence(found, rejected)]

(* --sample takes any so many, --limit the first so many.                   *)
Samples(titles) == {Subsequence(titles, kept) : kept \in SUBSET (DOMAIN titles)}

FetchImageInfo(titles, licences) ==
    LET passing == {i \in DOMAIN titles :
                        /\ Commons[titles[i]].usable
                        /\ LicenceAllowed(Commons[titles[i]].licence, licences)}
    IN  [infos |-> Subsequence(titles, passing),
         rejected |-> Subsequence(titles, DOMAIN titles \ passing)]

(* The listed files are chosen from, and asked about.                       *)
ChooseFiles ==
    /\ fetch.pc = "walk" /\ fetch.ahead = << >>
    /\ \E licences \in {{"pd"}, Licences} :
        LET selected == SelectTitles(fetch.found) IN
        \E titles \in Samples(selected.accepted) :
            LET info == FetchImageInfo(titles, licences)
                names == {FileName(info.infos[i]) : i \in DOMAIN info.infos}
            IN  \* FetchError: two titles would share a file
                fetch' = IF Cardinality(names) # Len(info.infos) THEN NoFetch
                         ELSE [NoFetch EXCEPT !.pc = "next", !.todo = info.infos,
                                  !.dropped = ToSet(selected.accepted) \ ToSet(titles),
                                  !.previous = fetch.previous,
                                  !.rejected = selected.rejected \o info.rejected]
    /\ UNCHANGED <<catalogue, folder, parts, manifest, fetches, damage>>

(***************************************************************************)
(* One file: what does not match its recorded hash goes, what is there is   *)
(* taken, anything else is downloaded aside, validated and renamed.         *)
(***************************************************************************)
Title == Head(fetch.todo)
Name == FileName(Title)
Have == DOMAIN folder
Without(name) == Restrict(folder, Have \ {name})

(* As if a file that is there were always taken.                            *)
TrustAny == FALSE

Suspect ==
    /\ Name \in Have /\ Name \in DOMAIN fetch.previous
    /\ folder[Name] # fetch.previous[Name]

Repair ==
    /\ fetch.pc = "next" /\ fetch.todo # << >> /\ Suspect
    /\ folder' = Without(Name)
    /\ UNCHANGED <<catalogue, parts, manifest, fetch, fetches, damage>>

(* The file of this turn is there under its name.                           *)
Stored(bytes) ==
    folder' = [name \in Have \union {Name} |-> IF name = Name THEN bytes ELSE folder[name]]

Accepted(bytes) ==
    fetch' = [fetch EXCEPT !.pc = "next", !.todo = Tail(@),
                           !.files = Append(@, [title |-> Title, bytes |-> bytes])]

KeepExisting ==
    /\ fetch.pc = "next" /\ fetch.todo # << >> /\ ~Suspect
    /\ Name \in Have
    /\ Accepted(folder[Name])
    /\ UNCHANGED <<catalogue, folder, parts, manifest, fetches, damage>>

(* Every retry failed, or what came is no colour photograph.                *)
DownloadFails ==
    /\ \/ fetch.pc = "next" /\ fetch.todo # << >> /\ ~Suspect /\ Name \notin Have
       \/ fetch.pc = "part"
    /\ parts' = parts \ {Name}
    /\ fetch' = [fetch EXCEPT !.pc = "next", !.todo = Tail(@), !.rejected = Append(@, Title)]
    /\ UNCHANGED <<catalogue, folder, manifest, fetches, damage>>

(* As if the bytes were written under the final name.                       *)
WriteInPlace ==
    /\ fetch.pc = "next" /\ fetch.todo # << >> /\ ~Suspect /\ Name \notin Have
    /\ Commons[Title].photo
    /\ Stored([of |-> Title, kind |-> "partial"])
    /\ fetch' = [fetch EXCEPT !.pc = "part"]
    /\ UNCHANGED <<catalogue, parts, manifest, fetches, damage>>

(* validate_image, then write_bytes begins.                                 *)
WritePart ==
    /\ fetch.pc = "next" /\ fetch.todo # << >> /\ ~Suspect /\ Name \notin Have
    /\ Commons[Title].photo
    /\ parts' = parts \union {Name}
    /\ fetch' = [fetch EXCEPT !.pc = "part"]
    /\ UNCHANGED <<catalogue, folder, manifest, fetches, damage>>

Rename ==
    /\ fetch.pc = "part"
    /\ parts' = parts \ {Name}
    /\ Stored([of |-> Title, kind |-> "whole"])
    /\ Accepted([of |-> Title, kind |-> "whole"])
    /\ UNCHANGED <<catalogue, manifest, fetches, damage>>

BeginManifest ==
    /\ fetch.pc = "next" /\ fetch.todo = << >>
    /\ manifest' = Torn
    /\ fetch' = [fetch EXCEPT !.pc = "manifest"]
    /\ UNCHANGED <<catalogue, folder, parts, fetches, damage>>

EndManifest ==
    /\ fetch.pc = "manifest"
    /\ manifest' = [kind |-> "whole", entries |-> fetch.files, rejected |-> fetch.rejected,
                    dropped |-> fetch.dropped]
    /\ fetch' = NoFetch
    /\ UNCHANGED <<catalogue, folder, parts, fetches, damage>>

FetchKilled ==
    /\ fetch.pc # "idle"
    /\ fetch' = NoFetch
    /\ UNCHANGED <<catalogue, folder, parts, manifest, fetches, damage>>

(* A recorded file goes bad on the disk while nothing runs.                 *)
Damage ==
    /\ fetch.pc = "idle" /\ damage < MaxDamage
    /\ damage' = damage + 1
    /\ \E name \in Have \intersect DOMAIN Previous :
        folder' = [folder EXCEPT ![name].kind = "damaged"]
    /\ UNCHANGED <<catalogue, parts, manifest, fetch, fetches>>

FetchNext ==
    \/ StartFetch \/ IterMembers \/ ApiGivesUp \/ ChooseFiles
    \/ Repair \/ KeepExisting \/ DownloadFails \/ WritePart \/ Rename
    \/ BeginManifest \/ EndManifest \/ FetchKilled \/ Damage

(***************************************************************************)
(* Every file below the category, reached once or often, directly or round  *)
(* a circle of subcategories, is in the manifest exactly once, downloaded   *)
(* or rejected, unless --sample or --limit left it out (fetch.py:166-274).  *)
(***************************************************************************)
Subcategories(category) == ToSet(catalogue[category]) \intersect Categories
Closed(S) == \A category \in S : Subcategories(category) \subseteq S
Reached == {category \in Categories :
                \A S \in SUBSET Categories : Root \in S /\ Closed(S) => category \in S}
Below == (UNION {ToSet(catalogue[category]) : category \in Reached}) \intersect Titles

EveryMemberIsAccounted ==
    manifest.kind = "whole" =>
        LET accounted == [i \in DOMAIN manifest.entries |-> manifest.entries[i].title]
                            \o manifest.rejected
        IN  /\ IsInjective(accounted)
            /\ ToSet(accounted) = Below \ manifest.dropped

(***************************************************************************)
(* A run never lists damaged bytes of a file whose sound bytes were on      *)
(* record when it began, also after runs that were killed half way through  *)
(* the repair (fetch.py:400-406).                                           *)
(***************************************************************************)
DamageIsRepaired ==
    [][\A i \in DOMAIN manifest'.entries :
          LET e == manifest'.entries[i]
              name == FileName(e.title)
          IN  /\ manifest' # manifest
              /\ e.bytes.kind = "damaged"
              => \/ name \notin DOMAIN fetch.previous
                 \/ fetch.previous[name] = e.bytes]_fetchVars
=============================================================================
