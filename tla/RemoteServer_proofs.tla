------------------------- MODULE RemoteServer_proofs -------------------------
(***************************************************************************)
(* The remote server for any clients, handler threads, slots and size of   *)
(* the registry: what it promises a client it answers, and it serves the   *)
(* photo of a client's own capture only.                                   *)
(*                                                                         *)
(* The controller in it takes the steps of CaptureController, whose        *)
(* invariant Inv carries over.  RemoteInv adds what ties the registry to   *)
(* the jobs (nothing promised is missing but settled jobs, nothing listed  *)
(* is somebody else's) and what a GET that has let go of the registry's    *)
(* lock may still rely on when it reads the job.                           *)
(***************************************************************************)
EXTENDS RemoteServer, CaptureController_proofs, FiniteSetTheorems, WellFoundedInduction

-----------------------------------------------------------------------------
(***************************************************************************)
(* The registry, as a data structure.                                      *)
(***************************************************************************)

\* A family of subsets of a finite set has a minimal one.
LEMMA MinimalSubset ==
  ASSUME NEW U, IsFiniteSet(U), NEW T, T \subseteq SUBSET U, T # {}
  PROVE  \E x \in T : \A y \in T : y \subseteq x => y = x
<1> DEFINE R == StrictSubsetOrdering(U)
<1>1. IsWellFoundedOn(R, SUBSET U)
  BY FS_StrictSubsetOrderingWellFounded, FS_FiniteSubsetsOfFinite
<1>2. \A x, y \in SUBSET U : x \subseteq y /\ x # y => <<x, y>> \in R
  BY DEF StrictSubsetOrdering
<1> HIDE DEF R
<1>3. \E x \in T : \A y \in T : ~ (<<y, x>> \in R)
  BY <1>1, WFMin
<1> QED
  BY <1>2, <1>3

RegistryType(list) ==
  /\ DOMAIN list \subseteq Ids /\ IsFiniteSet(DOMAIN list)
  /\ list \in [DOMAIN list -> SUBSET Ids]
  /\ InOrder(list)

\* A trim takes settled jobs out and leaves the rest in order.
LEMMA TrimKeeps ==
  ASSUME NEW list, RegistryType(list), NEW state
  PROVE  /\ RegistryType(Trim(list, state))
         /\ DOMAIN Trim(list, state) \subseteq DOMAIN list
         /\ \A id \in DOMAIN list \ DOMAIN Trim(list, state) : state[id] \in Terminal
<1>1. ASSUME NEW gone
      PROVE  DOMAIN Without(list, gone) = DOMAIN list \ gone /\ RegistryType(Without(list, gone))
  <2> DEFINE rest == Without(list, gone)
  <2>1. DOMAIN rest = DOMAIN list \ gone /\ \A id \in DOMAIN rest : rest[id] = list[id] \ gone
    BY DEF Without
  <2>2. rest \in [DOMAIN rest -> SUBSET Ids]
    BY DEF Without, RegistryType
  <2>3. IsFiniteSet(DOMAIN rest) /\ DOMAIN rest \subseteq Ids
    BY <2>1, FS_Subset DEF RegistryType
  <2> HIDE DEF rest
  <2>4. InOrder(rest)
    BY <2>1 DEF RegistryType, InOrder
  <2> QED
    BY <2>1, <2>2, <2>3, <2>4 DEF RegistryType, rest
<1> DEFINE settled == {id \in DOMAIN list : state[id] \in Terminal}
           evicted == {id \in settled : Cardinality({x \in list[id] : state[x] \in Terminal})
                                          < Surplus(list)}
<1>2. Trim(list, state) = Without(list, evicted)
  BY DEF Trim
<1>3. \A id \in evicted : state[id] \in Terminal
  OBVIOUS
<1> HIDE DEF evicted
<1> QED
  BY <1>1, <1>2, <1>3

\* After a trim the registry is short enough, or nothing in it is settled.
LEMMA TrimBounds ==
  ASSUME NEW list, RegistryType(list), NEW state,
         NEW id \in DOMAIN Trim(list, state), state[id] \in Terminal
  PROVE  Cardinality(DOMAIN Trim(list, state)) <= MaxJobs
<1> DEFINE All == DOMAIN list
           Settled(ids) == {x \in ids : state[x] \in Terminal}
           Evicted == {x \in Settled(All) : Cardinality(Settled(list[x])) < Surplus(list)}
           Kept == All \ Evicted
           Spared == Settled(Kept)
<1>1. DOMAIN Trim(list, state) = Kept
  BY DEF Trim, Without
<1>2. PICK first \in Spared : \A x \in Spared : list[x] \subseteq list[first] => list[x] = list[first]
  <2>1. id \in Spared /\ \A x \in Spared : list[x] \subseteq All
    BY <1>1 DEF RegistryType, InOrder
  <2> HIDE DEF Spared
  <2> DEFINE Ahead == {list[x] : x \in Spared}
  <2>2. Ahead \subseteq SUBSET All /\ Ahead # {} /\ IsFiniteSet(All)
    BY <2>1 DEF RegistryType
  <2>3. PICK ahead \in Ahead : \A other \in Ahead : other \subseteq ahead => other = ahead
    <3> HIDE DEF Ahead
    <3> QED
      BY <2>2, MinimalSubset
  <2>4. PICK first \in Spared : ahead = list[first]
    OBVIOUS
  <2> QED
    BY <2>3, <2>4
<1>3. Settled(list[first]) \subseteq Evicted
  <2> SUFFICES ASSUME NEW x \in Settled(list[first]), x \notin Evicted PROVE FALSE
    OBVIOUS
  <2>1. x \in Spared /\ x \in list[first]
    BY DEF RegistryType, InOrder
  <2>2. list[x] \subseteq list[first] /\ x \notin list[x]
    BY <2>1 DEF RegistryType, InOrder
  <2> QED
    BY <1>2, <2>1, <2>2
<1>4. Cardinality(Settled(list[first])) >= Surplus(list)
  <2>1. IsFiniteSet(Settled(list[first])) /\ IsFiniteSet(All)
    BY FS_Subset DEF RegistryType, InOrder
  <2>2. Cardinality(Settled(list[first])) \in Nat /\ Surplus(list) \in Int
    BY <2>1, FS_CardinalityType, RemoteConstants DEF Surplus
  <2> QED
    BY <2>2
<1> HIDE DEF Settled, Evicted
<1>5. /\ IsFiniteSet(Evicted) /\ IsFiniteSet(All)
      /\ Cardinality(Settled(list[first])) <= Cardinality(Evicted)
  <2>1. IsFiniteSet(Evicted) /\ IsFiniteSet(All)
    BY FS_Subset DEF RegistryType, Evicted, Settled
  <2> QED
    BY <1>3, <2>1, FS_Subset
<1>6. Cardinality(All) = Cardinality(Kept) + Cardinality(Evicted)
  <2>1. Evicted \subseteq All
    BY DEF Evicted, Settled
  <2>2. IsFiniteSet(Kept) /\ Kept \cap Evicted = {} /\ Kept \cup Evicted = All
    BY <1>5, <2>1, FS_Subset
  <2>3. Cardinality(All) = Cardinality(Kept) + Cardinality(Evicted) - Cardinality({})
    BY <1>5, <2>2, FS_Union
  <2>4. Cardinality(Kept) \in Nat /\ Cardinality(Evicted) \in Nat
    BY <1>5, <2>2, FS_CardinalityType
  <2> QED
    BY <2>3, <2>4, FS_EmptySet
<1>7. /\ Cardinality(Kept) \in Nat /\ Cardinality(Evicted) \in Nat
      /\ Cardinality(Settled(list[first])) \in Nat
  <2>1. IsFiniteSet(Kept) /\ IsFiniteSet(Settled(list[first]))
    BY <1>3, <1>5, FS_Subset
  <2> QED
    BY <1>5, <2>1, FS_CardinalityType
<1> QED
  BY <1>1, <1>4, <1>5, <1>6, <1>7, RemoteConstants DEF Surplus

\* A registration goes to the end of the row.
LEMMA RegisterKeeps ==
  ASSUME NEW list, RegistryType(list), NEW id \in Ids \ DOMAIN list
  PROVE  /\ RegistryType(Register(list, id))
         /\ DOMAIN Register(list, id) = DOMAIN list \cup {id}
<1> DEFINE longer == Register(list, id)
<1>1. /\ DOMAIN longer = DOMAIN list \cup {id}
      /\ longer[id] = DOMAIN list
      /\ \A x \in DOMAIN list : longer[x] = list[x]
  BY DEF Register
<1>2. longer \in [DOMAIN longer -> SUBSET Ids]
  BY DEF Register, RegistryType
<1>3. IsFiniteSet(DOMAIN longer)
  BY <1>1, FS_AddElement DEF RegistryType
<1> HIDE DEF longer
<1>4. InOrder(longer)
  BY <1>1 DEF RegistryType, InOrder
<1> QED
  BY <1>1, <1>2, <1>3, <1>4 DEF RegistryType, longer
-----------------------------------------------------------------------------
(***************************************************************************)
(* What the jobs do meanwhile, whichever thread makes the step.            *)
(***************************************************************************)

\* The server only does to the controller what CaptureController does.
LEMMA ControllerStep == [RemoteNext]_allvars => [Next]_vars
<1> USE DEF HandlerStep, Connect, Refuse, Post, Look, Read, Render, Status, Respond
<1>1. ASSUME NEW h \in Handlers, HandlerStep(h) PROVE [Next]_vars
  <2>1. ASSUME NEW id \in Ids, Post(h, id) PROVE UNCHANGED vars \/ Submit(id)
    BY <2>1
  <2> QED
    BY <1>1, <2>1 DEF Next
<1>2. ASSUME NEW id \in LocalIds, LocalSubmit(id) PROVE [Next]_vars
  BY <1>2, RemoteConstants DEF LocalSubmit, Next
<1>3. CASE StopListening \/ UNCHANGED allvars
  BY <1>3 DEF StopListening, allvars
<1>4. CASE MainClose \/ Controller
  BY <1>4 DEF MainClose, Controller, Next
<1> QED
  BY <1>1, <1>2, <1>3, <1>4 DEF RemoteNext

\* A job that is there stays, a settled one as it is; a closed controller takes
\* no new one; and jobs come into being in submit() alone.
LEMMA JobsMove ==
  ASSUME Inv, [Next]_vars
  PROVE  /\ \A id \in Ids : jobs[id] # "absent" => jobs'[id] # "absent"
         /\ \A id \in Ids : jobs[id] \in Terminal => jobs'[id] = jobs[id]
         /\ closed => closed'
         /\ \A id \in Ids : closed /\ jobs[id] = "absent" => jobs'[id] = "absent"
         /\ \A id \in Ids : jobs[id] = "absent" => jobs'[id] = "absent" \/ Submit(id)
<1> USE DEF Inv, Core
<1>1. ASSUME NEW id \in Ids, Submit(id)
      PROVE  /\ jobs' = [jobs EXCEPT ![id] = "queued"] /\ jobs[id] = "absent"
             /\ ~closed /\ UNCHANGED closed
  BY <1>1 DEF Submit, SubmitReply, TypeOK, JobState, Live, Terminal
<1>2. ASSUME SetProcessing \/ \E state \in Terminal : Finish(state)
      PROVE  /\ UNCHANGED closed
             /\ \E state \in JobState \ {"absent"} : jobs' = [jobs EXCEPT ![current] = state]
             /\ current \in Ids /\ jobs[current] \in Live
  BY <1>2 DEF SetProcessing, Finish, TypeOK, WorkerHoldsActive, JobState, Live, Terminal
<1>3. ASSUME Close \/ CloseReturn \/ Get \/ CloseCamera \/ UNCHANGED vars
      PROVE  UNCHANGED jobs /\ (closed => closed')
  BY <1>3 DEF Close, ClosingWith, CloseReturn, Get, CloseCamera, vars
<1>4. jobs \in [Ids -> JobState] /\ Live \cap Terminal = {} /\ "absent" \notin Live \cup Terminal
  BY DEF TypeOK, Live, Terminal
<1>5. CASE \E id \in Ids : Submit(id)
  BY <1>5, <1>1, <1>4
<1>6. CASE SetProcessing \/ \E state \in Terminal : Finish(state)
  BY <1>6, <1>2, <1>4
<1>7. CASE Close \/ CloseReturn \/ Get \/ CloseCamera \/ UNCHANGED vars
  BY <1>7, <1>3
<1> QED
  BY <1>5, <1>6, <1>7 DEF Next, Worker, Exited
-----------------------------------------------------------------------------
(***************************************************************************)
(* The invariant.                                                          *)
(***************************************************************************)

HandlerStates == {Idle} \cup Request \cup Lookup \cup Photo \cup Reply

\* Registered captures that exist: all but those refused with "closed".
Existing == {id \in DOMAIN listed : jobs[id] # "absent"}

\* What a client was promised is a capture of its own, and in the registry for
\* as long as it is unfinished.
PromisesAreListed ==
  \A id \in promised :
     /\ id \in Ids \ LocalIds
     /\ jobs[id] # "absent"
     /\ id \in DOMAIN listed \/ jobs[id] \in Terminal

\* The capture under an id a client may be told about, if there ever is one, is
\* a client's.
Foreign(id) == id \notin LocalIds /\ (id \in promised \/ (closed /\ jobs[id] = "absent"))

\* What a handler learnt under the registry's lock and still goes by.
FindingHolds(r) ==
  /\ r.at = "missing" /\ r.kept => jobs[r.id] \in Terminal
  /\ r.at = "found" => Foreign(r.id) /\ (r.kept => r.id \in promised)
  /\ r.at = "photo" => jobs[r.id] = "complete" /\ r.id \in promised
  /\ r.at = "reply" => /\ r.says \in {"unknown", "expired"} /\ r.kept =>
                            r.id \in Ids /\ jobs[r.id] \in Terminal
                       /\ r.says = "image" => jobs[r.id] = "complete" /\ r.id \in promised

RemoteInv ==
  /\ Inv
  /\ RegistryType(listed)
  /\ Cardinality(Existing) <= MaxJobs
  /\ listening \in BOOLEAN
  /\ PromisesAreListed
  /\ \A id \in DOMAIN listed : Foreign(id)
  /\ handler \in [Handlers -> HandlerStates]
  /\ \A h \in Handlers : FindingHolds(handler[h])

\* The properties the run checks follow.
LEMMA RemoteInvImplies == RemoteInv => RemoteTypeOK /\ PromiseIsAnswered /\ PhotoOfOwnCapture
<1> SUFFICES ASSUME RemoteInv PROVE RemoteTypeOK /\ PromiseIsAnswered /\ PhotoOfOwnCapture
  OBVIOUS
<1> USE DEF RemoteInv
<1>1. RegistryBounded
  <2> DEFINE Done == {id \in DOMAIN listed : jobs[id] \in Terminal}
  <2>1. Done \subseteq Existing
    BY DEF Existing, Terminal
  <2>2. IsFiniteSet(Existing)
    BY FS_Subset DEF Existing, RegistryType
  <2>3. Cardinality(Done) <= Cardinality(Existing)
    BY <2>1, <2>2, FS_Subset
  <2>4. Cardinality(Done) \in Nat /\ Cardinality(Existing) \in Nat
    BY <2>1, <2>2, FS_Subset, FS_CardinalityType
  <2> QED
    BY <2>3, <2>4, RemoteConstants DEF RegistryBounded
<1>2. RemoteTypeOK
  BY <1>1 DEF RemoteTypeOK, RegistryType, HandlerStates, PromisesAreListed, Inv, Core
<1>3. PromiseIsAnswered
  BY DEF PromiseIsAnswered, FindingHolds
<1>4. PhotoOfOwnCapture
  BY DEF PhotoOfOwnCapture, FindingHolds, PromisesAreListed
<1> QED
  BY <1>2, <1>3, <1>4

LEMMA RemoteInitInv == RemoteInit => RemoteInv
<1> SUFFICES ASSUME RemoteInit PROVE RemoteInv
  OBVIOUS
<1>1. Inv
  BY InitInv DEF RemoteInit
<1>2. DOMAIN listed = {}
  BY DEF RemoteInit
<1>3. RegistryType(listed)
  BY <1>2, FS_EmptySet DEF RemoteInit, RegistryType, InOrder
<1>4. Cardinality(Existing) <= MaxJobs
  BY <1>2, FS_EmptySet, RemoteConstants DEF Existing
<1>5. \A h \in Handlers : FindingHolds(handler[h]) /\ handler[h] = Idle
  BY DEF RemoteInit, FindingHolds, Idle
<1> QED
  BY <1>1, <1>2, <1>3, <1>4, <1>5 DEF RemoteInit, RemoteInv, PromisesAreListed, HandlerStates
-----------------------------------------------------------------------------
(***************************************************************************)
(* The registry and the promises, step by step.                            *)
(***************************************************************************)
RegistryInv ==
  /\ RegistryType(listed)
  /\ Cardinality(Existing) <= MaxJobs
  /\ PromisesAreListed
  /\ \A id \in DOMAIN listed : Foreign(id)

\* With one job in flight at most, a trimmed registry holds no more existing
\* captures than it should.
LEMMA ExistingBounded ==
  ASSUME NEW list, RegistryType(list), NEW state \in [Ids -> JobState], NEW active,
         \A id \in Ids : state[id] \in Live => active = id
  PROVE  Cardinality({id \in DOMAIN Trim(list, state) : state[id] # "absent"}) <= MaxJobs
<1> DEFINE Kept == DOMAIN Trim(list, state)
           There == {id \in Kept : state[id] # "absent"}
<1>1. Kept \subseteq Ids /\ IsFiniteSet(Kept) /\ IsFiniteSet(There)
  BY TrimKeeps, FS_Subset DEF RegistryType
<1>2. CASE \E id \in Kept : state[id] \in Terminal
  <2>1. Cardinality(Kept) <= MaxJobs
    BY <1>2, TrimBounds
  <2>2. Cardinality(There) <= Cardinality(Kept)
    BY <1>1, FS_Subset
  <2>3. Cardinality(There) \in Nat /\ Cardinality(Kept) \in Nat
    BY <1>1, FS_CardinalityType
  <2> QED
    BY <2>1, <2>2, <2>3, RemoteConstants
<1>3. CASE ~ \E id \in Kept : state[id] \in Terminal
  <2>1. There \subseteq {active}
    BY <1>1, <1>3 DEF JobState
  <2>2. IsFiniteSet({active}) /\ Cardinality({active}) = 1
    BY FS_Singleton
  <2>3. Cardinality(There) <= 1
    BY <2>1, <2>2, FS_Subset
  <2>4. Cardinality(There) \in Nat
    BY <1>1, FS_CardinalityType
  <2> QED
    BY <2>3, <2>4, RemoteConstants
<1> QED
  BY <1>2, <1>3

\* Steps of the controller that bring no listed capture into being.
LEMMA KeepRegistry ==
  ASSUME RemoteInv, [Next]_vars, UNCHANGED <<listed, promised>>,
         \A id \in Ids : Submit(id) => id \in LocalIds
  PROVE  RegistryInv'
<1> USE DEF RemoteInv
<1>1. \A id \in DOMAIN listed : jobs'[id] # "absent" => jobs[id] # "absent"
  BY JobsMove DEF RegistryType, Foreign
<1>2. Cardinality(Existing') <= MaxJobs
  <2>1. Existing' \subseteq Existing /\ IsFiniteSet(Existing)
    BY <1>1, FS_Subset DEF Existing, RegistryType
  <2>2. Cardinality(Existing') <= Cardinality(Existing)
    BY <2>1, FS_Subset
  <2>3. Cardinality(Existing') \in Nat /\ Cardinality(Existing) \in Nat
    BY <2>1, FS_Subset, FS_CardinalityType
  <2> QED
    BY <2>2, <2>3, RemoteConstants
<1>3. PromisesAreListed'
  BY JobsMove DEF PromisesAreListed
<1>4. \A id \in DOMAIN listed : Foreign(id)'
  BY JobsMove DEF Foreign, RegistryType
<1> QED
  BY <1>2, <1>3, <1>4 DEF RegistryInv, RegistryType, InOrder

\* The trim of a GET, or of a POST that registers nothing.
LEMMA TrimRegistry ==
  ASSUME RemoteInv, UNCHANGED <<vars, promised>>, listed' = Trim(listed, jobs)
  PROVE  RegistryInv'
<1> USE DEF RemoteInv
<1>1. UNCHANGED <<jobs, closed, activeRequestId>>
  BY DEF vars
<1>2. /\ RegistryType(Trim(listed, jobs))
      /\ DOMAIN listed' \subseteq DOMAIN listed
      /\ \A id \in DOMAIN listed \ DOMAIN listed' : jobs[id] \in Terminal
  BY TrimKeeps
<1>3. RegistryType(listed)'
  BY <1>2 DEF RegistryType, InOrder
<1>4. Cardinality(Existing') <= MaxJobs
  <2>1. \A id \in Ids : jobs[id] \in Live => activeRequestId = id
    BY DEF Inv, Core, SerializedJobs
  <2>2. Cardinality({id \in DOMAIN Trim(listed, jobs) : jobs[id] # "absent"}) <= MaxJobs
    BY <2>1, ExistingBounded DEF Inv, Core, TypeOK
  <2> QED
    BY <1>1, <2>2 DEF Existing
<1>5. PromisesAreListed'
  BY <1>1, <1>2 DEF PromisesAreListed
<1>6. \A id \in DOMAIN listed' : Foreign(id)'
  BY <1>1, <1>2 DEF Foreign
<1> QED
  BY <1>3, <1>4, <1>5, <1>6 DEF RegistryInv

\* A POST that registers its capture: a new one, or one refused by a closed
\* controller.
LEMMA PostRegistry ==
  ASSUME RemoteInv, Inv', NEW id \in Ids \ LocalIds,
         id \notin DOMAIN Trim(listed, jobs),
         listed' = Trim(Register(Trim(listed, jobs), id), jobs'),
         \/ Submit(id) /\ promised' = promised \cup {id}
         \/ closed /\ jobs[id] = "absent" /\ UNCHANGED <<vars, promised>>
  PROVE  RegistryInv'
<1> USE DEF RemoteInv
<1> DEFINE trimmed == Trim(listed, jobs)
           longer == Register(trimmed, id)
<1>1. /\ RegistryType(trimmed)
      /\ DOMAIN trimmed \subseteq DOMAIN listed
      /\ \A x \in DOMAIN listed \ DOMAIN trimmed : jobs[x] \in Terminal
  BY TrimKeeps
<1>2. RegistryType(longer) /\ DOMAIN longer = DOMAIN trimmed \cup {id}
  BY <1>1, RegisterKeeps
<1>3. [Next]_vars
  BY DEF Next
<1> HIDE DEF trimmed, longer
<1>4. /\ RegistryType(Trim(longer, jobs'))
      /\ DOMAIN listed' \subseteq DOMAIN longer
      /\ \A x \in DOMAIN longer \ DOMAIN listed' : jobs'[x] \in Terminal
  BY <1>2, TrimKeeps DEF trimmed, longer
<1>5. listed' = Trim(longer, jobs')
  BY DEF trimmed, longer
<1>6. RegistryType(listed)'
  BY <1>4, <1>5 DEF RegistryType, InOrder
<1>7. Cardinality(Existing') <= MaxJobs
  <2>1. \A x \in Ids : jobs'[x] \in Live => activeRequestId' = x
    BY DEF Inv, Core, SerializedJobs
  <2>2. Cardinality({x \in DOMAIN Trim(longer, jobs') : jobs'[x] # "absent"}) <= MaxJobs
    BY <1>2, <2>1, ExistingBounded DEF Inv, Core, TypeOK
  <2> QED
    BY <1>5, <2>2 DEF Existing
<1>8. \/ id \in promised' /\ jobs'[id] # "absent"
      \/ closed' /\ jobs'[id] = "absent" /\ UNCHANGED promised
  BY DEF Submit, Inv, Core, TypeOK, vars
<1>9. promised \subseteq promised' /\ promised' \subseteq promised \cup {id}
  OBVIOUS
<1>10. PromisesAreListed'
  <2> SUFFICES ASSUME NEW x \in promised'
               PROVE  /\ x \in Ids \ LocalIds
                      /\ jobs'[x] # "absent"
                      /\ x \in DOMAIN listed' \/ jobs'[x] \in Terminal
    BY DEF PromisesAreListed
  <2>1. CASE x \in promised
    BY <1>1, <1>2, <1>3, <1>4, <2>1, JobsMove DEF PromisesAreListed
  <2>2. CASE x \notin promised
    BY <1>2, <1>4, <1>8, <1>9, <2>2
  <2> QED
    BY <2>1, <2>2
<1>11. \A x \in DOMAIN listed' : Foreign(x)'
  <2> SUFFICES ASSUME NEW x \in DOMAIN listed' PROVE Foreign(x)'
    OBVIOUS
  <2>1. CASE x = id
    BY <1>8, <2>1 DEF Foreign
  <2>2. CASE x # id
    <3>1. x \in DOMAIN listed /\ Foreign(x) /\ x \in Ids
      BY <1>1, <1>2, <1>4, <2>2 DEF RegistryType
    <3> QED
      BY <1>3, <1>9, <3>1, JobsMove DEF Foreign
  <2> QED
    BY <2>1, <2>2
<1> QED
  BY <1>6, <1>7, <1>10, <1>11 DEF RegistryInv
-----------------------------------------------------------------------------
(***************************************************************************)
(* The handler threads.                                                    *)
(***************************************************************************)

\* What a handler goes by stays so while others make their steps.
LEMMA FindingsPersist ==
  ASSUME RemoteInv, [Next]_vars, promised \subseteq promised',
         NEW h \in Handlers, handler'[h] = handler[h]
  PROVE  FindingHolds(handler[h])'
<1> USE DEF RemoteInv
<1>1. FindingHolds(handler[h]) /\ handler[h] \in HandlerStates
  OBVIOUS
<1>2. \A id \in Ids : Foreign(id) => Foreign(id)'
  BY JobsMove DEF Foreign
<1>3. /\ \A id \in Ids : jobs[id] \in Terminal => jobs'[id] = jobs[id]
      /\ "complete" \in Terminal
  BY JobsMove DEF Terminal
<1>4. handler[h].at \in {"found", "missing", "photo"} => handler[h].id \in Ids
  BY <1>1 DEF HandlerStates, Idle, Request, Lookup, Photo, Reply
<1>5. promised \subseteq Ids
  BY DEF PromisesAreListed
<1> QED
  BY <1>1, <1>2, <1>3, <1>4, <1>5 DEF FindingHolds

\* What a POST may answer.
LEMMA SubmitReplies == ASSUME Inv, NEW id \in Ids PROVE SubmitReply(id) \in PostReplies
BY DEF SubmitReply, PostReplies, Inv, Core, TypeOK

\* The part of the invariant a thread's own step has to see to.
LEMMA BecomeInv ==
  ASSUME RemoteInv, [Next]_vars, promised \subseteq promised', UNCHANGED listening,
         NEW h \in Handlers, NEW what, Become(h, what), what \in HandlerStates,
         FindingHolds(handler[h])', RegistryInv'
  PROVE  RemoteInv'
<1>1. Inv'
  BY StepInv DEF RemoteInv
<1>2. handler' \in [Handlers -> HandlerStates]
  BY DEF RemoteInv, Become
<1>3. \A g \in Handlers \ {h} : handler'[g] = handler[g]
  BY DEF RemoteInv, Become
<1>4. \A g \in Handlers : FindingHolds(handler[g])'
  BY <1>3, FindingsPersist
<1> QED
  BY <1>1, <1>2, <1>4 DEF RemoteInv, RegistryInv

\* Threads that leave registry and controller alone.
LEMMA OwnStepInv ==
  ASSUME RemoteInv, NEW h \in Handlers,
         Connect(h) \/ Refuse(h) \/ Read(h) \/ Render(h) \/ Status(h) \/ Respond(h)
  PROVE  RemoteInv'
<1>1. UNCHANGED <<vars, listed, listening, promised>>
  BY DEF Connect, Refuse, Read, Render, Status, Respond
<1>2. RegistryInv'
  BY <1>1 DEF RemoteInv, RegistryInv, RegistryType, InOrder, Existing, PromisesAreListed,
              Foreign, vars
<1>3. UNCHANGED jobs
  BY <1>1 DEF vars
<1>4. \A id \in Ids : jobs[id] \in JobState
  BY DEF RemoteInv, Inv, Core, TypeOK
<1>5. ASSUME NEW what \in HandlerStates, Become(h, what), FindingHolds(handler[h])' PROVE RemoteInv'
  BY <1>1, <1>2, <1>5, BecomeInv
<1>6. ASSUME NEW what, Become(h, what) PROVE handler'[h] = what
  BY <1>6 DEF RemoteInv, Become
<1>7. CASE Connect(h)
  <2> DEFINE what == [at |-> "request"]
  <2>1. what \in HandlerStates /\ Become(h, what)
    BY <1>7 DEF Connect, HandlerStates, Request
  <2>2. FindingHolds(handler[h])'
    BY <1>6, <2>1 DEF FindingHolds
  <2> QED
    BY <1>5, <2>1, <2>2
<1>8. CASE Refuse(h) \/ Render(h) \/ Status(h)
  <2>1. PICK says \in {"refused", "image", "invalid", "status"}, kind \in {"post", "image", "status"},
             id \in Ids \cup {None} :
          /\ Answer(h, kind, id, FALSE, says)
          /\ says = "image" => handler[h].at = "photo" /\ id = handler[h].id
    <3>1. CASE Refuse(h)
      BY <3>1 DEF Refuse
    <3>2. CASE Status(h)
      BY <3>2 DEF Status, RemoteInv, Inv, Core, TypeOK
    <3>3. CASE Render(h)
      <4>1. handler[h].at = "photo" /\ handler[h].id \in Ids
        BY <3>3 DEF Render, RemoteInv, HandlerStates, Idle, Request, Lookup, Photo, Reply
      <4>2. PICK readable \in BOOLEAN, fitting \in SUBSET Qualities :
              Answer(h, "image", handler[h].id, FALSE, FittedJpeg(readable, fitting))
        BY <3>3 DEF Render
      <4>3. FittedJpeg(readable, fitting) \in {"image", "invalid"}
        BY DEF FittedJpeg
      <4> QED
        BY <4>1, <4>2, <4>3
    <3> QED
      BY <1>8, <3>1, <3>2, <3>3
  <2> DEFINE what == [at |-> "reply", what |-> kind, id |-> id, kept |-> FALSE, says |-> says]
  <2>2. what \in HandlerStates /\ Become(h, what)
    BY <2>1 DEF Answer, HandlerStates, Reply, PostReplies, GetReplies
  <2>3. says = "image" => jobs[id] = "complete" /\ id \in promised
    BY <2>1 DEF RemoteInv, FindingHolds
  <2>4. FindingHolds(handler[h])'
    BY <1>1, <1>3, <1>6, <2>2, <2>3 DEF FindingHolds
  <2> QED
    BY <1>5, <2>2, <2>4
<1>9. CASE Respond(h)
  <2>1. Idle \in HandlerStates /\ Become(h, Idle)
    BY <1>9 DEF Respond, HandlerStates
  <2>2. FindingHolds(handler[h])'
    BY <1>6, <2>1 DEF FindingHolds, Idle
  <2> QED
    BY <1>5, <2>1, <2>2
<1>10. CASE Read(h)
  <2> DEFINE get == handler[h]
  <2>1. get \in Lookup /\ FindingHolds(get)
    BY <1>10 DEF Read, RemoteInv, HandlerStates, Idle, Request, Lookup, Photo, Reply
  <2>2. CASE get.at = "found" /\ get.what = "image" /\ jobs[get.id] = "complete"
    <3> DEFINE what == [at |-> "photo", id |-> get.id]
    <3>1. what \in HandlerStates /\ Become(h, what)
      BY <1>10, <2>1, <2>2 DEF Read, Lookup, HandlerStates, Photo
    <3>2. get.id \in promised
      BY <2>1, <2>2 DEF FindingHolds, Foreign
    <3>3. FindingHolds(handler[h])'
      BY <1>1, <1>3, <1>6, <2>2, <3>1, <3>2 DEF FindingHolds
    <3> QED
      BY <1>5, <3>1, <3>3
  <2>3. CASE ~(get.at = "found" /\ get.what = "image" /\ jobs[get.id] = "complete")
    <3>1. PICK says \in GetReplies :
            /\ Answer(h, get.what, get.id, get.kept, says)
            /\ says = "unknown" => get.at = "missing" \/ jobs[get.id] = "absent"
            /\ says \notin {"image", "expired"}
      <4> DEFINE says == CASE get.at = "missing" \/ jobs[get.id] = "absent" -> "unknown"
                           [] get.what = "job"                       -> jobs[get.id]
                           [] OTHER                                  -> "notcomplete"
      <4>1. Answer(h, get.what, get.id, get.kept, says)
        BY <1>10, <2>3 DEF Read
      <4>2. /\ jobs[get.id] \in JobState
            /\ JobState \subseteq GetReplies \ {"image", "expired", "unknown"}
        BY <1>4, <2>1 DEF Lookup, GetReplies, JobState, Live, Terminal
      <4>3. says \in GetReplies \ {"image", "expired"}
        BY <4>2 DEF GetReplies
      <4>4. says = "unknown" => get.at = "missing" \/ jobs[get.id] = "absent"
        BY <4>2
      <4> QED
        BY <4>1, <4>3, <4>4
    <3> DEFINE what == [at |-> "reply", what |-> get.what, id |-> get.id, kept |-> get.kept,
                        says |-> says]
    <3>2. what \in HandlerStates /\ Become(h, what)
      BY <2>1, <3>1 DEF Answer, Lookup, HandlerStates, Reply
    <3>3. says = "unknown" /\ get.kept => get.id \in Ids /\ jobs[get.id] \in Terminal
      BY <2>1, <3>1 DEF FindingHolds, Lookup, RemoteInv, PromisesAreListed
    <3>4. FindingHolds(handler[h])'
      BY <1>1, <1>3, <1>6, <3>1, <3>2, <3>3 DEF FindingHolds
    <3> QED
      BY <1>5, <3>2, <3>4
  <2> QED
    BY <2>2, <2>3
<1> QED
  BY <1>7, <1>8, <1>9, <1>10

\* _job, under the lock.
LEMMA LookInv ==
  ASSUME RemoteInv, NEW h \in Handlers, NEW kind \in {"job", "image"}, NEW id \in Ids,
         Look(h, kind, id)
  PROVE  RemoteInv'
<1>1. listed' = Trim(listed, jobs) /\ UNCHANGED <<vars, listening, promised>>
  BY DEF Look
<1>2. RegistryInv'
  BY <1>1, TrimRegistry
<1> DEFINE place == IF id \in DOMAIN Trim(listed, jobs) THEN "found" ELSE "missing"
           what == [at |-> place, what |-> kind, id |-> id, kept |-> id \in promised]
<1>3. Become(h, what)
  BY DEF Look
<1>4. what \in HandlerStates
  BY DEF HandlerStates, Lookup
<1>5. /\ handler'[h].at = place /\ handler'[h].id = id
      /\ handler'[h].kept <=> id \in promised
  BY <1>3 DEF RemoteInv, Become
<1>6. place = "found" => Foreign(id)'
  BY <1>1, <1>2 DEF RegistryInv
<1>7. place = "missing" /\ id \in promised => jobs'[id] \in Terminal
  BY <1>1, <1>2 DEF RegistryInv, PromisesAreListed
<1>8. FindingHolds(handler[h])'
  BY <1>1, <1>5, <1>6, <1>7 DEF FindingHolds, Foreign
<1> QED
  BY <1>1, <1>2, <1>3, <1>4, <1>8, BecomeInv

\* What a POST does: nothing but the trim, or a registration.
LEMMA PostCases ==
  ASSUME RemoteInv, NEW h \in Handlers, NEW id \in Ids, Post(h, id)
  PROVE  \/ listed' = Trim(listed, jobs) /\ UNCHANGED <<vars, promised>>
         \/ /\ id \notin LocalIds
            /\ id \notin DOMAIN Trim(listed, jobs)
            /\ listed' = Trim(Register(Trim(listed, jobs), id), jobs')
            /\ \/ Submit(id) /\ promised' = promised \cup {id}
               \/ closed /\ jobs[id] = "absent" /\ UNCHANGED <<vars, promised>>
<1> DEFINE trimmed == Trim(listed, jobs)
           says == SubmitReply(id)
<1>1. \A x \in DOMAIN trimmed : Foreign(x)
  BY TrimKeeps DEF RemoteInv
<1>2. jobs[id] \in JobState /\ (id \in LocalIds => jobs[id] # "absent")
  BY DEF Post, Nameable, RemoteInv, Inv, Core, TypeOK
<1>3. CASE Expired(id)
  BY <1>3 DEF Post
<1>4. CASE ~Expired(id)
  <2>1. /\ listed' = List(trimmed, id, says, jobs')
        /\ IF says = "accepted" THEN Submit(id) ELSE UNCHANGED vars
        /\ promised' = IF says = "accepted" THEN promised \cup {id} ELSE promised
        /\ id \in DOMAIN trimmed \/ jobs[id] = "absent"
    BY <1>4 DEF Post, Expired
  <2>2. CASE id \in DOMAIN trimmed
    <3>1. jobs[id] # "absent" \/ closed
      BY <1>1, <2>2 DEF Foreign, RemoteInv, PromisesAreListed
    <3>2. says # "accepted"
      BY <1>2, <3>1 DEF SubmitReply, JobState, Live, Terminal
    <3> QED
      BY <2>1, <2>2, <3>2 DEF List
  <2>3. CASE id \notin DOMAIN trimmed
    <3>1. id \notin LocalIds /\ jobs[id] = "absent"
      BY <1>2, <2>1, <2>3
    <3>2. says \in {"closed", "busy", "accepted"} /\ (says = "closed" => closed)
      BY <3>1 DEF SubmitReply
    <3>3. CASE says = "busy"
      BY <2>1, <3>3 DEF List
    <3>4. CASE says = "closed"
      BY <2>1, <2>3, <3>1, <3>2, <3>4 DEF List
    <3>5. CASE says = "accepted"
      BY <2>1, <2>3, <3>1, <3>5 DEF List
    <3> QED
      BY <3>2, <3>3, <3>4, <3>5
  <2> QED
    BY <2>2, <2>3
<1> QED
  BY <1>3, <1>4

LEMMA PostInv ==
  ASSUME RemoteInv, NEW h \in Handlers, NEW id \in Ids, Post(h, id) PROVE RemoteInv'
<1>1. UNCHANGED vars \/ Submit(id)
  BY PostCases
<1>2. [Next]_vars /\ promised \subseteq promised' /\ UNCHANGED listening
  BY <1>1, PostCases DEF Next, Post
<1>3. Inv'
  BY <1>2, StepInv DEF RemoteInv
<1>4. RegistryInv'
  BY <1>3, PostCases, TrimRegistry, PostRegistry
<1>5. PICK says \in PostReplies :
        /\ Answer(h, "post", id, id \in promised, says)
        /\ says # "unknown" /\ says # "image"
        /\ says = "expired" => Expired(id) /\ UNCHANGED vars
  <2>1. CASE Expired(id)
    BY <2>1 DEF Post, PostReplies
  <2>2. CASE ~Expired(id)
    <3>1. Answer(h, "post", id, id \in promised, SubmitReply(id))
      BY <2>2 DEF Post
    <3>2. SubmitReply(id) \in {"accepted", "closed", "busy"} \cup JobState
      BY DEF SubmitReply, RemoteInv, Inv, Core, TypeOK
    <3> QED
      BY <3>1, <3>2 DEF PostReplies, JobState, Live, Terminal
  <2> QED
    BY <2>1, <2>2
<1> DEFINE what == [at |-> "reply", what |-> "post", id |-> id, kept |-> id \in promised,
                    says |-> says]
<1>6. what \in HandlerStates /\ Become(h, what)
  BY <1>5 DEF Answer, HandlerStates, Reply
<1>7. /\ handler'[h].at = "reply" /\ handler'[h].id = id /\ handler'[h].says = says
      /\ handler'[h].kept <=> id \in promised
  BY <1>6 DEF RemoteInv, Become
<1>8. says = "expired" /\ id \in promised => jobs'[id] \in Terminal
  <2>1. \A x \in DOMAIN listed \ DOMAIN Trim(listed, jobs) : jobs[x] \in Terminal
    BY TrimKeeps DEF RemoteInv
  <2> QED
    BY <1>5, <2>1 DEF Expired, RemoteInv, PromisesAreListed, vars
<1>9. FindingHolds(handler[h])'
  BY <1>5, <1>7, <1>8 DEF FindingHolds
<1> QED
  BY <1>2, <1>4, <1>6, <1>9, BecomeInv

\* The terminal, the window, the worker, and main that closes.
LEMMA OthersInv ==
  ASSUME RemoteInv, [Next]_vars, UNCHANGED <<listed, handler, promised>>, listening' \in BOOLEAN,
         \A id \in Ids : Submit(id) => id \in LocalIds
  PROVE  RemoteInv'
<1>1. Inv'
  BY StepInv DEF RemoteInv
<1>2. RegistryInv'
  BY KeepRegistry
<1>3. \A h \in Handlers : FindingHolds(handler[h])'
  BY FindingsPersist
<1> QED
  BY <1>1, <1>2, <1>3 DEF RemoteInv, RegistryInv

LEMMA RemoteStepInv == RemoteInv /\ [RemoteNext]_allvars => RemoteInv'
<1> SUFFICES ASSUME RemoteInv, [RemoteNext]_allvars PROVE RemoteInv'
  OBVIOUS
<1>1. [Next]_vars
  BY ControllerStep
<1>2. ASSUME NEW h \in Handlers, HandlerStep(h) PROVE RemoteInv'
  BY <1>2, OwnStepInv, LookInv, PostInv DEF HandlerStep
<1>3. ASSUME NEW id \in LocalIds, LocalSubmit(id) PROVE RemoteInv'
  <2>1. \A other \in Ids : Submit(other) => other = id
    BY <1>3, RemoteConstants DEF LocalSubmit, Submit
  <2> QED
    BY <1>1, <1>3, <2>1, OthersInv DEF LocalSubmit, rvars, RemoteInv
<1>4. CASE StopListening \/ MainClose \/ Controller \/ UNCHANGED allvars
  <2>1. UNCHANGED <<listed, handler, promised>> /\ listening' \in BOOLEAN
    BY <1>4 DEF StopListening, MainClose, Controller, allvars, rvars, RemoteInv
  <2>2. UNCHANGED activeRequestId \/ activeRequestId' = None
    BY <1>4 DEF StopListening, MainClose, Controller, allvars, vars, Close, ClosingWith,
       CloseReturn, Worker, Get, SetProcessing, Finish, CloseCamera, Exited
  <2>3. \A id \in Ids : ~Submit(id)
    BY <2>2, NoneIsNoId DEF Submit, SubmitReply, RemoteInv, Inv, Core, TypeOK, JobState, Live,
       Terminal
  <2> QED
    BY <1>1, <2>1, <2>3, OthersInv
<1> QED
  BY <1>2, <1>3, <1>4 DEF RemoteNext

THEOREM RemoteInvariance == RemoteSpec => []RemoteInv
BY RemoteInitInv, RemoteStepInv, PTL DEF RemoteSpec
-----------------------------------------------------------------------------
\* The variables keep their types, the registry its order, and no more settled
\* captures are remembered than MAX_JOBS, however many ids were refused or are
\* unfinished.
THEOREM RemoteTypeCorrect == RemoteSpec => []RemoteTypeOK
BY RemoteInvariance, RemoteInvImplies, PTL

\* A client that was promised a capture is never told that nobody knows it while
\* the capture is under way, whatever others post and ask meanwhile.
THEOREM PromisesAreAnswered == RemoteSpec => []PromiseIsAnswered
BY RemoteInvariance, RemoteInvImplies, PTL

\* No client gets the photo of a capture that was not a client's, or not
\* complete.
THEOREM OwnPhotos == RemoteSpec => []PhotoOfOwnCapture
BY RemoteInvariance, RemoteInvImplies, PTL

\* The server, its handlers and the local loops use the controller as any other
\* threads might; so all that holds of CaptureController holds in here.
THEOREM ServerRunsController == RemoteSpec => Spec
<1>1. RemoteInit => Init
  BY DEF RemoteInit
<1> QED
  BY <1>1, ControllerStep, PTL DEF RemoteSpec, Spec
=============================================================================
