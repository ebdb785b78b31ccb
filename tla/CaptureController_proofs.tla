----------------------- MODULE CaptureController_proofs -----------------------
(***************************************************************************)
(* The safety of CaptureController for every set of request ids, and that  *)
(* it implements CaptureService.                                           *)
(*                                                                         *)
(* None of the invariants is inductive alone: that a job fires the shutter *)
(* once depends on the queue never holding an id twice, which depends on   *)
(* the active request being the one in the queue or in the worker's hands, *)
(* which depends on the stop mark being last.  Core joins what holds of a  *)
(* controller whatever camera it was given and whatever earlier ones did;  *)
(* Inv adds what holds of the only one.                                    *)
(***************************************************************************)
EXTENDS CaptureController, SequenceTheorems, TLAPS

\* The queue holds the active request while the worker has not taken it, then
\* the stop mark if close() was called, and nothing else.
QueueShape ==
  /\ worker = "get" /\ activeRequestId = None /\ ~closed => work = <<>>
  /\ worker = "get" /\ activeRequestId = None /\ closed => work = <<None>>
  /\ worker = "get" /\ activeRequestId # None /\ ~closed => work = <<activeRequestId>>
  /\ worker = "get" /\ activeRequestId # None /\ closed => work = <<activeRequestId, None>>
  /\ worker \in {"took", "capture"} /\ ~closed => work = <<>>
  /\ worker \in {"took", "capture"} /\ closed => work = <<None>>
  /\ worker \in {"close", "done"} => work = <<>>

\* What the worker holds is the active request, in the state its step left it.
WorkerHoldsActive ==
  /\ worker = "get" /\ activeRequestId # None => jobs[activeRequestId] = "queued"
  /\ worker \in {"took", "capture"} => activeRequestId = current
  /\ worker = "took" => jobs[current] = "queued"
  /\ worker = "capture" => jobs[current] = "processing"
  /\ worker \in {"close", "done"} => closed /\ activeRequestId = None

\* Where close() stands says what it has done.
CloserInStep ==
  /\ closer = "outside" <=> ~closed
  /\ closer = "returned" => worker = "done"

Core == /\ TypeOK
        /\ SerializedJobs
        /\ QueueShape
        /\ WorkerHoldsActive
        /\ CloserInStep

\* The worker is the only one to release the camera.
WorkerReleases == cameraOpen <=> worker # "done"

Inv == Core /\ CapturedAtMostOnce /\ WorkerReleases
-----------------------------------------------------------------------------
\* A new controller.
LEMMA InitInv == Init => Core /\ Inv
<1> SUFFICES ASSUME Init PROVE Core /\ Inv
  OBVIOUS
<1> USE NoneIsNoId DEF Init
<1>1. TypeOK
  <2>1. work \in Seq(Ids \cup {None})
    OBVIOUS
  <2>2. jobs \in [Ids -> JobState] /\ captures \in [Ids -> Nat]
    BY DEF JobState
  <2> QED
    BY <2>1, <2>2 DEF TypeOK, WorkerState, CloserState
<1>2. SerializedJobs /\ CapturedAtMostOnce
  BY DEF SerializedJobs, CapturedAtMostOnce, Live
<1>3. QueueShape /\ WorkerHoldsActive /\ CloserInStep /\ WorkerReleases
  BY DEF QueueShape, WorkerHoldsActive, CloserInStep, WorkerReleases
<1> QED
  BY <1>1, <1>2, <1>3 DEF Core, Inv

\* submit() that accepts.
LEMMA SubmitCore == ASSUME Core, NEW id \in Ids, Submit(id) PROVE Core'
<1> USE NoneIsNoId DEF Core, Submit
<1>1. jobs[id] = "absent" /\ ~closed /\ activeRequestId = None
  BY DEF SubmitReply, TypeOK, JobState, Live, Terminal
<1>2. worker = "get" /\ work = <<>>
  BY <1>1 DEF QueueShape, WorkerHoldsActive, TypeOK, WorkerState
<1>3. work' = <<id>>
  BY <1>2
<1>4. TypeOK'
  BY <1>3 DEF TypeOK, JobState, Live
<1>5. SerializedJobs'
  BY <1>1 DEF SerializedJobs, TypeOK, Live
<1>6. QueueShape'
  BY <1>1, <1>2, <1>3 DEF QueueShape
<1>7. WorkerHoldsActive' /\ CloserInStep'
  BY <1>1, <1>2 DEF WorkerHoldsActive, CloserInStep, TypeOK
<1> QED
  BY <1>4, <1>5, <1>6, <1>7

\* Appending to a queue of one.
LEMMA AppendToOne ==
  ASSUME NEW S, NEW a \in S, NEW b \in S
  PROVE  Append(<<a>>, b) = <<a, b>>
<1> DEFINE appended == Append(<<a>>, b)
           pair == <<a, b>>
<1>1. <<a>> \in Seq(S) /\ Len(<<a>>) = 1
  OBVIOUS
<1>2. /\ appended \in Seq(S) /\ Len(appended) = 2
      /\ appended[1] = a /\ appended[2] = b
  BY <1>1
<1>3. pair \in Seq(S) /\ Len(pair) = 2 /\ pair[1] = a /\ pair[2] = b
  OBVIOUS
<1> HIDE DEF appended, pair
<1>4. \A i \in 1..Len(appended) : appended[i] = pair[i]
  BY <1>2, <1>3
<1>5. appended = pair
  BY <1>2, <1>3, <1>4, SeqEqual
<1> QED
  BY <1>5 DEF appended, pair

\* close().
LEMMA CloseCore == ASSUME Core, Close PROVE Core'
<1> USE NoneIsNoId DEF Core, Close, ClosingWith
<1>1. worker \in {"get", "took", "capture"}
  BY DEF WorkerHoldsActive, TypeOK, WorkerState
<1>2. SerializedJobs' /\ WorkerHoldsActive' /\ CloserInStep'
  BY <1>1 DEF SerializedJobs, WorkerHoldsActive, CloserInStep
<1>3. CASE worker = "get" /\ activeRequestId # None
  <2>1. work = <<activeRequestId>> /\ work' = Append(work, None)
    BY <1>3 DEF QueueShape
  <2>2. work' = <<activeRequestId, None>>
    <3> DEFINE Elements == Ids \cup {None}
    <3>1. activeRequestId \in Elements /\ None \in Elements
      BY DEF TypeOK
    <3> HIDE DEF Elements
    <3>2. Append(<<activeRequestId>>, None) = <<activeRequestId, None>>
      BY <3>1, AppendToOne
    <3> QED
      BY <2>1, <3>2
  <2>3. TypeOK'
    BY <2>2 DEF TypeOK, CloserState
  <2>4. QueueShape'
    BY <1>3, <2>2 DEF QueueShape
  <2> QED
    BY <1>2, <2>3, <2>4
<1>4. CASE ~(worker = "get" /\ activeRequestId # None)
  <2>1. work = <<>> /\ work' = Append(work, None)
    BY <1>1, <1>4 DEF QueueShape
  <2>2. work' = <<None>>
    BY <2>1
  <2>3. TypeOK'
    BY <2>2 DEF TypeOK, CloserState
  <2>4. QueueShape'
    BY <1>1, <1>4, <2>2 DEF QueueShape
  <2> QED
    BY <1>2, <2>3, <2>4
<1> QED
  BY <1>3, <1>4

\* The worker takes the head of the queue.
LEMMA GetCore == ASSUME Core, Get PROVE Core'
<1> USE NoneIsNoId DEF Core, Get
<1>1. CASE activeRequestId = None
  <2>1. work = <<None>> /\ closed
    BY <1>1 DEF QueueShape
  <2>2. work' = <<>> /\ current' = None /\ worker' = "close"
    BY <2>1
  <2>3. TypeOK'
    BY <2>2 DEF TypeOK, WorkerState
  <2> QED
    BY <1>1, <2>1, <2>2, <2>3 DEF SerializedJobs, QueueShape,
       WorkerHoldsActive, CloserInStep
<1>2. CASE activeRequestId # None
  <2>1. work = IF closed THEN <<activeRequestId, None>> ELSE <<activeRequestId>>
    BY <1>2 DEF QueueShape
  <2>2. activeRequestId \in Ids
    BY <1>2 DEF TypeOK
  <2>3. /\ work' = IF closed THEN <<None>> ELSE <<>>
        /\ current' = activeRequestId
        /\ worker' = "took"
    BY <2>1, <2>2
  <2>4. TypeOK'
    BY <2>2, <2>3 DEF TypeOK, WorkerState
  <2>5. QueueShape'
    BY <1>2, <2>3 DEF QueueShape
  <2>6. WorkerHoldsActive'
    BY <1>2, <2>3 DEF WorkerHoldsActive
  <2> QED
    BY <2>3, <2>4, <2>5, <2>6 DEF SerializedJobs, CloserInStep
<1> QED
  BY <1>1, <1>2

\* _set_processing and the start of the capture.
LEMMA SetProcessingCore == ASSUME Core, SetProcessing PROVE Core'
<1> USE DEF Core, SetProcessing
<1>1. current \in Ids /\ jobs[current] = "queued"
  BY DEF TypeOK, WorkerHoldsActive
<1>2. TypeOK'
  BY <1>1 DEF TypeOK, JobState, WorkerState, Live
<1>3. SerializedJobs'
  BY <1>1 DEF SerializedJobs, TypeOK, Live
<1>4. QueueShape' /\ WorkerHoldsActive' /\ CloserInStep'
  BY <1>1 DEF QueueShape, WorkerHoldsActive, CloserInStep, TypeOK
<1> QED
  BY <1>2, <1>3, <1>4

\* _finish.
LEMMA FinishCore == ASSUME Core, NEW state \in Terminal, Finish(state) PROVE Core'
<1> USE NoneIsNoId DEF Core, Finish
<1>1. current \in Ids /\ jobs[current] = "processing" /\ activeRequestId = current
  BY DEF TypeOK, WorkerHoldsActive
<1>2. TypeOK'
  BY <1>1 DEF TypeOK, JobState, WorkerState, Terminal
<1>3. SerializedJobs'
  BY <1>1 DEF SerializedJobs, TypeOK, Live, Terminal
<1>4. QueueShape' /\ WorkerHoldsActive' /\ CloserInStep'
  BY <1>1 DEF QueueShape, WorkerHoldsActive, CloserInStep, TypeOK
<1> QED
  BY <1>2, <1>3, <1>4

\* The finally clause of the worker, the return of the join, and the exit.
LEMMA RestCore == ASSUME Core, CloseCamera \/ CloseReturn \/ UNCHANGED vars
                 PROVE Core'
<1> USE DEF Core, TypeOK, SerializedJobs, QueueShape,
        WorkerHoldsActive, CloserInStep
<1>1. CASE CloseCamera
  BY <1>1 DEF CloseCamera, WorkerState
<1>2. CASE CloseReturn
  BY <1>2 DEF CloseReturn, CloserState
<1>3. CASE UNCHANGED vars
  BY <1>3 DEF vars
<1> QED
  BY <1>1, <1>2, <1>3

\* What a controller does to its own state, over any camera.
ControllerAction == \/ \E id \in Ids : Submit(id)
                  \/ Close
                  \/ CloseReturn
                  \/ Worker

LEMMA StepCore == Core /\ (ControllerAction \/ UNCHANGED vars) => Core'
<1> SUFFICES ASSUME Core, ControllerAction \/ UNCHANGED vars PROVE Core'
  OBVIOUS
<1>1. ASSUME NEW id \in Ids, Submit(id) PROVE Core'
  BY <1>1, SubmitCore
<1>2. CASE Close
  BY <1>2, CloseCore
<1>3. CASE Get
  BY <1>3, GetCore
<1>4. CASE SetProcessing
  BY <1>4, SetProcessingCore
<1>5. ASSUME NEW state \in Terminal, Finish(state) PROVE Core'
  BY <1>5, FinishCore
<1>6. CASE CloseCamera \/ CloseReturn \/ UNCHANGED vars
  BY <1>6, RestCore
<1> QED
  BY <1>1, <1>2, <1>3, <1>4, <1>5, <1>6 DEF ControllerAction, Worker

LEMMA StepInv == Inv /\ [Next]_vars => Inv'
<1> SUFFICES ASSUME Inv, [Next]_vars PROVE Inv'
  OBVIOUS
<1> USE DEF Inv
<1>1. Core'
  BY StepCore DEF Next, Exited, ControllerAction
<1>2. CapturedAtMostOnce'
  <2>1. ASSUME NEW id \in Ids, Submit(id) PROVE CapturedAtMostOnce'
    <3>1. jobs[id] = "absent"
      BY <2>1 DEF Submit, SubmitReply, Core, TypeOK, JobState, Live, Terminal
    <3> QED
      BY <2>1, <3>1 DEF Submit, CapturedAtMostOnce, Core, TypeOK
  <2>2. CASE SetProcessing
    <3>1. current \in Ids /\ jobs[current] = "queued" /\ captures[current] = 0
      BY <2>2 DEF SetProcessing, CapturedAtMostOnce, Core, TypeOK, WorkerHoldsActive
    <3> QED
      BY <2>2, <3>1 DEF SetProcessing, CapturedAtMostOnce, Core, TypeOK
  <2>3. ASSUME NEW state \in Terminal, Finish(state) PROVE CapturedAtMostOnce'
    <3>1. current \in Ids /\ jobs[current] = "processing"
      BY <2>3 DEF Finish, Core, TypeOK, WorkerHoldsActive
    <3> QED
      BY <2>3, <3>1 DEF Finish, CapturedAtMostOnce, Core, TypeOK, Terminal
  <2>4. CASE Close \/ Get \/ CloseCamera \/ CloseReturn \/ UNCHANGED vars
    BY <2>4 DEF Close, ClosingWith, Get, CloseCamera, CloseReturn, vars, CapturedAtMostOnce
  <2> QED
    BY <2>1, <2>2, <2>3, <2>4 DEF Next, Worker, Exited
<1>3. WorkerReleases'
  BY DEF Next, Submit, Close, ClosingWith, CloseReturn, Worker, Get, SetProcessing, Finish,
         CloseCamera, Exited, vars, WorkerReleases
<1> QED
  BY <1>1, <1>2, <1>3

\* Inv holds in every state of every execution.
THEOREM Invariance == Spec => []Inv
<1>1. Init => Inv
  BY InitInv
<1>2. Inv /\ [Next]_vars => Inv'
  BY StepInv
<1> QED
  BY <1>1, <1>2, PTL DEF Spec
-----------------------------------------------------------------------------
\* The variables keep their types; in particular the worker never takes a
\* request that is no request.
THEOREM TypeCorrect == Spec => []TypeOK
  BY Invariance, PTL DEF Inv, Core

\* The unfinished job is the active request: submit() from any number of
\* threads, the worker and close() never leave a second one in flight.
THEOREM Serialized == Spec => []SerializedJobs
  BY Invariance, PTL DEF Inv, Core

\* No request id ever fires the shutter twice.
THEOREM AtMostOnce == Spec => []CapturedAtMostOnce
  BY Invariance, PTL DEF Inv, Core

\* When the worker lets the camera go there is nothing left to do with it.
LEMMA DrainedWhenClosed == Inv => CloseDrains
<1> SUFFICES ASSUME Inv PROVE CloseDrains
  OBVIOUS
<1> USE DEF Inv, Core
<1>1. ASSUME ~cameraOpen
      PROVE closed /\ work = <<>> /\ \A id \in Ids : jobs[id] \notin Live
  <2>1. worker = "done"
    BY <1>1 DEF WorkerReleases
  <2>2. closed /\ activeRequestId = None /\ work = <<>>
    BY <2>1 DEF WorkerHoldsActive, QueueShape
  <2> QED
    BY <2>2, NoneIsNoId DEF SerializedJobs
<1>2. closer = "returned" => ~cameraOpen
  BY DEF CloserInStep, WorkerReleases
<1> QED
  BY <1>1, <1>2 DEF CloseDrains

\* The camera is released after the last accepted job, and close() returns
\* after that, in every controller.
THEOREM ClosedDrained == Spec => []CloseDrains
  BY Invariance, DrainedWhenClosed, PTL

\* One step never touches a settled job, and the last completed job is replaced
\* only by the one that was active.
LEMMA SettledStep ==
  ASSUME Inv, [Next]_vars
  PROVE  [ /\ \A id \in Ids : jobs[id] \in Terminal => jobs'[id] = jobs[id]
           /\ lastCompletedJob' # lastCompletedJob =>
                /\ jobs'[lastCompletedJob'] = "complete"
                /\ activeRequestId = lastCompletedJob'
                /\ activeRequestId' = None ]_vars
<1> USE DEF Inv, Core
<1>1. ASSUME NEW id \in Ids, Submit(id)
      PROVE  /\ \A other \in Ids : jobs[other] \in Terminal => jobs'[other] = jobs[other]
             /\ lastCompletedJob' = lastCompletedJob
  BY <1>1 DEF Submit, SubmitReply, TypeOK, JobState, Live, Terminal
<1>2. ASSUME SetProcessing
      PROVE  /\ \A other \in Ids : jobs[other] \in Terminal => jobs'[other] = jobs[other]
             /\ lastCompletedJob' = lastCompletedJob
  BY <1>2 DEF SetProcessing, WorkerHoldsActive, TypeOK, Terminal
<1>3. ASSUME NEW state \in Terminal, Finish(state)
      PROVE  /\ \A other \in Ids : jobs[other] \in Terminal => jobs'[other] = jobs[other]
             /\ lastCompletedJob' # lastCompletedJob =>
                  /\ jobs'[lastCompletedJob'] = "complete"
                  /\ activeRequestId = lastCompletedJob'
                  /\ activeRequestId' = None
  <2>1. current \in Ids /\ jobs[current] = "processing" /\ activeRequestId = current
    BY <1>3 DEF Finish, WorkerHoldsActive, TypeOK
  <2> QED
    BY <1>3, <2>1 DEF Finish, TypeOK, Terminal
<1>4. ASSUME Close \/ Get \/ CloseCamera \/ CloseReturn \/ UNCHANGED vars
      PROVE  jobs' = jobs /\ lastCompletedJob' = lastCompletedJob
  BY <1>4 DEF Close, ClosingWith, Get, CloseCamera, CloseReturn, vars
<1> QED
  BY <1>1, <1>2, <1>3, <1>4 DEF Next, Worker, Exited

\* A snapshot once read as complete or failed stays what it was, and a display
\* that follows the last completed job follows finished captures only.
THEOREM SettledForGood == Spec => SettledIsFinal
  BY Invariance, SettledStep, PTL DEF Spec, SettledIsFinal
-----------------------------------------------------------------------------
(***************************************************************************)
(* CaptureController implements CaptureService.  Submit is Accept,         *)
(* SetProcessing is Expose, Finish is Settle, Close is Shutdown and        *)
(* CloseCamera is Release; taking a job from the queue, refusing one and   *)
(* returning from the join are not visible to a client.                    *)
(***************************************************************************)

\* Each state of a job stands for one outcome.
LEMMA OutcomeOfEach == /\ OutcomeOf("absent") = "new"
                       /\ OutcomeOf("queued") = "accepted"
                       /\ OutcomeOf("processing") = "accepted"
                       /\ \A state \in Terminal : OutcomeOf(state) = state
  BY DEF OutcomeOf, Live, Terminal

\* The initial states correspond.
LEMMA InitRefines == Init => Service!SInit
  BY OutcomeOfEach DEF Init, Service!SInit, Outcome

\* What becomes of the mapped outcomes when one job changes its state.
LEMMA OneOutcome ==
  ASSUME TypeOK, NEW id \in Ids, NEW state, jobs' = [jobs EXCEPT ![id] = state]
  PROVE  Outcome' = [Outcome EXCEPT ![id] = OutcomeOf(state)]
<1>1. Outcome' = [other \in Ids |-> OutcomeOf(jobs'[other])]
  BY DEF Outcome
<1>2. \A other \in Ids : jobs'[other] = IF other = id THEN state ELSE jobs[other]
  BY DEF TypeOK
<1>3. \A other \in Ids : Outcome'[other] = IF other = id THEN OutcomeOf(state)
                                                         ELSE Outcome[other]
  BY <1>1, <1>2 DEF Outcome
<1>4. Outcome' = [other \in Ids |-> IF other = id THEN OutcomeOf(state)
                                                ELSE Outcome[other]]
  BY <1>1, <1>3
<1> QED
  BY <1>4 DEF Outcome

\* No job in flight is what Idle asks for.
LEMMA IdleWhenInactive == Inv /\ activeRequestId = None => Service!Idle
<1> SUFFICES ASSUME Inv, activeRequestId = None, NEW id \in Ids
             PROVE  Outcome[id] # "accepted"
  BY DEF Service!Idle
<1>1. jobs[id] \in {"absent"} \cup Terminal
  BY NoneIsNoId DEF Inv, Core, TypeOK, SerializedJobs, JobState
<1> QED
  BY <1>1, OutcomeOfEach DEF Outcome, Terminal

LEMMA StepRefines == Inv /\ [Next]_vars => [Service!SNext]_(Service!svars)
<1> SUFFICES ASSUME Inv, [Next]_vars PROVE [Service!SNext]_(Service!svars)
  OBVIOUS
<1>1. ASSUME NEW id \in Ids, Submit(id) PROVE Service!Accept(id)
  <2>1. jobs[id] = "absent" /\ ~closed /\ activeRequestId = None
    BY <1>1 DEF Submit, SubmitReply, Inv, Core, TypeOK, JobState, Live, Terminal
  <2>2. Outcome' = [Outcome EXCEPT ![id] = "accepted"]
    BY <1>1, OneOutcome, OutcomeOfEach DEF Submit, Inv, Core
  <2>3. Service!Idle /\ Outcome[id] = "new"
    BY <2>1, IdleWhenInactive, OutcomeOfEach DEF Outcome
  <2> QED
    BY <1>1, <2>1, <2>2, <2>3 DEF Service!Accept, Submit
<1>2. ASSUME SetProcessing PROVE Service!Expose(current)
  <2>1. /\ current \in Ids /\ jobs[current] = "queued" /\ captures[current] = 0
        /\ cameraOpen
    BY <1>2 DEF SetProcessing, Inv, Core, TypeOK, WorkerHoldsActive, CapturedAtMostOnce,
       WorkerReleases
  <2>2. Outcome[current] = "accepted"
    BY <2>1, OutcomeOfEach DEF Outcome
  <2>3. Outcome' = Outcome
    <3>1. Outcome' = [Outcome EXCEPT ![current] = "accepted"]
      BY <1>2, <2>1, OneOutcome, OutcomeOfEach DEF SetProcessing, Inv, Core
    <3> QED
      BY <2>1, <2>2, <3>1 DEF Outcome
  <2>4. captures' = [captures EXCEPT ![current] = 1]
    BY <1>2, <2>1 DEF SetProcessing, Inv, Core, TypeOK
  <2> QED
    BY <1>2, <2>1, <2>2, <2>3, <2>4 DEF Service!Expose, SetProcessing
<1>3. ASSUME NEW state \in Terminal, Finish(state)
      PROVE  Service!Settle(current, state)
  <2>1. current \in Ids /\ jobs[current] = "processing" /\ captures[current] = 1
    BY <1>3 DEF Finish, Inv, Core, TypeOK, WorkerHoldsActive, CapturedAtMostOnce
  <2>2. Outcome[current] = "accepted"
    BY <2>1, OutcomeOfEach DEF Outcome
  <2>3. Outcome' = [Outcome EXCEPT ![current] = OutcomeOf(state)]
    BY <1>3, <2>1, OneOutcome DEF Finish, Inv, Core
  <2>4. Outcome' = [Outcome EXCEPT ![current] = state]
    BY <2>3, OutcomeOfEach
  <2> QED
    BY <1>3, <2>1, <2>2, <2>4 DEF Service!Settle, Finish
<1>4. ASSUME Close PROVE Service!Shutdown
  BY <1>4 DEF Close, ClosingWith, Service!Shutdown, Outcome
<1>5. ASSUME CloseCamera PROVE Service!Release
  <2>1. closed /\ activeRequestId = None /\ cameraOpen
    BY <1>5 DEF CloseCamera, Inv, Core, WorkerHoldsActive, WorkerReleases
  <2> QED
    BY <1>5, <2>1, IdleWhenInactive DEF CloseCamera, Service!Release, Outcome
<1>6. ASSUME Get \/ CloseReturn \/ UNCHANGED vars PROVE UNCHANGED (Service!svars)
  <2>1. UNCHANGED <<jobs, captures, closed, cameraOpen>>
    BY <1>6 DEF Get, CloseReturn, vars
  <2> QED
    BY <2>1 DEF Service!svars, Outcome
<1>7. ASSUME NEW state \in Terminal, Finish(state) PROVE Service!SNext
  <2>1. current \in Ids
    BY <1>3, <1>7 DEF Finish, Inv, Core, TypeOK
  <2> QED
    BY <1>3, <1>7, <2>1 DEF Service!SNext, Terminal
<1>8. ASSUME SetProcessing PROVE Service!SNext
  <2>1. current \in Ids
    BY <1>8 DEF SetProcessing, Inv, Core, TypeOK
  <2> QED
    BY <1>2, <1>8, <2>1 DEF Service!SNext
<1> QED
  BY <1>1, <1>4, <1>5, <1>6, <1>7, <1>8
     DEF Next, Worker, Exited, Service!SNext

\* The controller, with its threads, lock and queue, does what CaptureService
\* promises: requests one at a time, each exposed once, the camera released
\* after the last accepted one.
THEOREM Implementation == Spec => ImplementsService
<1>1. Init => Service!SInit
  BY InitRefines
<1>2. Inv /\ [Next]_vars => [Service!SNext]_(Service!svars)
  BY StepRefines
<1> QED
  BY <1>1, <1>2, Invariance, PTL DEF Spec, ImplementsService, Service!SSpec
=============================================================================
