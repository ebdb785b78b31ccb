------------------------- MODULE CaptureController -------------------------
(***************************************************************************)
(* pifilm/capture/controller.py: one worker thread owns the camera session *)
(* and any number of threads (HTTP handlers, the GUI loop, the terminal    *)
(* loop) submit requests, read snapshots and finally close it.             *)
(*                                                                         *)
(* Every method body under "with self._lock" is one action.  The worker's  *)
(* loop is split where it lets go of the lock: queue.get, _set_processing  *)
(* followed by the call of session.capture(), and _finish.  A capture that *)
(* raises CameraError, OSError or any other Exception ends as "failed";    *)
(* which error code it carries is left out.                                *)
(***************************************************************************)
EXTENDS Naturals, Sequences

CONSTANTS Ids,   \* request ids (UUIDs) that callers may submit
          None   \* Python's None: no active request, and the queue's stop mark

ASSUME NoneIsNoId == None \notin Ids

VARIABLES
  jobs,              \* _jobs: state of the snapshot stored under each id
  activeRequestId,   \* _active_request_id
  lastCompletedJob,  \* request id of _last_completed_job
  closed,            \* _closed
  work,              \* _work: the FIFO the worker blocks on
  worker,            \* where the worker thread stands in _run
  current,           \* _run's local request_id
  closer,            \* where the thread that calls close() stands
  cameraOpen,        \* session.camera.close() has not been called
  captures           \* history: how often session.capture() ran for each id

vars == <<jobs, activeRequestId, lastCompletedJob, closed, work, worker,
          current, closer, cameraOpen, captures>>

Live     == {"queued", "processing"}
Terminal == {"complete", "failed"}

JobState    == {"absent"} \cup Live \cup Terminal
WorkerState == {"get", "took", "capture", "close", "done"}
CloserState == {"outside", "join", "returned"}

TypeOK == /\ jobs \in [Ids -> JobState]
          /\ activeRequestId \in Ids \cup {None}
          /\ lastCompletedJob \in Ids \cup {None}
          /\ closed \in BOOLEAN
          /\ work \in Seq(Ids \cup {None})
          /\ worker \in WorkerState
          /\ current \in Ids \cup {None}
          /\ worker \in {"took", "capture"} => current \in Ids
          /\ closer \in CloserState
          /\ cameraOpen \in BOOLEAN
          /\ captures \in [Ids -> Nat]
-----------------------------------------------------------------------------
Init == /\ jobs = [id \in Ids |-> "absent"]
        /\ activeRequestId = None
        /\ lastCompletedJob = None
        /\ closed = FALSE
        /\ work = <<>>
        /\ worker = "get"
        /\ current = None
        /\ closer = "outside"
        /\ cameraOpen = TRUE
        /\ captures = [id \in Ids |-> 0]

\* Variants of submit() with one check missing, for the runs that show that the
\* properties notice: resubmission, shutdown and the busy rule.
ForgetfulReply(id) ==
  CASE closed                            -> "closed"
    [] ~closed /\ activeRequestId # None -> "busy"
    [] OTHER                             -> "accepted"

UnclosedReply(id) ==
  CASE jobs[id] # "absent"                                     -> jobs[id]
    [] jobs[id] = "absent" /\ activeRequestId # None /\ ~closed -> "busy"
    [] OTHER                                                   -> "accepted"

OverbookingReply(id) ==
  CASE jobs[id] # "absent"           -> jobs[id]
    [] jobs[id] = "absent" /\ closed -> "closed"
    [] OTHER                         -> "accepted"

\* The snapshot submit(id) returns: the stored one of a known id, or a
\* standalone refusal, or the new job.
SubmitReply(id) ==
  CASE jobs[id] # "absent"                               -> jobs[id]
    [] jobs[id] = "absent" /\ closed                     -> "closed"
    [] jobs[id] = "absent" /\ ~closed /\ activeRequestId # None -> "busy"
    [] OTHER                                             -> "accepted"

\* A submit() that creates a job; every other reply leaves the state alone.
Submit(id) ==
  /\ SubmitReply(id) = "accepted"
  /\ jobs' = [jobs EXCEPT ![id] = "queued"]
  /\ activeRequestId' = id
  /\ work' = Append(work, id)
  /\ UNCHANGED <<lastCompletedJob, closed, worker, current, closer,
                 cameraOpen, captures>>

\* close() that jumps the queue, that discards it, and that forgets to wake the
\* worker.
ClosingWith(queue) ==
  /\ closer = "outside"
  /\ ~closed
  /\ closed' = TRUE
  /\ work' = queue
  /\ closer' = "join"
  /\ UNCHANGED <<jobs, activeRequestId, lastCompletedJob, worker, current,
                 cameraOpen, captures>>

CloseInFront   == ClosingWith(<<None>> \o work)
CloseDiscards  == ClosingWith(<<None>>)
CloseUnnoticed == ClosingWith(work)

\* close(), up to the join: the stop mark goes behind what was accepted.  A
\* second call returns at once; it comes from the same thread (main's finally
\* clauses), after the first has returned.
Close == ClosingWith(Append(work, None))

CloseReturn ==
  /\ closer = "join"
  /\ worker = "done"
  /\ closer' = "returned"
  /\ UNCHANGED <<jobs, activeRequestId, lastCompletedJob, closed, work,
                 worker, current, cameraOpen, captures>>
-----------------------------------------------------------------------------
\* The worker thread.

Get ==
  /\ worker = "get"
  /\ work # <<>>
  /\ work' = Tail(work)
  /\ current' = Head(work)
  /\ worker' = IF Head(work) = None THEN "close" ELSE "took"
  /\ UNCHANGED <<jobs, activeRequestId, lastCompletedJob, closed, closer,
                 cameraOpen, captures>>

\* _set_processing, then the call of session.capture().
SetProcessing ==
  /\ worker = "took"
  /\ jobs' = [jobs EXCEPT ![current] = "processing"]
  /\ captures' = [captures EXCEPT ![current] = @ + 1]
  /\ worker' = "capture"
  /\ UNCHANGED <<activeRequestId, lastCompletedJob, closed, work, current,
                 closer, cameraOpen>>

\* _finish that publishes a failed capture as the last completed one.
FinishAlwaysPublishes(state) ==
  /\ worker = "capture"
  /\ jobs' = [jobs EXCEPT ![current] = state]
  /\ activeRequestId' = None
  /\ lastCompletedJob' = current
  /\ worker' = "get"
  /\ UNCHANGED <<closed, work, current, closer, cameraOpen, captures>>

\* session.capture() returned or raised: _finish.
Finish(state) ==
  /\ worker = "capture"
  /\ jobs' = [jobs EXCEPT ![current] = state]
  /\ activeRequestId' = None
  /\ lastCompletedJob' = IF state = "complete" THEN current ELSE lastCompletedJob
  /\ worker' = "get"
  /\ UNCHANGED <<closed, work, current, closer, cameraOpen, captures>>

\* The finally clause of _run.
CloseCamera ==
  /\ worker = "close"
  /\ cameraOpen' = FALSE
  /\ worker' = "done"
  /\ UNCHANGED <<jobs, activeRequestId, lastCompletedJob, closed, work,
                 current, closer, captures>>

Worker == \/ Get
          \/ SetProcessing
          \/ \E state \in Terminal : Finish(state)
          \/ CloseCamera

\* main has returned: the interpreter exits with its daemon threads.
Exited == closer = "returned" /\ UNCHANGED vars

Next == \/ \E id \in Ids : Submit(id)
        \/ Close
        \/ CloseReturn
        \/ Worker
        \/ Exited

Spec == Init /\ [][Next]_vars

\* The worker thread runs, session.capture() returns or raises in the end
\* (docs/known-issues.md tells of a camera that did not), and a join whose
\* thread has ended returns.  Nobody has to submit or to close.
FairSpec == Spec /\ WF_vars(Worker) /\ WF_vars(CloseReturn)
-----------------------------------------------------------------------------
\* One camera session, one job at a time: the unfinished jobs are exactly the
\* active request, whoever submitted them and wherever the worker is between
\* two lock sections; so a snapshot never shows an idle controller with a job
\* in flight, nor a finished job as active.
SerializedJobs ==
  \A id \in Ids : jobs[id] \in Live <=> activeRequestId = id

\* A request id fires the shutter at most once in the life of a controller,
\* however often it is resubmitted and whatever else is accepted meanwhile; a
\* job that has left the queue fired it exactly once.
CapturedAtMostOnce ==
  \A id \in Ids : captures[id] = IF jobs[id] \in {"absent", "queued"} THEN 0 ELSE 1

\* close() finishes what was accepted: the camera is released only when every
\* accepted job is settled and nothing is left in the queue, and close() comes
\* back only after that.
CloseDrains ==
  /\ ~cameraOpen => /\ closed
                    /\ work = <<>>
                    /\ \A id \in Ids : jobs[id] \notin Live
  /\ closer = "returned" => ~cameraOpen

\* The photo a display is told about is one whose job is complete, and it is
\* replaced only by the job that was active until that very step; a settled
\* job is never touched again.
SettledIsFinal ==
  [][ /\ \A id \in Ids : jobs[id] \in Terminal => jobs'[id] = jobs[id]
      /\ lastCompletedJob' # lastCompletedJob =>
           /\ jobs'[lastCompletedJob'] = "complete"
           /\ activeRequestId = lastCompletedJob'
           /\ activeRequestId' = None ]_vars

\* Every accepted request is settled, also one that close() overtook, and a
\* close() comes back.
AcceptedSettles == \A id \in Ids : jobs[id] = "queued" ~> jobs[id] \in Terminal
CloseReturns == (closer = "join") ~> (closer = "returned")
-----------------------------------------------------------------------------
\* What CaptureController implements: a job is accepted from submit() to
\* _finish, the service is open until close() takes the lock.
OutcomeOf(state) == CASE state = "absent"   -> "new"
                      [] state \in Live     -> "accepted"
                      [] state \in Terminal -> state

Outcome == [id \in Ids |-> OutcomeOf(jobs[id])]

Service == INSTANCE CaptureService WITH
             outcome <- Outcome,
             exposures <- captures,
             open <- ~closed,
             held <- cameraOpen

ImplementsService == Service!SSpec
=============================================================================
