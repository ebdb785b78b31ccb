------------------------ MODULE CaptureProgram_proofs ------------------------
(***************************************************************************)
(* The safety of CaptureProgram for every command line, any number of      *)
(* captures and any number of Ctrl-C: what main, its loops and their       *)
(* controllers owe each other.                                             *)
(*                                                                         *)
(* Core, the invariant of CaptureController, holds of each controller in   *)
(* turn, over a camera that an earlier one may have closed.  The rest says *)
(* whose the controller is, at which places of the main thread it is at    *)
(* rest, and what the window loop will still get to know.                  *)
(***************************************************************************)
EXTENDS CaptureProgram, CaptureController_proofs

\* Whose the controller is, place by place.
Owners ==
  /\ served => owner = "main"
  /\ owner = "main" => options.remote
  /\ options.remote /\ at \notin {"start", "exit", "done"} => owner = "main"
  /\ at \in {"start", "live", "shoot"} => owner = "nobody"
  /\ at \in Window \cup KeyLoop => owner # "nobody"
  /\ at = "closeLoop" => owner = "loop"
  /\ at \in {"closeMain", "serve"} => owner = "main"

\* The places where a controller that main does not close is at rest.
Rests == \/ at \in {"start", "live", "shoot", "fallback", "exit"} /\ owner # "main"
         \/ at = "open" /\ owner = "loop"

\* Without a Ctrl-C in a finally clause nothing is in flight there, nor at the end.
Orderly == Patient => /\ Rests \/ at = "done" => activeRequestId = None
                      /\ at = "done" => ~cameraOpen

Released == worker = "done" => ~cameraOpen

LastIsComplete == lastCompletedJob # None => jobs[lastCompletedJob] = "complete"

\* The loop will notice what becomes of this request: if it completed, there is
\* a photo the loop has not shown yet.
Noticed(id) == /\ jobs[id] # "absent"
               /\ jobs[id] = "complete" => lastCompletedJob \notin {None, shown}

Showing ==
  /\ at \in {"start", "open"} => tracked = None /\ shown = None /\ screen # "bars"
  /\ at \in Window =>
       /\ shown # None => jobs[shown] = "complete"
       /\ at \in {"key", "poll"} /\ tracked # None => Noticed(tracked)
       /\ at = "track" /\ snap.active # None => Noticed(snap.active)
       /\ at = "track" /\ snap.active = None /\ screen = "bars" =>
            tracked # None /\ jobs[tracked] = "failed"
  /\ BarsMeanTracking

ProgramInv == /\ ProgramTypeOK
              /\ Core
              /\ Owners
              /\ Orderly
              /\ Released
              /\ LastIsComplete
              /\ Showing
-----------------------------------------------------------------------------
\* The actions of the main thread that leave the controller and the window alone.
Move == \/ WindowOpens \/ NoKey \/ TerminalTold \/ LiveSpace \/ LiveSaved
        \/ WindowQuit \/ TerminalQuit \/ LiveQuit
        \/ WindowFails \/ PhotoUnreadable \/ LiveFails
        \/ CtrlC

\* The start of main is in order.
LEMMA ProgramInitially == ProgramInit => ProgramInv
<1> SUFFICES ASSUME ProgramInit
             PROVE  ProgramInv
  OBVIOUS
<1>1. Core
  BY InitInv DEF ProgramInit
<1>2. ProgramTypeOK
  <2>1. TypeOK /\ snap \in [active : Ids \cup {None}, repaint : BOOLEAN]
    BY <1>1 DEF ProgramInit, Core
  <2>2. interrupts \in 0..MaxInterrupts
    BY ProgramConstants DEF ProgramInit
  <2> QED
    BY <2>1, <2>2 DEF ProgramInit, ProgramTypeOK, Places, Window, KeyLoop, Closing
<1>3. Owners /\ Orderly
  BY DEF ProgramInit, Init, Owners, Orderly, Rests, Window, KeyLoop
<1>4. Released /\ LastIsComplete
  BY DEF ProgramInit, Init, Released, LastIsComplete
<1>5. Showing
  BY ProgramConstants DEF ProgramInit, Showing, BarsMeanTracking, Window
<1> QED
  BY <1>1, <1>2, <1>3, <1>4, <1>5 DEF ProgramInv

\* A new controller is in order, whatever the last one left.
LEMMA NewCore ==
  ASSUME Core, NEW maker, NewController(maker)
  PROVE  Core' /\ Released' /\ LastIsComplete'
<1> USE NoneIsNoId DEF NewController
<1>1. TypeOK'
  <2>1. work' \in Seq(Ids \cup {None})
    OBVIOUS
  <2>2. jobs' \in [Ids -> JobState]
    BY DEF JobState
  <2> QED
    BY <2>1, <2>2 DEF Core, TypeOK, WorkerState, CloserState
<1>2. SerializedJobs' /\ QueueShape' /\ WorkerHoldsActive' /\ CloserInStep'
  BY DEF SerializedJobs, Live, QueueShape, WorkerHoldsActive, CloserInStep
<1>3. Released' /\ LastIsComplete'
  BY DEF Released, LastIsComplete
<1> QED
  BY <1>1, <1>2, <1>3 DEF Core

\* What a controller does to its own state keeps it in order, here too.
LEMMA ActionCore ==
  ASSUME ProgramInv, ControllerAction
  PROVE  Core' /\ Released' /\ LastIsComplete'
<1>1. Core'
  BY StepCore DEF ProgramInv
<1>2. Released'
  BY DEF ControllerAction, Worker, Submit, Close, ClosingWith, CloseReturn, Get, SetProcessing,
         Finish, CloseCamera, ProgramInv, Released
<1>3. LastIsComplete'
  <2>1. ASSUME NEW id \in Ids, Submit(id) PROVE LastIsComplete'
    <3>1. jobs[id] = "absent"
      BY <2>1 DEF Submit, SubmitReply, ProgramInv, Core, TypeOK, JobState, Live, Terminal
    <3> QED
      BY <2>1, <3>1 DEF Submit, ProgramInv, Core, TypeOK, LastIsComplete
  <2>2. CASE SetProcessing
    BY <2>2 DEF SetProcessing, ProgramInv, Core, TypeOK, WorkerHoldsActive, LastIsComplete
  <2>3. ASSUME NEW state \in Terminal, Finish(state) PROVE LastIsComplete'
    BY <2>3 DEF Finish, ProgramInv, Core, TypeOK, WorkerHoldsActive, LastIsComplete
  <2>4. CASE Close \/ CloseReturn \/ Get \/ CloseCamera
    BY <2>4 DEF Close, ClosingWith, CloseReturn, Get, CloseCamera, ProgramInv, LastIsComplete
  <2> QED
    BY <2>1, <2>2, <2>3, <2>4 DEF ControllerAction, Worker
<1> QED
  BY <1>1, <1>2, <1>3

\* What becomes of the jobs: a settled one stays as it is, and one that
\* completes is the last completed one then.
JobsKept ==
  /\ \A id \in Ids : /\ jobs[id] # "absent" => jobs'[id] # "absent"
                     /\ jobs[id] \in Terminal => jobs'[id] = jobs[id]
                     /\ jobs'[id] = "complete" => jobs[id] = "complete" \/ lastCompletedJob' = id
  /\ \/ lastCompletedJob' = lastCompletedJob
     \/ lastCompletedJob' \in Ids /\ jobs[lastCompletedJob'] # "complete"

LEMMA ActionKeepsJobs == ASSUME ProgramInv, ControllerAction PROVE JobsKept
<1>1. ASSUME NEW id \in Ids, Submit(id) PROVE JobsKept
  <2>1. jobs[id] = "absent"
    BY <1>1 DEF Submit, SubmitReply, ProgramInv, Core, TypeOK, JobState, Live, Terminal
  <2> QED
    BY <1>1, <2>1 DEF Submit, ProgramInv, Core, TypeOK, JobsKept, Terminal
<1>2. CASE SetProcessing
  BY <1>2 DEF SetProcessing, ProgramInv, Core, TypeOK, WorkerHoldsActive, JobsKept, Terminal
<1>3. ASSUME NEW state \in Terminal, Finish(state) PROVE JobsKept
  BY <1>3 DEF Finish, ProgramInv, Core, TypeOK, WorkerHoldsActive, JobsKept, Terminal
<1>4. CASE Close \/ CloseReturn \/ Get \/ CloseCamera
  BY <1>4 DEF Close, ClosingWith, CloseReturn, Get, CloseCamera, JobsKept
<1> QED
  BY <1>1, <1>2, <1>3, <1>4 DEF ControllerAction, Worker

\* The loop that has not looked still notices.
LEMMA StillNoticed ==
  ASSUME NEW id \in Ids, JobsKept, UNCHANGED shown, Noticed(id),
         shown \in Ids \cup {None}, shown # None => jobs[shown] = "complete"
  PROVE  Noticed(id)'
  BY NoneIsNoId DEF JobsKept, Noticed, Terminal

\* A step of the controller leaves the window as honest as it was.
LEMMA ShowingKept ==
  ASSUME ProgramInv, JobsKept, UNCHANGED <<at, snap, tracked, shown, screen>>
  PROVE  Showing'
<1> USE DEF ProgramInv, Showing, ProgramTypeOK
<1>1. CASE at \notin Window
  BY <1>1 DEF BarsMeanTracking, Window
<1>2. CASE at \in Window
  <2>1. shown' # None => jobs'[shown'] = "complete"
    BY <1>2 DEF JobsKept, Terminal
  <2>2. at \in {"key", "poll"} /\ tracked # None => Noticed(tracked)'
    <3> SUFFICES ASSUME at \in {"key", "poll"}, tracked # None PROVE Noticed(tracked)'
      OBVIOUS
    <3>1. PICK id \in Ids : id = tracked
      OBVIOUS
    <3>2. Noticed(id)'
      BY <1>2, <3>1, StillNoticed
    <3> QED
      BY <3>1, <3>2 DEF Noticed
  <2>3. at = "track" /\ snap.active # None => Noticed(snap.active)'
    <3> SUFFICES ASSUME at = "track", snap.active # None PROVE Noticed(snap.active)'
      OBVIOUS
    <3>1. PICK id \in Ids : id = snap.active
      OBVIOUS
    <3>2. Noticed(id)'
      BY <1>2, <3>1, StillNoticed
    <3> QED
      BY <3>1, <3>2 DEF Noticed
  <2>4. at = "track" /\ snap.active = None /\ screen = "bars" =>
          tracked # None /\ jobs'[tracked] = "failed"
    BY <1>2 DEF JobsKept, Terminal
  <2> QED
    BY <1>2, <2>1, <2>2, <2>3, <2>4 DEF BarsMeanTracking, Window
<1> QED
  BY <1>1, <1>2

\* Where a step of the main thread alone leads.
LEMMA MoveLeads ==
  ASSUME ProgramInv, Move
  PROVE  /\ UNCHANGED <<vars, options, owner, served, window>>
         /\ leaving' \in {"fallback", "exit"}
         /\ interrupts' \in 0..MaxInterrupts
         /\ mine' \in {mine, None}
         /\ \/ at \in {"open", "key"} /\ at' = "poll"
            \/ at = "wait" /\ at' = "keys"
            \/ at \in {"live", "shoot"} /\ at' \in {"live", "shoot"}
            \/ at \in Window \cup KeyLoop /\ owner = "loop" /\ at' = "closeLoop"
            \/ /\ at \in Window \cup KeyLoop \cup {"live", "shoot"} /\ owner # "loop"
               /\ at' \in {"fallback", "exit"}
            \/ /\ at \notin Window \cup KeyLoop \cup {"done"} /\ (Patient => at \notin Closing)
               /\ at' = "exit"
            \/ at = "open" /\ at' = "exit"
            \/ ~Patient /\ at' = "done"
<1> USE DEF Goto, Leave, ProgramInv, ProgramTypeOK, Owners
<1>1. CASE WindowOpens \/ NoKey \/ TerminalTold \/ LiveSpace \/ LiveSaved
  BY <1>1 DEF WindowOpens, NoKey, TerminalTold, LiveSpace, LiveSaved
<1>2. CASE WindowQuit \/ TerminalQuit \/ LiveQuit \/ WindowFails \/ PhotoUnreadable \/ LiveFails
  BY <1>2 DEF WindowQuit, TerminalQuit, LiveQuit, WindowFails, PhotoUnreadable, LiveFails,
     Window, KeyLoop
<1>3. CASE CtrlC
  <2>1. interrupts' \in 0..MaxInterrupts
    BY <1>3, ProgramConstants DEF CtrlC
  <2> QED
    BY <1>3, <2>1 DEF CtrlC, Window, KeyLoop, Closing
<1> QED
  BY <1>1, <1>2, <1>3 DEF Move

\* A step of the main thread alone.
LEMMA MoveInv == ASSUME ProgramInv, Move PROVE ProgramInv'
<1> USE DEF ProgramInv
<1>1. UNCHANGED <<vars, options, owner, served, window>>
  BY MoveLeads
<1>2. Core' /\ Released' /\ LastIsComplete'
  BY <1>1, StepCore DEF vars, Released, LastIsComplete
<1>3. at' \in Places /\ at' # "wait" /\ at' # "track"
  BY MoveLeads DEF Places, Closing, Window, KeyLoop
<1>4. at' \in {"poll", "keys", "closeLoop"} => owner # "nobody"
  BY MoveLeads DEF Owners, Window, KeyLoop
<1>5. ProgramTypeOK'
  BY <1>1, <1>2, <1>3, <1>4, MoveLeads DEF ProgramTypeOK, Core, window
<1>6. Owners'
  BY <1>1, MoveLeads, ProgramConstants DEF Owners, Closing, Window, KeyLoop
<1>7. Orderly'
  BY <1>1, MoveLeads, ProgramConstants 
     DEF Owners, Orderly, Rests, ProgramTypeOK, Places, Closing, Window, KeyLoop, vars
<1>8. Showing'
  BY <1>1, MoveLeads, ProgramConstants DEF Showing, BarsMeanTracking, Noticed, Window, KeyLoop,
     Closing, vars, window
<1> QED
  BY <1>2, <1>5, <1>6, <1>7, <1>8

\* Getting into a loop, with a new controller or with the one there is.
LEMMA StartsInv == ASSUME ProgramInv, StartRemote \/ StartLocal \/ Fallback PROVE ProgramInv'
<1> USE DEF ProgramInv, Goto
<1>1. /\ UNCHANGED <<options, leaving, snap, tracked, shown, screen, mine, interrupts>>
      /\ at \in {"start", "fallback"}
      /\ at' \in {"open", "live", "keys", "serve", "exit", "fallback"}
      /\ at' \in {"open", "live"} => at = "start"
  BY DEF StartRemote, StartLocal, Fallback, window
<1>2. Core' /\ Released' /\ LastIsComplete'
  <2>1. CASE \E maker \in {"main", "loop"} : NewController(maker)
    BY <2>1, NewCore
  <2>2. CASE UNCHANGED vars
    BY <2>2, StepCore DEF vars, Released, LastIsComplete
  <2> QED
    BY <2>1, <2>2 DEF StartRemote, StartLocal, Fallback
<1>3. /\ owner' \in {"nobody", "loop", "main"} /\ served' \in BOOLEAN
      /\ at' \in {"open", "keys"} => owner' # "nobody"
      /\ Owners'
  <2> USE <1>1 DEF NewController, ProgramTypeOK, Owners, Options, Window, KeyLoop
  <2>1. CASE StartRemote
    BY <2>1 DEF StartRemote
  <2>2. CASE StartLocal
    BY <2>2 DEF StartLocal
  <2>3. CASE Fallback
    BY <2>3 DEF Fallback
  <2> QED
    BY <2>1, <2>2, <2>3
<1>4. ProgramTypeOK'
  BY <1>1, <1>2, <1>3 DEF ProgramTypeOK, Core, Places, Window, KeyLoop, Closing
<1>5. Orderly'
  <2>1. CASE NewController("main") \/ NewController("loop")
    BY <1>1, <2>1 DEF NewController, Orderly
  <2>2. CASE UNCHANGED <<vars, owner>>
    BY <1>1, <2>2, <1>3 DEF Orderly, Rests, vars, Owners
  <2> QED
    BY <2>1, <2>2 DEF StartRemote, StartLocal, Fallback
<1>6. Showing'
  BY <1>1 DEF Showing, BarsMeanTracking, Window
<1> QED
  BY <1>2, <1>3, <1>4, <1>5, <1>6

\* close() and its return, and main's own release of the camera.
LEMMA EndsInv == ASSUME ProgramInv, BeginClose \/ Joined \/ Finally PROVE ProgramInv'
<1> USE DEF ProgramInv, Goto
<1>1. /\ UNCHANGED <<options, leaving, owner, served, snap, tracked, shown, screen,
                     mine, interrupts>>
      /\ at' \notin Window \cup {"start", "live", "shoot", "keys", "wait", "serve"}
      /\ at \in Closing \cup {"exit"} /\ at' \in Closing \cup {"fallback", "exit", "done"}
      /\ at' = "fallback" => at = "closeLoop"
      /\ at' = "closeMain" => owner = "main"
      /\ at' = "closeLoop" => at = "closeLoop"
  BY DEF BeginClose, Joined, Finally, pvars, window, Closing, Window, ProgramTypeOK, Owners
<1>2. Core' /\ Released' /\ LastIsComplete'
  <2>1. CASE BeginClose \/ Joined
    BY <2>1, ActionCore DEF BeginClose, Joined, ControllerAction
  <2>2. CASE Finally
    BY <2>2, ProgramConstants DEF Finally, Core, TypeOK, SerializedJobs, QueueShape,
       WorkerHoldsActive, CloserInStep,
                Released, LastIsComplete
  <2> QED
    BY <2>1, <2>2
<1>3. Owners'
  BY <1>1 DEF Owners, Window, KeyLoop, Closing
<1>4. ProgramTypeOK'
  BY <1>1, <1>2, <1>3 DEF ProgramTypeOK, Core, Places, Window, KeyLoop, Closing, Owners
<1>5. Orderly'
  <2>1. CASE BeginClose
    BY <2>1, <1>1 DEF BeginClose, pvars, Closing, Orderly, Rests, Owners
  <2>2. CASE Joined
    <3>1. /\ worker = "done" /\ activeRequestId = None /\ ~cameraOpen
          /\ UNCHANGED <<activeRequestId, cameraOpen>>
      BY <2>2 DEF Joined, CloseReturn, Core, WorkerHoldsActive, Released
    <3> QED
      BY <3>1 DEF Orderly
  <2>3. CASE Finally
    BY <2>3, <1>1 DEF Finally, Orderly, Rests
  <2> QED
    BY <2>1, <2>2, <2>3
<1>6. Showing'
  BY <1>1 DEF Showing, BarsMeanTracking, Window
<1> QED
  BY <1>2, <1>3, <1>4, <1>5, <1>6

\* A step of the worker, or of a handler thread that submits.
LEMMA OthersInv ==
  ASSUME ProgramInv, WorkerThread \/ \E id \in Ids : RemoteSubmit(id)
  PROVE  ProgramInv'
<1> USE DEF ProgramInv
<1>1. ControllerAction /\ UNCHANGED pvars
  BY DEF WorkerThread, RemoteSubmit, ControllerAction, Worker
<1>2. Core' /\ Released' /\ LastIsComplete'
  BY <1>1, ActionCore
<1>3. ProgramTypeOK' /\ Owners'
  BY <1>1, <1>2 DEF ProgramTypeOK, Owners, Core, pvars, window
<1>4. Orderly'
  <2>1. at # "done"
    BY DEF WorkerThread, RemoteSubmit
  <2>2. CASE WorkerThread
    BY <1>1, <2>1, <2>2, NoneIsNoId DEF WorkerThread, Get, SetProcessing, CloseCamera, Finish,
       Orderly, Rests, pvars
  <2>3. CASE \E id \in Ids : RemoteSubmit(id)
    BY <1>1, <2>1, <2>3 DEF RemoteSubmit, Orderly, Rests, Owners, pvars, KeyLoop, Window
  <2> QED
    BY <2>2, <2>3
<1>5. Showing'
  BY <1>1, ActionKeepsJobs, ShowingKept DEF pvars, window
<1> QED
  BY <1>2, <1>3, <1>4, <1>5

\* SPACE that is accepted.
LEMMA SpaceInv ==
  ASSUME ProgramInv, NEW id \in Ids, WindowSpace(id) \/ TerminalSpace(id)
  PROVE  ProgramInv'
<1> USE DEF ProgramInv, Goto
<1>1. Submit(id) /\ ControllerAction /\ jobs[id] = "absent"
  BY DEF WindowSpace, TerminalSpace, ControllerAction, Fresh
<1>2. Core' /\ Released' /\ LastIsComplete'
  BY <1>1, ActionCore
<1>3. UNCHANGED <<options, leaving, owner, served, snap, shown, interrupts>>
  BY DEF WindowSpace, TerminalSpace, window
<1>4. \/ at = "key" /\ at' = "poll" /\ tracked' = id /\ UNCHANGED mine
      \/ at = "keys" /\ at' = "wait" /\ mine' = id /\ UNCHANGED <<tracked, screen>>
  BY DEF WindowSpace, TerminalSpace, window
<1>5. ProgramTypeOK' /\ Owners'
  <2>1. screen' \in Ids \cup {None, "bars"}
    BY DEF WindowSpace, TerminalSpace, window, ProgramTypeOK
  <2> QED
    BY <1>2, <1>3, <1>4, <2>1 DEF ProgramTypeOK, Owners, Core, Places, Window, KeyLoop, Closing
<1>6. Orderly'
  BY <1>3, <1>4 DEF Orderly, Rests
<1>7. Showing'
  BY <1>1, <1>3, <1>4, NoneIsNoId, ActionKeepsJobs DEF Submit, Showing, BarsMeanTracking,
     Noticed, JobsKept, Terminal,
     Window, ProgramTypeOK, Core, TypeOK
<1> QED
  BY <1>2, <1>5, <1>6, <1>7

\* The loop looks at the controller.
LEMMA PollInv ==
  ASSUME ProgramInv, NEW resized \in BOOLEAN, Poll(resized)
  PROVE  ProgramInv'
<1> USE DEF ProgramInv, Goto
<1>1. /\ UNCHANGED <<vars, options, leaving, owner, served, tracked, mine, interrupts>>
      /\ at = "poll" /\ at' = "track"
  BY DEF Poll
<1>2. Core' /\ Released' /\ LastIsComplete'
  BY <1>1, StepCore DEF vars, Released, LastIsComplete
<1>3. snap'.active = activeRequestId /\ snap' \in [active : Ids \cup {None}, repaint : BOOLEAN]
  BY NoneIsNoId DEF Poll, Core, TypeOK
<1>4. shown' \in Ids \cup {None} /\ screen' \in Ids \cup {None, "bars"}
  BY DEF Poll, ProgramTypeOK, Core, TypeOK
<1>5. ProgramTypeOK' /\ Owners'
  BY <1>1, <1>2, <1>3, <1>4 DEF ProgramTypeOK, Owners, Core, Places, Window, KeyLoop, Closing
<1>6. Orderly'
  BY <1>1 DEF Orderly, Rests
<1>7. shown' # None => jobs[shown'] = "complete"
  BY <1>1 DEF Poll, Showing, LastIsComplete, Window
<1>8. activeRequestId # None => jobs[activeRequestId] \in Live
  BY NoneIsNoId DEF Core, TypeOK, SerializedJobs
<1>9. activeRequestId = None /\ screen' = "bars" => tracked # None /\ jobs[tracked] = "failed"
  <2> SUFFICES ASSUME activeRequestId = None, screen' = "bars"
               PROVE  tracked # None /\ jobs[tracked] = "failed"
    OBVIOUS
  <2>1. screen = "bars" /\ lastCompletedJob \in {None, shown}
    BY ProgramConstants, <1>4 DEF Poll, ProgramTypeOK, Core, TypeOK
  <2>2. tracked # None /\ jobs[tracked] \notin {"absent", "complete"}
    BY <1>1, <2>1 DEF Showing, BarsMeanTracking, Noticed, Window
  <2>3. jobs[tracked] \notin Live /\ jobs[tracked] \in JobState
    BY <2>2, NoneIsNoId DEF ProgramTypeOK, Core, TypeOK, SerializedJobs
  <2> QED
    BY <2>2, <2>3 DEF JobState, Terminal
<1>10. Showing'
  BY <1>1, <1>3, <1>7, <1>8, <1>9 DEF Showing, BarsMeanTracking, Noticed, Window, vars, Live
<1> QED
  BY <1>2, <1>5, <1>6, <1>10

\* The loop decides about the bars.
LEMMA TrackInv == ASSUME ProgramInv, Track PROVE ProgramInv'
<1> USE DEF ProgramInv, Goto
<1>1. /\ UNCHANGED <<vars, options, leaving, owner, served, snap, shown, mine, interrupts>>
      /\ at = "track" /\ at' = "key" /\ tracked' = snap.active
  BY DEF Track
<1>2. Core' /\ Released' /\ LastIsComplete'
  BY <1>1, StepCore DEF vars, Released, LastIsComplete
<1>3. ProgramTypeOK' /\ Owners'
  <2>1. screen' \in Ids \cup {None, "bars"}
    BY DEF Track, ProgramTypeOK
  <2> QED
    BY <1>1, <1>2, <2>1 DEF ProgramTypeOK, Owners, Core, Places, Window, KeyLoop, Closing
<1>4. Orderly'
  BY <1>1 DEF Orderly, Rests
<1>5. BarsMeanTracking'
  <2> SUFFICES ASSUME snap.active = None PROVE screen' # "bars"
    BY <1>1 DEF BarsMeanTracking
  <2>1. CASE screen = "bars"
    BY <1>1, <2>1, ProgramConstants DEF Track, Showing, Window, ProgramTypeOK
  <2>2. CASE screen # "bars"
    BY <1>1, <2>2, ProgramConstants DEF Track, ProgramTypeOK
  <2> QED
    BY <2>1, <2>2
<1>6. Showing'
  BY <1>1, <1>5 DEF Showing, Noticed, Window, vars
<1> QED
  BY <1>2, <1>3, <1>4, <1>6

\* Every step keeps the invariant.
LEMMA ProgramStep == ProgramInv /\ [ProgramNext]_progvars => ProgramInv'
<1> SUFFICES ASSUME ProgramInv, [ProgramNext]_progvars PROVE ProgramInv'
  OBVIOUS
<1>1. CASE Starts \/ Ends
  BY <1>1, StartsInv, EndsInv, MoveInv DEF Starts, Ends, Move
<1>2. CASE WindowTurn
  BY <1>2, PollInv, TrackInv, MoveInv DEF WindowTurn, Move
<1>3. CASE Keys \/ LiveSaved \/ TerminalTold \/ Trouble
  BY <1>3, SpaceInv, MoveInv DEF Keys, Trouble, Move
<1>4. CASE WorkerThread \/ \E id \in Ids : RemoteSubmit(id)
  BY <1>4, OthersInv
<1>5. CASE UNCHANGED progvars
  BY <1>5, StepCore DEF ProgramInv, progvars, pvars, window, ProgramTypeOK, Core, Owners,
     Orderly, Rests,
     Released, LastIsComplete, Showing, BarsMeanTracking, Noticed, vars
<1> QED
  BY <1>1, <1>2, <1>3, <1>4, <1>5 DEF ProgramNext, Ended

\* The invariant, for every command line and with or without a second Ctrl-C.
THEOREM ProgramInvariance == ProgramSpec => []ProgramInv
<1>1. ProgramInit => ProgramInv
  BY ProgramInitially
<1>2. ProgramInv /\ [ProgramNext]_progvars => ProgramInv'
  BY ProgramStep
<1> QED
  BY <1>1, <1>2, PTL DEF ProgramSpec
-----------------------------------------------------------------------------
\* The variables stay in their types.
THEOREM ProgramTypeCorrect == ProgramSpec => []ProgramTypeOK
  BY ProgramInvariance, PTL DEF ProgramInv

\* The test bars of the window always stand for a request that the loop is
\* still watching, whatever happened between two of its polls.
THEOREM BarsComeDown == ProgramSpec => []BarsMeanTracking
  BY ProgramInvariance, PTL DEF ProgramInv, Showing

\* If no Ctrl-C hits a finally clause, the program ends with the camera closed
\* and every accepted capture settled, by whichever way it got there.
THEOREM ExitIsClean == ASSUME Patient PROVE ProgramSpec => []CleanExit
<1>1. ProgramInv => CleanExit
  <2> SUFFICES ASSUME ProgramInv, at = "done"
               PROVE  ~cameraOpen /\ \A id \in Ids : jobs[id] \notin Live
    BY DEF CleanExit
  <2>1. activeRequestId = None /\ ~cameraOpen
    BY DEF ProgramInv, Orderly
  <2> QED
    BY <2>1, NoneIsNoId DEF ProgramInv, Core, SerializedJobs
<1> QED
  BY <1>1, ProgramInvariance, PTL

\* Nor does any step on the way release the camera while a capture is reading
\* from it: neither the worker's nor the live preview's own.
THEOREM CaptureKeepsCamera == ASSUME Patient PROVE ProgramSpec => NotClosedUnderCapture
<1>1. ProgramInv /\ [ProgramNext]_progvars =>
        [cameraOpen /\ ~cameraOpen' => worker # "capture" /\ at # "shoot"]_progvars
  <2> SUFFICES ASSUME ProgramInv, ProgramNext, cameraOpen, ~cameraOpen'
               PROVE  worker # "capture" /\ at # "shoot"
    BY DEF ProgramNext, Ended
  <2>1. (WorkerThread /\ CloseCamera) \/ Finally
    <3>1. ASSUME Move PROVE FALSE
      BY <3>1, MoveLeads DEF vars
    <3>2. CASE StartRemote \/ StartLocal \/ Fallback
      BY <3>2 DEF StartRemote, StartLocal, Fallback, NewController, vars
    <3>3. ASSUME BeginClose \/ Joined PROVE FALSE
      BY <3>3 DEF BeginClose, Joined, Close, ClosingWith, CloseReturn
    <3>4. ASSUME (\E resized \in BOOLEAN : Poll(resized)) \/ Track PROVE FALSE
      BY <3>4 DEF Poll, Track, vars
    <3>5. ASSUME NEW id \in Ids, WindowSpace(id) \/ TerminalSpace(id) \/ RemoteSubmit(id)
          PROVE  FALSE
      BY <3>5 DEF WindowSpace, TerminalSpace, RemoteSubmit, Submit
    <3>6. CASE WorkerThread
      BY <3>6 DEF WorkerThread, Get, SetProcessing, Finish
    <3> QED
      BY <3>1, <3>2, <3>3, <3>4, <3>5, <3>6
      DEF ProgramNext, Starts, Ends, WindowTurn, Keys, Trouble, Ended, Move, progvars, vars
  <2>2. CASE WorkerThread /\ CloseCamera
    BY <2>2 DEF WorkerThread, CloseCamera, ProgramInv, Owners
  <2>3. CASE Finally
    <3>1. activeRequestId = None /\ at = "exit"
      BY <2>3 DEF Finally, ProgramInv, Orderly, Rests
    <3> QED
      BY <3>1, NoneIsNoId DEF ProgramInv, Core, TypeOK, WorkerHoldsActive
  <2> QED
    BY <2>1, <2>2, <2>3
<1> QED
  BY <1>1, ProgramInvariance, PTL DEF ProgramSpec, NotClosedUnderCapture
=============================================================================
