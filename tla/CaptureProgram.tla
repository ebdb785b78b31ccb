---------------------------- MODULE CaptureProgram ----------------------------
(***************************************************************************)
(* pifilm/capture/app.py: main once camera and session exist, the window   *)
(* loop (run_preview_loop), the terminal loop (run_headless_loop) and the  *)
(* finally clauses that release everything, around the controller of       *)
(* CaptureController.  main creates a controller for the remote API and    *)
(* shares it with the loops; without the API each loop that needs one      *)
(* creates and closes its own, over the same session and camera.           *)
(***************************************************************************)
EXTENDS CaptureController

CONSTANTS
  Patient,       \* nobody presses Ctrl-C once the program is being taken down
  MaxInterrupts  \* bound on Ctrl-C

ASSUME ProgramConstants == /\ Patient \in BOOLEAN
                           /\ MaxInterrupts \in Nat
                           /\ "bars" \notin Ids \cup {None}

VARIABLES
  options,    \* the command line and the host, as main asks about them
  at,         \* where the main thread stands
  leaving,    \* what follows the loop that is being left
  owner,      \* who made the current controller and must close it
  served,     \* the remote server has been started
  snap,       \* the window loop's snapshot of the controller
  tracked,    \* active_request_id of the window loop
  shown,      \* displayed_request_id: displayed_frame is its photo, or the prompt
  screen,     \* what the window shows: "bars", or the photo of ..., or None: the prompt
  mine,       \* the terminal loop's job
  interrupts  \* Ctrl-C so far

window == <<snap, tracked, shown, screen>>
pvars == <<options, at, leaving, owner, served, window, mine, interrupts>>
progvars == <<vars, pvars>>

Options == [remote : BOOLEAN,   \* --remote-listen
            captures : BOOLEAN, \* --show-captures
            preview : BOOLEAN,  \* no --no-preview
            display : BOOLEAN,  \* has_display()
            tty : BOOLEAN]      \* sys.stdin.isatty()

Window  == {"open", "poll", "track", "key"}
KeyLoop == {"keys", "wait"}
Closing == {"closeLoop", "closeMain"}
Places  == {"start", "fallback", "live", "shoot", "serve", "exit", "done"}
              \cup Window \cup KeyLoop \cup Closing

ProgramTypeOK ==
  /\ TypeOK
  /\ options \in Options
  /\ at \in Places
  /\ leaving \in {"fallback", "exit"}
  /\ owner \in {"nobody", "loop", "main"}
  /\ at \in {"track", "key", "keys", "wait", "closeLoop", "closeMain"} => owner # "nobody"
  /\ served \in BOOLEAN
  /\ snap \in [active : Ids \cup {None}, repaint : BOOLEAN]
  /\ tracked \in Ids \cup {None}
  /\ shown \in Ids \cup {None}
  /\ screen \in Ids \cup {None, "bars"}
  /\ mine \in Ids \cup {None}
  /\ at = "wait" => mine \in Ids
  /\ interrupts \in 0..MaxInterrupts

ProgramInit == /\ Init
               /\ options \in Options
               /\ at = "start"
               /\ leaving = "exit"
               /\ owner = "nobody"
               /\ served = FALSE
               /\ snap = [active |-> None, repaint |-> FALSE]
               /\ tracked = None
               /\ shown = None
               /\ screen = None
               /\ mine = None
               /\ interrupts = 0

Goto(place) == at' = place
-----------------------------------------------------------------------------
\* Getting into a loop.

\* CaptureController(session), over the camera as it is.
NewController(maker) ==
  /\ owner' = maker
  /\ jobs' = [id \in Ids |-> "absent"]
  /\ activeRequestId' = None
  /\ lastCompletedJob' = None
  /\ closed' = FALSE
  /\ work' = <<>>
  /\ worker' = "get"
  /\ current' = None
  /\ closer' = "outside"
  /\ UNCHANGED <<cameraOpen, captures>>

WantsWindow == options.display /\ (options.captures \/ options.preview)

\* --remote-listen: the controller first, then the listener, which may fail.
StartRemote ==
  /\ at = "start" /\ options.remote
  /\ NewController("main")
  /\ \/ served' = TRUE /\ Goto(IF WantsWindow THEN "open" ELSE "fallback")
     \/ served' = FALSE /\ Goto("exit")
  /\ UNCHANGED <<options, leaving, window, mine, interrupts>>

\* Without it: a captures-only window with a controller of its own, a live
\* preview with none, or no window.
StartLocal ==
  /\ at = "start" /\ ~options.remote
  /\ IF options.captures /\ options.display
     THEN NewController("loop") /\ Goto("open")
     ELSE /\ Goto(IF ~options.captures /\ WantsWindow THEN "live" ELSE "fallback")
          /\ UNCHANGED <<vars, owner>>
  /\ UNCHANGED <<options, leaving, served, window, mine, interrupts>>

\* No window, or none any more: the terminal, with a controller of its own
\* unless there is a shared one; or the remote API alone; or nothing (exit 2).
Fallback ==
  /\ at = "fallback"
  /\ IF options.tty /\ ~options.remote
     THEN NewController("loop") /\ Goto("keys")
     ELSE /\ Goto(CASE options.tty                     -> "keys"
                    [] ~options.tty /\ options.remote  -> "serve"
                    [] ~options.tty /\ ~options.remote -> "exit")
          /\ UNCHANGED <<vars, owner>>
  /\ UNCHANGED <<options, leaving, served, window, mine, interrupts>>

\* A loop that leaves its own controller behind.
LeaveAtOnce(where) ==
  /\ Goto(where)
  /\ leaving' = where
  /\ UNCHANGED <<vars, options, owner, served, window, mine, interrupts>>

\* The finally clause of a loop: it closes its own controller.
Leave(where) ==
  /\ Goto(IF owner = "loop" THEN "closeLoop" ELSE where)
  /\ leaving' = where
  /\ UNCHANGED <<vars, options, owner, served, window, mine, interrupts>>
-----------------------------------------------------------------------------
\* The window loop, captures only.

WindowOpens == /\ at = "open"
               /\ Goto("poll")
               /\ UNCHANGED <<vars, options, leaving, owner, served, window, mine, interrupts>>

\* cv2.error, when the window is opened or at any later moment.
WindowFails == at \in Window /\ Leave("fallback")

\* A photo that is shown only if its request was seen to be active before.
PollTracked(resized) ==
  /\ at = "poll"
  /\ LET new == lastCompletedJob \notin {None, shown} /\ lastCompletedJob = tracked
     IN  /\ shown' = IF new THEN lastCompletedJob ELSE shown
         /\ screen' = IF new \/ resized THEN shown' ELSE screen
         /\ snap' = [active |-> activeRequestId, repaint |-> new \/ resized]
  /\ Goto("track")
  /\ UNCHANGED <<vars, options, leaving, owner, served, tracked, mine, interrupts>>

\* One snapshot of the controller; a photo not yet displayed is, and a resized
\* window is painted again.
Poll(resized) ==
  /\ at = "poll"
  /\ LET new == lastCompletedJob \notin {None, shown}
     IN  /\ shown' = IF new THEN lastCompletedJob ELSE shown
         /\ screen' = IF new \/ resized THEN shown' ELSE screen
         /\ snap' = [active |-> activeRequestId, repaint |-> new \/ resized]
  /\ Goto("track")
  /\ UNCHANGED <<vars, options, leaving, owner, served, tracked, mine, interrupts>>

\* load_rgb raises OSError, which nothing on the way to main's finally catches.
PhotoUnreadable == /\ at = "poll"
                   /\ lastCompletedJob \notin {None, shown}
                   /\ Leave("exit")

\* A loop that does not look what became of the request it tracked.
TrackBlindly ==
  /\ at = "track"
  /\ screen' = IF snap.active # None /\ (snap.active # tracked \/ snap.repaint)
               THEN "bars" ELSE screen
  /\ tracked' = snap.active
  /\ Goto("key")
  /\ UNCHANGED <<vars, options, leaving, owner, served, snap, shown, mine, interrupts>>

\* The state of the tracked request, read after the snapshot: if it failed, the
\* last photo comes back; the bars go up for an active request.
Track ==
  /\ at = "track"
  /\ LET failed == tracked # None /\ jobs[tracked] = "failed"
     IN  screen' = IF snap.active # None /\ (snap.active # tracked \/ snap.repaint)
                   THEN "bars"
                   ELSE IF failed THEN shown ELSE screen
  /\ tracked' = snap.active
  /\ Goto("key")
  /\ UNCHANGED <<vars, options, leaving, owner, served, snap, shown, mine, interrupts>>

\* uuid4 draws an id never used before, by any controller.
Fresh(id) == jobs[id] = "absent" /\ captures[id] = 0

\* No key, a key without meaning, SPACE while a request is tracked, or SPACE
\* that the controller refuses.
NoKey == /\ at = "key"
         /\ Goto("poll")
         /\ UNCHANGED <<vars, options, leaving, owner, served, window, mine, interrupts>>

WindowSpace(id) ==
  /\ at = "key" /\ tracked = None /\ Fresh(id)
  /\ Submit(id)
  /\ tracked' = id
  /\ screen' = "bars"
  /\ Goto("poll")
  /\ UNCHANGED <<options, leaving, owner, served, snap, shown, mine, interrupts>>

WindowQuit == at = "key" /\ Leave("exit")
-----------------------------------------------------------------------------
\* The live preview: the main thread is the only one at the camera.

LiveSpace == /\ at = "live"
             /\ Goto("shoot")
             /\ UNCHANGED <<vars, options, leaving, owner, served, window, mine, interrupts>>

LiveSaved == /\ at = "shoot"
             /\ Goto("live")
             /\ UNCHANGED <<vars, options, leaving, owner, served, window, mine, interrupts>>

LiveFails == at \in {"live", "shoot"} /\ Leave("fallback")

LiveQuit == at = "live" /\ Leave("exit")
-----------------------------------------------------------------------------
\* The terminal loop.

TerminalSpace(id) ==
  /\ at = "keys" /\ Fresh(id)
  /\ Submit(id)
  /\ mine' = id
  /\ Goto("wait")
  /\ UNCHANGED <<options, leaving, owner, served, window, interrupts>>

TerminalTold == /\ at = "wait"
                /\ jobs[mine] \in Terminal
                /\ mine' = None
                /\ Goto("keys")
                /\ UNCHANGED <<vars, options, leaving, owner, served, window, interrupts>>

TerminalQuit == at = "keys" /\ Leave("exit")
-----------------------------------------------------------------------------
\* The end.

\* controller.close(), by a loop for its own or by main for the shared one.
BeginClose == at \in Closing /\ Close /\ UNCHANGED pvars

Joined == /\ at \in Closing
          /\ CloseReturn
          /\ Goto(IF at = "closeLoop" THEN leaving ELSE "done")
          /\ UNCHANGED <<options, leaving, owner, served, window, mine, interrupts>>

\* main's finally clause that leaves the camera to whatever loop there was.
FinallyTrusting ==
  /\ at = "exit"
  /\ Goto(IF owner = "main" THEN "closeMain" ELSE "done")
  /\ UNCHANGED <<vars, options, leaving, owner, served, window, mine, interrupts>>

\* main's finally clause: the listener, then its controller, or else the camera.
Finally ==
  /\ at = "exit"
  /\ IF owner = "main"
     THEN Goto("closeMain") /\ UNCHANGED cameraOpen
     ELSE Goto("done") /\ cameraOpen' = FALSE
  /\ UNCHANGED <<jobs, activeRequestId, lastCompletedJob, closed, work, worker, current,
                 closer, captures, options, leaving, owner, served, window, mine, interrupts>>

\* KeyboardInterrupt: it passes through the finally clauses of the loop and of
\* main, but namedWindow is called outside the loop's; one that hits a finally
\* clause leaves the rest of it undone.
CtrlC ==
  /\ at # "done"
  /\ Patient => at \notin Closing \cup {"exit"}
  /\ interrupts < MaxInterrupts
  /\ interrupts' = interrupts + 1
  /\ leaving' = "exit"
  /\ \/ at \in Window \cup KeyLoop /\ owner = "loop" /\ Goto("closeLoop")
     \/ /\ at \notin Window \cup KeyLoop \/ owner = "main" \/ at = "open"
        /\ Goto(IF at \in {"exit", "closeMain"} THEN "done" ELSE "exit")
  /\ UNCHANGED <<vars, options, owner, served, window, mine>>

\* The worker thread of the controller; it dies with the program.  A camera
\* that is closed delivers no photo.
WorkerThread ==
  /\ owner # "nobody" /\ at # "done"
  /\ \/ Get \/ SetProcessing \/ CloseCamera
     \/ \E state \in Terminal : Finish(state) /\ (state = "complete" => cameraOpen)
  /\ UNCHANGED pvars

\* Handler threads submit, also after the listener has closed.
RemoteSubmit(id) == /\ served /\ at # "done"
                    /\ Submit(id)
                    /\ UNCHANGED pvars

Ended == at = "done" /\ UNCHANGED progvars

Starts == StartRemote \/ StartLocal \/ Fallback \/ WindowOpens
Ends == BeginClose \/ Joined \/ Finally
WindowTurn == (\E resized \in BOOLEAN : Poll(resized)) \/ Track \/ NoKey
Keys == \/ \E id \in Ids : WindowSpace(id) \/ TerminalSpace(id)
        \/ WindowQuit \/ TerminalQuit
        \/ LiveSpace \/ LiveQuit
Trouble == WindowFails \/ PhotoUnreadable \/ LiveFails \/ CtrlC

ProgramNext == \/ Starts \/ Ends
               \/ WindowTurn
               \/ Keys
               \/ LiveSaved \/ TerminalTold
               \/ Trouble
               \/ WorkerThread
               \/ \E id \in Ids : RemoteSubmit(id)
               \/ Ended

ProgramSpec == ProgramInit /\ [][ProgramNext]_progvars

\* The main thread and the worker run, and a capture ends; nobody has to press
\* a key, and nothing has to fail.
FairProgramSpec == /\ ProgramSpec
                   /\ WF_progvars(Starts) /\ WF_progvars(Ends)
                   /\ WF_progvars(WindowTurn)
                   /\ WF_progvars(LiveSaved) /\ WF_progvars(TerminalTold)
                   /\ WF_progvars(WorkerThread)
-----------------------------------------------------------------------------
\* However the program ends, unless a Ctrl-C hits a finally clause, every capture
\* it accepted has been settled and the camera has been released.
CleanExit == at = "done" => /\ ~cameraOpen
                            /\ \A id \in Ids : jobs[id] \notin Live

\* "Finish an in-flight capture, then close the camera": nobody releases the
\* camera while a capture is reading from it, in whichever thread.
NotClosedUnderCapture ==
  [][cameraOpen /\ ~cameraOpen' => worker # "capture" /\ at # "shoot"]_progvars

\* The bars come down: between two turns of the loop they are up only for a
\* request that the loop still tracks, also when the request failed or
\* another one ran between two of its looks at the controller.
BarsMeanTracking == at \in {"key", "poll"} /\ screen = "bars" => tracked # None

\* "Completed jobs may arrive entirely between GUI polls": the window ends up
\* with the photo of the last completed job all the same, whoever submitted it.
LatestIsShown == (at \in Window /\ lastCompletedJob # None)
                   ~> (at \notin Window \/ shown = lastCompletedJob)

\* "Falling back to headless mode": there a press of SPACE has a camera to take
\* a photo with.
FallbackHasCamera == at = "keys" => cameraOpen
=============================================================================
