------------------------------ MODULE RunLoop ------------------------------
(***************************************************************************)
(* The phases of the macOS app's process (main's Run arm, run_all,         *)
(* calibrate in src/main.rs; src/control.rs; src/menubar.rs): run winds    *)
(* down on its stop flag, the request the menu left decides what comes     *)
(* next, and Ctrl-C sets whichever phase's flag was registered last.       *)
(*                                                                         *)
(* One gun, over SerialPort.  Run is the supervisor with its tracker       *)
(* (Supervisor has them apart), Main the process's first thread, and each  *)
(* calibration has a measuring thread from Workers.  A thread that opens   *)
(* the camera first waits for the user to answer macOS's prompt            *)
(* (ensure_access in src/camera/avfoundation.rs), whatever its stop flag.  *)
(***************************************************************************)
EXTENDS SerialPort

CONSTANTS
  Run, Main,        \* the two threads above
  Workers,          \* bounds the calibrations whose thread still lives
  Gun,              \* the gun's port
  None,             \* no request, no thread
  AutoRecover       \* the setting global.auto_recover

Connectors == Workers \cup {Main}

ASSUME OneGunAssumption == Paths = {Gun}
ASSUME ThreadAssumption ==
  /\ Users = {Run} \cup Connectors
  /\ Run # Main /\ {Run, Main} \cap Workers = {} /\ None \notin Users
ASSUME SettingAssumption == AutoRecover \in BOOLEAN
ASSUME RequestAssumption == None \notin {"Calibrate", "Reload"}

VARIABLES
  pc,        \* the phase main's thread is in
  stop,      \* the stop flag of the run and of each calibration
  slot,      \* on_ctrl_c's SLOT: whose flag Ctrl-C sets
  control,   \* the menu's request
  cal,       \* the measuring thread of the calibration, or None
  guns,      \* where the supervisor is
  work,      \* how far each connecting thread has come
  camera,    \* the tracker's camera, as far as ensure_access
  answered,  \* external: whether the camera prompt has been answered
  asked,     \* history: whether the menu asked something of this run that is
             \* not served yet
  abandoned  \* history: measuring threads whose calibration left them running

phaseVars == <<pc, stop, slot, control, cal>>
cameraVars == <<camera, answered>>
vars == <<portVars, phaseVars, cameraVars, guns, work, asked, abandoned>>

Requests == {"Calibrate", "Reload"}

Phases == {"lock", "running", "winding", "returned", "calibrate", "overlay",
           "join", "save", "reload", "exited"}

(* "connect" and "reconnect": up to authentication, before and after the   *)
(* reset; "camera": inside ensure_access; "ending" and "failing": the      *)
(* result is known, the gun is going.                                      *)
Works == {"none", "start", "connect", "reset", "reconnect", "camera", "busy",
          "ending", "failing", "done", "failed"}

Over == {"none", "done", "failed"}

Init ==
  /\ PortInit
  /\ pc = "lock"
  /\ stop = [u \in Users |-> TRUE]     \* nobody's flag yet
  /\ slot = None /\ control = None /\ cal = None
  /\ guns = "finished"
  /\ work = [c \in Connectors |-> "none"]
  /\ camera = "closed"
  /\ answered \in BOOLEAN
  /\ asked = FALSE
  /\ abandoned = {}

-----------------------------------------------------------------------------
Phase(from, to) == pc = from /\ pc' = to

(* What Ctrl-C, the menu and the shortcut do to a stop flag.               *)
SetStop(u) == stop' = [stop EXCEPT ![u] = TRUE]

(* A mistake the checks must notice: a handler that keeps its first target.*)
FirstTargetStays(u) ==
  /\ stop' = [stop EXCEPT ![u] = FALSE]
  /\ slot' = IF slot = None THEN u ELSE slot

(* on_ctrl_c: the handler is installed once, its target replaced.          *)
OnCtrlC(u) ==
  /\ stop' = [stop EXCEPT ![u] = FALSE]
  /\ slot' = u

-----------------------------------------------------------------------------
(* run_all takes the lock (RunLock), registers its flag and starts the     *)
(* supervisor; or sindenrs is already running, and no request is left.     *)
RunBegins ==
  /\ Phase("lock", "running")
  /\ OnCtrlC(Run)
  /\ guns' = "between"
  /\ asked' = FALSE
  /\ UNCHANGED <<portVars, cameraVars, control, cal, work, abandoned>>

AlreadyRunning ==
  /\ Phase("lock", "exited")
  /\ UNCHANGED <<portVars, cameraVars, stop, slot, control, cal, guns, work, asked, abandoned>>

(* The menu and the quit shortcut, while the event loop turns: events      *)
(* queued behind one that stops the run are still delivered.               *)
MenuRequests(r) ==
  /\ pc = "running"
  /\ control' = r
  /\ SetStop(Run)
  /\ asked' = TRUE
  /\ UNCHANGED <<portVars, cameraVars, pc, slot, cal, guns, work, abandoned>>

Quits ==
  /\ pc = "running"
  /\ SetStop(Run)
  /\ UNCHANGED <<portVars, cameraVars, pc, slot, control, cal, guns, work, asked, abandoned>>

(* The event loop ends: the heads-up display and the menu are dropped.     *)
MenuGone ==
  /\ Phase("running", "winding")
  /\ stop[Run]
  /\ UNCHANGED <<portVars, cameraVars, stop, slot, control, cal, guns, work, asked, abandoned>>

GunsJoined ==
  /\ Phase("winding", "returned")
  /\ guns = "finished"
  /\ UNCHANGED <<portVars, cameraVars, stop, slot, control, cal, guns, work, asked, abandoned>>

(* A mistake the checks must notice: a request that outlives its reading.  *)
RequestStays ==
  /\ pc = "returned"
  /\ pc' = CASE control = None -> "exited"
             [] control = "Calibrate" -> "calibrate"
             [] control = "Reload" -> "reload"
  /\ UNCHANGED <<portVars, cameraVars, stop, slot, control, cal, guns, work, asked, abandoned>>

(* main reads the request and clears it.                                   *)
Take ==
  /\ pc = "returned"
  /\ pc' = CASE control = None -> "exited"
             [] control = "Calibrate" -> "calibrate"
             [] control = "Reload" -> "reload"
  /\ control' = None
  /\ asked' = FALSE
  /\ UNCHANGED <<portVars, cameraVars, stop, slot, cal, guns, work, abandoned>>

(* The settings are read again, or kept, and run starts over.              *)
Reload ==
  /\ Phase("reload", "lock")
  /\ UNCHANGED <<portVars, cameraVars, stop, slot, control, cal, guns, work, asked, abandoned>>

(* Ctrl-C: no handler yet ends the process; in a run it asks to quit.      *)
CtrlC ==
  /\ pc # "exited"
  /\ IF slot = None
     THEN pc' = "exited" /\ UNCHANGED stop
     ELSE SetStop(slot) /\ UNCHANGED pc
  /\ UNCHANGED <<portVars, cameraVars, slot, control, cal, guns, work, asked, abandoned>>

-----------------------------------------------------------------------------
(* calibrate: no gun or camera to select; or its flag is registered and    *)
(* the measuring thread started, or refused.                               *)
NothingToMeasure ==
  /\ Phase("calibrate", "reload")
  /\ UNCHANGED <<portVars, cameraVars, stop, slot, control, cal, guns, work, asked, abandoned>>

CalibrationBegins ==
  /\ Phase("calibrate", "overlay")
  /\ \E w \in Workers :
       /\ work[w] \in Over
       /\ work' = [work EXCEPT ![w] = "start"]
       /\ cal' = w
       /\ OnCtrlC(w)
  /\ UNCHANGED <<portVars, cameraVars, control, guns, asked, abandoned>>

WorkerRefused ==
  /\ SpawnCanFail
  /\ Phase("calibrate", "reload")
  /\ \E w \in Workers : work[w] \in Over /\ OnCtrlC(w)
  /\ UNCHANGED <<portVars, cameraVars, control, cal, guns, work, asked, abandoned>>

(* The quit shortcut while the overlay's event loop turns.                 *)
QuitKey ==
  /\ pc = "overlay"
  /\ SetStop(cal)
  /\ UNCHANGED <<portVars, cameraVars, pc, slot, control, cal, guns, work, asked, abandoned>>

(* overlay::run ends on the flag, or fails; either way it sets the flag.   *)
OverlayEnds ==
  /\ Phase("overlay", "join")
  /\ stop[cal]
  /\ UNCHANGED <<portVars, cameraVars, stop, slot, control, cal, guns, work, asked, abandoned>>

(* `?` leaves calibrate without joining the measuring thread, which may be *)
(* over or not: told to stop, it is abandoned with what it has open.       *)
OverlayFails ==
  /\ Phase("overlay", "reload")
  /\ SetStop(cal)
  /\ cal' = None
  /\ IF work[cal] \in Over
     THEN work' = [work EXCEPT ![cal] = "none"] /\ UNCHANGED abandoned
     ELSE abandoned' = abandoned \cup {cal} /\ UNCHANGED work
  /\ UNCHANGED <<portVars, cameraVars, slot, control, guns, asked>>

(* A mistake the checks must notice: saving without the join.              *)
SavesUnjoined ==
  /\ pc = "join"
  /\ pc' = "save"
  /\ work' = [work EXCEPT ![Main] = "start"]
  /\ UNCHANGED <<portVars, cameraVars, stop, slot, control, cal, guns, asked, abandoned>>

(* Joined: with measurements a bore calibration may be there to save, over *)
(* a connection of its own.                                                *)
WorkerJoined ==
  /\ pc = "join" /\ work[cal] \in {"done", "failed"}
  /\ \/ /\ pc' = "reload" /\ cal' = None
        /\ work' = [work EXCEPT ![cal] = "none"]
     \/ /\ work[cal] = "done"
        /\ pc' = "save"
        /\ work' = [work EXCEPT ![cal] = "none", ![Main] = "start"]
        /\ UNCHANGED cal
  /\ UNCHANGED <<portVars, cameraVars, stop, slot, control, guns, asked, abandoned>>

Saved ==
  /\ Phase("save", "reload")
  /\ work[Main] \in {"done", "failed"}
  /\ cal' = None
  /\ work' = [work EXCEPT ![Main] = "none"]
  /\ UNCHANGED <<portVars, cameraVars, stop, slot, control, guns, asked, abandoned>>

-----------------------------------------------------------------------------
(* connect, and what follows it, on thread c: a measuring thread, or Main  *)
(* writing the calibration.                                                *)
Goto(c, place) == work' = [work EXCEPT ![c] = place]

ConnectorKeeps == UNCHANGED <<phaseVars, cameraVars, guns, asked, abandoned>>

ConnectorOpens(c) ==
  /\ \/ work[c] = "start" /\ Goto(c, "connect")
     \/ work[c] = "reset" /\ sess[c] = "idle" /\ Goto(c, "reconnect")
  /\ BeginOpen(c, Gun)
  /\ ConnectorKeeps

(* The open is refused and connect fails.                                  *)
ConnectorRefused(c) ==
  /\ work[c] \in {"connect", "reconnect"}
  /\ CloseStuck(c) \/ OpenFails(c)
  /\ Goto(c, "failing")
  /\ ConnectorKeeps

(* Authentication fails; connect fails or, once, resets the gun (the touch *)
(* opens and drops a bare port; the wait for the gun may fail too).        *)
ConnectorDrops(c) ==
  /\ work[c] \in {"connect", "reconnect"}
  /\ Drop(c)
  /\ \/ Goto(c, "failing")
     \/ work[c] = "connect" /\ AutoRecover /\ Goto(c, "reset")
  /\ ConnectorKeeps

ResetFails(c) ==
  /\ work[c] = "reset" /\ sess[c] = "idle"
  /\ Goto(c, "failing")
  /\ UNCHANGED portVars
  /\ ConnectorKeeps

Connected(c) ==
  /\ work[c] \in {"connect", "reconnect"} /\ sess[c] = "open"
  /\ Gun \notin wedged
  /\ Goto(c, IF c = Main THEN "busy" ELSE "camera")
  /\ UNCHANGED portVars
  /\ ConnectorKeeps

(* A measuring thread's camera: ensure_access returns only when the prompt *)
(* has been answered.  A refusal is one of the ways to fail while busy.    *)
CameraAsked(c) ==
  /\ work[c] = "camera" /\ answered
  /\ Goto(c, "busy")
  /\ UNCHANGED portVars
  /\ ConnectorKeeps

(* Measuring ends when every target is done, on the flag or on a fault;    *)
(* writing ends with the gun's answer.  The gun is dropped.                *)
WorkEnds(c) ==
  /\ work[c] = "busy"
  /\ Drop(c)
  /\ Goto(c, "ending") \/ Goto(c, "failing")
  /\ ConnectorKeeps

(* A mistake the checks must notice: an error that does not finish(stop).  *)
FailsWithoutStop(c) ==
  /\ sess[c] = "idle"
  /\ \/ work[c] = "ending"  /\ Goto(c, "done") /\ SetStop(c)
     \/ work[c] = "failing" /\ Goto(c, "failed") /\ UNCHANGED stop
  /\ UNCHANGED <<portVars, cameraVars, pc, slot, control, cal, guns, asked, abandoned>>

(* The thread returns; a measuring thread, well or ill, ends the overlay,  *)
(* and an abandoned one leaves no result.                                  *)
WorkReturns(c) ==
  /\ sess[c] = "idle"
  /\ \/ work[c] = "ending"  /\ Goto(c, IF c \in abandoned THEN "none" ELSE "done")
     \/ work[c] = "failing" /\ Goto(c, IF c \in abandoned THEN "none" ELSE "failed")
  /\ IF c \in Workers THEN SetStop(c) ELSE UNCHANGED stop
  /\ abandoned' = abandoned \ {c}
  /\ UNCHANGED <<portVars, cameraVars, pc, slot, control, cal, guns, asked>>

WorkStep(c) ==
  \/ ConnectorOpens(c) \/ ConnectorRefused(c) \/ ConnectorDrops(c)
  \/ ResetFails(c) \/ Connected(c) \/ CameraAsked(c) \/ WorkReturns(c)

-----------------------------------------------------------------------------
(* The supervisor, as Supervisor has it in detail: passes that may open    *)
(* the gun, and again after a reset, until the flag is seen between two,   *)
(* then the join.                                                          *)
InPass == {"pass", "opened", "reopened"}

GunsKeep == UNCHANGED <<phaseVars, work, answered, asked, abandoned>>

PassBegins ==
  /\ guns = "between" /\ ~stop[Run]
  /\ guns' = "pass"
  /\ UNCHANGED <<portVars, camera>> /\ GunsKeep

PassOpens ==
  /\ \/ guns = "pass" /\ guns' = "opened"
     \/ guns = "opened" /\ AutoRecover /\ guns' = "reopened"
  /\ BeginOpen(Run, Gun)
  /\ UNCHANGED camera /\ GunsKeep

(* A gun that has been started is handed to a tracker, which opens its     *)
(* camera first.                                                           *)
PassEnds ==
  /\ guns \in InPass /\ sess[Run] \in {"idle", "open"}
  /\ guns' = "between"
  /\ camera' = IF sess[Run] = "open" /\ camera = "closed" THEN "asking" ELSE camera
  /\ UNCHANGED portVars /\ GunsKeep

CameraOpens ==
  /\ camera = "asking" /\ answered
  /\ camera' = "open"
  /\ UNCHANGED <<portVars, guns>> /\ GunsKeep

(* The tracker ends, on the flag or on a fault, or the start fails; while  *)
(* it waits in ensure_access it sees neither.                              *)
GunDropped ==
  /\ guns # "finished" /\ camera # "asking"
  /\ Drop(Run)
  /\ camera' = "closed"
  /\ UNCHANGED guns /\ GunsKeep

StopSeen ==
  /\ guns = "between" /\ stop[Run]
  /\ guns' = "joining"
  /\ UNCHANGED <<portVars, camera>> /\ GunsKeep

(* A mistake the checks must notice: leaving without the join.             *)
LeavesUnjoined ==
  /\ guns = "joining"
  /\ guns' = "finished"
  /\ UNCHANGED <<portVars, camera>> /\ GunsKeep

TrackersJoined ==
  /\ guns = "joining" /\ sess[Run] = "idle"
  /\ guns' = "finished"
  /\ UNCHANGED <<portVars, camera>> /\ GunsKeep

GunsStep == PassBegins \/ PassEnds \/ StopSeen \/ TrackersJoined

-----------------------------------------------------------------------------
(* External: the user answers the prompt, once for the whole program.      *)
Prompting == ~answered /\ (camera = "asking" \/ \E c \in Workers : work[c] = "camera")

PromptAnswered ==
  /\ Prompting
  /\ answered' = TRUE
  /\ UNCHANGED <<portVars, phaseVars, camera, guns, work, asked, abandoned>>

(* The ports' own steps: a thread waiting in one, the closing threads, and *)
(* the firmware.  A refused open of a connector is its own step above.     *)
OpenSteps(u) ==
  \/ CloseCleared(u) \/ KernelOpen(u)
  \/ u = Run /\ (CloseStuck(u) \/ OpenFails(u))

DropSteps(u) ==
  \/ SpawnCloser(u) \/ SpawnFails(u) \/ InlineClosed(u)
  \/ CloseReported(u) \/ BudgetSpent(u)

PortStep(u) == (OpenSteps(u) \/ DropSteps(u))
               /\ UNCHANGED <<phaseVars, cameraVars, guns, work, asked, abandoned>>

Closers(u) == /\ CloserStep(u, Gun)
              /\ UNCHANGED <<phaseVars, cameraVars, guns, work, asked, abandoned>>

Firmware == /\ Wedge(Gun) \/ Unwedge(Gun)
            /\ UNCHANGED <<phaseVars, cameraVars, guns, work, asked, abandoned>>

MainStep ==
  \/ RunBegins \/ MenuGone \/ GunsJoined \/ Take \/ Reload
  \/ NothingToMeasure \/ CalibrationBegins \/ WorkerRefused
  \/ OverlayEnds \/ WorkerJoined \/ Saved

Asking == Quits \/ CtrlC \/ QuitKey \/ \E r \in Requests : MenuRequests(r)

Next ==
  \/ MainStep \/ AlreadyRunning \/ OverlayFails \/ Asking
  \/ GunsStep \/ PassOpens \/ CameraOpens \/ GunDropped \/ PromptAnswered
  \/ \E c \in Connectors : WorkStep(c) \/ WorkEnds(c)
  \/ \E u \in Users : PortStep(u) \/ Closers(u)
  \/ Firmware

Spec == Init /\ [][Next]_vars

(* A close on the dropping thread itself that a wedged gun keeps.          *)
StuckInline(u) == sess[u] = "inline" /\ Gun \in wedged

(* What thread c does in the phases: Main leads them, a measuring thread   *)
(* ends when it is told to, and Main's writing ends, with an error if need *)
(* be.                                                                     *)
ThreadStep(c) ==
  \/ c = Main /\ MainStep
  \/ WorkStep(c)
  \/ WorkEnds(c) /\ (c = Main \/ stop[c])
  \/ PortStep(c) /\ ~StuckInline(c)

(* Every thread runs, and its open returns if it could time and again,     *)
(* whatever other threads close and open in between; a tracker that is     *)
(* told to stop, and is past ensure_access, drops its gun at its next      *)
(* frame; a close returns unless its gun is wedged.  Nobody need ever      *)
(* answer the camera prompt.                                               *)
Fairness ==
  /\ \A c \in Connectors : SF_vars(ThreadStep(c))
  /\ WF_vars(GunsStep)
  /\ WF_vars(CameraOpens \/ (GunDropped /\ stop[Run]))
  /\ SF_vars(PortStep(Run) /\ ~StuckInline(Run))
  /\ \A u \in Users :
       WF_vars(Closers(u)
                  /\ (closer[u][Gun] = "returned" \/ Gun \notin wedged))

FairSpec == Spec /\ Fairness

-----------------------------------------------------------------------------
(* The values the variables range over.                                    *)
TypeOK ==
  /\ PortTypeOK
  /\ pc \in Phases
  /\ stop \in [Users -> BOOLEAN]
  /\ slot \in Users \cup {None}
  /\ control \in Requests \cup {None}
  /\ cal \in Workers \cup {None}
  /\ guns \in InPass \cup {"between", "joining", "finished"}
  /\ work \in [Connectors -> Works]
  /\ camera \in {"closed", "asking", "open"}
  /\ answered \in BOOLEAN
  /\ asked \in BOOLEAN
  /\ abandoned \subseteq Workers

(* The phases never use the gun at the same time: run has let go of it     *)
(* when a calibration connects, its thread has when the result is saved,   *)
(* and everybody has when run starts over (control.rs: "both need the guns *)
(* and camera released first").  Only a thread that a failed overlay left  *)
(* behind can be in the way of the next phase, and only until it ends.     *)
PortContract ==
  PortInit /\ [][PortNext \/ abandoned # {}]_portVars

(* "The guns and camera are free now" (main, before it calibrates): nobody *)
(* but an abandoned thread has business with the gun when a calibration    *)
(* begins.                                                                 *)
GunsAreFree ==
  pc = "calibrate" => \A u \in Users : sess[u] = "idle" \/ u \in abandoned

(* Ctrl-C stops the phase that is on: the handler "targets whatever flag   *)
(* was registered last", and that is this phase's (on_ctrl_c).             *)
CtrlCHitsThePhase ==
  /\ pc \in {"running", "winding", "returned"} => slot = Run
  /\ pc \in {"overlay", "join", "save"} => slot = cal

(* What follows a run is what was asked for in that run, never something   *)
(* left from an earlier one: it ends the program exactly when no request   *)
(* was made (control.rs: the request is "cleared by reading it").          *)
ServesThisRun ==
  [][pc = "returned" /\ pc' # pc =>
       (pc' = "exited" <=> ~asked)]_vars

(* The end of the measuring thread, good or bad, ends the overlay.         *)
OverlayFollowsWorker ==
  pc = "overlay" /\ work[cal] \in Over ~> pc # "overlay"

(* A thread that waits in the kernel for the close of a wedged gun: its    *)
(* own inline close, or an abandoned thread's under its open.              *)
StuckInKernel(u) ==
  /\ Gun \in wedged
  /\ sess[u] = "inline" \/ (sess[u] = "opening" /\ InKernelClose(Gun))

(* The tracker waits for the user, not for its stop flag.                  *)
TrackerPrompts == camera = "asking" /\ ~answered

(* A run that is told to stop is left: the guns wind down, wedged or not,  *)
(* unless a wedged one keeps the supervisor's thread, or the tracker is at *)
(* the camera prompt.  A prompt is answered once, so from its answer on    *)
(* there is only the wedged gun to wait for.                               *)
RunWindsDown ==
  stop[Run] /\ pc \in {"running", "winding"}
    ~> (pc \notin {"running", "winding"} \/ StuckInKernel(Run) \/ TrackerPrompts)

(* The phases take turns: each finds the gun free and Ctrl-C its own.      *)
RunLoopInv == TypeOK /\ GunsAreFree /\ CtrlCHitsThePhase
=============================================================================
