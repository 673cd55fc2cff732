------------------------------- MODULE Preview -------------------------------
(***************************************************************************)
(* debug track --preview on macOS: a tracker on a worker thread feeds the  *)
(* page that owns the main thread (track_with_preview in src/src/main.rs,  *)
(* the page in src/src/preview/appkit.rs).  They share the stop flag and   *)
(* Shared, of which the page needs done; the images are data.              *)
(***************************************************************************)
EXTENDS Naturals

CONSTANT MaxImages      \* bound: images the worker makes

ASSUME PreviewAssumption == MaxImages \in Nat

VARIABLES
    pane,       \* the main thread: "opening", "up", "closing", "joining", "over"
    worker,     \* "none", "starting", "tracking", "leaving", "ended", "panicked"
    quit,       \* the stop flag
    done,       \* Shared.done
    serial,     \* Shared.serial
    picture,    \* the page's seen: the serial whose images it shows
    outcome,    \* what the command answers
    allowed,    \* external: whether the camera prompt has been answered
    poisoned    \* whether a panic has poisoned Shared's lock

previewVars == <<pane, worker, quit, done, serial, picture, outcome, allowed, poisoned>>
stayVars    == <<allowed, poisoned>>

PreviewInit ==
    /\ pane = "opening" /\ worker = "none" /\ quit = FALSE /\ done = FALSE
    /\ serial = 0 /\ picture = 0 /\ outcome = "none"
    /\ allowed \in BOOLEAN /\ poisoned = FALSE

SpawnWorker ==
    /\ worker = "none"
    /\ worker' = "starting"
    /\ UNCHANGED <<stayVars, pane, quit, done, serial, picture, outcome>>

\* run_tracker_with opens the camera, inside ensure_access until the user has answered the
\* prompt, whatever stop says; then frame after frame until stop or an error.
AtPrompt == worker = "starting" /\ ~allowed

AnswerPrompt ==
    /\ AtPrompt
    /\ allowed' = TRUE
    /\ UNCHANGED <<pane, worker, quit, done, serial, picture, outcome, poisoned>>

StartTracking ==
    /\ worker = "starting" /\ allowed
    /\ worker' \in {"tracking", "leaving"}
    /\ UNCHANGED <<stayVars, pane, quit, done, serial, picture, outcome>>

\* The hook: everything under one lock, images on every second frame.
HookFrame ==
    /\ worker = "tracking" /\ ~quit /\ serial < MaxImages
    /\ serial' = serial + 1
    /\ UNCHANGED <<stayVars, pane, worker, quit, done, picture, outcome>>

StopTracking ==
    /\ worker = "tracking" /\ quit
    /\ worker' = "leaving"
    /\ UNCHANGED <<stayVars, pane, quit, done, serial, picture, outcome>>

\* An error; or a panic, which in the hook poisons the lock it holds.
TrackerFails ==
    /\ worker = "tracking"
    /\ worker' \in {"leaving", "panicked"}
    /\ poisoned' \in {FALSE, worker' = "panicked"}
    /\ UNCHANGED <<pane, quit, done, serial, picture, outcome, allowed>>

-----------------------------------------------------------------------------
\* Mistakes the checks must notice.
EndsQuietly ==
    /\ worker = "leaving"
    /\ worker' = "ended"
    /\ UNCHANGED <<stayVars, pane, quit, done, serial, picture, outcome>>

-----------------------------------------------------------------------------
TellDone ==
    /\ worker = "leaving"
    /\ done' = TRUE
    /\ worker' = "ended"
    /\ UNCHANGED <<stayVars, pane, quit, serial, picture, outcome>>

\* appkit::run: a window and its timer, or an error before them.
OpenPage ==
    /\ pane = "opening" /\ worker # "none"
    /\ pane' = "up"
    /\ UNCHANGED <<stayVars, worker, quit, done, serial, picture, outcome>>

\* Shown or not, stop is set before the worker is joined.
PageFails ==
    /\ pane = "opening" /\ worker # "none"
    /\ pane' = "joining" /\ quit' = TRUE /\ outcome' = "error"
    /\ UNCHANGED <<stayVars, worker, done, serial, picture>>

PressEsc ==
    /\ pane = "up"
    /\ quit' = TRUE
    /\ UNCHANGED <<stayVars, pane, worker, done, serial, picture, outcome>>

\* The timer: new images are shown, and either end of the work ends both; behind a poisoned
\* lock it returns at once.
TickPage ==
    /\ pane = "up" /\ ~poisoned
    /\ picture' = serial
    /\ quit' = (quit \/ done)
    /\ pane' = IF done \/ quit THEN "closing" ELSE "up"
    /\ UNCHANGED <<stayVars, worker, done, serial, outcome>>

ClosePage ==
    /\ pane = "closing"
    /\ pane' = "joining" /\ quit' = TRUE
    /\ UNCHANGED <<stayVars, worker, done, serial, picture, outcome>>

JoinWorker ==
    /\ pane = "joining" /\ worker \in {"ended", "panicked"}
    /\ pane' = "over"
    /\ outcome' = IF worker = "panicked" \/ outcome = "error" THEN "error" ELSE "answered"
    /\ UNCHANGED <<stayVars, worker, quit, done, serial, picture>>

WorkerSteps == StartTracking \/ HookFrame \/ StopTracking \/ TellDone
PageSteps   == SpawnWorker \/ OpenPage \/ TickPage \/ ClosePage \/ JoinWorker

PreviewNext == WorkerSteps \/ PageSteps \/ TrackerFails \/ PageFails \/ PressEsc
               \/ AnswerPrompt

\* Both threads run on, and the page's timer fires.  Nobody need answer the prompt.
PreviewFairness == WF_previewVars(WorkerSteps) /\ WF_previewVars(PageSteps)

-----------------------------------------------------------------------------
PreviewTypeOK ==
    /\ pane \in {"opening", "up", "closing", "joining", "over"}
    /\ worker \in {"none", "starting", "tracking", "leaving", "ended", "panicked"}
    /\ quit \in BOOLEAN /\ done \in BOOLEAN
    /\ {serial, picture} \subseteq 0..MaxImages /\ picture <= serial
    /\ outcome \in {"none", "error", "answered"}
    /\ allowed \in BOOLEAN /\ poisoned \in BOOLEAN
    /\ (pane \in {"joining", "over"} => quit)

\* A page nobody works for any more goes away, and Esc ends the command: the worker is told,
\* joined and answered for (the timer's block, track_with_preview); unless it waits for the
\* user to answer the camera prompt, or has poisoned the lock the timer needs.
PreviewEnds ==
    /\ quit ~> (pane = "over" \/ AtPrompt \/ poisoned)
    /\ (worker = "ended") ~> (pane = "over")
=============================================================================
