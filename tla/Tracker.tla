------------------------------- MODULE Tracker -------------------------------
(***************************************************************************)
(* One gun's tracking loop: run_tracker_with in src/src/runtime.rs, with   *)
(* its jump guard, its smoother, the positions it streams to the gun, and  *)
(* the pointer it drives on macOS (src/src/cursor.rs).  A turn of the loop *)
(* takes a frame, solves it, tells the gun where it aims, reads the gun's  *)
(* button reports and calls the hook.                                      *)
(*                                                                         *)
(* Aims are points with two relations between them, "no further apart than *)
(* the jump limit" and "no further apart than the smoother's reset"; the   *)
(* smoother's arithmetic is any result it can have, the camera's picture   *)
(* is what the solver makes of it.  AimMap is an injection and left out.   *)
(***************************************************************************)
EXTENDS Naturals, Sequences, SequencesExt

CONSTANTS
    Points,          \* aims, in percent of the screen
    Centre,          \* [50, 50]
    NearRel,         \* pairs of points at most jump_limit apart
    CloseRel,        \* pairs of points at most HoverSmoother.reset apart
    Supports,        \* what solves may rest on: [sides, tabs]
    Buttons,         \* the buttons a report is turned into clicks for, in order
    Modes,           \* which values of "the driver moves the cursor" to start in
    Heartbeat,       \* TrackerOptions.heartbeat
    MaxTimeouts,     \* 120 in the code
    MaxReports,      \* bound: reports read in one turn
    None

ASSUME ConstantsAssumption ==
    /\ Centre \in Points
    /\ None \notin Points
    /\ NearRel \subseteq Points \X Points
    /\ CloseRel \subseteq Points \X Points
    /\ \A p \in Points : <<p, p>> \in CloseRel
    /\ Supports \subseteq [sides : 0..4, tabs : Nat]
    /\ Buttons \in Seq(Range(Buttons))
    /\ Modes \subseteq BOOLEAN
    /\ Heartbeat \in BOOLEAN
    /\ MaxTimeouts \in Nat \ {0}
    /\ MaxReports \in Nat

VARIABLES
    pc,            \* where in its turn the loop is
    stop,          \* the flag of the run
    synthesising,  \* cursor.is_some(): the driver moves the system's pointer
    seen,          \* what the solver made of the frame in hand
    last,          \* JumpGuard.last: the aim last let through, and its support
    pending,       \* JumpGuard.pending
    smooth,        \* HoverSmoother.pos
    lastAim,       \* last_aim
    timeouts,      \* Writes.timeouts
    wrote,         \* what became of this turn's position: "no", "ok", "late"
    told,          \* the last position that reached the gun
    calls,         \* set_button calls this turn's reports have left to do
    down,          \* Cursor.left_down, right_down, middle_down
    hidden,        \* Cursor.hidden
    pressed,       \* the buttons the window server holds down for this cursor
    why,           \* what ended the loop
    shown,         \* history: the last frame solved and what was done with it
    since          \* history: what came last, a "loss" of the border or an "aim"

aimVars   == <<last, pending, smooth, lastAim, shown, since>>
gunVars   == <<timeouts, wrote, told>>
curVars   == <<down, hidden, pressed>>
vars == <<pc, stop, synthesising, seen, aimVars, gunVars, calls, curVars, why>>

Near(a, b)  == <<a, b>> \in NearRel
Close(a, b) == <<a, b>> \in CloseRel

\* What a frame can show: no border, a border too rough to aim by (a hull, or an
\* aim off the screen by more than a quarter), or an aim on some support.
Nothing == [kind |-> "nothing"]
Rough   == [kind |-> "rough"]
Sights  == [kind : {"aim"}, at : Points, by : Supports]
Frames  == {Nothing, Rough} \cup Sights

Lost == [verdict |-> "lost"]
Verdicts == {Lost} \cup [verdict : {"held", "taken"}, at : Points, by : Supports]

Keys == Range(Buttons)

Init ==
    /\ pc = "start" /\ stop = FALSE /\ synthesising \in Modes
    /\ seen = Nothing /\ last = None /\ pending = None
    /\ smooth = None /\ lastAim = None
    /\ timeouts = 0 /\ wrote = "no" /\ told = None
    /\ calls = <<>> /\ down = {} /\ hidden = FALSE /\ pressed = {}
    /\ why = "running"
    /\ shown = Lost /\ since = "loss"

-----------------------------------------------------------------------------
(* Mistakes the checks must notice: a drop that lifts nothing, a rough     *)
(* frame that keeps what was held, a gap that keeps the smoother's aim, a  *)
(* guard that waits for its first leap, trusts what it holds or keeps what *)
(* it let through, and a silent frame that counts as a write.              *)
LiftsNothing(reason, d) ==
    /\ pc' = "ended" /\ why' = reason
    /\ hidden' = FALSE /\ down' = {} /\ pressed' = pressed /\ calls' = <<>>

KeepsHeld ==
    /\ smooth' = None /\ shown' = Lost /\ since' = "loss"
    /\ UNCHANGED <<last, pending, lastAim>>

KeepsSmooth ==
    /\ pending' = None /\ shown' = Lost /\ since' = "loss"
    /\ UNCHANGED <<last, smooth, lastAim>>

HoldsFirst(f) ==
    /\ pending' = IF pending = None THEN f.at ELSE pending
    /\ shown' = [verdict |-> "held", at |-> f.at, by |-> f.by]
    /\ UNCHANGED <<last, smooth, lastAim, since>>

TrustsHeld(f) ==
    /\ pending' = f.at /\ last' = [at |-> f.at, by |-> f.by]
    /\ shown' = [verdict |-> "held", at |-> f.at, by |-> f.by]
    /\ UNCHANGED <<smooth, lastAim, since>>

KeepsPending(f, a) ==
    /\ last' = [at |-> f.at, by |-> f.by] /\ pending' = pending
    /\ smooth' = a /\ lastAim' = a
    /\ shown' = [verdict |-> "taken", at |-> f.at, by |-> f.by]
    /\ since' = "aim"

Forgives(h) ==
    /\ pc' = "poll" /\ hidden' = h /\ timeouts' = 0
    /\ UNCHANGED <<wrote, told, calls, down, pressed, why>>

-----------------------------------------------------------------------------
(* How the loop is left.                                                   *)

\* The function returns: Cursor's drop shows the pointer and lifts what is
\* still down among `d`; after a post has failed, that may fail as well.
Ends(reason, d) ==
    /\ pc' = "ended" /\ why' = reason
    /\ hidden' = FALSE /\ down' = {}
    /\ IF reason = "post" THEN pressed' \in {pressed \ s : s \in SUBSET d}
                          ELSE pressed' = pressed \ d
    /\ calls' = <<>>

\* Camera::open, Cursor::new or cam.start fail, or the loop begins.
Start ==
    /\ pc = "start"
    /\ \/ pc' = "wait" /\ UNCHANGED <<calls, curVars, why>>
       \/ Ends("error", down)
    /\ UNCHANGED <<stop, synthesising, seen, aimVars, gunVars>>

\* The supervisor, or Ctrl-C, asks the loop to end.
AskToStop ==
    /\ ~stop /\ stop' = TRUE
    /\ UNCHANGED <<pc, synthesising, seen, aimVars, gunVars, calls, curVars, why>>

\* The loop's condition.
Stops ==
    /\ pc = "wait" /\ stop /\ Ends("stop", down)
    /\ UNCHANGED <<stop, synthesising, seen, aimVars, gunVars>>

-----------------------------------------------------------------------------
(* The frame.                                                              *)

FrameArrives ==
    /\ pc = "wait" /\ ~stop
    /\ pc' = "solve" /\ seen' \in Frames /\ wrote' = "no"
    /\ UNCHANGED <<stop, synthesising, aimVars, timeouts, told, calls, curVars, why>>

\* Nothing within three seconds, or a frame that cannot be used: next turn.
NoFrame ==
    /\ pc = "wait" /\ ~stop
    /\ wrote' = "no"
    /\ UNCHANGED <<pc, stop, synthesising, seen, aimVars, timeouts, told, calls,
                   curVars, why>>

CameraFails ==
    /\ pc = "wait" /\ ~stop /\ Ends("error", down)
    /\ UNCHANGED <<stop, synthesising, seen, aimVars, gunVars>>

-----------------------------------------------------------------------------
(* Guard and smoother.                                                     *)

Weaker(s, t) ==
    \/ s.sides < t.sides
    \/ s.sides = t.sides /\ s.sides < 4 /\ s.tabs + 2 < t.tabs

Suspicious(f) ==
    last # None /\ Weaker(f.by, last.by) /\ ~Near(f.at, last.at)

Confirmed(f) == pending # None /\ Near(f.at, pending)

\* JumpGuard.filter returns None.
GuardHolds(f) == Suspicious(f) /\ ~Confirmed(f)

Hold(f) ==
    /\ pending' = f.at
    /\ shown' = [verdict |-> "held", at |-> f.at, by |-> f.by]
    /\ UNCHANGED <<last, smooth, lastAim, since>>

\* HoverSmoother.filter: where it starts, or restarts, it gives the aim itself;
\* otherwise something between the aim and its prediction.
Smoothed(f) == IF smooth = None THEN {f.at} ELSE {q \in Points : Close(q, f.at)}

Take(f, a) ==
    /\ last' = [at |-> f.at, by |-> f.by] /\ pending' = None
    /\ smooth' = a /\ lastAim' = a
    /\ shown' = [verdict |-> "taken", at |-> f.at, by |-> f.by]
    /\ since' = "aim"

\* JumpGuard.lost and HoverSmoother.reset.
Lose ==
    /\ pending' = None /\ smooth' = None
    /\ shown' = Lost /\ since' = "loss"
    /\ UNCHANGED <<last, lastAim>>

-----------------------------------------------------------------------------
(* The position.                                                           *)

\* send_position: one lost write is nothing, MaxTimeouts of them in a row are a
\* dead line.  `h` is whether the pointer is hidden by then.
Send(p, h) ==
    \/ /\ wrote' = "ok" /\ told' = p /\ timeouts' = 0
       /\ pc' = "poll" /\ hidden' = h /\ UNCHANGED <<calls, down, pressed, why>>
    \/ /\ wrote' = "late" /\ told' = told /\ timeouts' = timeouts + 1
       /\ IF timeouts' >= MaxTimeouts
          THEN Ends("dead line", down)
          ELSE pc' = "poll" /\ hidden' = h /\ UNCHANGED <<calls, down, pressed, why>>
    \/ Ends("error", down) /\ UNCHANGED gunVars

SendNothing(h) ==
    /\ pc' = "poll" /\ hidden' = h
    /\ UNCHANGED <<gunVars, calls, down, pressed, why>>

\* Cursor.move_to warps, posts and then hides; its error ends the loop.
MoveAndSend(a) == Send(a, TRUE) \/ (Ends("post", down) /\ UNCHANGED gunVars)

\* A border with an aim that the guard lets through.
SolveTaken ==
    /\ pc = "solve" /\ seen.kind = "aim" /\ ~GuardHolds(seen)
    /\ \E a \in Smoothed(seen) :
          /\ Take(seen, a)
          /\ IF synthesising THEN MoveAndSend(a) ELSE Send(a, hidden)
    /\ seen' = Nothing /\ UNCHANGED <<stop, synthesising>>

\* A border, but no aim to act on: the gun's own pointer is held where it was,
\* the driver's is left alone and nothing is sent.
KeepAim ==
    IF synthesising \/ lastAim = None THEN SendNothing(hidden) ELSE Send(lastAim, hidden)

SolveHeld ==
    /\ pc = "solve" /\ seen.kind = "aim" /\ GuardHolds(seen)
    /\ Hold(seen) /\ KeepAim
    /\ seen' = Nothing /\ UNCHANGED <<stop, synthesising>>

SolveRough ==
    /\ pc = "solve" /\ seen.kind = "rough"
    /\ Lose /\ KeepAim
    /\ seen' = Nothing /\ UNCHANGED <<stop, synthesising>>

\* No border: the pointer is given back, the gun is told the last aim.
SolveNothing ==
    /\ pc = "solve" /\ seen.kind = "nothing"
    /\ Lose
    /\ IF lastAim # None THEN Send(lastAim, FALSE)
       ELSE IF synthesising \/ Heartbeat THEN Send(Centre, FALSE)
       ELSE SendNothing(FALSE)
    /\ seen' = Nothing /\ UNCHANGED <<stop, synthesising>>

-----------------------------------------------------------------------------
(* The buttons.                                                            *)

\* One report is a set of buttons held; it makes one set_button call for each.
CallsOf(held) ==
    [i \in 1..Len(Buttons) |-> [button |-> Buttons[i], held |-> Buttons[i] \in held]]

\* The reports of one turn: SequencesExt's bounded sequences of sets of buttons.
Poll ==
    /\ pc = "poll"
    /\ \/ \E reports \in BoundedSeq(SUBSET Keys, MaxReports) :
             /\ pc' = "press"
             /\ calls' = IF synthesising
                         THEN FlattenSeq([i \in DOMAIN reports |-> CallsOf(reports[i])])
                         ELSE <<>>
             /\ UNCHANGED <<curVars, why>>
       \/ Ends("error", down)
    /\ UNCHANGED <<stop, synthesising, seen, aimVars, gunVars>>

\* Cursor.set_button: the flag changes first, then the event is posted.
Press ==
    /\ pc = "press" /\ calls # <<>>
    /\ LET c == Head(calls)
           d == IF c.held THEN down \cup {c.button} ELSE down \ {c.button}
       IN  \/ /\ down' = d /\ pressed' = IF d = down THEN pressed ELSE d
              /\ calls' = Tail(calls)
              /\ UNCHANGED <<pc, hidden, why>>
           \/ d # down /\ Ends("post", d)
    /\ UNCHANGED <<stop, synthesising, seen, aimVars, gunVars>>

PressesDone ==
    /\ pc = "press" /\ calls = <<>> /\ pc' = "hook"
    /\ UNCHANGED <<stop, synthesising, seen, aimVars, gunVars, calls, curVars, why>>

\* The caller's hook lets the loop go on, or ends it.
Hook ==
    /\ pc = "hook"
    /\ \/ pc' = "wait" /\ UNCHANGED <<calls, curVars, why>>
       \/ Ends("hook", down)
    /\ UNCHANGED <<stop, synthesising, seen, aimVars, gunVars>>

-----------------------------------------------------------------------------
Solve == SolveTaken \/ SolveHeld \/ SolveRough \/ SolveNothing

Turn == \/ Start \/ Stops \/ FrameArrives \/ NoFrame \/ CameraFails
        \/ Solve \/ Poll \/ Press \/ PressesDone \/ Hook

Next == Turn \/ AskToStop

Spec == Init /\ [][Next]_vars

\* The thread runs; every wait for a frame ends within three seconds.
FairSpec == Spec /\ WF_vars(Turn)
-----------------------------------------------------------------------------
(* What must hold.                                                         *)

\* A step that deals with the frame in hand.
Solving == pc = "solve" /\ pc' # "solve"

\* An aim that leaps away on weaker support is let through only on the word of two
\* frames in a row: the last frame that was solved had been held for an aim near it.
\* (Frames that time out or arrive corrupt may come between, lost ones may not.)
\* JumpGuard's promise.
LeapIsConfirmed ==
    [][ Solving /\ shown'.verdict = "taken" =>
          \/ ~Suspicious(seen)
          \/ shown.verdict = "held" /\ Near(seen.at, shown.at) ]_vars

\* The guard never holds an aim near the one of the frame before, whether that one
\* was held or let through: a gun held still is not silenced.
AgreementIsHeeded ==
    [][ Solving /\ seen.kind = "aim" /\ shown.verdict # "lost"
        /\ Near(seen.at, shown.at) => shown'.verdict = "taken" ]_vars

\* After the border was lost the first aim let through is the solve's own: nothing of
\* the motion before the gap is blended into it, even if frames were held meanwhile.
FirstAimIsRaw ==
    [][ Solving /\ since = "loss" /\ shown'.verdict = "taken" => lastAim' = seen.at ]_vars

\* While writes get through, the gun points where the guard last let it: the position
\* it was told last is within the smoother's reach of the last aim let through,
\* whatever was held, lost, repeated or dropped since.
GunIsTold ==
    pc \in {"wait", "poll", "press", "hook"} /\ timeouts = 0 /\ last # None
        => told # None /\ Close(told, last.at)

\* A session that ends, for whatever reason but a refused event, leaves the system
\* no button held and no pointer hidden (Cursor's Drop).
PointerIsGivenBack ==
    pc = "ended" => ~hidden /\ (why # "post" => pressed = {})

\* A line on which every write is lost ends the session, whatever the frames show in
\* between: frames without a write do not count as writes that got through.
DeadLineEnds ==
    []<>(wrote = "late") /\ <>[](wrote # "ok") => <>(pc = "ended")

\* Why the above holds: what the guard remembers is the frame shown last, what the
\* smoother remembers is an aim since the last loss, what the gun was told is the aim
\* last acted on, and the window server holds what the cursor thinks is down.
GuardRemembers ==
    /\ pending # None <=> shown.verdict = "held"
    /\ shown.verdict = "held" => pending = shown.at
    /\ shown.verdict = "taken" => last = [at |-> shown.at, by |-> shown.by]
AimIsLast   == last # None => lastAim # None /\ Close(lastAim, last.at)
TellsAim    == pc # "ended" /\ timeouts = 0 /\ last # None => told = lastAim
ButtonsAgree == pc # "ended" => pressed = down

TrackInv ==
    /\ seen \in Frames /\ shown \in Verdicts
    /\ last \in {None} \cup [at : Points, by : Supports]
    /\ {pending, smooth, lastAim} \subseteq {None} \cup Points
    /\ timeouts \in Nat
    /\ pc = "start" => last = None
    /\ since = "loss" => smooth = None
    /\ GuardRemembers /\ AimIsLast /\ TellsAim /\ ButtonsAgree
    /\ PointerIsGivenBack

\* "Stream positions from the first frame ... a synthesised cursor always does"
\* (TrackerOptions.heartbeat): every solved frame writes a position.
PositionsFlow == pc = "poll" /\ synthesising => wrote # "no"
=============================================================================
