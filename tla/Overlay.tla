------------------------------- MODULE Overlay -------------------------------
(***************************************************************************)
(* The border on the screen: the draw loop of src/src/overlay/mod.rs over  *)
(* its three backends (x11.rs, wayland.rs, macos.rs).  The tracker or the  *)
(* menu changes the scene at any time, the window system resizes, exposes, *)
(* covers and closes the window, and a Wayland compositor holds buffers    *)
(* for as long as it likes.  What a window system has to say waits in news *)
(* until the loop pumps; a size is [w, h], a picture the scene it shows.   *)
(***************************************************************************)
EXTENDS Naturals, Sequences, FiniteSets

CONSTANTS
    WindowSizes,    \* sizes a window may be given
    Unsized,        \* the size of a surface nobody has chosen one for
    MaxScenes,      \* bound: changes of the scene
    MaxNews,        \* bound: things the window system does to the window
    MaxHeld,        \* MAX_BUFFERS, 2 in the code
    None

ASSUME OverlayAssumption ==
    /\ {Unsized, None} \cap WindowSizes = {} /\ Unsized # None
    /\ MaxScenes \in Nat /\ MaxNews \in Nat /\ MaxHeld \in Nat \ {0}

VARIABLES
    system,     \* the backend: None, "x11", "wayland" or "macos"
    drawing,    \* where run_inner is
    owner,      \* "run" (calibrate: losing the window stops it) or "run_until"
    stopped,    \* the stop flag
    scene,      \* the shared Scene
    cur,        \* run_inner's copy of it
    sized,      \* run_inner's local size
    winSize,    \* what Backend::size answers
    last,       \* run_inner's last: what it drew, at which size
    glass,      \* what the window holds: [of, size], or None when it holds nothing whole
    news,       \* what pump has not handled
    shm,        \* WaylandBackend.buffers: [shows, sent, busy, size]
    covered,    \* X11: another window is above this one
    sinceRaise, \* "just" (under 50 ms), "while", "long" (2 s and more)
    scenes,     \* scene changes so far
    happenings  \* what the window system did so far

localVars   == <<cur, sized, last>>
windowVars  == <<winSize, glass, shm, covered, sinceRaise>>
outsideVars == <<scene, scenes, happenings>>
overlayVars == <<system, drawing, owner, stopped, localVars, windowVars, news, outsideVars>>

\* A calibration shows its targets and may flash; run shows the border or nothing.
Scenes   == [shows : {"border", "hidden"}, flash : {"no"}]
            \cup [shows : {"targets"}, flash : {"no", "on", "over"}]
ScenesOf == [run |-> {s \in Scenes : s.shows = "targets" /\ s.flash # "over"},
             run_until |-> {s \in Scenes : s.shows # "targets"}]
NoNews   == [size |-> None, exposed |-> FALSE, restacked |-> FALSE, closed |-> FALSE]
Alive    == drawing \in {"top", "pumping", "presenting"}
Over     == drawing \in {"ended", "failed"}

\* A flash is a timed state; once it is over the scene is different again.
Now(s) == [s EXCEPT !.flash = IF @ = "over" THEN "no" ELSE @]

OverlayInit ==
    /\ system = None /\ drawing = "closed" /\ owner = "run_until" /\ stopped = FALSE
    /\ scene = [shows |-> "border", flash |-> "no"] /\ cur = scene
    /\ sized = Unsized /\ winSize = Unsized /\ last = None /\ glass = None
    /\ news = NoNews /\ shm = <<>> /\ covered = FALSE /\ sinceRaise = "just"
    /\ scenes = 0 /\ happenings = 0

-----------------------------------------------------------------------------
\* open: Wayland first when the session has it, then X11 when it has that too.  A
\* layer surface must have been given a size before open returns.
OpenOn(available, works) ==
    IF {"wayland", "macos"} \cap available \cap works # {}
    THEN CHOOSE s \in {"wayland", "macos"} : s \in available \cap works
    ELSE IF "x11" \in available \cap works THEN "x11" ELSE None

OpenWindow ==
    /\ drawing = "closed"
    /\ owner' \in {"run", "run_until"}
    /\ scene' = [scene EXCEPT !.shows = IF owner' = "run" THEN "targets" ELSE "border"]
    /\ \E available \in {{"macos"}, {"x11"}, {"wayland"}, {"wayland", "x11"}, {}},
          works \in SUBSET {"x11", "wayland", "macos"}, s \in WindowSizes :
           /\ system' = OpenOn(available, works)
           /\ winSize' = IF system' = None THEN Unsized ELSE s
    /\ drawing' = IF system' = None THEN "failed" ELSE "top"
    /\ stopped' = (drawing' = "failed" /\ owner' = "run")
    /\ UNCHANGED <<localVars, glass, shm, covered, sinceRaise, news, scenes, happenings>>

-----------------------------------------------------------------------------
\* Outside: the worker and the menu write the scene, time ends a flash, somebody asks
\* everything to stop.
ChangeScene ==
    /\ drawing # "closed" /\ scenes < MaxScenes
    /\ scene' \in ScenesOf[owner] \ {scene}
    /\ scenes' = scenes + 1
    /\ UNCHANGED <<system, drawing, owner, stopped, localVars, windowVars, news, happenings>>

FlashEnds ==
    /\ scene.flash = "on"
    /\ scene' = [scene EXCEPT !.flash = "over"]
    /\ UNCHANGED <<system, drawing, owner, stopped, localVars, windowVars, news, scenes, happenings>>

StopAll ==
    /\ ~stopped /\ drawing # "closed"
    /\ stopped' = TRUE
    /\ UNCHANGED <<system, drawing, owner, localVars, windowVars, news, outsideVars>>

\* The window system.  AppKit tells this backend nothing; only X11 exposes and restacks.
\* A Wayland configure that leaves the size open takes the output's mode, some size too.
Happens ==
    /\ Alive /\ happenings < MaxNews
    /\ happenings' = happenings + 1
    /\ UNCHANGED <<system, drawing, owner, stopped, localVars, winSize, shm, sinceRaise,
                   scene, scenes>>

Resized ==
    /\ Happens
    /\ system \in {"x11", "wayland"}
    /\ \E s \in WindowSizes : news' = [news EXCEPT !.size = s]
    /\ UNCHANGED <<glass, covered>>

Exposed ==
    /\ Happens
    /\ system = "x11"
    /\ news' = [news EXCEPT !.exposed = TRUE] /\ glass' = None
    /\ UNCHANGED covered

\* Another window comes above; the server may or may not tell.
Covered ==
    /\ Happens
    /\ system = "x11"
    /\ covered' = TRUE
    /\ \E told \in BOOLEAN : news' = [news EXCEPT !.restacked = @ \/ told]
    /\ UNCHANGED glass

ClosedByServer ==
    /\ Happens
    /\ system \in {"x11", "wayland"}
    /\ news' = [news EXCEPT !.closed = TRUE]
    /\ UNCHANGED <<glass, covered>>

Releases(i) ==
    /\ i \in DOMAIN shm /\ shm[i].busy
    /\ shm' = [shm EXCEPT ![i].busy = FALSE]
    /\ UNCHANGED <<system, drawing, owner, stopped, localVars, winSize, glass, covered,
                   sinceRaise, news, outsideVars>>

TimePasses ==
    /\ Alive /\ system = "x11" /\ sinceRaise # "long"
    /\ sinceRaise' = IF sinceRaise = "just" THEN "while" ELSE "long"
    /\ UNCHANGED <<system, drawing, owner, stopped, localVars, winSize, glass, shm, covered,
                   news, outsideVars>>

-----------------------------------------------------------------------------
\* Mistakes the checks must notice.
DrawsOnChangeOnly(redraw, now) == last = None \/ last # now

LooksOnce ==
    /\ drawing = "top" /\ ~stopped
    /\ cur' = (IF last = None THEN Now(scene) ELSE cur) /\ sized' = winSize
    /\ drawing' = "pumping"
    /\ UNCHANGED <<system, owner, stopped, last, windowVars, news, outsideVars>>

NeverRaisesUnasked == sinceRaise # "just" /\ news.restacked

FirstBuffer(all) == IF all # <<>> THEN 1 ELSE 0

-----------------------------------------------------------------------------
\* run_inner: the top of the loop copies the scene and the size, then pumps.
LookAtScene ==
    /\ drawing = "top" /\ ~stopped
    /\ cur' = Now(scene) /\ sized' = winSize
    /\ drawing' = "pumping"
    /\ UNCHANGED <<system, owner, stopped, last, windowVars, news, outsideVars>>

\* The loop is over, or the window is gone: dropping the backend takes it off the
\* screen, and run, unlike run_until, tells the others.
Finish(how) ==
    /\ drawing' = how
    /\ stopped' = (stopped \/ owner = "run")
    /\ glass' = None /\ shm' = <<>>
    /\ UNCHANGED <<system, owner, localVars, winSize, covered, sinceRaise, news, outsideVars>>

StopDrawing == drawing = "top" /\ stopped /\ Finish("ended")

WindowGone == drawing = "pumping" /\ news.closed /\ Finish("ended")

\* X11: a told restack raises at most every 50 ms, and 2 s without a raise raise anyway.
RaiseDue == (sinceRaise # "just" /\ news.restacked) \/ sinceRaise = "long"

\* Draw when the scene or the size differs from what was drawn, or the window asks.
MustDraw(redraw, now) == last = None \/ last # now \/ redraw

Pump ==
    /\ drawing = "pumping" /\ ~news.closed
    /\ LET told   == IF news.size = None THEN winSize ELSE news.size
           redraw == told # winSize \/ news.exposed
           now    == [of |-> cur, size |-> sized]
       IN  /\ winSize' = told
           /\ drawing' = IF MustDraw(redraw, now) /\ sized # Unsized
                         THEN "presenting" ELSE "top"
    /\ news' = NoNews
    /\ IF system = "x11" /\ RaiseDue
       THEN covered' = FALSE /\ sinceRaise' = "just"
       ELSE UNCHANGED <<covered, sinceRaise>>
    /\ UNCHANGED <<system, owner, stopped, localVars, glass, shm, outsideVars>>

-----------------------------------------------------------------------------
Area(size) == size[1] * size[2]

Presented ==
    /\ drawing' = "top"
    /\ last' = [of |-> cur, size |-> sized]
    /\ UNCHANGED <<system, owner, stopped, cur, sized, winSize, news, outsideVars>>

\* The pixels were drawn for sized and are shown at winSize: with another width the
\* rows do not line up, and the window holds nothing whole.
Picture == IF sized = winSize THEN [of |-> cur, size |-> sized] ELSE None

\* present on X11: upload, shape, and raise.
PresentX11 ==
    /\ drawing = "presenting" /\ system = "x11"
    /\ Area(sized) = Area(winSize)
    /\ glass' = Picture
    /\ covered' = FALSE /\ sinceRaise' = "just"
    /\ UNCHANGED shm
    /\ Presented

PresentMac ==
    /\ drawing = "presenting" /\ system = "macos"
    /\ glass' = Picture
    /\ UNCHANGED <<shm, covered, sinceRaise>>
    /\ Presented

\* free_buffer: a resize throws the buffers away, all of them of the size before.
BuffersFor(size) == IF shm # <<>> /\ shm[1].size = size THEN shm ELSE <<>>

\* The first the compositor is not reading, or 0.
FreeBuffer(all) ==
    LET free == {i \in DOMAIN all : ~all[i].busy}
    IN  IF free = {} THEN 0 ELSE CHOOSE i \in free : \A j \in free : i <= j

\* A full set drops its oldest for the new one.
WithNewBuffer(all, size) ==
    Append(IF Len(all) >= MaxHeld THEN Tail(all) ELSE all,
           [shows |-> cur, sent |-> cur, busy |-> FALSE, size |-> size])

\* Pixels are written over whatever the buffer held, and the buffer is the compositor's
\* until it is released.
Handed(b) == [b EXCEPT !.shows = cur, !.busy = TRUE, !.sent = IF b.busy THEN @ ELSE cur]

PresentWayland ==
    /\ drawing = "presenting" /\ system = "wayland"
    /\ Area(sized) >= Area(winSize)
    /\ LET all == BuffersFor(winSize)
           i == FreeBuffer(all)
           s == IF i = 0 THEN WithNewBuffer(all, winSize) ELSE all
           k == IF i = 0 THEN Len(s) ELSE i
       IN  shm' = [s EXCEPT ![k] = Handed(@)]
    /\ glass' = Picture
    /\ UNCHANGED <<covered, sinceRaise>>
    /\ Presented

\* The pixels do not fit the window any more: present bails out, and the loop with it.
PresentFails ==
    /\ drawing = "presenting"
    /\ \/ system = "x11" /\ Area(sized) # Area(winSize)
       \/ system = "wayland" /\ Area(sized) < Area(winSize)
    /\ Finish("failed")

LoopSteps == LookAtScene \/ StopDrawing \/ WindowGone \/ Pump
             \/ PresentX11 \/ PresentMac \/ PresentWayland \/ PresentFails

OverlayNext ==
    \/ OpenWindow \/ ChangeScene \/ FlashEnds \/ StopAll
    \/ Resized \/ Exposed \/ Covered \/ ClosedByServer \/ TimePasses
    \/ (\E i \in DOMAIN shm : Releases(i))
    \/ LoopSteps

\* The loop is a thread that runs on, and time passes.
OverlayFairness == WF_overlayVars(LoopSteps) /\ WF_overlayVars(TimePasses)

-----------------------------------------------------------------------------
OverlayTypeOK ==
    /\ system \in {None, "x11", "wayland", "macos"}
    /\ drawing \in {"closed", "top", "pumping", "presenting", "ended", "failed"}
    /\ owner \in {"run", "run_until"} /\ stopped \in BOOLEAN
    /\ scene \in Scenes /\ cur \in Scenes
    /\ {sized, winSize} \subseteq WindowSizes \cup {Unsized}
    /\ {last, glass} \subseteq {None} \cup [of : Scenes, size : WindowSizes]
    /\ news \in [size : WindowSizes \cup {Unsized, None}, exposed : BOOLEAN,
                 restacked : BOOLEAN, closed : BOOLEAN]
    /\ Len(shm) <= MaxHeld
    /\ \A i \in DOMAIN shm :
           shm[i] \in [shows : Scenes, sent : Scenes, busy : BOOLEAN,
                       size : WindowSizes \cup {Unsized}]
    /\ covered \in BOOLEAN /\ sinceRaise \in {"just", "while", "long"}
    /\ scenes \in 0..MaxScenes /\ happenings \in 0..MaxNews

\* A buffer the compositor reads holds what was sent with it: a frame is never drawn over
\* while it is being shown (WaylandBackend::free_buffer, present).
SentBuffersAreKept == \A i \in DOMAIN shm : shm[i].busy => shm[i].shows = shm[i].sent

\* Between two rounds the loop believes its window is up to date only when it is: a
\* window whose last drawing is the scene, at its size, with nothing left to handle,
\* shows that scene whole (last, changed and Event::Redraw in run_inner).
BelievesRightly ==
    drawing = "top" /\ news = NoNews /\ last = [of |-> Now(scene), size |-> winSize]
        => glass = last

\* Whatever order changes, resizes, exposures and flashes come in, a loop that keeps
\* running ends up showing the scene as it now is (run_inner).
SettlesOnTheScene ==
    <>[](Over \/ drawing = "closed" \/ (glass # None /\ glass.of = Now(scene)))

\* A window that comes above the border does not stay there: the border "climbs back to
\* the top whenever anything else appears", told of it or not (raise, RAISE_MAX_GAP).
ClimbsBack == covered ~> (~covered \/ Over)

\* "The window was exposed or resized; draw again": a new size is drawn at, it does not
\* end the overlay (overlay::Event::Redraw).
ResizeIsSurvived == drawing # "failed" \/ system = None

\* The window shows what the loop takes it to show, and no buffer changes under it.
OverlayInv == OverlayTypeOK /\ SentBuffersAreKept /\ BelievesRightly

\* The border is, in the end, drawn as it should be and on top.
OverlaySettles == SettlesOnTheScene /\ ClimbsBack
=============================================================================
