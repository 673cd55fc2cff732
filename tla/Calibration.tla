----------------------------- MODULE Calibration -----------------------------
(***************************************************************************)
(* The measuring hook of calibrate (src/src/main.rs): what one frame of    *)
(* the tracking loop does to the capture of the target that is shown, and  *)
(* what becomes of the captures.  Times are ages in ticks, aims points on  *)
(* one axis; the code's median and distances are of two such axes.         *)
(***************************************************************************)
EXTENDS Naturals, Sequences, SequencesExt, FiniteSets

CONSTANTS
    Targets,        \* targets on the grid
    Aims,           \* where the gun may be seen to point
    FrameGaps,      \* ticks from one frame to the next
    Spell,          \* window, 600 ms in the code
    GiveUp,         \* give_up, 1200 ms in the code
    MinGood,        \* min_good, 12 in the code
    Samples,        \* max(samples, 4), 24 unless set
    DwellRadius, SteadyTolerance, RearmDistance,
    Unseen          \* no aim, no press, no capture

ASSUME CalibrationAssumption ==
    /\ Targets \in Nat \ {0}
    /\ Aims \subseteq Nat /\ Unseen \notin Nat
    /\ FrameGaps \subseteq Nat
    /\ {Spell, GiveUp, MinGood, Samples} \subseteq Nat
    /\ {DwellRadius, SteadyTolerance, RearmDistance} \subseteq Nat
    /\ MinGood > 0

VARIABLES
    trial,      \* "measuring", "measured" (the hook has stopped), "ended"
    capture,    \* the --capture mode: "dwell", "trigger", "either"
    ring,       \* the usable aims of the window: [age, aim, target]
    pull,       \* pending: the age of the pull that is latched
    wasDown,    \* trigger_was_down
    armed,      \* dwell_armed
    takenAt,    \* captured_at
    idx,        \* targets measured
    quads,      \* out.quads: the kind of border each capture was made with
    bore,       \* the borders the offset to be saved is computed from
    moved       \* history: the aim has been seen away from the last capture

calVars == <<trial, capture, ring, pull, wasDown, armed, takenAt, idx, quads, bore, moved>>

\* A border found by its lines or tabs gives an aim unless the guard holds it; one that
\* is known by its hull alone is clipped, and gives none.
Border  == {"lines", "clipped", "none"}
Signals == {"down", "up", "enabled"}
Sights  == {s \in [border : Border, aim : Aims \cup {Unseen}] :
                s.aim # Unseen => s.border = "lines"}

CalInit ==
    /\ trial = "measuring" /\ capture \in {"dwell", "trigger", "either"}
    /\ ring = <<>> /\ pull = Unseen /\ wasDown = FALSE /\ armed = TRUE
    /\ takenAt = Unseen /\ idx = 0 /\ quads = <<>> /\ bore = {} /\ moved = TRUE

-----------------------------------------------------------------------------
Gap(a, b) == IF a < b THEN b - a ELSE a - b

\* What a sort puts in place k: the least value that k of them do not exceed.
Ranked(s, k) ==
    LET values == {s[i] : i \in DOMAIN s}
        enough == {v \in values : k <= Cardinality({i \in DOMAIN s : s[i] <= v})}
    IN  CHOOSE v \in enough : \A w \in enough : v <= w

\* median: the middle one, or the mean of the middle two.
MedianOf(s) ==
    LET h == Len(s) \div 2
    IN  IF Len(s) % 2 = 1 THEN Ranked(s, h + 1) ELSE (Ranked(s, h) + Ranked(s, h + 1)) \div 2

AimsIn(r)        == [i \in DOMAIN r |-> r[i].aim]
Within(r, d)     == \A i \in DOMAIN r : Gap(r[i].aim, MedianOf(AimsIn(r))) <= d

\* An edge of the trigger's bit, or the event of low-resource mode, is a pull.
Pulled(events) ==
    \E i \in DOMAIN events :
        \/ events[i] = "enabled"
        \/ events[i] = "down" /\ ~(IF i = 1 THEN wasDown ELSE events[i - 1] = "down")

HeldAfter(events) ==
    LET bits == SelectSeq(events, LAMBDA e : e # "enabled")
    IN  IF bits = <<>> THEN wasDown ELSE Last(bits) = "down"

-----------------------------------------------------------------------------
\* Mistakes the checks must notice.
LatchedForever(p) == FALSE

NeverDisarms(r) == capture # "trigger" /\ Len(r) >= Samples /\ Within(r, DwellRadius)

-----------------------------------------------------------------------------
\* The ring when a frame comes gap ticks after the last, with the frame's aim behind.
Aged(r, gap) == [i \in DOMAIN r |-> [r[i] EXCEPT !.age = @ + gap]]
Pushed(r, aim) ==
    IF aim = Unseen THEN r ELSE Append(r, [age |-> 0, aim |-> aim, target |-> idx])

\* The front is taken off for as long as it is too old.
Recent(r) ==
    LET first == CHOOSE i \in 1 .. Len(r) + 1 : /\ i <= Len(r) => r[i].age <= Spell
                                                /\ \A j \in 1 .. i - 1 : r[j].age > Spell
    IN  SubSeq(r, first, Len(r))

Windowed(r, gap, aim) == Recent(Pushed(Aged(r, gap), aim))

Latched(gap, events) ==
    IF pull # Unseen THEN pull + gap
    ELSE IF capture # "dwell" /\ Pulled(events) THEN 0 ELSE Unseen

TooLate(p) == p # Unseen /\ p > GiveUp

Steady(r) == capture # "trigger" /\ armed /\ Len(r) >= Samples /\ Within(r, DwellRadius)

MovedOff(s) == takenAt # Unseen /\ s.aim # Unseen /\ Gap(s.aim, takenAt) > RearmDistance

\* What every frame does before it is judged.
Looks(events) ==
    /\ trial = "measuring"
    /\ wasDown' = HeldAfter(events)

\* No capture yet: the latched pull may be given up, and the dwell may be armed again.
NotYet(s, gap, events) ==
    LET r == Windowed(ring, gap, s.aim)
        p == Latched(gap, events)
    IN  /\ Looks(events)
        /\ ~(Len(r) >= MinGood /\ (Steady(r) \/ p # Unseen))
        /\ ring' = r
        /\ pull' = IF TooLate(p) THEN Unseen ELSE p
        /\ armed' = (armed \/ MovedOff(s))
        /\ moved' = (moved \/ MovedOff(s))
        /\ UNCHANGED <<trial, capture, takenAt, idx, quads, bore>>

\* The samples disagree: the pull is dropped and the window begins anew.
Unsteady(s, gap, events) ==
    LET r == Windowed(ring, gap, s.aim)
        p == Latched(gap, events)
    IN  /\ Looks(events)
        /\ Len(r) >= MinGood /\ (Steady(r) \/ p # Unseen)
        /\ ~Within(r, SteadyTolerance)
        /\ pull' = Unseen /\ ring' = <<>>
        /\ moved' = (moved \/ MovedOff(s))
        /\ UNCHANGED <<trial, capture, armed, takenAt, idx, quads, bore>>

-----------------------------------------------------------------------------
\* A mistake the checks must notice.
KeepsRing(s, gap, events) ==
    LET r == Windowed(ring, gap, s.aim)
        p == Latched(gap, events)
    IN  /\ Looks(events)
        /\ Len(r) >= MinGood /\ (Steady(r) \/ p # Unseen)
        /\ Within(r, SteadyTolerance)
        /\ takenAt' = MedianOf(AimsIn(r)) /\ quads' = Append(quads, s.border)
        /\ pull' = Unseen /\ armed' = FALSE /\ moved' = FALSE /\ ring' = r
        /\ idx' = idx + 1
        /\ trial' = IF idx + 1 = Targets THEN "measured" ELSE trial
        /\ UNCHANGED <<capture, bore>>

-----------------------------------------------------------------------------
\* The median is the target's measure; the border kept with it is this frame's.
Capture(s, gap, events) ==
    LET r == Windowed(ring, gap, s.aim)
        p == Latched(gap, events)
    IN  /\ Looks(events)
        /\ Len(r) >= MinGood /\ (Steady(r) \/ p # Unseen)
        /\ Within(r, SteadyTolerance)
        /\ takenAt' = MedianOf(AimsIn(r)) /\ quads' = Append(quads, s.border)
        /\ pull' = Unseen /\ armed' = FALSE /\ moved' = FALSE /\ ring' = <<>>
        /\ idx' = idx + 1
        /\ trial' = IF idx + 1 = Targets THEN "measured" ELSE trial
        /\ UNCHANGED <<capture, bore>>

\* Ctrl-C, Escape or an error ends the tracking.  The targets measured are kept unless it
\* was an error.
StopMeasuring ==
    /\ trial = "measuring"
    /\ trial' \in {"measured", "ended"}
    /\ ring' = <<>> /\ pull' = Unseen
    /\ UNCHANGED <<capture, wasDown, armed, takenAt, idx, quads, bore, moved>>

\* The offset is the mean over the targets that have a border, and is saved if the user
\* says so.
SaveBore ==
    /\ trial = "measured"
    /\ bore' \in {{}, {i \in DOMAIN quads : quads[i] # "none"}}
    /\ trial' = "ended"
    /\ UNCHANGED <<capture, ring, pull, wasDown, armed, takenAt, idx, quads, moved>>

FrameSeen ==
    \E s \in Sights, gap \in FrameGaps, events \in {<<>>} \cup {<<e>> : e \in Signals}
                                                   \cup {<<"down", "up">>} :
        NotYet(s, gap, events) \/ Unsteady(s, gap, events) \/ Capture(s, gap, events)

CalNext == FrameSeen \/ StopMeasuring \/ SaveBore

-----------------------------------------------------------------------------
CalTypeOK ==
    /\ trial \in {"measuring", "measured", "ended"}
    /\ capture \in {"dwell", "trigger", "either"}
    /\ \A i \in DOMAIN ring : ring[i].age \in 0..Spell /\ ring[i].aim \in Aims
    /\ pull \in Nat \cup {Unseen}
    /\ {wasDown, armed, moved} \subseteq BOOLEAN
    /\ takenAt \in Nat \cup {Unseen}
    /\ idx \in 0..Targets /\ (trial = "measuring" => idx < Targets)
    /\ quads \in Seq(Border) /\ Len(quads) = idx
    /\ bore \subseteq 1..idx

\* No sample serves two targets: what is in the window was seen while the target that is
\* being measured was shown, however soon after the last capture (the ring is cleared).
SamplesAreThisTargets ==
    trial = "measuring" => \A i \in DOMAIN ring : ring[i].target = idx

\* A pull that cannot be served is given up in time, whatever the frames show: it is
\* never left to measure a target the shooter reaches later (pending and give_up).
PullIsAnswered == pull # Unseen => pull <= GiveUp

\* The next target is not captured by steadiness alone before the aim has been seen to
\* leave the last one: "how far the aim must move off a captured point before the next
\* can be captured" (rearm_distance).
DwellWaitsForMove ==
    [][idx' > idx /\ capture = "dwell" /\ idx > 0 => moved]_calVars

\* A capture needs the whole border in view: no offset is computed from the corners of
\* a border that is clipped (the comment above the hook's window).
BordersAreWhole == \A i \in bore : quads[i] = "lines"

\* Samples and pulls belong to the target that is shown.
CalInv == CalTypeOK /\ SamplesAreThisTargets /\ PullIsAnswered
=============================================================================
