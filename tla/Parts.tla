-------------------------------- MODULE Parts --------------------------------
(***************************************************************************)
(* The parts of the program that share no state with one another: each     *)
(* runs with its module's actions while the others rest, so that one check *)
(* goes through all of them.  None calls into another, so no interleaving  *)
(* of theirs has a state that is missing here.                             *)
(***************************************************************************)
EXTENDS GunLink, Flash, Calibration, Wire, Overlay, Hud, Pointer, Preview, Border,
        RunLock

VARIABLE part   \* the one that runs

vars == <<part, linkVars, flashVars, calVars, wireVars, overlayVars, hudVars, pointerVars,
          previewVars, borderVars, lockVars>>

PartNames == {"gun link", "flash", "calibration", "wire", "overlay",
              "display", "pointer", "preview", "border", "run lock"}

\* A part that does not run is in one of its initial states, always the same.
Rests(name, still) == part = name \/ still

Init ==
    /\ part \in PartNames
    /\ LinkInit  /\ Rests("gun link", /\ command = "save"
                                       /\ ~owed /\ ~deaf /\ ~streaming /\ ~reporting)
    /\ FlashInit /\ Rests("flash", job = CHOOSE j \in Jobs : TRUE)
    /\ CalInit   /\ Rests("calibration", capture = "either")
    /\ WireInit  /\ Rests("wire", offset = CHOOSE o \in Offsets : TRUE)
    /\ OverlayInit
    /\ HudInit
    /\ PointerInit
    /\ PreviewInit /\ Rests("preview", ~allowed)
    /\ BorderInit
    /\ LockInit  /\ Rests("run lock", file = Nil)

Talk ==
    /\ part = "gun link" /\ LinkNext
    /\ UNCHANGED <<part, flashVars, calVars, wireVars, overlayVars, hudVars,
                   pointerVars, previewVars, borderVars, lockVars>>

FlashGun ==
    /\ part = "flash" /\ FlashNext
    /\ UNCHANGED <<part, linkVars, calVars, wireVars, overlayVars, hudVars,
                   pointerVars, previewVars, borderVars, lockVars>>

Calibrate ==
    /\ part = "calibration" /\ CalNext
    /\ UNCHANGED <<part, linkVars, flashVars, wireVars, overlayVars, hudVars,
                   pointerVars, previewVars, borderVars, lockVars>>

Transmit ==
    /\ part = "wire" /\ WireNext
    /\ UNCHANGED <<part, linkVars, flashVars, calVars, overlayVars, hudVars,
                   pointerVars, previewVars, borderVars, lockVars>>

Draw ==
    /\ part = "overlay" /\ OverlayNext
    /\ UNCHANGED <<part, linkVars, flashVars, calVars, wireVars, hudVars,
                   pointerVars, previewVars, borderVars, lockVars>>

Display ==
    /\ part = "display" /\ HudNext
    /\ UNCHANGED <<part, linkVars, flashVars, calVars, wireVars, overlayVars,
                   pointerVars, previewVars, borderVars, lockVars>>

Point ==
    /\ part = "pointer" /\ PointerNext
    /\ UNCHANGED <<part, linkVars, flashVars, calVars, wireVars, overlayVars,
                   hudVars, previewVars, borderVars, lockVars>>

ShowPreview ==
    /\ part = "preview" /\ PreviewNext
    /\ UNCHANGED <<part, linkVars, flashVars, calVars, wireVars, overlayVars,
                   hudVars, pointerVars, borderVars, lockVars>>

FindBorder ==
    /\ part = "border" /\ BorderNext
    /\ UNCHANGED <<part, linkVars, flashVars, calVars, wireVars, overlayVars,
                   hudVars, pointerVars, previewVars, lockVars>>

TakeTurns ==
    /\ part = "run lock" /\ LockNext
    /\ UNCHANGED <<part, linkVars, flashVars, calVars, wireVars, overlayVars,
                   hudVars, pointerVars, previewVars, borderVars>>

Next == Talk \/ FlashGun \/ Calibrate \/ Transmit \/ Draw \/ Display \/ Point \/ ShowPreview
        \/ FindBorder \/ TakeTurns

\* The fairness of the parts that have any, while they are the one that runs.
Fairness ==
    /\ WF_overlayVars(part = "overlay" /\ LoopSteps)
    /\ WF_overlayVars(part = "overlay" /\ TimePasses)
    /\ WF_previewVars(part = "preview" /\ WorkerSteps)
    /\ WF_previewVars(part = "preview" /\ PageSteps)
    /\ \A p \in Procs : WF_lockVars(part = "run lock" /\ TakeLock(p))

Spec == Init /\ [][Next]_vars

FairSpec == Spec /\ Fairness

-----------------------------------------------------------------------------
\* The display and the preview: what they show is there to be shown.
DisplayInv == part \in PartNames /\ HudTypeOK /\ PreviewTypeOK /\ EntriesAreAlive
=============================================================================
