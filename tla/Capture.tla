------------------------------- MODULE Capture -------------------------------
(***************************************************************************)
(* The camera as a build has it: the V4L2 path on Linux, the AVFoundation  *)
(* path on macOS (the two imp modules of src/src/camera/source.rs), and    *)
(* the promise both keep towards the tracker.                              *)
(***************************************************************************)
EXTENDS V4L2, AVFoundation

VARIABLE platform

vars == <<platform, v4l2Vars, avVars>>

Init == platform \in {"linux", "macos"} /\ StreamInit /\ CameraInit

LinuxStep == platform = "linux" /\ StreamNext /\ UNCHANGED <<platform, avVars>>
MacStep   == platform = "macos" /\ CameraNext /\ UNCHANGED <<platform, v4l2Vars>>

Next == LinuxStep \/ MacStep

Spec == Init /\ [][Next]_vars

-----------------------------------------------------------------------------
\* What the tracker may read: Frames::next returned a frame and was not called since.
LinuxView ==
    IF step = "idle" /\ verdict = "frame" /\ held # None
    THEN [seq |-> content[held].seq, of |-> content[held].of, shape |-> "set"] ELSE None

MacView ==
    IF current # <<>>
    THEN [seq |-> Head(current).seq, of |-> Head(current).luma, shape |-> Head(current).shape]
    ELSE None

Promise == INSTANCE FrameSource WITH
    None   <- None,
    taken  <- IF platform = "linux" THEN taken ELSE shots,
    handed <- IF platform = "linux" THEN handed ELSE given,
    view   <- IF platform = "linux" THEN LinuxView ELSE MacView

-----------------------------------------------------------------------------
\* On either system no buffer is lost, shared or left behind, and frames keep their order.
CaptureInv ==
    /\ platform \in {"linux", "macos"}
    /\ StreamTypeOK /\ OneOwner /\ NothingLeftMapped
    /\ CameraTypeOK /\ BuffersBounded /\ FramesInOrder

\* Both capture paths implement FrameSource: one whole picture at a time, newer than
\* the last, unchanged until it is given back (Stream::next, Stream::next_luma), and
\* its own if it came in the shape that was set.  One in another shape is not copied
\* and the buffer's last picture goes out under its number (FrameSink::deliver).
FramesArePromised == Promise!Spec
=============================================================================
