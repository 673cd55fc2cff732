----------------------------- MODULE FrameSource -----------------------------
(***************************************************************************)
(* What a camera promises the tracker, whatever the platform: the frame it *)
(* hands out is newer than every frame before it, is one whole picture,    *)
(* and stays as it is until the tracker asks for the next.  A picture of   *)
(* the shape that was set is shown as itself; one of another shape, if a   *)
(* camera sends it, may be shown as an older picture, never a newer one.   *)
(* The capture paths of both platforms are shown to keep this promise.     *)
(***************************************************************************)
EXTENDS Naturals

CONSTANT None

VARIABLES
    taken,     \* pictures the camera has taken in this session
    handed,    \* the sequence number of the last frame handed out
    view       \* the frame the tracker may read: [seq, of, shape], or None

promised == <<taken, handed, view>>

Init == taken = 0 /\ handed = 0 /\ view = None

TakePicture == taken' = taken + 1 /\ UNCHANGED <<handed, view>>

\* What frame n may show: picture n if its shape is the one set, else one taken before.
Showing(n) == {[seq |-> n, of |-> n, shape |-> "set"]}
              \cup {[seq |-> n, of |-> m, shape |-> "other"] : m \in 1 .. n - 1}

\* Frame n is handed out; or it is found to be damaged and not shown.
HandOut ==
    \E n \in handed + 1 .. taken :
        handed' = n /\ view' \in Showing(n) \cup {None} /\ UNCHANGED taken

TakeBack == view' = None /\ UNCHANGED <<taken, handed>>

\* The session ends; the next one counts from the start.
EndSession == taken' = 0 /\ handed' = 0 /\ view' = None

Next == TakePicture \/ HandOut \/ TakeBack \/ EndSession

Spec == Init /\ [][Next]_promised
=============================================================================
