---------------------------- MODULE AVFoundation ----------------------------
(***************************************************************************)
(* The macOS capture path, src/src/camera/avfoundation.rs: a callback on   *)
(* the capture queue copies each picture into a buffer of a small pool and *)
(* sends it over a bounded channel; the tracker takes the newest and gives *)
(* the buffers back.  The callback and the tracker interleave freely.      *)
(* A buffer stands for its contents: the number of the picture copied into *)
(* it, or 0 for a buffer that holds none.                                  *)
(***************************************************************************)
EXTENDS Naturals, Sequences, SequencesExt

CONSTANTS
    Pool,           \* POOL, 3 in the code
    MaxShots        \* bound: pictures in one session

ASSUME AVAssumption ==
    /\ Pool \in Nat \ {0}
    /\ MaxShots \in Nat

VARIABLES
    grant,      \* authorizationStatus: "unknown", "asking", "granted", "denied"
    turn,       \* where the tracker's thread is in Device::open, start_stream, next
    callback,   \* where the capture callback is
    luma,       \* the callback's local luma
    shape,      \* whether the callback's picture has the width and height that were set
    spare,      \* the channel of buffers the consumer is done with
    frames,     \* the channel of frames: [luma, seq], and for the promise the shape
    local,      \* next_luma's local frame and the one it has just received
    current,    \* Stream.current, as a sequence of at most one frame
    shots,      \* SinkIvars.sequence
    given,      \* history: the last sequence number handed out
    looked      \* history: the newest frame in the channel at the last look

avVars == <<grant, turn, callback, luma, shape, spare, frames, local, current, shots, given, looked>>

Shapes   == {"set", "other"}
Captured == [luma : 1..MaxShots, seq : 1..MaxShots, shape : Shapes]
Running  == turn \in {"idle", "receiving", "draining", "swapping"}

Stopped ==
    /\ callback = "idle" /\ luma = 0 /\ shape = "other" /\ spare = <<>> /\ frames = <<>>
    /\ local = <<>> /\ current = <<>> /\ shots = 0 /\ given = 0 /\ looked = 0

CameraInit == grant \in {"unknown", "granted", "denied"} /\ turn = "closed" /\ Stopped

-----------------------------------------------------------------------------
\* ensure_access: the first open waits for the user's answer, however long.
AskForCamera ==
    /\ turn = "closed" /\ grant = "unknown"
    /\ grant' = "asking" /\ turn' = "asking"
    /\ UNCHANGED <<callback, luma, shape, spare, frames, local, current, shots, given, looked>>

UserAnswers ==
    /\ grant = "asking"
    /\ grant' \in {"granted", "denied"}
    /\ turn' = "closed"
    /\ UNCHANGED <<callback, luma, shape, spare, frames, local, current, shots, given, looked>>

\* Device::open and start_stream; a step that fails leaves turn as it was.
StartCapture ==
    /\ turn = "closed" /\ grant = "granted"
    /\ turn' = "idle"
    /\ spare' = [i \in 1..Pool |-> 0]
    /\ UNCHANGED <<grant, callback, luma, shape, frames, local, current, shots, given, looked>>

\* Drop for Stream: the session stops; a callback under way ends with it.
StopCapture ==
    /\ turn = "idle"
    /\ turn' = "closed"
    /\ callback' = "idle" /\ luma' = 0 /\ shape' = "other" /\ spare' = <<>> /\ frames' = <<>>
    /\ local' = <<>> /\ current' = <<>> /\ shots' = 0 /\ given' = 0 /\ looked' = 0
    /\ UNCHANGED grant

-----------------------------------------------------------------------------
\* The callback.  A picture without an image buffer only counts.
ShotWithoutImage ==
    /\ Running /\ callback = "idle" /\ shots < MaxShots
    /\ shots' = shots + 1
    /\ UNCHANGED <<grant, turn, callback, luma, shape, spare, frames, local, current, given, looked>>

\* A spare buffer, or a new one when the pool is empty; the picture may be of the
\* shape that was set, or of another.
TakeBuffer ==
    /\ Running /\ callback = "idle" /\ shots < MaxShots
    /\ shots' = shots + 1
    /\ luma' = IF spare = <<>> THEN 0 ELSE Head(spare)
    /\ spare' = IF spare = <<>> THEN spare ELSE Tail(spare)
    /\ shape' \in Shapes
    /\ callback' = "took"
    /\ UNCHANGED <<grant, turn, frames, local, current, given, looked>>

\* The pixel buffer cannot be locked: the buffer taken is dropped.
LockFails ==
    /\ callback = "took"
    /\ luma' = 0 /\ shape' = "other"
    /\ callback' = "idle"
    /\ UNCHANGED <<grant, turn, spare, frames, local, current, shots, given, looked>>

CopyPicture ==
    /\ callback = "took" /\ shape = "set"
    /\ luma' = shots
    /\ callback' = "copied"
    /\ UNCHANGED <<grant, turn, shape, spare, frames, local, current, shots, given, looked>>

\* A picture of another shape is not copied, and the buffer keeps what it held.
SkipCopy ==
    /\ callback = "took" /\ shape = "other"
    /\ callback' = "copied"
    /\ UNCHANGED <<grant, turn, luma, shape, spare, frames, local, current, shots, given, looked>>

\* try_send: a buffer of the wrong length is dropped, and so is a frame that finds
\* the channel full.
SendFrame ==
    /\ callback = "copied"
    /\ frames' = IF luma # 0 /\ Len(frames) < Pool - 1
                 THEN Append(frames, [luma |-> luma, seq |-> shots, shape |-> shape]) ELSE frames
    /\ luma' = 0 /\ shape' = "other"
    /\ callback' = "idle"
    /\ UNCHANGED <<grant, turn, spare, local, current, shots, given, looked>>

-----------------------------------------------------------------------------
\* Mistakes the checks must notice.
GivesBackBoth ==
    /\ turn = "swapping"
    /\ spare' = spare \o [i \in DOMAIN local |-> local[i].luma]
    /\ local' = Tail(local)
    /\ turn' = "draining"
    /\ UNCHANGED <<grant, callback, luma, shape, frames, current, shots, given, looked>>

TakesTheLatest ==
    /\ turn \in {"receiving", "draining"} /\ frames # <<>>
    /\ local' = Append(local, Last(frames))
    /\ frames' = Front(frames)
    /\ looked' = Last(frames).seq
    /\ turn' = IF turn = "receiving" THEN "draining" ELSE "swapping"
    /\ UNCHANGED <<grant, callback, luma, shape, spare, current, shots, given>>

-----------------------------------------------------------------------------
\* next_luma: the frame handed out last goes back to the pool.
GiveBack ==
    /\ turn = "idle"
    /\ turn' = "receiving"
    /\ spare' = spare \o [i \in DOMAIN current |-> current[i].luma]
    /\ current' = <<>>
    /\ UNCHANGED <<grant, callback, luma, shape, frames, local, shots, given, looked>>

\* Stream owns the sink, so its channel never disconnects: silence is all there is.
NothingCame ==
    /\ turn = "receiving" /\ frames = <<>>
    /\ turn' = "idle"
    /\ UNCHANGED <<grant, callback, luma, shape, spare, frames, local, current, shots, given, looked>>

Receive ==
    /\ turn \in {"receiving", "draining"} /\ frames # <<>>
    /\ local' = Append(local, Head(frames))
    /\ frames' = Tail(frames)
    /\ looked' = Last(frames).seq
    /\ turn' = IF turn = "receiving" THEN "draining" ELSE "swapping"
    /\ UNCHANGED <<grant, callback, luma, shape, spare, current, shots, given>>

GiveBackSkipped ==
    /\ turn = "swapping"
    /\ spare' = Append(spare, Head(local).luma)
    /\ local' = Tail(local)
    /\ turn' = "draining"
    /\ UNCHANGED <<grant, callback, luma, shape, frames, current, shots, given, looked>>

ShowNewest ==
    /\ turn = "draining" /\ frames = <<>>
    /\ current' = local /\ local' = <<>>
    /\ given' = Head(local).seq
    /\ turn' = "idle"
    /\ UNCHANGED <<grant, callback, luma, shape, spare, frames, shots, looked>>

CallbackSteps == ShotWithoutImage \/ TakeBuffer \/ LockFails \/ CopyPicture
                 \/ SkipCopy \/ SendFrame
TrackerSteps  == GiveBack \/ NothingCame \/ Receive \/ GiveBackSkipped \/ ShowNewest

CameraNext == AskForCamera \/ UserAnswers \/ StartCapture \/ StopCapture
              \/ CallbackSteps \/ TrackerSteps

-----------------------------------------------------------------------------
CameraTypeOK ==
    /\ grant \in {"unknown", "asking", "granted", "denied"}
    /\ turn \in {"closed", "asking", "idle", "receiving", "draining", "swapping"}
    /\ callback \in {"idle", "took", "copied"}
    /\ luma \in 0..MaxShots /\ shape \in Shapes
    /\ spare \in Seq(0..MaxShots)
    /\ frames \in Seq(Captured) /\ local \in Seq(Captured) /\ current \in Seq(Captured)
    /\ Len(current) <= 1
    /\ {shots, given, looked} \subseteq 0..MaxShots

\* The session never has more buffers than the pool, one in the callback's hands when
\* the pool was empty, and the frame next_luma is about to give back: buffers lost on
\* the callback's early returns are made anew, and never faster than they are needed.
BuffersBounded ==
    Len(spare) + Len(frames) + Len(local) + Len(current)
        + (IF callback = "idle" THEN 0 ELSE 1) <= Pool + 2

\* What waits in the channel and what the tracker holds is in the order it was taken,
\* each number once: no frame is shown twice or after a newer one.
FramesInOrder ==
    LET all == current \o local \o frames
    IN  /\ \A i, j \in DOMAIN all : i < j => all[i].seq < all[j].seq
        /\ \A i \in DOMAIN local, j \in {given} : local[i].seq > j
=============================================================================
