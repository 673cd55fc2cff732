-------------------------------- MODULE V4L2 --------------------------------
(***************************************************************************)
(* The Linux capture path: the V4L2 stream (src/src/camera/v4l2/mod.rs)    *)
(* under the frame source that judges and decodes its frames               *)
(* (src/src/camera/source.rs).  Driver and process share the mapped        *)
(* buffers by queueing and dequeueing them; any ioctl may fail.  EINTR is  *)
(* retried in place and left out; sizes stand for what a picture shows.    *)
(***************************************************************************)
EXTENDS Naturals, Sequences, SequencesExt, FiniteSets

CONSTANTS
    MaxBuffers,     \* the buffers asked for; the driver may grant fewer
    MaxPictures,    \* bound: pictures taken in one session
    PictureSizes,   \* sizes of the compressed pictures
    Warm,           \* 10 in the code: sizes known before any frame is refused
    Window,         \* 30 in the code: sizes remembered
    None

ASSUME V4L2Assumption ==
    /\ MaxBuffers \in Nat \ {0}
    /\ MaxPictures \in Nat
    /\ PictureSizes \subseteq Nat
    /\ Warm \in Nat \ {0}
    /\ Window \in Nat \ {0}
    /\ None \notin Nat

VARIABLES
    step,       \* where Camera::open, start_stream, next or drop is
    made,       \* the buffers granted are 1 .. made
    mapped,     \* Stream.bufs: the buffers mapped into the process
    queued,     \* buffers the driver may write to
    done,       \* buffers the driver has filled, in order
    content,    \* what each buffer holds: [seq, of, size, whole]
    buf,        \* next's local buf
    held,       \* Stream.held
    taken,      \* the driver's sequence counter
    sizes,      \* Frames.sizes
    verdict,    \* what Frames::next last returned
    stray,      \* mappings start_stream left behind
    ready,      \* history: the newest picture ready when next last looked
    handed,     \* history: the last sequence number handed out
    recent      \* history: the sizes of the last frames, refused ones too

ownVars    == <<mapped, queued, done, buf, held>>
filterVars == <<sizes, verdict, recent>>
pastVars   == <<ready, handed>>
v4l2Vars   == <<step, made, ownVars, content, taken, filterVars, stray, pastVars>>

Blank     == [seq |-> 0, of |-> 0, size |-> 0, whole |-> FALSE]
Pictures  == [seq : 0..MaxPictures, of : 0..MaxPictures,
              size : PictureSizes \cup {0}, whole : BOOLEAN]
Streaming == step \in {"idle", "waiting", "draining", "judging"}
OurOwn    == {buf, held} \ {None}

Closed ==
    /\ made = 0 /\ mapped = {} /\ queued = {} /\ done = <<>>
    /\ buf = None /\ held = None /\ taken = 0 /\ sizes = <<>>
    /\ verdict = None /\ recent = <<>> /\ ready = 0 /\ handed = 0
    /\ content = [b \in 1..MaxBuffers |-> Blank]

StreamInit == step = "closed" /\ stray = FALSE /\ Closed

-----------------------------------------------------------------------------
\* Camera::open: the node, its format, its frame interval, the display's controls.
\* A refusal leaves nothing behind.
OpenCamera ==
    /\ step = "closed"
    /\ step' = "open"
    /\ UNCHANGED <<made, ownVars, content, taken, filterVars, stray, pastVars>>

\* start_stream: REQBUFS, then QUERYBUF and mmap for each buffer granted.
ReqBufs ==
    /\ step = "open"
    /\ made' \in 1..MaxBuffers
    /\ step' = "mapping"
    /\ UNCHANGED <<ownVars, content, taken, filterVars, stray, pastVars>>

ReqBufsFails ==
    /\ step = "open"
    /\ step' = "closed"
    /\ UNCHANGED <<made, ownVars, content, taken, filterVars, stray, pastVars>>

MapOne ==
    /\ step = "mapping"
    /\ mapped' = mapped \cup {Cardinality(mapped) + 1}
    /\ step' = IF Cardinality(mapped) + 1 = made THEN "queueing" ELSE step
    /\ UNCHANGED <<made, queued, done, buf, held, content, taken, filterVars, stray, pastVars>>

\* A failed mmap unmaps the buffers before it; a failed QUERYBUF does not.
MapFails ==
    /\ step = "mapping"
    /\ step' = "closed"
    /\ stray' \in {stray, stray \/ mapped # {}}
    /\ mapped' = {} /\ made' = 0
    /\ UNCHANGED <<queued, done, buf, held, content, taken, filterVars, pastVars>>

QueueOne ==
    /\ step = "queueing" /\ Cardinality(queued) < made
    /\ queued' = queued \cup {Cardinality(queued) + 1}
    /\ UNCHANGED <<step, made, mapped, done, buf, held, content, taken, filterVars, stray, pastVars>>

StreamOn ==
    /\ step = "queueing" /\ Cardinality(queued) = made
    /\ step' = "idle"
    /\ UNCHANGED <<made, ownVars, content, taken, filterVars, stray, pastVars>>

\* From here on the Stream exists, and an error drops it.
StartFails ==
    /\ step = "queueing"
    /\ step' = "dropping"
    /\ UNCHANGED <<made, ownVars, content, taken, filterVars, stray, pastVars>>

-----------------------------------------------------------------------------
\* The driver and the camera.  A picture with no buffer to go to is lost.
Fill(b) ==
    /\ Streaming /\ b \in queued /\ taken < MaxPictures
    /\ taken' = taken + 1
    /\ \E s \in PictureSizes, w \in BOOLEAN :
           content' = [content EXCEPT ![b] =
               [seq |-> taken + 1, of |-> taken + 1, size |-> s, whole |-> w]]
    /\ queued' = queued \ {b}
    /\ done' = Append(done, b)
    /\ UNCHANGED <<step, made, mapped, buf, held, filterVars, stray, pastVars>>

PictureLost ==
    /\ Streaming /\ queued = {} /\ taken < MaxPictures
    /\ taken' = taken + 1
    /\ UNCHANGED <<step, made, ownVars, content, filterVars, stray, pastVars>>

-----------------------------------------------------------------------------
\* Mistakes the checks must notice.
RequeuesEarly ==
    /\ step = "draining" /\ done = <<>>
    /\ held' = buf /\ buf' = None
    /\ queued' = queued \cup {buf}
    /\ step' = "judging"
    /\ UNCHANGED <<made, mapped, done, content, taken, filterVars, stray, pastVars>>

TakesFirst ==
    /\ step = "draining"
    /\ held' = buf /\ buf' = None
    /\ step' = "judging"
    /\ UNCHANGED <<made, mapped, queued, done, content, taken, filterVars, stray, pastVars>>

KeepsMappings ==
    /\ step = "dropping"
    /\ step' = "closed"
    /\ made' = 0 /\ queued' = {} /\ done' = <<>>
    /\ buf' = None /\ held' = None /\ taken' = 0 /\ sizes' = <<>>
    /\ verdict' = None /\ recent' = <<>> /\ ready' = 0 /\ handed' = 0
    /\ content' = [b \in 1..MaxBuffers |-> Blank]
    /\ UNCHANGED <<mapped, stray>>

ForgetsHeld ==
    /\ step = "idle"
    /\ held' = None /\ verdict' = None
    /\ step' = "waiting"
    /\ UNCHANGED <<made, mapped, queued, done, buf, content, taken, sizes, recent, stray, pastVars>>

-----------------------------------------------------------------------------
\* Stream::next: the held buffer goes back first.
CallNext ==
    /\ step = "idle"
    /\ queued' = queued \cup ({held} \ {None})
    /\ held' = None /\ verdict' = None
    /\ step' = "waiting"
    /\ UNCHANGED <<made, mapped, done, buf, content, taken, sizes, recent, stray, pastVars>>

\* Its requeue fails: held was taken out before, so the buffer is nobody's.
RequeueHeldFails ==
    /\ step = "idle" /\ held # None
    /\ held' = None /\ verdict' = None
    /\ step' = "dropping"
    /\ UNCHANGED <<made, mapped, queued, done, buf, content, taken, sizes, recent, stray, pastVars>>

TimesOut ==
    /\ step = "waiting" /\ done = <<>>
    /\ verdict' = "timeout"
    /\ step' = "idle"
    /\ UNCHANGED <<made, ownVars, content, taken, sizes, recent, stray, pastVars>>

DequeueFirst ==
    /\ step = "waiting" /\ done # <<>>
    /\ buf' = Head(done) /\ done' = Tail(done)
    /\ ready' = content[Last(done)].seq
    /\ step' = "draining"
    /\ UNCHANGED <<made, mapped, queued, held, content, taken, filterVars, stray, handed>>

\* POLLERR, a poll or a dequeue that fails, while waiting or while draining.
WaitFails ==
    /\ step \in {"waiting", "draining"}
    /\ step' = "dropping"
    /\ UNCHANGED <<made, ownVars, content, taken, filterVars, stray, pastVars>>

\* Newest frame: another one is ready, the older one goes back unread.
DrainOne ==
    /\ step = "draining" /\ done # <<>>
    /\ queued' = queued \cup {buf}
    /\ buf' = Head(done) /\ done' = Tail(done)
    /\ ready' = content[Last(done)].seq
    /\ UNCHANGED <<step, made, mapped, held, content, taken, filterVars, stray, handed>>

\* The older one cannot go back: two buffers are out of the driver's hands.
DrainFails ==
    /\ step = "draining" /\ done # <<>>
    /\ buf' = None /\ done' = Tail(done)
    /\ step' = "dropping"
    /\ UNCHANGED <<made, mapped, queued, held, content, taken, filterVars, stray, pastVars>>

HandOutNewest ==
    /\ step = "draining" /\ done = <<>>
    /\ held' = buf /\ buf' = None
    /\ step' = "judging"
    /\ UNCHANGED <<made, mapped, queued, done, content, taken, filterVars, stray, pastVars>>

-----------------------------------------------------------------------------
\* Frames::next: v[len / 2] of the sorted sizes.
MedianSize ==
    CHOOSE m \in Range(sizes) :
        LET below == Cardinality({i \in DOMAIN sizes : sizes[i] < m})
            upTo  == Cardinality({i \in DOMAIN sizes : sizes[i] <= m})
        IN  below <= Len(sizes) \div 2 /\ Len(sizes) \div 2 < upTo

Truncated(size) == Len(sizes) >= Warm /\ size * 10 < MedianSize * 6

Pushed(s, x, n) == IF Len(s) < n THEN Append(s, x) ELSE Append(Tail(s), x)

RefuseTruncated ==
    /\ step = "judging" /\ Truncated(content[held].size)
    /\ verdict' = "truncated"
    /\ step' = "idle"
    /\ recent' = Pushed(recent, content[held].size, Warm)
    /\ handed' = content[held].seq
    /\ UNCHANGED <<made, ownVars, content, taken, sizes, stray, ready>>

\* A frame of a good size is remembered before it is decoded; V4L2_BUF_FLAG_ERROR
\* is not looked at.
JudgeDecoded ==
    /\ step = "judging" /\ ~Truncated(content[held].size)
    /\ sizes' = Pushed(sizes, content[held].size, Window)
    /\ recent' = Pushed(recent, content[held].size, Warm)
    /\ verdict' \in IF content[held].whole THEN {"frame"} ELSE {"frame", "undecodable"}
    /\ step' = "idle"
    /\ handed' = content[held].seq
    /\ UNCHANGED <<made, ownVars, content, taken, stray, ready>>

-----------------------------------------------------------------------------
\* The tracker ends, or an error has ended it: Drop for Stream, and the Device's.
StopStream ==
    /\ step = "idle"
    /\ step' = "dropping"
    /\ UNCHANGED <<made, ownVars, content, taken, filterVars, stray, pastVars>>

DropStream ==
    /\ step = "dropping"
    /\ step' = "closed"
    /\ mapped' = {} /\ made' = 0 /\ queued' = {} /\ done' = <<>>
    /\ buf' = None /\ held' = None /\ taken' = 0 /\ sizes' = <<>>
    /\ verdict' = None /\ recent' = <<>> /\ ready' = 0 /\ handed' = 0
    /\ content' = [b \in 1..MaxBuffers |-> Blank]
    /\ UNCHANGED stray

StartSteps == OpenCamera \/ ReqBufs \/ ReqBufsFails \/ MapOne \/ MapFails
              \/ QueueOne \/ StreamOn \/ StartFails
NextSteps  == CallNext \/ RequeueHeldFails \/ TimesOut \/ DequeueFirst \/ WaitFails
              \/ DrainOne \/ DrainFails \/ HandOutNewest
JudgeSteps == RefuseTruncated \/ JudgeDecoded
DriverSteps == PictureLost \/ \E b \in 1..MaxBuffers : Fill(b)

StreamNext == StartSteps \/ NextSteps \/ JudgeSteps \/ DriverSteps \/ StopStream \/ DropStream

-----------------------------------------------------------------------------
StreamTypeOK ==
    /\ step \in {"closed", "open", "mapping", "queueing", "idle", "waiting",
                 "draining", "judging", "dropping"}
    /\ made \in 0..MaxBuffers
    /\ mapped \subseteq 1..made
    /\ queued \subseteq 1..made
    /\ done \in Seq(1..made)
    /\ {buf, held} \subseteq (1..made) \cup {None}
    /\ taken \in 0..MaxPictures
    /\ content \in [1..MaxBuffers -> Pictures]
    /\ sizes \in Seq(PictureSizes) /\ Len(sizes) <= Window
    /\ verdict \in {None, "timeout", "truncated", "undecodable", "frame"}
    /\ stray \in BOOLEAN
    /\ {ready, handed} \subseteq 0..MaxPictures
    /\ recent \in Seq(PictureSizes) /\ Len(recent) <= Warm

\* While the stream runs every mapped buffer has exactly one owner: the driver to
\* write to, the driver filled and in order, or the process, which holds one at most
\* (the held, taken, queued and dequeued indices of Stream::next).
OneOwner ==
    Streaming =>
        /\ mapped = 1..made
        /\ mapped = queued \cup Range(done) \cup OurOwn
        /\ queued \cap Range(done) = {}
        /\ (queued \cup Range(done)) \cap OurOwn = {}
        /\ \A i, j \in DOMAIN done : i # j => done[i] # done[j]
        /\ Cardinality(OurOwn) <= 1

\* A Stream that is gone has left no buffer mapped, whichever step failed; only a
\* QUERYBUF that fails inside start_stream leaves mappings behind (Drop for Stream).
NothingLeftMapped ==
    step \in {"closed", "open"} => mapped = {} /\ queued = {} /\ done = <<>>

\* The frame handed out is the newest that was ready at the last look: a backlog is
\* never shown picture by picture (Stream::next with newest).
NewestIsHandedOut ==
    [][step = "draining" /\ step' = "judging" => content[held'].seq = ready]_v4l2Vars

\* The filter's comment compares a frame with its neighbours: a frame refused as
\* truncated is far smaller than one of the last frames (Frames::next).
NeighboursDecide ==
    [][verdict' = "truncated" /\ verdict # "truncated" =>
           \E i \in DOMAIN recent : content[held].size * 10 < recent[i] * 6]_v4l2Vars
=============================================================================
