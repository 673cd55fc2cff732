--------------------------- MODULE Capture_proofs ---------------------------
(***************************************************************************)
(* Proofs about Capture: on both platforms what the tracker is shown keeps *)
(* the promise of FrameSource and is the newest there is, and no buffer is *)
(* lost or shared, for any number of buffers and pictures and whatever     *)
(* calls fail.                                                             *)
(***************************************************************************)
EXTENDS Capture, FiniteSetTheorems, TLAPS

USE V4L2Assumption, AVAssumption DEF Shapes

-----------------------------------------------------------------------------
(* The Linux path.                                                         *)

Buffers == 1..MaxBuffers

Before == step \in {"closed", "open", "mapping", "queueing"}

(* What a picture is, and how far the driver and the tracker have come.    *)
Contents ==
  /\ taken \in Nat /\ handed \in Nat /\ handed <= taken
  /\ content \in [Buffers -> [seq : Nat, of : Nat, size : Nat, whole : BOOLEAN]]
  /\ \A b \in Buffers : content[b].of = content[b].seq /\ content[b].seq <= taken

(* What waits in the driver is newer than what was handed out, is not the  *)
(* driver's to write to, and is neither of the buffers next() holds.       *)
Waiting ==
  /\ done \in Seq(Buffers)
  /\ \A i \in 1..Len(done) : /\ done[i] \notin queued /\ done[i] # buf /\ done[i] # held
                             /\ handed < content[done[i]].seq
  /\ \A i, j \in 1..Len(done) : i # j => done[i] # done[j]

(* The buffers in the tracker's hands: buf while it drains, held from then *)
(* on, which is newer than the last frame until it has been judged.        *)
InHand ==
  /\ buf \in Buffers \cup {None} /\ held \in Buffers \cup {None}
  /\ Before => done = <<>> /\ buf = None /\ held = None
  /\ buf # None => buf \notin queued /\ step \in {"draining", "dropping"}
  /\ held # None => held \notin queued /\ step \in {"idle", "judging", "dropping"}
  /\ step = "draining" => buf # None /\ handed < content[buf].seq
  /\ step = "judging" =>
        /\ held # None /\ handed < content[held].seq
        /\ \A i \in 1..Len(done) : content[held].seq < content[done[i]].seq

LinuxInv == Contents /\ Waiting /\ InHand

LEMMA LinuxInit == StreamInit => LinuxInv
BY DEF StreamInit, Closed, LinuxInv, Contents, Waiting, InHand, Before, Blank, Buffers

(* The steps of start_stream touch neither a picture nor a hand.           *)
LEMMA StartKeeps == LinuxInv /\ StartSteps => LinuxInv'
<1> SUFFICES ASSUME LinuxInv, StartSteps PROVE LinuxInv'
    OBVIOUS
<1>1. /\ UNCHANGED <<done, buf, held, content, taken, handed>>
      /\ Before /\ step' \in {"closed", "open", "mapping", "queueing", "idle", "dropping"}
  BY DEF StartSteps, OpenCamera, ReqBufs, ReqBufsFails, MapOne, MapFails, QueueOne, StreamOn,
         StartFails, ownVars, pastVars, Before
<1>2. Contents'
  BY <1>1 DEF LinuxInv, Contents
<1>3. done = <<>> /\ buf = None /\ held = None
  BY <1>1 DEF LinuxInv, InHand
<1>4. Waiting' /\ InHand'
  BY <1>1, <1>3 DEF LinuxInv, Waiting, InHand, Before
<1> QED
  BY <1>2, <1>4 DEF LinuxInv

(* A picture is written where nobody reads.                                *)
LEMMA FillKeeps == ASSUME LinuxInv, NEW b \in Buffers, Fill(b) PROVE LinuxInv'
<1> DEFINE AnyPicture == [seq : Nat, of : Nat, size : Nat, whole : BOOLEAN]
<1>1. PICK pic \in AnyPicture : /\ pic.seq = taken + 1 /\ pic.of = taken + 1
                                /\ content' = [content EXCEPT ![b] = pic]
  <2>1. PICK s \in PictureSizes, w \in BOOLEAN :
           content' = [content EXCEPT ![b] =
               [seq |-> taken + 1, of |-> taken + 1, size |-> s, whole |-> w]]
    BY DEF Fill
  <2>2. taken + 1 \in Nat /\ s \in Nat
    BY DEF LinuxInv, Contents
  <2> QED
    BY <2>1, <2>2, Zenon
<1>a. content \in [Buffers -> AnyPicture]
  BY DEF LinuxInv, Contents
<1> HIDE DEF AnyPicture
<1>2. /\ taken' = taken + 1 /\ done' = Append(done, b) /\ queued' = queued \ {b} /\ b \in queued
      /\ UNCHANGED <<step, buf, held, handed>> /\ Streaming
  BY DEF Fill, pastVars
<1>3. \A c \in Buffers : c # b => content'[c] = content[c]
  BY <1>1, <1>a
<1>4. content'[b].seq = taken + 1 /\ content'[b].of = taken + 1
  BY <1>1, <1>a
<1>5. content' \in [Buffers -> AnyPicture]
  BY <1>1, <1>a
<1>6. Contents'
  <2>1. \A c \in Buffers : content[c].seq \in Nat
    BY <1>a DEF AnyPicture
  <2>2. \A c \in Buffers : content'[c].of = content'[c].seq /\ content'[c].seq <= taken + 1
    BY <1>3, <1>4, <2>1 DEF LinuxInv, Contents
  <2>3. taken' \in Nat /\ handed' \in Nat /\ handed' <= taken'
    BY <1>2 DEF LinuxInv, Contents
  <2> QED
    BY <1>2, <1>5, <2>2, <2>3 DEF Contents, AnyPicture
<1>7. buf # b /\ held # b /\ \A i \in 1..Len(done) : done[i] # b /\ done[i] \in Buffers
  <2>1. b # None
    BY DEF Buffers
  <2>2. buf # b /\ held # b
    BY <1>2, <2>1 DEF LinuxInv, InHand
  <2> QED
    BY <1>2, <2>2 DEF LinuxInv, Waiting
<1>8. /\ Len(done') = Len(done) + 1 /\ done'[Len(done) + 1] = b /\ done' \in Seq(Buffers)
      /\ \A i \in 1..Len(done) : done'[i] = done[i]
  BY <1>2 DEF LinuxInv, Waiting
<1>9. Waiting'
  <2>1. \A i \in 1..Len(done') : /\ done'[i] \notin queued' /\ done'[i] # buf /\ done'[i] # held
                                 /\ handed < content'[done'[i]].seq
    BY <1>2, <1>3, <1>4, <1>7, <1>8 DEF LinuxInv, Waiting, Contents
  <2>2. \A i, j \in 1..Len(done') : i # j => done'[i] # done'[j]
    BY <1>7, <1>8 DEF LinuxInv, Waiting
  <2> QED
    BY <1>2, <1>8, <2>1, <2>2 DEF Waiting
<1>10. ASSUME step = "judging"
       PROVE  /\ held # None /\ handed < content'[held].seq
              /\ \A i \in 1..Len(done') : content'[held].seq < content'[done'[i]].seq
  <2>1. held \in Buffers /\ held # None /\ content'[held] = content[held]
    BY <1>10, <1>3, <1>7 DEF LinuxInv, InHand
  <2>2. content[held].seq <= taken /\ content[held].seq \in Nat
    BY <2>1 DEF LinuxInv, Contents
  <2>3. handed < content[held].seq /\ content[held].seq < content'[b].seq
    BY <1>10, <1>4, <2>2 DEF LinuxInv, InHand, Contents
  <2>4. \A i \in 1..Len(done) : content'[done'[i]] = content[done[i]]
    BY <1>3, <1>7, <1>8
  <2>5. \A i \in 1..Len(done) : content[held].seq < content[done[i]].seq
    BY <1>10 DEF LinuxInv, InHand
  <2> QED
    BY <1>8, <2>1, <2>3, <2>4, <2>5
<1>11. step = "draining" => buf # None /\ handed < content'[buf].seq
  BY <1>3, <1>7 DEF LinuxInv, InHand
<1>12. InHand'
  BY <1>2, <1>10, <1>11 DEF LinuxInv, InHand, Before, Streaming
<1> QED
  BY <1>6, <1>9, <1>12 DEF LinuxInv

(* The older frame is passed over: what comes next is another buffer.      *)
LEMMA TailOf ==
  ASSUME NEW S, NEW q \in Seq(S), q # <<>>
  PROVE  /\ Head(q) = q[1] /\ Head(q) \in S /\ Tail(q) \in Seq(S) /\ Len(Tail(q)) = Len(q) - 1
         /\ 1 \in 1..Len(q)
         /\ \A i \in 1..Len(Tail(q)) : i + 1 \in 1..Len(q) /\ i + 1 # 1 /\ Tail(q)[i] = q[i + 1]
OBVIOUS

LEMMA NextKeeps == LinuxInv /\ NextSteps => LinuxInv'
<1> SUFFICES ASSUME LinuxInv, NextSteps PROVE LinuxInv'
    OBVIOUS
<1>0. UNCHANGED <<content, taken, handed>>
  BY DEF NextSteps, CallNext, RequeueHeldFails, TimesOut, DequeueFirst, WaitFails, DrainOne,
         DrainFails, HandOutNewest, pastVars
<1>1. CASE CallNext
  BY <1>0, <1>1 DEF CallNext, LinuxInv, Contents, Waiting, InHand, Before
<1>2. CASE RequeueHeldFails
  BY <1>0, <1>2 DEF RequeueHeldFails, LinuxInv, Contents, Waiting, InHand, Before
<1>3. CASE TimesOut
  BY <1>0, <1>3 DEF TimesOut, ownVars, LinuxInv, Contents, Waiting, InHand, Before
<1>4. CASE DequeueFirst
  BY <1>0, <1>4, TailOf DEF DequeueFirst, LinuxInv, Contents, Waiting, InHand, Before
<1>5. CASE WaitFails
  BY <1>0, <1>5 DEF WaitFails, ownVars, LinuxInv, Contents, Waiting, InHand, Before
<1>6. CASE DrainOne
  <2>1. /\ step = "draining" /\ done # <<>> /\ queued' = queued \cup {buf} /\ held' = held
        /\ buf' = Head(done) /\ done' = Tail(done) /\ step' = step
    BY <1>6 DEF DrainOne
  <2>2. done \in Seq(Buffers) /\ held = None /\ buf # None /\ None \notin Buffers
    BY <2>1 DEF LinuxInv, Waiting, InHand, Buffers
  <2>3. Contents'
    BY <1>0 DEF LinuxInv, Contents
  <2>4. Waiting'
    <3> DEFINE rest == Tail(done)
    <3>1. /\ Head(done) = done[1] /\ rest \in Seq(Buffers) /\ 1 \in 1..Len(done)
          /\ \A i \in 1..Len(rest) : /\ i + 1 \in 1..Len(done) /\ i + 1 # 1
                                    /\ rest[i] = done[i + 1]
      BY <2>1, <2>2, TailOf
    <3> HIDE DEF rest
    <3>2. done' = rest
      BY <2>1 DEF rest
    <3>3. \A i \in 1..Len(rest) : rest[i] \in Buffers
      BY <3>1
    <3>4. \A i \in 1..Len(rest) : /\ rest[i] \notin queued /\ rest[i] # buf
                                 /\ handed < content[rest[i]].seq /\ rest[i] # Head(done)
      BY <3>1 DEF LinuxInv, Waiting
    <3>5. \A i, j \in 1..Len(rest) : i # j => i + 1 # j + 1
      OBVIOUS
    <3>a. \A i, j \in 1..Len(done) : i # j => done[i] # done[j]
      BY DEF LinuxInv, Waiting
    <3>6. \A i, j \in 1..Len(rest) : i # j => rest[i] # rest[j]
      <4> TAKE i, j \in 1..Len(rest)
      <4> HAVE i # j
      <4>1. i + 1 \in 1..Len(done) /\ j + 1 \in 1..Len(done) /\ i + 1 # j + 1
        BY <3>1, <3>5
      <4>2. rest[i] = done[i + 1] /\ rest[j] = done[j + 1]
        BY <3>1
      <4>3. done[i + 1] # done[j + 1]
        BY <4>1, <3>a, Zenon
      <4> QED
        BY <4>2, <4>3, Zenon
    <3> QED
      <4>1. /\ done' \in Seq(Buffers)
            /\ \A i, j \in 1..Len(done') : i # j => done'[i] # done'[j]
        BY <3>1, <3>2, <3>6
      <4>2. \A i \in 1..Len(rest) : /\ rest[i] \notin queued \cup {buf} /\ rest[i] # buf'
                                   /\ rest[i] # held' /\ handed < content[rest[i]].seq
        BY <2>1, <2>2, <3>3, <3>4
      <4> QED
        BY <1>0, <2>1, <3>2, <4>1, <4>2 DEF Waiting
  <2>5. /\ buf' \in Buffers /\ buf' \notin queued' /\ buf' = done[1]
        /\ handed < content[buf'].seq
    BY <2>1, <2>2, TailOf DEF LinuxInv, Waiting
  <2>6. InHand'
    BY <1>0, <2>1, <2>2, <2>5 DEF InHand, Before
  <2> QED
    BY <2>3, <2>4, <2>6 DEF LinuxInv
<1>7. CASE DrainFails
  BY <1>0, <1>7, TailOf DEF DrainFails, LinuxInv, Contents, Waiting, InHand, Before
<1>8. CASE HandOutNewest
  BY <1>0, <1>8 DEF HandOutNewest, LinuxInv, Contents, Waiting, InHand, Before
<1> QED
  BY <1>1, <1>2, <1>3, <1>4, <1>5, <1>6, <1>7, <1>8 DEF NextSteps

LEMMA JudgeKeeps == LinuxInv /\ JudgeSteps => LinuxInv'
<1> SUFFICES ASSUME LinuxInv, JudgeSteps PROVE LinuxInv'
    OBVIOUS
<1>1. /\ UNCHANGED <<queued, done, buf, held, content, taken>>
      /\ step = "judging" /\ step' = "idle" /\ handed' = content[held].seq
  BY DEF JudgeSteps, RefuseTruncated, JudgeDecoded, ownVars
<1>2. held \in Buffers
  BY <1>1 DEF LinuxInv, InHand
<1>3. Contents'
  BY <1>1, <1>2 DEF LinuxInv, Contents
<1>4. Waiting' /\ InHand'
  BY <1>1, <1>2 DEF LinuxInv, Waiting, InHand, Before
<1> QED
  BY <1>3, <1>4 DEF LinuxInv

LEMMA LinuxKeeps == LinuxInv /\ StreamNext => LinuxInv'
<1> SUFFICES ASSUME LinuxInv, StreamNext PROVE LinuxInv'
    OBVIOUS
<1>1. CASE PictureLost
  BY <1>1 DEF PictureLost, ownVars, pastVars, LinuxInv, Contents, Waiting, InHand, Before
<1>2. CASE StopStream
  BY <1>2 DEF StopStream, ownVars, pastVars, LinuxInv, Contents, Waiting, InHand, Before
<1>3. CASE DropStream
  BY <1>3 DEF DropStream, LinuxInv, Contents, Waiting, InHand, Before, Blank, Buffers
<1> QED
  BY <1>1, <1>2, <1>3, StartKeeps, NextKeeps, JudgeKeeps, FillKeeps
  DEF StreamNext, DriverSteps, Buffers

(* A move of FrameSource, from the pictures taken t, the number handed out *)
(* h and the frame on view v; none of them moving is a stutter.            *)
Moves(t, h, v, t2, h2, v2) ==
  \/ t2 = t + 1 /\ h2 = h /\ v2 = v
  \/ \E n \in h + 1 .. t : h2 = n /\ v2 \in Promise!Showing(n) \cup {None} /\ t2 = t
  \/ v2 = None /\ t2 = t /\ h2 = h
  \/ t2 = 0 /\ h2 = 0 /\ v2 = None
  \/ t2 = t /\ h2 = h /\ v2 = v

LEMMA LinuxMoves ==
  LinuxInv /\ StreamNext => Moves(taken, handed, LinuxView, taken', handed', LinuxView')
<1> SUFFICES ASSUME LinuxInv, StreamNext
             PROVE  Moves(taken, handed, LinuxView, taken', handed', LinuxView')
    OBVIOUS
<1>1. CASE StartSteps
  <2>1. /\ taken' = taken /\ handed' = handed /\ held' = held /\ held = None
    BY <1>1 DEF StartSteps, OpenCamera, ReqBufs, ReqBufsFails, MapOne, MapFails, QueueOne,
                StreamOn, StartFails, ownVars, pastVars, LinuxInv, InHand, Before
  <2>2. LinuxView' = None
    BY <2>1 DEF LinuxView
  <2> QED
    BY <2>1, <2>2 DEF Moves
<1>2. CASE NextSteps
  <2>1. taken' = taken /\ handed' = handed
    BY <1>2 DEF NextSteps, CallNext, RequeueHeldFails, TimesOut, DequeueFirst, WaitFails,
                DrainOne, DrainFails, HandOutNewest, pastVars
  <2>2. step' # "idle" \/ verdict' = "timeout"
    BY <1>2 DEF NextSteps, CallNext, RequeueHeldFails, TimesOut, DequeueFirst, WaitFails,
                DrainOne, DrainFails, HandOutNewest
  <2>3. LinuxView' = None
    BY <2>2 DEF LinuxView
  <2> QED
    BY <2>1, <2>3 DEF Moves
<1>3. CASE JudgeSteps
  <2>1. /\ taken' = taken /\ handed' = content[held].seq /\ content' = content
        /\ held' = held /\ step = "judging"
    BY <1>3 DEF JudgeSteps, RefuseTruncated, JudgeDecoded, ownVars
  <2>2. held \in Buffers /\ handed < content[held].seq
    BY <2>1 DEF LinuxInv, InHand
  <2>3. content[held].seq \in handed + 1 .. taken /\ content[held].of = content[held].seq
    BY <2>2 DEF LinuxInv, Contents
  <2>4. LinuxView' \in Promise!Showing(content[held].seq) \cup {None}
    BY <2>1, <2>3 DEF LinuxView, Promise!Showing
  <2> QED
    BY <2>1, <2>3, <2>4 DEF Moves
<1>4. CASE PictureLost
  <2>1. taken' = taken + 1 /\ handed' = handed /\ LinuxView' = LinuxView
    BY <1>4 DEF PictureLost, ownVars, filterVars, pastVars, LinuxView
  <2> QED
    BY <2>1 DEF Moves
<1>5. ASSUME NEW b \in Buffers, Fill(b)
      PROVE  Moves(taken, handed, LinuxView, taken', handed', LinuxView')
  <2>1. /\ taken' = taken + 1 /\ handed' = handed /\ b \in queued
        /\ step' = step /\ verdict' = verdict /\ held' = held
    BY <1>5 DEF Fill, filterVars, pastVars
  <2>2. held # None => held \in Buffers /\ held # b
    BY <2>1 DEF LinuxInv, InHand
  <2>3. held # None => content'[held] = content[held]
    BY <1>5, <2>2 DEF Fill, LinuxInv, Contents
  <2>4. LinuxView' = LinuxView
    BY <2>1, <2>3 DEF LinuxView
  <2> QED
    BY <2>1, <2>4 DEF Moves
<1>6. CASE StopStream
  <2>1. taken' = taken /\ handed' = handed /\ LinuxView' = None
    BY <1>6 DEF StopStream, pastVars, LinuxView
  <2> QED
    BY <2>1 DEF Moves
<1>7. CASE DropStream
  <2>1. taken' = 0 /\ handed' = 0 /\ LinuxView' = None
    BY <1>7 DEF DropStream, LinuxView
  <2> QED
    BY <2>1 DEF Moves
<1> QED
  BY <1>1, <1>2, <1>3, <1>4, <1>5, <1>6, <1>7 DEF StreamNext, DriverSteps, Buffers

-----------------------------------------------------------------------------
(* The macOS path.                                                         *)

Numbered == [luma : Nat \ {0}, seq : Nat, shape : Shapes]

(* A frame shows the picture of its number, or an older one if it was of   *)
(* another shape.                                                          *)
Shows(f) == IF f.shape = "set" THEN f.luma = f.seq ELSE f.luma < f.seq

(* What waits in the channel is newer than what was handed out; what the   *)
(* callback is about to send is newer than all that waits.                 *)
Queue ==
  /\ shots \in Nat /\ given \in Nat /\ given <= shots
  /\ callback \in {"idle", "took", "copied"}
  /\ callback # "idle" => given < shots
  /\ luma \in Nat /\ shape \in Shapes
  /\ callback = "took" => luma < shots
  /\ callback = "copied" => IF shape = "set" THEN luma = shots ELSE luma < shots
  /\ frames \in Seq(Numbered)
  /\ \A i \in 1..Len(frames) :
        /\ Shows(frames[i]) /\ given < frames[i].seq /\ frames[i].seq <= shots
        /\ callback # "idle" => frames[i].seq < shots
  /\ \A i, j \in 1..Len(frames) : i < j => frames[i].seq < frames[j].seq

(* What next_luma has received: older than all that waits, one frame while *)
(* it drains and two while it swaps.                                       *)
Received ==
  /\ local \in Seq(Numbered)
  /\ turn \notin {"draining", "swapping"} => local = <<>>
  /\ turn = "draining" => Len(local) = 1
  /\ turn = "swapping" => Len(local) = 2
  /\ \A i \in 1..Len(local) :
        /\ Shows(local[i]) /\ given < local[i].seq /\ local[i].seq <= shots
        /\ callback # "idle" => local[i].seq < shots
        /\ \A j \in 1..Len(frames) : local[i].seq < frames[j].seq

OnView == turn # "idle" => current = <<>>

(* The user is asked while nothing runs.                                   *)
Asking == /\ grant = "asking" <=> turn = "asking"
          /\ turn \in {"closed", "asking"} => current = <<>>

(* Buffers hold pictures the camera has taken.                             *)
Pooled ==
  /\ spare \in Seq(Nat) /\ \A i \in 1..Len(spare) : spare[i] <= shots
  /\ current \in Seq(Numbered) /\ \A i \in 1..Len(current) : current[i].luma <= shots

MacInv == Queue /\ Received /\ OnView /\ Asking /\ Pooled

LEMMA NumbersOf == \A x \in Numbered : /\ x.luma \in Nat /\ x.luma # 0 /\ x.seq \in Nat
                                       /\ x.shape \in Shapes
BY DEF Numbered

LEMMA NumbersWaiting ==
  ASSUME MacInv
  PROVE  /\ \A i \in 1..Len(frames) : frames[i] \in Numbered /\ frames[i].seq \in Nat
         /\ \A i \in 1..Len(local) : local[i] \in Numbered /\ local[i].seq \in Nat
BY NumbersOf DEF MacInv, Queue, Received

LEMMA MacInit == CameraInit => MacInv
BY DEF CameraInit, Stopped, MacInv, Queue, Received, OnView, Asking, Pooled

(* The thread that calls next_luma, and the steps that open and close.     *)
LEMMA CallsKeep ==
  ASSUME MacInv, CameraNext, ~CallbackSteps, ~Receive, ~GiveBackSkipped
  PROVE  Queue' /\ Received' /\ OnView' /\ Asking'
<1>1. CASE AskForCamera \/ UserAnswers
  BY <1>1 DEF AskForCamera, UserAnswers, MacInv, Queue, Received, OnView, Asking
<1>2. CASE StartCapture
  BY <1>2 DEF StartCapture, MacInv, Queue, Received, OnView, Asking
<1>3. CASE StopCapture
  BY <1>3 DEF StopCapture, MacInv, Queue, Received, OnView, Asking
<1>4. CASE GiveBack
  BY <1>4 DEF GiveBack, MacInv, Queue, Received, OnView, Asking
<1>5. CASE NothingCame
  BY <1>5 DEF NothingCame, MacInv, Queue, Received, OnView, Asking
<1>6. CASE ShowNewest
  <2>1. /\ frames = <<>> /\ frames' = <<>> /\ local' = <<>> /\ current' = local /\ turn' = "idle"
        /\ given' = Head(local).seq /\ shots' = shots /\ callback' = callback /\ luma' = luma
        /\ grant' = grant /\ shape' = shape /\ turn = "draining"
    BY <1>6 DEF ShowNewest
  <2>2. Len(local) = 1 /\ Head(local) = local[1] /\ 1 \in 1..Len(local)
    <3>1. Len(local) = 1 /\ local \in Seq(Numbered)
      BY <2>1 DEF MacInv, Received
    <3> QED
      BY <3>1
  <2>3. /\ local[1].seq <= shots /\ local[1].seq \in Nat
        /\ callback # "idle" => local[1].seq < shots
    BY <2>2, NumbersWaiting DEF MacInv, Received
  <2>4. Queue'
    BY <2>1, <2>2, <2>3 DEF MacInv, Queue
  <2> QED
    BY <2>1, <2>4 DEF MacInv, Received, OnView, Asking
<1> QED
  BY <1>1, <1>2, <1>3, <1>4, <1>5, <1>6 DEF CameraNext, TrackerSteps

LEMMA ReceiveKeeps == ASSUME MacInv, Receive PROVE Queue' /\ Received' /\ OnView' /\ Asking'
<1> DEFINE first == Head(frames)
           rest == Tail(frames)
<1>1. /\ frames' = rest /\ local' = Append(local, first) /\ turn \in {"receiving", "draining"}
      /\ turn' = IF turn = "receiving" THEN "draining" ELSE "swapping"
      /\ UNCHANGED <<grant, callback, luma, shape, current, shots, given>> /\ frames # <<>>
  BY DEF Receive
<1>2. /\ first = frames[1] /\ first \in Numbered /\ rest \in Seq(Numbered) /\ 1 \in 1..Len(frames)
      /\ \A i \in 1..Len(rest) : i + 1 \in 1..Len(frames) /\ 1 < i + 1 /\ rest[i] = frames[i + 1]
  BY <1>1, TailOf DEF MacInv, Queue
<1> HIDE DEF first, rest
<1>3. \A i, j \in 1..Len(rest) : i < j => rest[i].seq < rest[j].seq
  <2> TAKE i, j \in 1..Len(rest)
  <2> HAVE i < j
  <2>1. i + 1 \in 1..Len(frames) /\ j + 1 \in 1..Len(frames) /\ i + 1 < j + 1
    BY <1>2
  <2> QED
    BY <1>2, <2>1 DEF MacInv, Queue
<1>4. \A i \in 1..Len(rest) :
        /\ Shows(rest[i]) /\ given < rest[i].seq /\ rest[i].seq <= shots
        /\ callback # "idle" => rest[i].seq < shots
        /\ first.seq < rest[i].seq
  BY <1>2 DEF MacInv, Queue
<1>5. Queue'
  BY <1>1, <1>2, <1>3, <1>4 DEF MacInv, Queue
<1>6. /\ Shows(first) /\ given < first.seq /\ first.seq <= shots
      /\ callback # "idle" => first.seq < shots
  BY <1>2 DEF MacInv, Queue
<1>7. /\ local' \in Seq(Numbered) /\ Len(local') = Len(local) + 1 /\ local'[Len(local) + 1] = first
      /\ \A i \in 1..Len(local) : local'[i] = local[i]
  BY <1>1, <1>2 DEF MacInv, Received
<1>8. \A i \in 1..Len(local), j \in 1..Len(rest) : local[i].seq < rest[j].seq
  BY <1>2 DEF MacInv, Received
<1>9. \A i \in 1..Len(local') :
        /\ Shows(local'[i]) /\ given < local'[i].seq /\ local'[i].seq <= shots
        /\ callback # "idle" => local'[i].seq < shots
        /\ \A j \in 1..Len(rest) : local'[i].seq < rest[j].seq
  <2> TAKE i \in 1..Len(local')
  <2>1. CASE i \in 1..Len(local)
    BY <2>1, <1>7, <1>8 DEF MacInv, Received
  <2>2. CASE i = Len(local) + 1
    BY <2>2, <1>4, <1>6, <1>7
  <2> QED
    BY <2>1, <2>2, <1>7 DEF MacInv, Received
<1>a. (turn = "receiving" => Len(local') = 1) /\ (turn = "draining" => Len(local') = 2)
  BY <1>7 DEF MacInv, Received
<1>10. Received'
  BY <1>1, <1>7, <1>9, <1>a DEF MacInv, Received
<1> QED
  BY <1>1, <1>5, <1>10 DEF MacInv, OnView, Asking

LEMMA SkipKeeps == ASSUME MacInv, GiveBackSkipped PROVE Queue' /\ Received' /\ OnView' /\ Asking'
<1>1. /\ local' = Tail(local) /\ turn = "swapping" /\ turn' = "draining"
      /\ UNCHANGED <<grant, callback, luma, shape, frames, current, shots, given>>
  BY DEF GiveBackSkipped
<1>2. /\ Len(local) = 2 /\ local' \in Seq(Numbered) /\ Len(local') = 1 /\ local'[1] = local[2]
  BY <1>1 DEF MacInv, Received
<1>3. Received'
  BY <1>1, <1>2 DEF MacInv, Received
<1> QED
  BY <1>1, <1>3 DEF MacInv, Queue, OnView, Asking

(* The callback works on a picture newer than all that waits.              *)
LEMMA CallbackKeeps == ASSUME MacInv, CallbackSteps PROVE Queue' /\ Received' /\ OnView' /\ Asking'
<1>1. CASE ShotWithoutImage
  <2>1. /\ shots' = shots + 1 /\ callback = "idle" /\ callback' = "idle"
        /\ UNCHANGED <<grant, turn, luma, shape, frames, local, current, given>>
    BY <1>1 DEF ShotWithoutImage
  <2>2. Queue'
    BY <2>1, NumbersWaiting DEF MacInv, Queue
  <2>3. Received'
    BY <2>1, NumbersWaiting DEF MacInv, Received, Queue
  <2> QED
    BY <2>1, <2>2, <2>3 DEF MacInv, OnView, Asking
<1>2. CASE TakeBuffer
  <2>1. /\ shots' = shots + 1 /\ callback = "idle" /\ callback' = "took"
        /\ UNCHANGED <<grant, turn, frames, local, current, given>>
        /\ luma' = (IF spare = <<>> THEN 0 ELSE Head(spare)) /\ shape' \in Shapes
    BY <1>2 DEF TakeBuffer
  <2>2. Queue'
    <3>1. shots' \in Nat /\ given < shots' /\ given \in Nat /\ given <= shots' /\ shots < shots'
      BY <2>1 DEF MacInv, Queue
    <3>2. \A i \in 1..Len(frames) : frames[i].seq <= shots' /\ frames[i].seq < shots'
      BY <2>1, NumbersWaiting DEF MacInv, Queue
    <3>3. luma' \in Nat /\ luma' < shots'
      <4>1. spare # <<>> => /\ Head(spare) = spare[1] /\ 1 \in 1..Len(spare)
                            /\ spare[1] \in Nat /\ spare[1] <= shots
        BY DEF MacInv, Pooled
      <4> QED
        BY <2>1, <3>1, <4>1 DEF MacInv, Queue
    <3> QED
      BY <2>1, <3>1, <3>2, <3>3 DEF MacInv, Queue
  <2>3. Received'
    BY <2>1, NumbersWaiting DEF MacInv, Received, Queue
  <2> QED
    BY <2>1, <2>2, <2>3 DEF MacInv, OnView, Asking
<1>3. CASE LockFails
  BY <1>3 DEF LockFails, MacInv, Queue, Received, OnView, Asking
<1>4. CASE CopyPicture
  BY <1>4 DEF CopyPicture, MacInv, Queue, Received, OnView, Asking
<1>5. CASE SendFrame /\ frames' = frames
  BY <1>5 DEF SendFrame, MacInv, Queue, Received, OnView, Asking
<1>6. CASE SendFrame /\ luma # 0
           /\ frames' = Append(frames, [luma |-> luma, seq |-> shots, shape |-> shape])
  <2> DEFINE new == [luma |-> luma, seq |-> shots, shape |-> shape]
  <2>1. /\ callback = "copied" /\ callback' = "idle" /\ frames' = Append(frames, new)
        /\ luma' = 0 /\ shape' = "other"
        /\ UNCHANGED <<grant, turn, local, current, shots, given>>
    BY <1>6 DEF SendFrame
  <2>2. new \in Numbered /\ Shows(new) /\ new.seq = shots /\ given < shots
    BY <1>6, <2>1 DEF MacInv, Queue, Numbered, Shows
  <2> HIDE DEF new
  <2>3. /\ frames' \in Seq(Numbered) /\ Len(frames') = Len(frames) + 1
        /\ frames'[Len(frames) + 1] = new /\ \A i \in 1..Len(frames) : frames'[i] = frames[i]
    BY <2>1, <2>2 DEF MacInv, Queue
  <2>4. \A i \in 1..Len(frames) : /\ Shows(frames[i]) /\ given < frames[i].seq
                                  /\ frames[i].seq < shots /\ frames[i].seq <= shots
    BY <2>1 DEF MacInv, Queue
  <2>5. Queue'
    BY <2>1, <2>2, <2>3, <2>4 DEF MacInv, Queue
  <2>6. \A i \in 1..Len(local) : local[i].seq < shots
    BY <2>1 DEF MacInv, Received
  <2>7. Received'
    BY <2>1, <2>2, <2>3, <2>6 DEF MacInv, Received
  <2> QED
    BY <2>1, <2>5, <2>7 DEF MacInv, OnView, Asking
<1>7. CASE SkipCopy
  BY <1>7 DEF SkipCopy, MacInv, Queue, Received, OnView, Asking
<1> QED
  BY <1>1, <1>2, <1>3, <1>4, <1>5, <1>6, <1>7 DEF CallbackSteps, SendFrame

(* A buffer given back holds the picture its frame showed, and those that  *)
(* come later are newer.                                                   *)
LEMMA PooledKeeps == ASSUME MacInv, CameraNext PROVE Pooled'
<1>1. CASE StartCapture
  BY <1>1 DEF StartCapture, MacInv, Pooled, Queue
<1>2. CASE StopCapture
  BY <1>2 DEF StopCapture, Pooled
<1>3. CASE ShotWithoutImage
  <2>1. shots' = shots + 1 /\ current' = current /\ spare' = spare /\ shots \in Nat
    BY <1>3 DEF ShotWithoutImage, MacInv, Queue
  <2>2. \A i \in 1..Len(current) : current[i] \in Numbered /\ current[i].luma <= shots
    BY DEF MacInv, Pooled
  <2>3. \A i \in 1..Len(current) : current[i].luma <= shots'
    BY <2>1, <2>2, NumbersOf
  <2>4. \A i \in 1..Len(spare) : spare[i] \in Nat /\ spare[i] <= shots
    BY DEF MacInv, Pooled
  <2>5. \A i \in 1..Len(spare) : spare[i] <= shots'
    BY <2>1, <2>4
  <2> QED
    BY <2>1, <2>3, <2>5 DEF MacInv, Pooled
<1>4. CASE TakeBuffer
  <2>1. shots' = shots + 1 /\ current' = current /\ shots \in Nat
    BY <1>4 DEF TakeBuffer, MacInv, Queue
  <2>2. \A i \in 1..Len(current) : current[i] \in Numbered /\ current[i].luma <= shots
    BY DEF MacInv, Pooled
  <2>3. \A i \in 1..Len(current) : current[i].luma <= shots'
    BY <2>1, <2>2, NumbersOf
  <2>4. CASE spare = <<>>
    BY <1>4, <2>1, <2>3, <2>4 DEF TakeBuffer, MacInv, Pooled
  <2>5. CASE spare # <<>>
    <3>1. /\ spare' = Tail(spare) /\ spare' \in Seq(Nat)
          /\ \A i \in 1..Len(spare') : i + 1 \in 1..Len(spare) /\ spare'[i] = spare[i + 1]
      BY <1>4, <2>5, TailOf DEF TakeBuffer, MacInv, Pooled
    <3>2. \A i \in 1..Len(spare) : spare[i] <= shots /\ spare[i] \in Nat
      BY DEF MacInv, Pooled
    <3>3. \A i \in 1..Len(spare') : spare'[i] <= shots'
      BY <2>1, <3>1, <3>2
    <3> QED
      BY <2>1, <2>3, <3>1, <3>3 DEF MacInv, Pooled
  <2> QED
    BY <2>4, <2>5
<1>5. CASE GiveBack
  <2> DEFINE back == [i \in DOMAIN current |-> current[i].luma]
  <2>1. /\ DOMAIN current = 1..Len(current) /\ Len(current) \in Nat
        /\ \A i \in 1..Len(current) : current[i].luma \in Nat /\ current[i].luma <= shots
    BY NumbersOf DEF MacInv, Pooled
  <2>2. /\ back \in Seq(Nat) /\ Len(back) = Len(current)
        /\ \A i \in 1..Len(back) : back[i] <= shots
    BY <2>1
  <2> HIDE DEF back
  <2>3. spare' = spare \o back /\ current' = <<>> /\ shots' = shots
    BY <1>5 DEF GiveBack, back
  <2>4. /\ spare' \in Seq(Nat)
        /\ \A i \in 1..Len(spare') : spare'[i] <= shots
    BY <2>2, <2>3 DEF MacInv, Pooled
  <2> QED
    BY <2>3, <2>4 DEF Pooled
<1>6. CASE GiveBackSkipped
  <2>1. /\ Len(local) = 2 /\ Head(local) = local[1] /\ 1 \in 1..Len(local)
        /\ local[1] \in Numbered /\ Shows(local[1]) /\ local[1].seq <= shots
    <3>1. Len(local) = 2 /\ local \in Seq(Numbered)
      BY <1>6 DEF GiveBackSkipped, MacInv, Received
    <3>2. Head(local) = local[1] /\ 1 \in 1..Len(local) /\ local[1] \in Numbered
      BY <3>1
    <3> QED
      BY <3>1, <3>2 DEF MacInv, Received
  <2>2. local[1].luma \in Nat /\ local[1].luma <= shots
    BY <2>1, NumbersOf DEF Shows, MacInv, Queue
  <2>3. spare' = Append(spare, local[1].luma) /\ current' = current /\ shots' = shots
    BY <1>6, <2>1 DEF GiveBackSkipped
  <2> QED
    BY <2>2, <2>3 DEF MacInv, Pooled
<1>7. CASE ShowNewest
  <2>1. /\ local \in Seq(Numbered)
        /\ \A i \in 1..Len(local) : Shows(local[i]) /\ local[i].seq <= shots
    BY DEF MacInv, Received
  <2>2. \A i \in 1..Len(local) : local[i] \in Numbered
    BY <2>1
  <2>3. \A i \in 1..Len(local) : local[i].luma <= shots
    BY <2>1, <2>2, NumbersOf DEF Shows, MacInv, Queue
  <2>4. current' = local /\ spare' = spare /\ shots' = shots
    BY <1>7 DEF ShowNewest
  <2> QED
    BY <2>1, <2>3, <2>4 DEF MacInv, Pooled
<1>8. CASE UNCHANGED <<spare, current, shots>>
  BY <1>8 DEF MacInv, Pooled
<1>9. ASSUME ~StartCapture, ~StopCapture, ~ShotWithoutImage, ~TakeBuffer, ~GiveBack,
             ~GiveBackSkipped, ~ShowNewest
      PROVE  UNCHANGED <<spare, current, shots>>
  BY <1>9 DEF CameraNext, CallbackSteps, TrackerSteps, AskForCamera, UserAnswers, LockFails,
              CopyPicture, SkipCopy, SendFrame, NothingCame, Receive
<1> QED
  BY <1>1, <1>2, <1>3, <1>4, <1>5, <1>6, <1>7, <1>8, <1>9

LEMMA MacKeeps == ASSUME MacInv, CameraNext PROVE MacInv'
<1>1. Queue' /\ Received' /\ OnView' /\ Asking'
  BY CallsKeep, ReceiveKeeps, SkipKeeps, CallbackKeeps
<1> QED
  BY <1>1, PooledKeeps DEF MacInv

LEMMA MacMoves ==
  ASSUME MacInv, CameraNext
  PROVE  Moves(shots, given, MacView, shots', given', MacView')
<1>1. CASE ShotWithoutImage \/ TakeBuffer
  BY <1>1 DEF ShotWithoutImage, TakeBuffer, MacView, Moves
<1>2. CASE StopCapture
  BY <1>2 DEF StopCapture, MacView, Moves
<1>3. CASE GiveBack
  BY <1>3 DEF GiveBack, MacView, Moves
<1>4. CASE ShowNewest
  <2>1. /\ current' = local /\ given' = Head(local).seq /\ shots' = shots /\ turn = "draining"
    BY <1>4 DEF ShowNewest
  <2>2. Len(local) = 1 /\ Head(local) = local[1] /\ 1 \in 1..Len(local) /\ local # <<>>
    BY <2>1 DEF MacInv, Received
  <2>3. /\ local[1].seq \in given + 1 .. shots /\ Shows(local[1])
    <3>1. Shows(local[1]) /\ given < local[1].seq /\ local[1].seq <= shots
      BY <2>2 DEF MacInv, Received
    <3>2. local[1].seq \in Nat /\ given \in Nat /\ shots \in Nat
      BY <2>2, NumbersWaiting DEF MacInv, Queue
    <3> QED
      BY <3>1, <3>2
  <2>4. MacView' = [seq |-> local[1].seq, of |-> local[1].luma, shape |-> local[1].shape]
    BY <2>1, <2>2 DEF MacView
  <2>5. MacView' \in Promise!Showing(local[1].seq)
    <3>1. local[1] \in Numbered
      BY <2>2 DEF MacInv, Received
    <3> QED
      BY <2>3, <2>4, <3>1, NumbersOf DEF Shows, Promise!Showing
  <2> QED
    BY <2>1, <2>2, <2>3, <2>5 DEF Moves
<1>5. ASSUME ~(ShotWithoutImage \/ TakeBuffer), ~StopCapture, ~GiveBack, ~ShowNewest
      PROVE  UNCHANGED <<shots, given, current>>
  BY <1>5 DEF CameraNext, CallbackSteps, TrackerSteps, AskForCamera, UserAnswers, StartCapture,
              LockFails, CopyPicture, SkipCopy, SendFrame, NothingCame, Receive, GiveBackSkipped
<1>6. CASE UNCHANGED <<shots, given, current>>
  BY <1>6 DEF MacView, Moves
<1> QED
  BY <1>1, <1>2, <1>3, <1>4, <1>5, <1>6

-----------------------------------------------------------------------------
(* Either platform.                                                        *)

IInv == /\ platform \in {"linux", "macos"}
        /\ platform = "linux" => LinuxInv
        /\ platform = "macos" => MacInv

LEMMA LinuxRests == LinuxInv /\ UNCHANGED v4l2Vars => LinuxInv'
BY DEF v4l2Vars, ownVars, filterVars, pastVars, LinuxInv, Contents, Waiting, InHand, Before

LEMMA MacRests == MacInv /\ UNCHANGED avVars => MacInv'
BY DEF avVars, MacInv, Queue, Received, OnView, Asking, Pooled

LEMMA Invariance == Init => IInv
BY LinuxInit, MacInit DEF Init, IInv

LEMMA Keeps == IInv /\ [Next]_vars => IInv'
<1> SUFFICES ASSUME IInv, [Next]_vars PROVE IInv'
    OBVIOUS
<1>1. CASE LinuxStep
  BY <1>1, LinuxKeeps DEF LinuxStep, IInv
<1>2. CASE MacStep
  BY <1>2, MacKeeps DEF MacStep, IInv
<1>3. CASE UNCHANGED vars
  BY <1>3, LinuxRests, MacRests DEF vars, IInv
<1> QED
  BY <1>1, <1>2, <1>3 DEF Next

LEMMA FirstView == Init => Promise!Init
BY DEF Init, StreamInit, Closed, CameraInit, Stopped, Promise!Init, LinuxView, MacView

LEMMA Simulates ==
  IInv /\ [Next]_vars => [Promise!Next]_(Promise!promised)
<1> SUFFICES ASSUME IInv, [Next]_vars
             PROVE  [Promise!Next]_(Promise!promised)
    OBVIOUS
<1>1. CASE LinuxStep
  <2>1. Moves(taken, handed, LinuxView, taken', handed', LinuxView')
    BY <1>1, LinuxMoves DEF LinuxStep, IInv
  <2>2. platform = "linux" /\ platform' = "linux"
    BY <1>1 DEF LinuxStep
  <2> QED
    BY <2>1, <2>2 DEF Moves, Promise!Next, Promise!promised, Promise!TakePicture,
                      Promise!HandOut, Promise!TakeBack, Promise!EndSession
<1>2. CASE MacStep
  <2>1. Moves(shots, given, MacView, shots', given', MacView')
    BY <1>2, MacMoves DEF MacStep, IInv
  <2>2. platform = "macos" /\ platform' = "macos"
    BY <1>2 DEF MacStep
  <2> QED
    BY <2>1, <2>2 DEF Moves, Promise!Next, Promise!promised, Promise!TakePicture,
                      Promise!HandOut, Promise!TakeBack, Promise!EndSession
<1>3. CASE UNCHANGED vars
  BY <1>3 DEF vars, v4l2Vars, avVars, ownVars, filterVars, pastVars, Promise!promised,
              LinuxView, MacView
<1> QED
  BY <1>1, <1>2, <1>3 DEF Next

(* Both capture paths implement FrameSource, however many buffers there    *)
(* are and however many pictures come, in whatever shape: one whole        *)
(* picture at a time, newer than the last, unchanged until it is given     *)
(* back (Stream::next, Stream::next_luma), and its own if its shape is the *)
(* one that was set.  In any other shape it is not copied, and what goes   *)
(* out under its number is an older picture (FrameSink::deliver).          *)
THEOREM FrameSourceIsImplemented == Spec => FramesArePromised
<1>1. Init => IInv /\ Promise!Init
  BY Invariance, FirstView
<1>2. IInv /\ [Next]_vars => IInv'
  BY Keeps
<1>3. IInv /\ [Next]_vars => [Promise!Next]_(Promise!promised)
  BY Simulates
<1> QED
  BY <1>1, <1>2, <1>3, PTL DEF Spec, FramesArePromised, Promise!Spec

-----------------------------------------------------------------------------
(* The newest frame.  Once nothing waits behind the buffer in next()'s     *)
(* hands, it is the last one of the queue that next() looked at.           *)
LooksLast == step = "draining" /\ done = <<>> => content[buf].seq = ready

NewestInv == LinuxInv /\ LooksLast

LEMMA LastOfOne == ASSUME NEW S, NEW q \in Seq(S), q # <<>>, Tail(q) = <<>>
                   PROVE  Last(q) = Head(q)
<1>1. Len(Tail(q)) = Len(q) - 1
  BY TailOf
<1>2. Len(q) = 1
  <2>1. Len(<<>>) = 0 /\ Len(q) \in Nat
    OBVIOUS
  <2>2. Len(<<>>) = Len(q) - 1
    BY <1>1, Zenon
  <2> QED
    BY <2>1, <2>2
<1>3. Last(q) = q[1]
  BY <1>2 DEF Last
<1>4. Head(q) = q[1]
  BY TailOf
<1> QED
  BY <1>3, <1>4

LEMMA LooksLastKeeps == LinuxInv /\ LooksLast /\ StreamNext => LooksLast'
<1> SUFFICES ASSUME LinuxInv, LooksLast, StreamNext, step' = "draining", done' = <<>>
             PROVE  content'[buf'].seq = ready'
    BY DEF LooksLast
<1>1. CASE DequeueFirst \/ DrainOne
  <2>1. /\ done # <<>> /\ Tail(done) = <<>> /\ buf' = Head(done) /\ content' = content
        /\ ready' = content[Last(done)].seq
    BY <1>1 DEF DequeueFirst, DrainOne
  <2>2. Last(done) = Head(done)
    BY <2>1, LastOfOne DEF LinuxInv, Waiting
  <2> QED
    BY <2>1, <2>2
<1>2. CASE PictureLost
  BY <1>2 DEF PictureLost, ownVars, pastVars, LooksLast
<1>3. ASSUME NEW b \in Buffers, Fill(b) PROVE FALSE
  <2>1. done' = Append(done, b) /\ done \in Seq(Buffers)
    BY <1>3 DEF Fill, LinuxInv, Waiting
  <2> QED
    BY <2>1
<1>4. ASSUME StartSteps \/ JudgeSteps \/ StopStream \/ DropStream PROVE FALSE
  BY <1>4 DEF StartSteps, OpenCamera, ReqBufs, ReqBufsFails, MapOne, MapFails, QueueOne, StreamOn,
              StartFails, JudgeSteps, RefuseTruncated, JudgeDecoded, StopStream, DropStream
<1>5. ASSUME NextSteps, ~DequeueFirst, ~DrainOne PROVE FALSE
  BY <1>5 DEF NextSteps, CallNext, RequeueHeldFails, TimesOut, WaitFails, DrainFails, HandOutNewest
<1> QED
  BY <1>1, <1>2, <1>3, <1>4, <1>5 DEF StreamNext, DriverSteps, Buffers

LEMMA HandsOutNewest ==
  LinuxInv /\ LooksLast /\ StreamNext /\ step = "draining" /\ step' = "judging"
    => content[held'].seq = ready
<1> SUFFICES ASSUME LinuxInv, LooksLast, StreamNext, step = "draining", step' = "judging"
             PROVE  content[held'].seq = ready
    OBVIOUS
<1>1. HandOutNewest
  BY DEF StreamNext, StartSteps, OpenCamera, ReqBufs, ReqBufsFails, MapOne, MapFails, QueueOne,
         StreamOn, StartFails, NextSteps, CallNext, RequeueHeldFails, TimesOut, DequeueFirst,
         WaitFails, DrainOne, DrainFails, JudgeSteps, RefuseTruncated, JudgeDecoded,
         DriverSteps, PictureLost, Fill, StopStream, DropStream
<1> QED
  BY <1>1 DEF HandOutNewest, LooksLast

(* The frame that Stream::next hands out is the newest that was ready when *)
(* it last looked: a backlog is never shown picture by picture, whichever  *)
(* requeue or wait fails on the way (Stream::next with newest).            *)
THEOREM NewestGoesOut == Spec => NewestIsHandedOut
<1>1. Init => NewestInv
  BY LinuxInit DEF Init, StreamInit, NewestInv, LooksLast
<1>2. NewestInv /\ [Next]_vars => NewestInv'
  <2> SUFFICES ASSUME NewestInv, [Next]_vars PROVE NewestInv'
      OBVIOUS
  <2>1. CASE LinuxStep
    BY <2>1, LinuxKeeps, LooksLastKeeps DEF LinuxStep, NewestInv
  <2>2. CASE UNCHANGED v4l2Vars
    BY <2>2 DEF v4l2Vars, ownVars, filterVars, pastVars, NewestInv, LinuxInv, Contents,
                Waiting, InHand, Before, LooksLast
  <2> QED
    BY <2>1, <2>2 DEF Next, MacStep, vars
<1>3. NewestInv /\ [Next]_vars
        => [step = "draining" /\ step' = "judging" => content[held'].seq = ready]_v4l2Vars
  <2> SUFFICES ASSUME NewestInv, [Next]_vars
               PROVE  [step = "draining" /\ step' = "judging"
                         => content[held'].seq = ready]_v4l2Vars
      OBVIOUS
  <2>1. CASE LinuxStep
    BY <2>1, HandsOutNewest DEF LinuxStep, NewestInv
  <2>2. CASE UNCHANGED v4l2Vars
    BY <2>2
  <2> QED
    BY <2>1, <2>2 DEF Next, MacStep, vars
<1> QED
  BY <1>1, <1>2, <1>3, PTL DEF Spec, NewestIsHandedOut

-----------------------------------------------------------------------------
(* The buffers.  They are mapped and queued one by one in start_stream;    *)
(* from STREAMON to the drop all of them are mapped.                       *)
Steps == {"closed", "open", "mapping", "queueing", "idle", "waiting", "draining", "judging",
          "dropping"}

Granted ==
  /\ step \in Steps
  /\ made \in 0..MaxBuffers
  /\ mapped \subseteq 1..made /\ queued \subseteq 1..made
  /\ step \in {"closed", "open"} => mapped = {}
  /\ step \in {"closed", "open", "mapping"} => queued = {}
  /\ step = "mapping" => \E k \in 0..made : k # made /\ mapped = 1..k
  /\ step = "queueing" => mapped = 1..made /\ \E k \in 0..made : queued = 1..k
  /\ Streaming => mapped = 1..made

(* Who has which: every buffer granted is queued, filled or next()'s own.  *)
Shared ==
  /\ done \in Seq(1..made)
  /\ {buf, held} \subseteq (1..made) \cup {None}
  /\ buf = None \/ held = None
  /\ Streaming => queued \cup Range(done) \cup OurOwn = 1..made

LEMMA RangeOfAppend ==
  ASSUME NEW S, NEW q \in Seq(S), NEW x \in S
  PROVE  \A y : y \in Range(Append(q, x)) <=> y = x \/ y \in Range(q)
<1> DEFINE a == Append(q, x)
<1>1. /\ DOMAIN a = 1..Len(q) + 1 /\ DOMAIN q = 1..Len(q) /\ a[Len(q) + 1] = x /\ Len(q) \in Nat
      /\ \A i \in 1..Len(q) : a[i] = q[i]
  OBVIOUS
<1> HIDE DEF a
<1>2. Range(a) \subseteq Range(q) \cup {x}
  <2> SUFFICES ASSUME NEW i \in DOMAIN a PROVE a[i] \in Range(q) \cup {x}
      BY DEF Range
  <2>1. i \in 1..Len(q) \/ i = Len(q) + 1
    BY <1>1
  <2> QED
    BY <1>1, <2>1 DEF Range
<1>3. Range(q) \subseteq Range(a)
  <2> SUFFICES ASSUME NEW i \in DOMAIN q PROVE q[i] \in Range(a)
      BY DEF Range
  <2>1. i \in DOMAIN a /\ a[i] = q[i]
    BY <1>1
  <2> QED
    BY <2>1 DEF Range
<1>4. x \in Range(a)
  <2>1. Len(q) + 1 \in DOMAIN a
    BY <1>1
  <2> QED
    BY <1>1, <2>1 DEF Range
<1>5. \A y : y \in Range(a) <=> y = x \/ y \in Range(q)
  BY <1>2, <1>3, <1>4
<1> QED
  BY <1>5 DEF a

LEMMA RangeOfTail ==
  ASSUME NEW S, NEW q \in Seq(S), q # <<>>
  PROVE  Range(q) = {Head(q)} \cup Range(Tail(q))
<1> DEFINE t == Tail(q)
<1>1. /\ DOMAIN q = 1..Len(q) /\ DOMAIN t = 1..Len(t) /\ Head(q) = q[1] /\ 1 \in DOMAIN q
      /\ Len(q) \in Nat /\ Len(t) = Len(q) - 1
      /\ \A i \in DOMAIN t : i + 1 \in DOMAIN q /\ t[i] = q[i + 1]
  BY TailOf
<1> HIDE DEF t
<1>2. Range(t) \subseteq Range(q) /\ Head(q) \in Range(q)
  BY <1>1 DEF Range
<1>3. ASSUME NEW i \in DOMAIN q PROVE q[i] \in {Head(q)} \cup Range(t)
  <2>1. CASE i = 1
    BY <1>1, <2>1
  <2>2. CASE i # 1
    <3>1. i - 1 \in DOMAIN t /\ (i - 1) + 1 = i
      BY <1>1, <2>2
    <3>2. t[i - 1] = q[i]
      BY <1>1, <3>1
    <3> QED
      BY <3>1, <3>2 DEF Range
  <2> QED
    BY <2>1, <2>2
<1>4. Range(q) \subseteq {Head(q)} \cup Range(t)
  BY <1>3 DEF Range
<1> QED
  BY <1>2, <1>4 DEF t

LEMMA CountTo == ASSUME NEW k \in Nat PROVE Cardinality(1..k) = k
<1>1. Cardinality(1..k) = IF 1 > k THEN 0 ELSE k - 1 + 1
  BY FS_Interval
<1> QED
  BY <1>1

LEMMA OneMore == ASSUME NEW k \in Nat PROVE (1..k) \cup {k + 1} = 1..(k + 1)
OBVIOUS

LEMMA GrantedKeeps == LinuxInv /\ Granted /\ Shared /\ StreamNext => Granted'
<1> SUFFICES ASSUME LinuxInv, Granted, Shared, StreamNext PROVE Granted'
    OBVIOUS
<1>1. CASE OpenCamera \/ ReqBufs \/ ReqBufsFails
  <2>1. CASE OpenCamera
    BY <2>1 DEF OpenCamera, ownVars, Granted, Steps, Streaming
  <2>2. CASE ReqBufs
    <3>a. 1..0 = {}
      OBVIOUS
    <3>b. made' \in 1..MaxBuffers
      BY <2>2 DEF ReqBufs
    <3>c. made' \in Nat /\ 1 <= made' /\ made' <= MaxBuffers
      BY <3>b
    <3>1. 0 \in 0..made' /\ 0 # made' /\ made' \in 0..MaxBuffers
      BY <3>c
    <3>2. mapped' = {} /\ queued' = {} /\ step' = "mapping"
      BY <2>2 DEF ReqBufs, ownVars, Granted
    <3>3. \E k \in 0..made' : k # made' /\ mapped' = 1..k
      BY <3>1, <3>2, <3>a, Zenon
    <3> QED
      BY <3>1, <3>2, <3>3 DEF Granted, Steps, Streaming
  <2>3. CASE ReqBufsFails
    BY <2>3 DEF ReqBufsFails, ownVars, Granted, Steps, Streaming
  <2> QED
    BY <1>1, <2>1, <2>2, <2>3
<1>2. CASE MapOne
  <2>1. PICK k \in 0..made : k # made /\ mapped = 1..k
    BY <1>2 DEF MapOne, Granted
  <2>2. Cardinality(mapped) = k /\ k \in Nat /\ made \in Nat /\ k + 1 <= made
    BY <2>1, CountTo DEF Granted
  <2>3. mapped' = 1..(k + 1)
    BY <1>2, <2>1, <2>2, OneMore DEF MapOne
  <2>4. step' = (IF k + 1 = made THEN "queueing" ELSE "mapping") /\ made' = made
        /\ queued' = queued /\ queued = {}
    BY <1>2, <2>2 DEF MapOne, Granted
  <2>5. CASE k + 1 = made
    <3>1. 1..0 = {} /\ 0 \in 0..made
      BY <2>2
    <3> QED
      BY <2>2, <2>3, <2>4, <2>5, <3>1 DEF Granted, Steps, Streaming
  <2>6. CASE k + 1 # made
    <3>1. k + 1 \in 0..made
      BY <2>2, <2>6
    <3> QED
      BY <2>2, <2>3, <2>4, <2>6, <3>1 DEF Granted, Steps, Streaming
  <2> QED
    BY <2>5, <2>6
<1>3. CASE MapFails
  BY <1>3 DEF MapFails, Granted, Steps, Streaming
<1>4. CASE QueueOne
  <2>1. PICK k \in 0..made : queued = 1..k
    BY <1>4 DEF QueueOne, Granted
  <2>2. Cardinality(queued) = k /\ k \in Nat /\ made \in Nat /\ k + 1 \in 0..made
    BY <1>4, <2>1, CountTo DEF QueueOne, Granted
  <2>3. queued' = 1..(k + 1)
    BY <1>4, <2>1, <2>2, OneMore DEF QueueOne
  <2>4. queued' \subseteq 1..made
    BY <2>2, <2>3
  <2> QED
    BY <1>4, <2>2, <2>3, <2>4 DEF QueueOne, Granted, Steps, Streaming
<1>5. CASE StreamOn \/ StartFails
  BY <1>5 DEF StreamOn, StartFails, ownVars, Granted, Steps, Streaming
<1>6. CASE JudgeSteps \/ PictureLost \/ StopStream
  BY <1>6 DEF JudgeSteps, RefuseTruncated, JudgeDecoded, PictureLost, StopStream, ownVars,
              Granted, Steps, Streaming
<1>7. ASSUME NEW b \in 1..MaxBuffers, Fill(b) PROVE Granted'
  BY <1>7 DEF Fill, Granted, Steps, Streaming
<1>8. CASE DropStream
  BY <1>8 DEF DropStream, Granted, Steps, Streaming
<1>9. CASE NextSteps
  <2>1. /\ step \in {"idle", "waiting", "draining"}
        /\ step' \in {"idle", "waiting", "draining", "judging", "dropping"}
        /\ made' = made /\ mapped' = mapped
    BY <1>9 DEF NextSteps, CallNext, RequeueHeldFails, TimesOut, DequeueFirst, WaitFails,
                DrainOne, DrainFails, HandOutNewest, ownVars
  <2>2. queued' \subseteq 1..made
    BY <1>9 DEF NextSteps, CallNext, RequeueHeldFails, TimesOut, DequeueFirst, WaitFails,
                DrainOne, DrainFails, HandOutNewest, ownVars, Granted, Shared, LinuxInv, InHand
  <2> QED
    BY <2>1, <2>2 DEF Granted, Steps, Streaming
<1> QED
  BY <1>1, <1>2, <1>3, <1>4, <1>5, <1>6, <1>7, <1>8, <1>9 DEF StreamNext, StartSteps, DriverSteps

(* A buffer changes hands, and nobody drops one while the stream runs.     *)
LEMMA SharedKeeps == LinuxInv /\ Granted /\ Shared /\ StreamNext => Shared'
<1> SUFFICES ASSUME LinuxInv, Granted, Shared, StreamNext PROVE Shared'
    OBVIOUS
<1>0. Before => done = <<>> /\ buf = None /\ held = None
  BY DEF LinuxInv, InHand
<1>a. Range(<<>>) = {}
  BY DEF Range
<1>b. <<>> \in Seq(1..made')
  OBVIOUS
<1>1. CASE StartSteps
  <2>1. /\ done' = <<>> /\ buf' = None /\ held' = None
        /\ Before /\ step' \in {"closed", "open", "mapping", "queueing", "idle", "dropping"}
    BY <1>0, <1>1 DEF StartSteps, OpenCamera, ReqBufs, ReqBufsFails, MapOne, MapFails, QueueOne,
                      StreamOn, StartFails, ownVars, Before
  <2>2. Streaming' => queued' = 1..made'
    <3> SUFFICES ASSUME Streaming' PROVE queued' = 1..made'
        OBVIOUS
    <3>1. StreamOn
      BY <1>1, <2>1 DEF StartSteps, OpenCamera, ReqBufs, ReqBufsFails, MapOne, MapFails, QueueOne,
                        StartFails, Streaming, Before
    <3>2. PICK k \in 0..made : queued = 1..k
      BY <3>1 DEF StreamOn, Granted
    <3>3. k = made
      BY <3>1, <3>2, CountTo DEF StreamOn, Granted
    <3> QED
      BY <3>1, <3>2, <3>3 DEF StreamOn, ownVars
  <2> QED
    BY <1>a, <1>b, <2>1, <2>2 DEF Shared, OurOwn
<1>2. CASE CallNext \/ TimesOut \/ HandOutNewest
  BY <1>2 DEF CallNext, TimesOut, HandOutNewest, ownVars, Shared, OurOwn, Streaming, LinuxInv, InHand
<1>3. CASE RequeueHeldFails \/ WaitFails \/ StopStream
  BY <1>3 DEF RequeueHeldFails, WaitFails, StopStream, ownVars, Shared, OurOwn, Streaming
<1>4. CASE DequeueFirst \/ DrainOne \/ DrainFails
  <2>1. /\ done # <<>> /\ done' = Tail(done) /\ made' = made /\ held' = held
        /\ step \in {"waiting", "draining"} /\ step' \in {"draining", "dropping"}
    BY <1>4 DEF DequeueFirst, DrainOne, DrainFails
  <2>2. /\ Head(done) \in 1..made /\ Tail(done) \in Seq(1..made)
        /\ Range(done) = {Head(done)} \cup Range(Tail(done))
    BY <2>1, TailOf, RangeOfTail DEF Shared
  <2>3. held = None
    BY <2>1 DEF LinuxInv, InHand
  <2>4. None \notin 1..made
    BY DEF Granted
  <2>5. CASE DrainFails
    BY <2>1, <2>2, <2>3, <2>5 DEF DrainFails, Shared, Streaming
  <2>6. CASE DequeueFirst
    <3>1. buf = None /\ buf' = Head(done) /\ queued' = queued /\ step = "waiting"
      BY <2>6 DEF DequeueFirst, LinuxInv, InHand
    <3>2. OurOwn = {} /\ OurOwn' = {Head(done)}
      BY <2>1, <2>2, <2>3, <2>4, <3>1 DEF OurOwn
    <3> QED
      BY <2>1, <2>2, <2>3, <3>1, <3>2 DEF Shared, Streaming
  <2>7. CASE DrainOne
    <3>1. buf # None /\ buf' = Head(done) /\ queued' = queued \cup {buf} /\ step = "draining"
      BY <2>7 DEF DrainOne, LinuxInv, InHand
    <3>2. OurOwn = {buf} /\ OurOwn' = {Head(done)}
      BY <2>1, <2>2, <2>3, <2>4, <3>1 DEF OurOwn
    <3> QED
      BY <2>1, <2>2, <2>3, <3>1, <3>2 DEF Shared, Streaming
  <2> QED
    BY <1>4, <2>5, <2>6, <2>7
<1>5. CASE JudgeSteps \/ PictureLost
  BY <1>5 DEF JudgeSteps, RefuseTruncated, JudgeDecoded, PictureLost, ownVars, Shared, OurOwn,
              Streaming
<1>6. ASSUME NEW b \in 1..MaxBuffers, Fill(b) PROVE Shared'
  <2>1. /\ b \in queued /\ queued' = queued \ {b} /\ done' = Append(done, b)
        /\ UNCHANGED <<step, made, buf, held>>
    BY <1>6 DEF Fill
  <2>2. b \in 1..made
    BY <2>1 DEF Granted
  <2>a. done \in Seq(1..made)
    BY DEF Shared
  <2>3. Range(done') = Range(done) \cup {b}
    BY <2>1, <2>2, <2>a, RangeOfAppend
  <2>b. done' \in Seq(1..made)
    BY <2>1, <2>2, <2>a
  <2> QED
    BY <2>1, <2>2, <2>3, <2>b DEF Shared, OurOwn, Streaming
<1>7. CASE DropStream
  BY <1>7, <1>b DEF DropStream, Shared, Streaming
<1> QED
  BY <1>1, <1>2, <1>3, <1>4, <1>5, <1>6, <1>7 DEF StreamNext, NextSteps, DriverSteps

(* What is counted stays within its bound: pictures, sizes remembered.     *)
Counted ==
  /\ taken \in 0..MaxPictures
  /\ content \in [Buffers -> Pictures]
  /\ \A b \in Buffers : content[b].seq # 0 => content[b].size \in PictureSizes
  /\ sizes \in Seq(PictureSizes) /\ Len(sizes) <= Window
  /\ recent \in Seq(PictureSizes) /\ Len(recent) <= Warm
  /\ verdict \in {None, "timeout", "truncated", "undecodable", "frame"}
  /\ stray \in BOOLEAN
  /\ ready \in 0..MaxPictures /\ handed \in 0..MaxPictures

LEMMA PushedIsBounded ==
  ASSUME NEW S, NEW s \in Seq(S), NEW x \in S, NEW n \in Nat \ {0}, Len(s) <= n
  PROVE  Pushed(s, x, n) \in Seq(S) /\ Len(Pushed(s, x, n)) <= n
<1>1. CASE Len(s) < n
  BY <1>1 DEF Pushed
<1>2. CASE ~(Len(s) < n)
  <2>1. s # <<>> /\ Len(s) = n /\ Len(s) \in Nat
    BY <1>2
  <2>2. Tail(s) \in Seq(S) /\ Len(Tail(s)) = n - 1
    BY <2>1, TailOf
  <2>3. Append(Tail(s), x) \in Seq(S) /\ Len(Append(Tail(s), x)) = n - 1 + 1
    BY <2>2
  <2> QED
    BY <1>2, <2>3 DEF Pushed
<1> QED
  BY <1>1, <1>2

LEMMA CountedKeeps == LinuxInv /\ Granted /\ Counted /\ StreamNext => Counted'
<1> SUFFICES ASSUME LinuxInv, Granted, Counted, StreamNext PROVE Counted'
    OBVIOUS
<1>1. CASE StartSteps \/ StopStream
  BY <1>1 DEF StartSteps, OpenCamera, ReqBufs, ReqBufsFails, MapOne, MapFails, QueueOne,
              StreamOn, StartFails, StopStream, filterVars, pastVars, Counted
<1>2. CASE CallNext \/ RequeueHeldFails \/ TimesOut \/ WaitFails \/ DrainFails \/ HandOutNewest
  BY <1>2 DEF CallNext, RequeueHeldFails, TimesOut, WaitFails, DrainFails, HandOutNewest,
              filterVars, pastVars, Counted
<1>3. CASE DequeueFirst \/ DrainOne
  <2>1. /\ done # <<>> /\ ready' = content[Last(done)].seq
        /\ UNCHANGED <<content, taken, filterVars, stray, handed>>
    BY <1>3 DEF DequeueFirst, DrainOne
  <2>2. Last(done) \in Buffers
    <3>1. Len(done) \in 1..Len(done)
      BY <2>1 DEF LinuxInv, Waiting
    <3> QED
      BY <3>1 DEF Last, LinuxInv, Waiting
  <2>3. ready' \in 0..MaxPictures
    BY <2>1, <2>2 DEF Counted, Pictures
  <2> QED
    BY <2>1, <2>3 DEF Counted, filterVars
<1>4. CASE JudgeSteps
  <2>1. /\ step = "judging" /\ handed' = content[held].seq
        /\ recent' = Pushed(recent, content[held].size, Warm)
        /\ sizes' \in {sizes, Pushed(sizes, content[held].size, Window)}
        /\ verdict' \in {"truncated", "frame", "undecodable"}
        /\ UNCHANGED <<content, taken, stray, ready>>
    BY <1>4 DEF JudgeSteps, RefuseTruncated, JudgeDecoded
  <2>2. held \in Buffers /\ handed < content[held].seq
    BY <2>1 DEF LinuxInv, InHand
  <2>3. handed' \in 0..MaxPictures
    BY <2>1, <2>2 DEF Counted, Pictures
  <2>4. content[held].size \in PictureSizes
    <3>1. content[held].seq # 0
      BY <2>2, <2>3, <2>1 DEF Counted
    <3> QED
      BY <2>2, <3>1 DEF Counted
  <2>5. recent' \in Seq(PictureSizes) /\ Len(recent') <= Warm
    BY <2>1, <2>4, PushedIsBounded DEF Counted
  <2>6. sizes' \in Seq(PictureSizes) /\ Len(sizes') <= Window
    BY <2>1, <2>4, PushedIsBounded DEF Counted
  <2> QED
    BY <2>1, <2>3, <2>5, <2>6 DEF Counted
<1>5. CASE PictureLost
  BY <1>5 DEF PictureLost, filterVars, pastVars, Counted
<1>6. ASSUME NEW b \in 1..MaxBuffers, Fill(b) PROVE Counted'
  <2> DEFINE OfSize(s, w) == [seq |-> taken + 1, of |-> taken + 1, size |-> s, whole |-> w]
  <2>1. PICK s \in PictureSizes, w \in BOOLEAN : content' = [content EXCEPT ![b] = OfSize(s, w)]
    BY <1>6 DEF Fill
  <2>2. taken' = taken + 1 /\ taken + 1 \in 0..MaxPictures
        /\ UNCHANGED <<filterVars, stray, pastVars>>
    BY <1>6 DEF Fill, Counted
  <2>3. OfSize(s, w) \in Pictures /\ OfSize(s, w).size = s
    BY <2>2 DEF Pictures
  <2> HIDE DEF OfSize
  <2>4. /\ content' \in [Buffers -> Pictures] /\ content'[b] = OfSize(s, w)
        /\ \A c \in Buffers : c # b => content'[c] = content[c]
    BY <2>1, <2>3 DEF Counted, Buffers
  <2>5. \A c \in Buffers : content'[c].seq # 0 => content'[c].size \in PictureSizes
    BY <2>3, <2>4 DEF Counted
  <2> QED
    BY <2>2, <2>4, <2>5 DEF Counted, filterVars, pastVars
<1>7. CASE DropStream
  <2>1. \A b \in Buffers : Blank.seq = 0 /\ Blank \in Pictures
    BY DEF Blank, Pictures
  <2>2. content' = [b \in Buffers |-> Blank]
    BY <1>7 DEF DropStream, Buffers
  <2>3. /\ content' \in [Buffers -> Pictures]
        /\ \A b \in Buffers : content'[b].seq # 0 => content'[b].size \in PictureSizes
    BY <2>1, <2>2
  <2> QED
    BY <1>7, <2>3 DEF DropStream, Counted
<1> QED
  BY <1>1, <1>2, <1>3, <1>4, <1>5, <1>6, <1>7 DEF StreamNext, NextSteps, DriverSteps

LEMMA LinuxCaptureInit == StreamInit => Granted /\ Shared /\ Counted
<1> SUFFICES ASSUME StreamInit PROVE Granted /\ Shared /\ Counted
    OBVIOUS
<1>1. \A b \in Buffers : content[b] = Blank
  BY DEF StreamInit, Closed, Buffers
<1>2. Blank \in Pictures /\ Blank.seq = 0
  BY DEF Blank, Pictures
<1>3. content \in [Buffers -> Pictures]
  BY <1>2 DEF StreamInit, Closed, Buffers
<1>a. <<>> \in Seq(PictureSizes) /\ Len(<<>>) = 0 /\ 0 \in 0..MaxPictures
  OBVIOUS
<1>b. \A b \in Buffers : content[b].seq = 0
  BY <1>1, <1>2
<1>c. /\ taken = 0 /\ sizes = <<>> /\ recent = <<>> /\ verdict = None /\ stray = FALSE
      /\ ready = 0 /\ handed = 0
  BY DEF StreamInit, Closed
<1>d. Len(sizes) = 0 /\ Len(recent) = 0 /\ 0 <= Window /\ 0 <= Warm
  BY <1>a, <1>c
<1>4. Counted
  BY <1>a, <1>b, <1>c, <1>d, <1>3 DEF Counted
<1> QED
  BY <1>4 DEF StreamInit, Closed, Granted, Shared, Steps, Streaming

LEMMA LinuxCapture ==
  LinuxInv /\ Granted /\ Shared /\ Counted => StreamTypeOK /\ OneOwner /\ NothingLeftMapped
<1> SUFFICES ASSUME LinuxInv, Granted, Shared, Counted
             PROVE  StreamTypeOK /\ OneOwner /\ NothingLeftMapped
    OBVIOUS
<1>1. StreamTypeOK
  BY DEF Granted, Shared, Counted, StreamTypeOK, Steps, Buffers
<1>2. NothingLeftMapped
  BY DEF Granted, LinuxInv, InHand, Before, NothingLeftMapped
<1>3. ASSUME Streaming PROVE OneOwner
  <2>1. DOMAIN done = 1..Len(done)
    BY DEF Shared
  <2>2. \A b \in Range(done) : b \notin queued /\ b # buf /\ b # held
    BY <2>1 DEF LinuxInv, Waiting, Range
  <2>3. OurOwn \cap queued = {}
    BY DEF OurOwn, LinuxInv, InHand
  <2>4. Cardinality(OurOwn) <= 1
    <3>1. OurOwn = {} \/ \E b : OurOwn = {b}
      BY DEF OurOwn, Shared
    <3>2. CASE OurOwn = {}
      <4>1. Cardinality(OurOwn) = 0
        BY <3>2, FS_EmptySet
      <4> QED
        BY <4>1
    <3>3. CASE \E b : OurOwn = {b}
      BY <3>3, FS_Singleton
    <3> QED
      BY <3>1, <3>2, <3>3
  <2>5. queued \cap Range(done) = {} /\ (queued \cup Range(done)) \cap OurOwn = {}
    BY <2>2, <2>3 DEF OurOwn
  <2>6. mapped = queued \cup Range(done) \cup OurOwn /\ mapped = 1..made
    BY <1>3 DEF Granted, Shared
  <2>7. \A i, j \in DOMAIN done : i # j => done[i] # done[j]
    BY <2>1 DEF LinuxInv, Waiting
  <2> QED
    BY <2>4, <2>5, <2>6, <2>7 DEF OneOwner
<1>4. ~Streaming => OneOwner
  BY DEF OneOwner
<1> QED
  BY <1>1, <1>2, <1>3, <1>4

-----------------------------------------------------------------------------
(* The pool.  With the pool empty the callback makes a buffer; the channel *)
(* and next_luma hold too few by then for there to be one too many.        *)
Bounded ==
  /\ grant \in {"unknown", "asking", "granted", "denied"}
  /\ turn \in {"closed", "asking", "idle", "receiving", "draining", "swapping"}
  /\ luma \in 0..MaxShots /\ shape \in Shapes /\ shots \in 0..MaxShots /\ given \in 0..MaxShots
  /\ looked \in 0..MaxShots
  /\ spare \in Seq(0..MaxShots)
  /\ frames \in Seq(Captured) /\ local \in Seq(Captured) /\ current \in Seq(Captured)
  /\ Len(current) <= 1
  /\ Len(frames) <= Pool - 1
  /\ turn \in {"closed", "asking"} => /\ callback = "idle" /\ spare = <<>> /\ frames = <<>>
                                      /\ local = <<>> /\ current = <<>>
  /\ BuffersBounded

(* What the tracker holds is in order.                                     *)
Ordered ==
  /\ turn = "swapping" => local[1].seq < local[2].seq
  /\ current # <<>> => current[1].seq <= given

LEMMA HowManyReceived ==
  ASSUME MacInv
  PROVE  /\ Len(local) = (IF turn = "draining" THEN 1 ELSE IF turn = "swapping" THEN 2 ELSE 0)
         /\ Len(local) \in Nat /\ Len(local) <= 2
         /\ local # <<>> => turn \in {"draining", "swapping"} /\ current = <<>>
         /\ turn = "swapping" => local # <<>>
<1>1. CASE turn \notin {"draining", "swapping"}
  <2>1. local = <<>>
    BY <1>1 DEF MacInv, Received
  <2>2. Len(local) = 0
    BY <2>1
  <2> QED
    BY <1>1, <2>1, <2>2
<1>2. CASE turn = "draining"
  <2>1. Len(local) = 1 /\ current = <<>>
    BY <1>2 DEF MacInv, Received, OnView
  <2> QED
    BY <1>2, <2>1
<1>3. CASE turn = "swapping"
  <2>1. Len(local) = 2 /\ current = <<>>
    BY <1>3 DEF MacInv, Received, OnView
  <2>2. local # <<>>
    BY <2>1
  <2> QED
    BY <1>3, <2>1, <2>2
<1> QED
  BY <1>1, <1>2, <1>3

LEMMA BoundedCalls ==
  ASSUME MacInv, Bounded, CameraNext, ~CallbackSteps, ~Receive, ~GiveBackSkipped
  PROVE  Bounded'
<1>1. CASE AskForCamera \/ UserAnswers
  BY <1>1 DEF AskForCamera, UserAnswers, Bounded, BuffersBounded, MacInv, Asking
<1>2. CASE StartCapture
  <2>1. spare' \in Seq(0..MaxShots) /\ Len(spare') = Pool
    BY <1>2 DEF StartCapture
  <2> QED
    BY <1>2, <2>1 DEF StartCapture, Bounded, BuffersBounded
<1>3. CASE StopCapture
  BY <1>3 DEF StopCapture, Bounded, BuffersBounded
<1>4. CASE GiveBack
  <2> DEFINE back == [i \in DOMAIN current |-> current[i].luma]
  <2>1. DOMAIN current = 1..Len(current) /\ Len(current) \in Nat
        /\ \A i \in 1..Len(current) : current[i] \in Captured
    BY DEF Bounded
  <2>2. back \in Seq(0..MaxShots) /\ Len(back) = Len(current)
    BY <2>1 DEF Captured
  <2> HIDE DEF back
  <2>3. spare' = spare \o back
    BY <1>4 DEF GiveBack, back
  <2>4. spare' \in Seq(0..MaxShots) /\ Len(spare') = Len(spare) + Len(current)
    BY <2>2, <2>3 DEF Bounded
  <2> QED
    BY <1>4, <2>4 DEF GiveBack, Bounded, BuffersBounded
<1>5. CASE NothingCame
  BY <1>5 DEF NothingCame, Bounded, BuffersBounded
<1>6. CASE ShowNewest
  <2>1. current = <<>> /\ Len(local) = 1 /\ Head(local) = local[1] /\ local[1] \in Captured
    <3>1. current = <<>> /\ Len(local) = 1 /\ local \in Seq(Captured)
      BY <1>6 DEF ShowNewest, MacInv, OnView, Received, Bounded
    <3> QED
      BY <3>1
  <2>2. given' \in 0..MaxShots
    BY <1>6, <2>1 DEF ShowNewest, Captured
  <2> QED
    BY <1>6, <2>1, <2>2 DEF ShowNewest, Bounded, BuffersBounded
<1> QED
  BY <1>1, <1>2, <1>3, <1>4, <1>5, <1>6 DEF CameraNext, TrackerSteps

LEMMA BoundedReceives ==
  ASSUME MacInv, Bounded, Receive \/ GiveBackSkipped PROVE Bounded'
<1>1. CASE Receive
  <2>1. /\ frames # <<>> /\ frames' = Tail(frames) /\ local' = Append(local, Head(frames))
        /\ looked' = Last(frames).seq
    BY <1>1 DEF Receive
  <2>2. /\ Head(frames) \in Captured /\ Tail(frames) \in Seq(Captured)
        /\ Len(Tail(frames)) = Len(frames) - 1
    BY <2>1, TailOf DEF Bounded
  <2>3. looked' \in 0..MaxShots
    <3>1. Len(frames) \in 1..Len(frames)
      BY <2>1 DEF Bounded
    <3>2. frames[Len(frames)] \in Captured
      BY <3>1 DEF Bounded
    <3> QED
      BY <2>1, <3>2 DEF Last, Captured
  <2>4. local' \in Seq(Captured) /\ Len(local') = Len(local) + 1
    BY <2>1, <2>2 DEF Bounded
  <2> QED
    BY <1>1, <2>1, <2>2, <2>3, <2>4 DEF Receive, Bounded, BuffersBounded
<1>2. CASE GiveBackSkipped
  <2>1. local # <<>> /\ spare' = Append(spare, Head(local).luma) /\ local' = Tail(local)
    BY <1>2, HowManyReceived DEF GiveBackSkipped
  <2>2. /\ Head(local) \in Captured /\ Tail(local) \in Seq(Captured)
        /\ Len(Tail(local)) = Len(local) - 1
    BY <2>1, TailOf DEF Bounded
  <2>3. spare' \in Seq(0..MaxShots) /\ Len(spare') = Len(spare) + 1
    BY <2>1, <2>2 DEF Bounded, Captured
  <2> QED
    BY <1>2, <2>1, <2>2, <2>3 DEF GiveBackSkipped, Bounded, BuffersBounded
<1> QED
  BY <1>1, <1>2

LEMMA BoundedCallback == ASSUME MacInv, Bounded, CallbackSteps PROVE Bounded'
<1>0. callback \in {"idle", "took", "copied"} /\ given <= shots /\ shots \in Nat
  BY DEF MacInv, Queue
<1>1. CASE ShotWithoutImage
  BY <1>1 DEF ShotWithoutImage, Bounded, BuffersBounded, Running
<1>2. CASE TakeBuffer
  <2>1. /\ callback = "idle" /\ callback' = "took" /\ shots' \in 0..MaxShots /\ Running
        /\ shape' \in Shapes
        /\ UNCHANGED <<grant, turn, frames, local, current, given, looked>>
    BY <1>2 DEF TakeBuffer, Bounded
  <2>2. CASE spare = <<>>
    <3>1. luma' = 0 /\ spare' = <<>>
      BY <1>2, <2>2 DEF TakeBuffer
    <3>2. Len(frames) <= Pool - 1 /\ Len(local) + Len(current) <= 2
      <4>1. local # <<>> => current = <<>>
        BY HowManyReceived
      <4>a. Len(local) <= 2 /\ Len(local) \in Nat
        BY HowManyReceived
      <4>b. Len(current) <= 1 /\ Len(current) \in Nat /\ Len(frames) <= Pool - 1
        BY DEF Bounded
      <4>2. local = <<>> => Len(local) = 0
        OBVIOUS
      <4>3. current = <<>> => Len(current) = 0
        OBVIOUS
      <4> QED
        BY <4>1, <4>a, <4>b, <4>2, <4>3
    <3>3. Len(spare') + Len(frames) + Len(local) + Len(current) + 1 <= Pool + 2
      BY <3>1, <3>2 DEF Bounded
    <3> QED
      BY <2>1, <3>1, <3>3 DEF Bounded, BuffersBounded, Running
  <2>3. CASE spare # <<>>
    <3>1. luma' = Head(spare) /\ spare' = Tail(spare)
      BY <1>2, <2>3 DEF TakeBuffer
    <3>2. luma' \in 0..MaxShots /\ spare' \in Seq(0..MaxShots) /\ Len(spare') = Len(spare) - 1
      BY <2>3, <3>1, TailOf DEF Bounded
    <3> QED
      BY <2>1, <3>2 DEF Bounded, BuffersBounded, Running
  <2> QED
    BY <2>2, <2>3
<1>3. CASE LockFails
  BY <1>3 DEF LockFails, Bounded, BuffersBounded
<1>4. CASE CopyPicture \/ SkipCopy
  BY <1>4 DEF CopyPicture, SkipCopy, Bounded, BuffersBounded
<1>5. CASE SendFrame /\ frames' = frames
  BY <1>5 DEF SendFrame, Bounded, BuffersBounded
<1>6. CASE SendFrame /\ frames' # frames
  <2> DEFINE new == [luma |-> luma, seq |-> shots, shape |-> shape]
  <2>1. /\ callback = "copied" /\ callback' = "idle" /\ frames' = Append(frames, new)
        /\ Len(frames) < Pool - 1 /\ luma' = 0 /\ luma # 0 /\ shape' = "other"
        /\ UNCHANGED <<grant, turn, spare, local, current, shots, given, looked>>
    BY <1>6 DEF SendFrame
  <2>2. shots \in 1..MaxShots
    BY <1>0, <2>1 DEF MacInv, Queue, Bounded
  <2>3. new \in Captured
    BY <2>1, <2>2 DEF Captured, Bounded
  <2> HIDE DEF new
  <2>4. frames' \in Seq(Captured) /\ Len(frames') = Len(frames) + 1
    BY <2>1, <2>3 DEF Bounded
  <2> QED
    BY <2>1, <2>4 DEF Bounded, BuffersBounded
<1> QED
  BY <1>1, <1>2, <1>3, <1>4, <1>5, <1>6 DEF CallbackSteps

LEMMA OrderedKeeps == ASSUME MacInv, Ordered, CameraNext PROVE Ordered'
<1>1. CASE Receive
  <2>1. /\ frames # <<>> /\ local' = Append(local, Head(frames)) /\ current' = current
        /\ given' = given /\ turn' = IF turn = "receiving" THEN "draining" ELSE "swapping"
        /\ turn \in {"receiving", "draining"}
    BY <1>1 DEF Receive
  <2> DEFINE first == Head(frames)
  <2>2. first = frames[1] /\ first \in Numbered /\ 1 \in 1..Len(frames)
    BY <2>1, TailOf DEF MacInv, Queue
  <2>3. local' = Append(local, first)
    BY <2>1
  <2> HIDE DEF first
  <2>4. /\ local \in Seq(Numbered) /\ Len(local') = Len(local) + 1 /\ local'[Len(local) + 1] = first
        /\ \A i \in 1..Len(local) : local'[i] = local[i]
    BY <2>2, <2>3 DEF MacInv, Received
  <2>5. ASSUME turn' = "swapping" PROVE local'[1].seq < local'[2].seq
    <3>1. Len(local) = 1 /\ 1 \in 1..Len(local) /\ Len(local) + 1 = 2
      BY <2>1, <2>5 DEF MacInv, Received
    <3>2. local'[1] = local[1] /\ local'[2] = frames[1]
      BY <2>2, <2>4, <3>1
    <3> QED
      BY <2>2, <3>1, <3>2 DEF MacInv, Received
  <2> QED
    BY <2>1, <2>5 DEF Ordered
<1>2. CASE ShowNewest
  BY <1>2, NumbersWaiting DEF ShowNewest, Ordered, MacInv, Received
<1>3. CASE GiveBack \/ GiveBackSkipped \/ NothingCame
  BY <1>3 DEF GiveBack, GiveBackSkipped, NothingCame, Ordered, MacInv, OnView
<1>4. CASE CallbackSteps
  BY <1>4 DEF CallbackSteps, ShotWithoutImage, TakeBuffer, LockFails, CopyPicture, SkipCopy,
              SendFrame, Ordered
<1>5. CASE AskForCamera \/ UserAnswers \/ StartCapture \/ StopCapture
  BY <1>5 DEF AskForCamera, UserAnswers, StartCapture, StopCapture, Ordered
<1> QED
  BY <1>1, <1>2, <1>3, <1>4, <1>5 DEF CameraNext, TrackerSteps

LEMMA MacCapture ==
  ASSUME MacInv, Bounded, Ordered PROVE CameraTypeOK /\ BuffersBounded /\ FramesInOrder
<1>1. CameraTypeOK /\ BuffersBounded
  BY DEF MacInv, Queue, Bounded, CameraTypeOK
<1>2. FramesInOrder
  <2> DEFINE all == current \o local \o frames
             c == Len(current)
             l == Len(local)
  <2>1. /\ all \in Seq(Captured) /\ DOMAIN all = 1..(c + l + Len(frames))
        /\ c \in Nat /\ l \in Nat /\ Len(frames) \in Nat /\ c <= 1
        /\ DOMAIN local = 1..l
    BY DEF Bounded
  <2>2. /\ \A i \in 1..c : all[i] = current[i]
        /\ \A i \in 1..l : all[c + i] = local[i]
        /\ \A i \in 1..Len(frames) : all[c + l + i] = frames[i]
    BY DEF Bounded
  <2> HIDE DEF all
  <2>3. /\ given \in Nat
        /\ \A i \in 1..c : current[i].seq <= given /\ current[i].seq \in Nat
    <3>1. given \in Nat /\ \A i \in 1..c : current[i] \in Captured
      BY <2>1 DEF Bounded
    <3>2. \A i \in 1..c : i = 1 /\ current # <<>>
      BY <2>1
    <3> QED
      BY <3>1, <3>2 DEF Ordered, Captured
  <2>4. \A i \in 1..l : given < local[i].seq /\ local[i].seq \in Nat
    BY NumbersWaiting DEF MacInv, Received
  <2>5. \A i \in 1..Len(frames) : given < frames[i].seq /\ frames[i].seq \in Nat
    BY NumbersWaiting DEF MacInv, Queue
  <2>6. \A i, j \in 1..l : i < j => local[i].seq < local[j].seq
    <3>1. l \in {0, 1} \/ (l = 2 /\ turn = "swapping")
      BY HowManyReceived
    <3> QED
      BY <3>1 DEF Ordered
  <2>7. \A i \in 1..l, j \in 1..Len(frames) : local[i].seq < frames[j].seq
    BY DEF MacInv, Received
  <2>8. \A i, j \in 1..Len(frames) : i < j => frames[i].seq < frames[j].seq
    BY DEF MacInv, Queue
  <2>9. ASSUME NEW i \in DOMAIN all, NEW j \in DOMAIN all, i < j
        PROVE  all[i].seq < all[j].seq
    <3> DEFINE InLocal(k)  == k - c \in 1..l /\ all[k] = local[k - c]
               InFrames(k) == k - (c + l) \in 1..Len(frames) /\ all[k] = frames[k - (c + l)]
    <3>1. \A k \in DOMAIN all : (k \in 1..c /\ all[k] = current[k]) \/ InLocal(k) \/ InFrames(k)
      <4> TAKE k \in DOMAIN all
      <4>1. CASE k <= c
        BY <4>1, <2>1, <2>2
      <4>2. CASE c < k /\ k <= c + l
        <5>1. k - c \in 1..l /\ c + (k - c) = k
          BY <4>2, <2>1
        <5> QED
          BY <5>1, <2>2
      <4>3. CASE c + l < k
        <5>1. k - (c + l) \in 1..Len(frames) /\ c + l + (k - (c + l)) = k
          BY <4>3, <2>1
        <5> QED
          BY <5>1, <2>2
      <4> QED
        BY <4>1, <4>2, <4>3, <2>1
    <3>2. i \in Nat /\ j \in Nat
      BY <2>1
    <3>3. CASE i \in 1..c /\ all[i] = current[i]
      <4>1. ~(j \in 1..c)
        BY <3>3, <2>9, <2>1
      <4>2. given < all[j].seq /\ all[j].seq \in Nat
        BY <4>1, <3>1, <2>4, <2>5
      <4> QED
        BY <3>3, <4>2, <2>3
    <3>4. CASE InLocal(i)
      <4>1. ~(j \in 1..c)
        BY <3>4, <3>2, <2>9, <2>1
      <4>2. CASE InLocal(j)
        <5>1. i - c < j - c
          BY <3>2, <2>9, <2>1
        <5> QED
          BY <3>4, <4>2, <5>1, <2>6
      <4>3. CASE InFrames(j)
        BY <3>4, <4>3, <2>7
      <4> QED
        BY <3>1, <4>1, <4>2, <4>3
    <3>5. CASE InFrames(i)
      <4>1. ~(j \in 1..c) /\ ~InLocal(j)
        BY <3>5, <3>2, <2>9, <2>1
      <4>2. InFrames(j)
        BY <3>1, <4>1
      <4>3. i - (c + l) < j - (c + l)
        BY <3>2, <2>9, <2>1
      <4> QED
        BY <3>5, <4>2, <4>3, <2>8
    <3> QED
      BY <3>1, <3>3, <3>4, <3>5
  <2>10. \A i \in DOMAIN local, j \in {given} : local[i].seq > j
    BY <2>1, <2>4, <2>3
  <2> QED
    BY <2>9, <2>10 DEF FramesInOrder, all
<1> QED
  BY <1>1, <1>2

-----------------------------------------------------------------------------
(* Both, on either platform: the other one rests.                          *)
BothInv ==
  /\ platform \in {"linux", "macos"}
  /\ LinuxInv /\ Granted /\ Shared /\ Counted
  /\ MacInv /\ Bounded /\ Ordered

LEMMA BothInit == Init => BothInv
<1> SUFFICES ASSUME Init PROVE BothInv
    OBVIOUS
<1>1. Bounded /\ Ordered
  BY DEF Init, CameraInit, Stopped, Bounded, BuffersBounded, Ordered
<1> QED
  BY <1>1, LinuxInit, LinuxCaptureInit, MacInit DEF Init, BothInv

LEMMA BothKeep == BothInv /\ [Next]_vars => BothInv'
<1> SUFFICES ASSUME BothInv, [Next]_vars PROVE BothInv'
    OBVIOUS
<1>1. LinuxInv' /\ Granted' /\ Shared' /\ Counted'
  <2>1. CASE StreamNext
    BY <2>1, LinuxKeeps, GrantedKeeps, SharedKeeps, CountedKeeps DEF BothInv
  <2>2. CASE UNCHANGED v4l2Vars
    <3>1. LinuxInv'
      BY <2>2, LinuxRests DEF BothInv
    <3>2. Granted'
      BY <2>2 DEF v4l2Vars, ownVars, filterVars, pastVars, BothInv, Granted, Steps, Streaming
    <3>3. Shared' /\ Counted'
      BY <2>2 DEF v4l2Vars, ownVars, filterVars, pastVars, BothInv, Shared, Streaming, OurOwn,
                  Counted
    <3> QED
      BY <3>1, <3>2, <3>3
  <2> QED
    BY <2>1, <2>2 DEF Next, LinuxStep, MacStep, vars
<1>2. MacInv' /\ Bounded' /\ Ordered'
  <2>1. CASE CameraNext
    BY <2>1, MacKeeps, BoundedCalls, BoundedReceives, BoundedCallback, OrderedKeeps DEF BothInv
  <2>2. CASE UNCHANGED avVars
    <3>1. MacInv'
      BY <2>2, MacRests DEF BothInv
    <3>2. Bounded' /\ Ordered'
      BY <2>2 DEF avVars, BothInv, Bounded, BuffersBounded, Ordered
    <3> QED
      BY <3>1, <3>2
  <2> QED
    BY <2>1, <2>2 DEF Next, LinuxStep, MacStep, vars
<1>3. platform' \in {"linux", "macos"}
  BY DEF Next, LinuxStep, MacStep, vars, BothInv
<1> QED
  BY <1>1, <1>2, <1>3 DEF BothInv

(* No buffer of the camera is lost, shared or left mapped, and frames keep *)
(* their order, on either platform, for any number of buffers and pictures *)
(* and whatever call fails on the way (Stream::next and its drop on Linux; *)
(* the callback, next_luma and the pool on macOS).                         *)
THEOREM BuffersAreKept == Spec => []CaptureInv
<1>1. Init => BothInv
  BY BothInit
<1>2. BothInv /\ [Next]_vars => BothInv'
  BY BothKeep
<1>3. BothInv => CaptureInv
  BY LinuxCapture, MacCapture DEF BothInv, CaptureInv
<1> QED
  BY <1>1, <1>2, <1>3, PTL DEF Spec
=============================================================================
