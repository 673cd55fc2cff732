# A TLA+ development for sindenrs

sindenrs drives Sinden lightguns: for every gun on the bus it opens the gun's
serial port and its camera, finds the border on the screen in the camera's
frames, computes the aim and streams it to the gun, while an overlay draws the
border. `run` does this for every gun, for as long as the machine is up. This
directory models the parts of it whose correctness depends on the order of
things: threads, phases, processes, devices that come, go and hang, bytes and
frames that are cut, late or lost.

Paths below are relative to the repository's root (`src/main.rs` and so on).
Section 1 is the inventory, 2 the modules, 3 what is checked and with which
bounds and fairness, 4 what was found, 5 what is proved, 6 what is left out.

## 1. Inventory

| Part | State it keeps | Operations | Talks to |
|---|---|---|---|
| Serial sessions (`src/gun.rs`) | the static `CLOSING` set; per session a port and an event parser | `Gun::open`, `bootloader_touch`, commands and queries, `Drop` with its closing thread | kernel tty, gun firmware |
| Gun supervisor (`supervise_guns`, `connect`, `reset_port`, `power_cycle_port` in `src/main.rs`) | `running` (threads by USB path), `retry_after` | reap, discover, start, back off, join | sessions, discovery, trackers, stop flag |
| Tracking loop (`src/runtime.rs`) | jump guard, smoother, last aim, consecutive write timeouts | one turn per camera frame | camera, gun, cursor, hook, status |
| Camera capture (`src/camera/`) | AVFoundation: pool of three buffers and a channel; V4L2: mapped buffers, the one held; the sizes of recent frames | next frame, newest frame | kernel or framework callback |
| Run lock (`run_all` in `src/main.rs`) | a file, its flock, a pid in it | take, judge the holder, retire, release | other processes |
| Run loop (`main`'s `Run` arm, `on_ctrl_c`, `src/control.rs`, `src/menubar.rs`) | the menu's request, the handler's slot, the stop flag of each phase | run, calibrate, reload, quit | supervisor, overlay, calibration |
| Calibration (`calibrate` in `src/main.rs`) | targets, a latched press, a window of aims | measure on a thread, save over a session of its own | tracking loop, overlay, gun |
| Firmware backup and flash (`src/firmware.rs`) | the bootloader session | backup, erase, write, verify, exit | gun's bootloader |
| Protocol (`src/protocol/`) | the event parser's pending bytes | encode, decode, parse, authenticate | gun firmware |
| Synthesised cursor (`src/cursor.rs`) | buttons down, pointer hidden | move, press, hide, show | window server |
| Live state, heads-up display, preview (`src/preview*`) | one entry per gun name | feed, remove, draw | trackers |
| Overlay (`src/overlay/`) | the scene, a window | draw, pump events, end | run loop, calibration |
| Vision (`src/vision/`) | none across frames | frame to border (edges, tabs, names of the sides, corners) to aim | tracking loop |
| Configuration, discovery, USB power, UVC controls | none or files | parse, list, switch, set | the parts above |

What is hard, and where it is: `PROJECT.json` lists the hazards at their lines.
In short: a wedged gun keeps a `close` in the kernel until it is unplugged, and
everything that waits for that close has to be bounded (`CLOSE_BUDGET`,
`REOPEN_WAIT`); a tracker may end at any moment, for reasons that must not make
its gun unusable; one stop flag and one Ctrl-C handler serve phases that follow
each other; the run lock must survive a holder that is dead but still holds it;
the calibration shares the gun with `run` and measures on a thread of its own.

What would make each part correct:

- *Sessions*: `CLOSING` holds exactly the unfinished closes; no port is opened
  under a close of it; a drop gives its thread back.
- *Supervisor*: one session per gun at a time; every tracker is reaped or
  joined; every gun found is tracked or tried again; after the return every gun
  is free; stopping ends; a gun that is there ends up tracked.
- *Run lock*: the lock of a process that runs keeps all others out; a dead or
  hanging holder keeps nobody out.
- *Run loop*: the phases never use the gun at once; Ctrl-C stops the phase that
  is on; what follows a run is what was asked for in it.
- *Tracking loop*: no aim reaches the gun on the word of one weak frame; a
  session ends only after a run of lost writes; the gun keeps receiving
  positions (its button reports depend on them).
- *Capture*: a buffer belongs to one side at a time; the newest frame is used;
  a change of scene does not silence the camera.
- *Calibration*: one press measures one target, the one shown, on samples of
  that target; no capture by steadiness before the aim has moved on.
- *Gun link*: an answer belongs to its question; the handshake leaves nothing
  behind that a later question could take for its answer; a session asks nothing
  of a gun it has made stream.
- *Flash*: the application is erased only once it can be written back, and
  called verified only when all of it is; *parser*: cutting the byte stream
  differently changes nothing.
- *Pointer and display*: the one pointer is hidden and pressed only as the
  sessions that live account for; what the display shows is alive.
- *Overlay*: it ends up showing the scene as it now is, on top, and never draws
  into a buffer that is being read.
- *Border*: unless a symbol is misread every tab that is placed is placed where
  it is, and one edge that was read gives all of them their names, at any roll.

## 2. Modules

Four components have a module and runs of their own because their parts
interact; the others share nothing with each other and are checked together.

| Module | Models | Used by |
|---|---|---|
| `SerialPort` | a gun's port: `Gun::open`, the session, the drop and its closing thread, `CLOSING` | `Supervisor`, `RunLoop` |
| `Supervisor` | `supervise_guns`, `connect` with its recovery, the trackers' threads | `MCSupervisor` |
| `RunLock` | taking, judging, retiring and releasing the lock | `Parts`, run `MCRunLockCrossed` |
| `RunLoop` | the phases of the process, menu, shortcut, Ctrl-C, calibration's frame, the camera prompt | `MCRunLoop` |
| `RunLoopQuit` | the same with the memory of a quit, for one property | run `MCRunLoopQuit` |
| `Tracker` | a turn of a gun's tracking loop: frame, guard, smoother, position, buttons, hook | `MCTracker` |
| `FrameSource` | abstract: what a camera promises the tracker | `Capture` |
| `V4L2` | the Linux capture path and the truncation filter | `Capture` |
| `AVFoundation` | the macOS capture path | `Capture` |
| `Capture` | one of the two, as the build has it, and the refinement | `MCCapture` |
| `GunLink` | what a session says to a gun and hears from it, for each command | `Parts` |
| `Flash` | firmware backup and flash | `Parts` |
| `Calibration` | the measuring hook: windows, pulls, dwelling, captures | `Parts` |
| `Wire` | the event stream and its parser, the packed bore offset | `Parts` |
| `Overlay` | the draw loop over its three backends | `Parts` |
| `Hud` | `Live`, the heads-up display, the switches of the menu | `Parts` |
| `Pointer` | several guns' cursors over the one pointer | `Parts` |
| `Preview` | the preview page and its measuring thread | `Parts` |
| `Border` | from tabs to corners: decoding, naming the sides, solving | `Parts` |
| `Parts` | the last nine and `RunLock`, one at a time | `MCParts` |
| `SerialPort_proofs`, `Supervisor_proofs`, `RunLock_proofs`, `RunLoop_proofs`, `Tracker_proofs`, `Capture_proofs`, `GunLink_proofs`, `Parts_proofs` | the theorems; `Parts_proofs` has those of all the parts but the gun's commands and the run lock | |

In every module a section "Mistakes the checks must notice" holds plausible bugs
of that code, each of which makes some property fail (`PROJECT.json`,
"mutants"); nothing else uses them.

### SerialPort

`sess[u]` is what thread `u` is doing with a port and `at[u]` which one;
`closer[u][p]` is the closing thread it has left for port `p`; `closing` is the
static `CLOSING`. The actions follow the code statement by statement where
another thread can see the difference: the check of `CLOSING` and the `open`
call are two steps, and so are `close()` and the removal from `CLOSING` on the
closing thread. The kernel is external: an `open` of a path queues behind a
`close` of it. `wedged` is external too: the close of a wedged gun need not
return. `REOPEN_WAIT` and `CLOSE_BUDGET` are choices the waiting thread may make
as long as what it waits for has not happened; `open_with_retry`'s tries count
as one open.

The module is also the *contract* its users must keep: `Open(u, p)` lets a
thread begin to open `p` only while no other thread has business with `p`.
Nothing in `gun.rs` enforces that; `Supervisor` and `RunLoop` begin their opens
with `BeginOpen` and are shown to implement `PortSpec`.

### Supervisor

`pc` walks through one pass of the loop; `running`, `retry` (no entry, future,
past) and `stop` are the code's own variables, `tracker[g]` is the state of the
thread behind a key. One gun is its USB path, its port's path and its tracker's
thread. `connect` is modelled with all its branches: authentication, filling the
pending read of a wedged gun, the 1200-baud touch, the wait for the gun to come
back, the power cycle, the second open. `prepare_gun` is one step that may fail.
A refused thread (`SpawnCanFail`) ends the supervisor through `?`, as in the code.

The outside is `attached` (guns on the bus), `wedged`, `stale` (a session open
on a gun is dead after an unplugging, even when the gun is back) and `calm`:
before the calm anything may fail at any time; once calm, only what is wedged,
gone or cut off fails. A tracker whose camera has fallen silent
(`SilentCamera`, the case of macOS) is `deaf`: the loop answers a timeout of the
camera with the next wait and looks at nothing but `stop`.

### RunLock

One action per system call, so that processes interleave at every one: `open`
with create, `try_lock`, `set_len(0)`, the write of the pid, the read of the
holder's, the judgement, `unlink`, and the second round. `file` is the inode the
name leads to, `flock` who holds each inode, `content` the pid in it. Processes
can be killed at any step; one killed under a wedged gun is a `husk`, dead to
`process_alive` but still holding its flock. They start whenever they like, also
while others are taking the lock; the history variable `crossed` holds those
whose last start did so. An inode without a name and a descriptor is free again.

### RunLoop

`pc` is the phase of the process's first thread, `stop[u]` the flag of the run
and of each calibration, `slot` the flag Ctrl-C sets, `control` the menu's
request, `cal` the calibration's measuring thread and `work[c]` how far each
thread that connects to the gun has come. The gun's port is `SerialPort`'s.
`guns` is the supervisor seen from here: passes that may open the gun until it
sees its flag, then the join. Abstractions: one gun; the bare open of the
bootloader touch and the refusal of a tracker's thread are left to
`Supervisor`, the lock to `RunLock`. `asked` is a history variable.
`Workers` bounds the measuring threads alive at once.

`overlay::run(..)?` may fail while the thread measures: `calibrate` then returns
without the join, and the thread goes on by itself until it sees its flag. It is
`abandoned`; the next phase may meet it at the gun's port. The first camera of
the process is opened inside `ensure_access`, which waits for the user to answer
the permission prompt and looks at no flag: the tracker is then `asking`
(`camera`), a measuring thread in `camera` (`work`), both until the prompt is
`answered`, which nobody need ever do.

`RunLoopQuit` adds `quit`, whether a quit was asked for in this run and no request
after it; it is a module of its own so that the other run does not carry it.

### Tracker

`pc` walks through one turn of `run_tracker_with`: wait for a frame, solve it,
poll the gun, press, call the hook. `last` and `pending` are the jump guard's
fields, `smooth` the smoother's position, `lastAim`, `timeouts`, `down` and
`hidden` the code's own; `told` is the position that last reached the gun and
`pressed` what the window server holds down for this cursor. Aims are points;
`NearRel` and `CloseRel` say which are within the jump limit and within the
smoother's reset, and a support is the code's pair of sides and tabs, compared as
the code does. The smoother gives the aim itself where it starts, otherwise any
point within its reset of the aim: the blend lies between aim and prediction.
Every call that can fail can: the camera, a write (late or broken), an event
that cannot be posted; each leaves through `Ends`, the cursor's drop.
`shown` and `since` are history. Left out: the recording, the status line, the
frame limit (an end at the loop's head like the hook's), and `AimMap`, which
maps every position alike.

### FrameSource, V4L2, AVFoundation, Capture

`FrameSource` is the promise, in three variables: the camera takes pictures
(`taken`); a frame is handed out with a number later than the last one's
(`handed`), and what the tracker may read under that number (`view`) stays as it
is until the tracker asks for the next, or is nothing if the frame was damaged. It
is the picture of that number if this has the shape that was set at the start, and
otherwise, which the code does not exclude on macOS, one taken before (`Showing`).

`V4L2` is `start_stream`, `Stream::next` with `newest`, `Frames::next` and the
drops. A mapped buffer is the driver's to write to (`queued`), filled and waiting
(`done`), or in the process's hands (`buf` while draining, `held` afterwards);
`content` is what each holds. Every ioctl may fail where it stands. `sizes` is
the truncation filter's memory; `stray`, `ready`, `handed` and `recent` are
history. `AVFoundation` is a callback (`callback`, `luma`) and the tracker
(`turn`, `local`, `current`) around two channels, `spare` and `frames`; a buffer
stands for the picture copied into it, so that a frame whose pixels are another
picture's can be told. Each picture has the `shape` that was set or another one,
in which case the copy is skipped and a buffer that is used again keeps its old
pixels.

`Capture` runs one of the two (`platform`) and maps it to `FrameSource`:
`taken` is the driver's counter or the callback's, `handed` the last number
handed out, and `view` is `LinuxView`, the held buffer once it has been judged
good and until `next` is called again, or `MacView`, the current frame.

### GunLink

Replies carry no number: the next bytes that arrive are the answer. `command` is
one of the driver's commands as the list of its questions, orders and pauses
(`StepsOf`), `at` the next of them; `unsent` is what is written and not yet read
by the gun, `heard` what the gun has said and the driver has not read. `connect`
is modelled with its four authentications: at once, after unwedging, after a
reset, and once more. The gun is external: it may take a payload for whatever
command it waits in (`owed`), stop reading (`deaf`), stream, report buttons, miss
a question, or answer it after the driver has given it up; what it then answers
is what its bytes say, and `late` records that a session went on before an answer
that was still to come. No session turns streaming or reports off: the next one
finds the gun as it was left, or as its firmware makes it when its port is opened
anew (`carried`), and a button report may then come where an answer is waited for
(`mingled`). `joystick` changes the setting, resets the gun and connects anew to
ask for it (`Reenumerate`); the question alone is `status`.

### Flash, Calibration, Wire

`Flash`: `mode` and `app` are each gun's state and application section, page by
page; `stage` is how far the command is, `session` whose bootloader is open,
`copy` what was read last, `saved` the backup files. Any call can fail, a gun may
restart and another process may reset one between any two steps.
`Calibration`: a frame brings an aim or none, a kind of border, a time gap and
trigger events, and does to `ring`, `pull`, `wasDown`, `armed`, `takenAt`, `idx`
and `quads` what the hook does in that order; times are ages, the two axes one.
`Wire`: `sent` is everything the gun has sent, `unread` what the port holds,
`partial` the parser's pending bytes, `events` what was decoded; the reads cut
the stream anywhere. `offset` is a bore offset on its way into the EEPROM and
back, in 16 bits.

### Overlay, Hud, Pointer, Preview

`Overlay`: `cur`, `sized` and `last` are `run_inner`'s locals, `scene` what others
write, `news` what the window system has to say and `pump` has not handled,
`shm` the Wayland buffers with what the compositor reads; `glass` is what the
window really holds. `Hud`: `live` is `Live` with its entries by name, `images`
the pictures `feed` makes outside the lock, `slots` the display's. Two trackers
may have guns of one name. `Pointer`: each `Cursor`'s flags, the window server's
count of hides and the buttons it takes to be down; every event may fail.
`Preview`: the page on the main thread and the tracker on its worker, with the
stop flag and `done` between them; the worker's wait at the camera prompt
(`allowed`), and the lock of `Shared`, which a panic of the hook poisons: the
timer's block then returns at once, every time.

### Border

`Tabs` is the code of the four sides. A frame shows some tabs of one edge, with a
fault, a glimpse of the edge beside it, at some quarter of roll (`SeeBorder`, which
is the outside and translates no code: it chooses what `classify_sides` and
`find_tabs` may deliver);
`DecodeEdges` is `decode_tabs` in runs and stretches, `LabelEdges` the roll's
vote, the names of the edges that were not read and the second decoding with
them, `Solve` which lines and tabs the corners rest on. The geometry itself is
floating point and left out: a solve may come out or not where the code's counts
of constraints allow it; four lines that come out must land every tab within the
2 percent of the code. Whether corners are right is judged by `True`, an oracle of the
properties and not the code's own test of sanity. `no` and `of`, the true numbers and sides, are what the
properties compare with.

### Parts

`part` names the one of these ten that runs; the others stay in an initial
state. None calls another: a tracker on its own thread feeds `Live` through a
lock that `Hud` has, writes to the scene that `Overlay` reads as something others
change, and so on, so that each module already has its neighbours as its
environment. What the composition saves is a run for each.

## 3. Runs

| Run | Instance | Shows |
|---|---|---|
| `MCSupervisor` | 2 guns, refused threads, power cycling, silent cameras | the safety properties of the ports and of the supervisor, its inductive invariant, and that it implements the ports' contract |
| `MCSupervisorLive` | 1 gun, fair, a lost camera is an error | stopping ends, a gun that is there ends up tracked, a path leaves `CLOSING` |
| `MCSupervisorSilent` | the same with silent cameras | finding 1 |
| `MCRunLockCrossed` | 3 processes, 3 inodes | finding 6 |
| `MCRunLoop` | 1 gun, 1 measuring thread, refused threads, failing overlays, the camera prompt, fair | the phases take turns, the ports' contract, requests, Ctrl-C, winding down |
| `MCRunLoopQuit` | the same with `RunLoopQuit`, no refused threads | finding 2 |
| `MCTracker` | 4 aims, 3 supports, 2 buttons, both kinds of cursor, 2 tolerated timeouts, fair | the guard's, the smoother's and the cursor's promises, the dead line |
| `MCCapture` | 3 buffers, 4 pictures of 2 sizes; pool of 3, 7 pictures of either shape | one owner per buffer, nothing left mapped, newest frame, and the refinement of `FrameSource` |
| `MCParts` | the ten parts, see the bounds; fair | their invariants, action properties and liveness |
| `MCFlashIdentity` | the instance of `MCParts` | finding 3 |
| `MCOverlayResize` | the same | finding 4 |
| `MCBorderSupport` | the same | finding 5 |

### What the properties say

One property often has named parts, each stated and commented where it is
defined; a part's name is in the counterexample if it fails.

- `SupInv`: the inductive invariant of the supervisor (section 5), with
  `ClosingExact`, `NoReopenDuringClose`, `NoStrayTracker`, `ReturnedMeansFree`
  also listed on their own; `NoGunForgotten` says what a pass may do to a gun.
- `LockInv`: of a run whose own start met no other start (`Clear`), the lock is
  the one the file's name leads to, with its pid in it (`ClearRunIsVisible`), and
  nobody gets past it, neither to a lock nor to retiring it, also when the others'
  starts cross each other (`NobodyGetsPast`). `HuskBlocksNobody`: a start that
  meets no other and finds nobody live running gets the lock. `OneRun`, at most
  one process past the lock whatever crosses, is what fails (finding 6).
- `RunLoopInv`: nobody but an abandoned measuring thread has the gun when a
  calibration begins (`GunsAreFree`), Ctrl-C is aimed at the phase that is on
  (`CtrlCHitsThePhase`). `PortContract` holds of the steps taken while no thread
  is abandoned. `RunWindsDown`: a run that is told to stop is left, unless a wedged
  gun keeps the supervisor's own thread in the kernel (`StuckInKernel`) or the
  tracker waits at the camera prompt (`TrackerPrompts`). The prompt is answered
  once in the life of the program, and the tracker is held to nothing before it.
- `TrackInv`, `GunIsTold`, `LeapIsConfirmed`, `AgreementIsHeeded`,
  `FirstAimIsRaw`, `PointerIsGivenBack`, `DeadLineEnds`: what of a frame reaches
  the gun, relative to the frames before it, and what the end gives back.
- `CaptureInv`: `OneOwner` and `NothingLeftMapped` on Linux, `BuffersBounded` and
  `FramesInOrder` on macOS; `NewestIsHandedOut`; `FramesArePromised` is the
  refinement.
- `LinkInv`: a session asks nothing of a gun it has made stream; an offset that is
  used is the gun's own unless an answer was still to come when its question was
  put, or a gun left reporting had a button pressed meanwhile; and offsets are
  reported as read back only when the gun stores them. `HandshakeClearsTheLine`:
  a session that gets past the handshake has left nothing behind: no message the
  gun has still to read, no payload it waits for, no byte in the port but button
  reports. That is what the discards, the order of the legs and the restart from
  the first leg after unwedging are for; retrying only the leg that failed breaks it.
- `FlashInv`: an application that is gone is in a backup file, and "verified"
  means the whole image.
- `CalInv`: samples and pulls belong to the target shown; `DwellWaitsForMove`.
- `WireInv`: any cut of the stream gives the same events; an offset comes back,
  at the ends of the scale too.
- `OverlayInv`: no buffer changes under the compositor, and the loop takes its
  window for drawn only when it is. `OverlaySettles`: whatever the order of
  changes, the scene as it now is ends up on the screen, and on top.
- `DisplayInv`, `TickShowsTheLiving`: no entry outlives its trackers.
  `PreviewEnds`: either end of the preview ends both, but while the worker is at the
  camera prompt or once a panic has poisoned the lock the timer needs.
- `PointerInv`: the hides are counted right and no button stays down that nobody
  holds, for any number of guns.
- `BorderInv`: tabs are placed where they are, sides get their own names at any
  roll, and corners from four lines are the screen's even if a symbol was misread.

### Bounds

*Supervisor, lock, loop.* Two guns are enough for every interplay of the
supervisor: it starts one gun at a time, so what happens to another gun meanwhile
needs one other gun; guns do not share anything else. Liveness is checked with
one gun: the second adds only passes through the scan. `MCParts` has two
processes at the run lock, a holder and one that retires its lock, each with an
inode; `MCRunLockCrossed` has three, so that two may find the same dead holder
(the theorem is for any number). One measuring thread is what the code has at a
time, and while it is abandoned the loop goes on with the runs that follow; a
second calibration beside it is in the theorem.

*Tracker.* The aims are two neighbours and two that are far from everything, so
that a hold can be confirmed, refuted or followed by another hold; the supports
reach both ways of being weaker; two timeouts tell a run of them from one.
`Heartbeat = FALSE`, as in `run`: nothing is sent to the gun before the first aim;
the synthesised cursor sends the centre then, as the option would. One button
report per turn (`MaxReports`).

*Capture.* Three buffers let one be held, one be drained and one be filled; four
pictures fill them all and lose one. Two sizes, 5 and 10, make one picture
truncated beside the other; the filter warms up after 2 pictures and remembers 3
instead of 10 and 30. On macOS the pool has its 3 buffers and seven pictures, of
either shape, empty, overfill and refill it.

*Parts.* Sessions: all nine commands that talk to a gun, two of them one after the
other, two messages in the kernel before a write blocks. Flash: 2 guns, 2
pages, 2 commands, so that a second one meets what the first left. Calibration: 2
targets, aims that agree or do not, frames closer than the window or further
apart than it, a window of 3 ticks and a give-up after 5. Wire: the report byte,
two others, up to 5 bytes, reads of up to 3, so that a report is cut at every
place and can contain its own first byte; offsets on both sides of both ends of
the scale and of 16 bits. Overlay: 2 window sizes, 2 changes of the scene, 2
things the window system does, 2 buffers. Display: 2 trackers, 2 names (so the
same or different), 2 slots. Pointer: 2 guns, 2 buttons. Preview: 2 images.
Border: 3 or 5 tabs of one edge from any place, 0 or 2 of the next one, each of
the four faults at each tab, four rolls. In every part the bound is on what comes
from outside; no queue or counter of the code is cut short by it but the ones
named.

*Deadlock* is not checked: a program that has returned stops, and an outside that
has used up its bound is silent, by design.

### Fairness

Threads run (weak fairness of each thread's next step), deadlines pass,
three-second retries come due. A tracker ends when it is told to, or when its
session is dead: it looks at the flag before each frame and touches the port
after it; this is *not* assumed of a deaf one. A close returns unless its gun is
wedged, and nothing makes a wedged gun's close return: the properties hold
without it. Nobody need answer the camera prompt: a tracker drops its gun when told
only once it is past `ensure_access`, and a measuring thread goes on only then.
In `RunLoop` a thread's open is strongly fair: other threads may
begin and end closes of the port in between, and the kernel serves the waiting
open in one of the gaps. `MCSupervisorLive` assumes that threads are to be had
(`SpawnCanFail = FALSE`): with a refused tracker thread the supervisor ends for
good, with the stop flag not set and the other guns' trackers detached, which
the comment at `src/main.rs:2446` does not say; and a refused closing thread
closes on the dropping thread, without the bound that `close_bounded`'s comment
promises.

In `Tracker` the loop runs on, and a wait for a frame ends within its three
seconds. In `Parts`, while the part runs: the overlay's loop runs on and time
passes (its clock is what raises a covered window), and the preview's worker and
page run on, the page by its timer; a process that is taking the run lock keeps
running. Nothing is assumed of the window system, the compositor's releases, the
user or the gun.

## 4. Findings

Each is a run that ends with a counterexample; `PROJECT.json` quotes the lines.

1. **A gun that is unplugged on macOS is not picked up again**
   (`MCSupervisorSilent`). The README promises it. The camera's stream cannot
   report the loss, the tracker treats silence as a slow camera, and the key
   stays in `running`. Checking the port on a timeout, or ending the session
   after a few, would cure it.
2. **A quit can be lost** (`MCRunLoopQuit`): Ctrl-C between a menu request and
   the phase it leads to sets a flag that nobody will read.
3. **The wrong gun can be flashed** (`MCFlashIdentity`): the product id is
   compared with that of the gun that was named, and then any bootloader on the
   bus is taken for it, another gun's that was left there included.
4. **A resize can end the overlay** (`MCOverlayResize`): the size is read before
   the events are pumped, and a picture of the old size is refused.
5. **An answer counts a false edge among its support** (`MCBorderSupport`): the
   edge its fit left out is still among the sides that the jump guard compares.
6. **Two starts at once may both run** (`MCRunLockCrossed`): the holder is judged
   and its file unlinked outside the lock. The second process finds the file locked
   but its pid not written yet, which reads as a holder that is gone; or both judge
   the same dead holder, and the slower one unlinks the lock the faster one has
   just taken. Waiting for a pid, or unlinking only under a lock of the same inode,
   would cure it.

### Known and not run

What else was met while modelling. Where a definition states it, it is named; it
does not hold, and the runs are about what does.

- *Run lock.* It is `run_all`'s and is dropped before the menu's calibration, so
  that a second process may start and use the guns then (`NobodyFights`,
  `src/main.rs:713`).
- *Run loop.* `overlay::run(..)?` skips the join (`src/main.rs:3462`): the next
  calibration or run may meet the abandoned thread at the gun's port, hence the
  exception in `GunsAreFree` and `PortContract`. The first open of the camera waits
  for the permission prompt without looking at the stop flag
  (`src/camera/avfoundation.rs:196`), hence those in `RunWindsDown` and `PreviewEnds`.
- *Tracker.* With the driver's cursor a frame with a border but no aim sends
  nothing, although the gun's button reports ride the position traffic
  (`PositionsFlow`, `src/runtime.rs:480-489`). A corrupt frame skips
  `poll_events` (`src/runtime.rs:420`), so that a camera link that delivers
  nothing else also keeps the gun's reports. The guard's "one frame of delay" is a
  bound only for a gun that comes to rest (`AgreementIsHeeded` is what holds).
- *Cursor.* `set_button` changes its flag before it posts
  (`src/cursor.rs:219-237`): a release that cannot be posted is forgotten by the
  drop, hence the exceptions in `PointerIsGivenBack` and `PressedIsHeld`. And one
  gun lets go of a button that another still holds (`HeldIsPressed`).
- *Capture.* The filter's median is of accepted frames only, so a scene that
  shrinks every picture is refused for good (`NeighboursDecide`,
  `src/camera/source.rs:158-171`). On macOS a picture of another shape than was
  set leaves the old pixels in its buffer, which go out under the new number
  (`src/camera/avfoundation.rs:129-142`); `FrameSource` promises no more than that.
- *Gun link.* An answer that comes after its question was given up is taken for
  the next question's: with every answer as late as it likes, an offset may be
  read from the bytes of the gun's id, or from a button report if an earlier session
  left the gun reporting (`CalibrationIsTheGuns` excepts both).
  `write_calibration` is not read back, so a session that ends at once may report
  as saved what the gun never got (`SavedIsStored`, `src/main.rs:3595-3602`): the
  drop discards what is unsent (`src/gun.rs:636`). A position whose write times
  out may have been sent in part (`src/gun.rs:185`).
- *Flash.* A gun left in its bootloader by a flash that failed after the erase is
  not found by the next one, whose check of the product asks for a gun that runs
  (`RetryIsNotRefused`, `src/main.rs:2811`).
- *Calibration.* The border kept with a measure is that of the frame of the
  capture, which may be clipped (`BordersAreWhole`, `src/main.rs:3287` and
  `3432`). A pull right after a capture by dwelling is latched for the next
  target (`src/main.rs:3368`), within the give-up time.
- *Display.* A slot reloads its picture when the serial differs (`hud.rs:169`): a
  gun that takes over a slot at the same serial shows the other's picture. A
  worker that panics under the preview's lock poisons it, and the page's tick then
  returns before it looks at `done` or stop (`src/preview/appkit.rs:316`).
- *Border.* A tab cut off in the middle of a run does not end the run
  (`src/vision/acquire.rs:1406`), and its neighbours are read as if they were next
  to each other; `CutInside` excepts it.

## 5. Proofs

Eight modules of theorems, for every value of the constants that satisfies their
named assumptions; TLC evaluates the same assumptions on every run.

*SerialPort.* `ClosingExact` and `NoReopenDuringClose` are not inductive. The
strengthening `PortInv` adds that a path has one thread, that it has at most one
closing thread, and that while it has one, whoever is at the path is waiting,
either in `await_close` or for that very closer. The contract's guard (`Unused`)
carries the first; the exactness of `CLOSING` carries the last, because a thread
passes `await_close` only once the path has left the set.

*Supervisor.* `SupInv` ties the supervisor's point in the pass to the state of
its own session, each tracker's state to the state of the gun's session, and
says that the gun being started has no tracker. From it, `StartFindsUnused`: a
gun the supervisor may open is nobody's business. That gives
`KeepsPortContract` (`Spec => PortSpec`, step by step), so the port theorems
carry over (`PortsStaySafe`), and with them `PortInv'` in the inductive step.
`TrackersAreKept` and `GunsAreFree` follow from the invariant, `NoGunIsForgotten`
is an action property proved from it.

*RunLoop.* `PhasesTakeTurns`, `PhasesKeepContract` and `RequestsAreServed`, with
failing overlays and the camera prompt. Alone, `GunsAreFree` says nothing of the phases before.
`IInv` adds whose turn it is (`Turns`: the supervisor's during a run, then one
measuring thread's, then `Main`'s; a measuring thread at work out of its turn is an
abandoned one), that whoever is not at work has let go of the gun (`Sessions`), which flag the handler has (`Flags`), and that the menu's
request is the last of what was asked for in this run (`Served`). `ItsTurn`: who
has the turn finds the port unused if no thread is abandoned, hence the contract.

*RunLock.* `LockHolds`, for starts at any moment. Of two that take the lock at once
both are crossed (`Apart`), so one that is not goes on with the inode it found under
the file's name (`Alone`, with `Descriptors`: what each has open and whose lock it
is). When it runs, whoever comes to the lock next has opened that inode, and whoever
judges has read its pid and will find it alive (`Found`): so nobody unlinks it.

*Tracker.* None of the guard's promises is inductive: they speak of the frame
before. `TrackInv` says that what the guard remembers is that frame
(`GuardRemembers`), that the aim acted on last is near the one let through last
(`AimIsLast`), that it is what the gun was told if no write has been lost since
(`TellsAim`), and that cursor and window server agree (`ButtonsAgree`). One
lemma per verdict and one per way of sending keep it; the theorems then follow
from a single step. It needs no metric: only that an aim is near itself.

*Capture.* `FrameSourceIsImplemented`: on either platform every step is a step of
`FrameSource` or a stutter, whatever the shapes of the pictures. On Linux what waits in the
driver is newer than what was handed out, in nobody's hands and not the driver's
to write to (`Waiting`), and what is in the tracker's hands is newer still until
it has been judged (`InHand`): so a picture is never written where the tracker
reads. On macOS everything in the channel and in the tracker's hands is in order,
and shows its own picture or, where the copy was skipped, an older one (`MacInv`). `NewestGoesOut` rests on `LooksLast`: once
nothing waits behind the buffer in `next`'s hands, it is the last of the queue it
looked at, whichever requeue failed.
`BuffersAreKept` is the whole of `CaptureInv`: on Linux
which buffers are granted and that each has one owner, on macOS how many buffers
channel, callback and tracker can hold between them, and their order.

*GunLink.* `LinkIsKept` and `HandshakesClearTheLine`. First the scripts: `CommandsFit`
shows of each command's sequence of steps that it opens with the handshake, asks
nothing after what makes the gun stream or report (`StepFits`), and follows a
recoil frame, the one order that is answered, with the pause that drops the
answer. The rest knows commands only by that. `IInv` then says what may be on the
line. What shuts the gun to questions is said only when none is to come (`Shut`).
Unless the session went on past an answer that was still to come (`late`), or a
button report came while one was waited for (`mingled`), one thing at most is on
the line while a question waits, itself or its own answer (`OneUnderWay`); so what
is read as an offset is the gun's (`NoJunk`). An answer to this attempt's challenge has nothing behind it
(`FreshIsLast`), so the gun's own challenge is the only thing on the line in the
second leg (`Dared`), and only a response to it is found right, with a clear line
behind the verdict (`Proved`, `Open`). For what compare reports, the new offsets
are in the gun or on their way before its own question (`OnItsWay`, `Stored`).

*Wire.* `WireIsKept`. `CutsDoNotMatter` compares with the whole stream, `Poll`
works on what it has; the invariant between them, `WireCut`, is that what was
read is cut into the events (`Cuts`: each event begins where the one before
ends, no byte is left out) up to a place from where the rest waits in `partial`.
`FedCuts` shows it of one call of `Fed`, along the bytes from the end to the
front: the least counterexample of a property of numbers exists (`NatMin`, from
`WFMin`), which is induction enough for a recursive function over places.
`CutsMove` and `CutsJoin` then put one read behind those before it. Last,
`CutsBegin` and `BeginningsAreOne`: the cut's places are the only set that
`Heads` can be, and the k-th event starts at the place with k - 1 before it.

*Calibration.* `DwellWaits`: a dwell is armed only after a move, and without a
trigger no pull is ever latched. `CaptureIsKept`: the ring holds aims of one
target, the oldest in front (`RingFits`); only because of that order does taking
off the front leave none that is too old (`RecentFits`). A median is an aim
because a non-empty sequence has a greatest value that all places reach
(`RankedIsOne`).

*Overlay.* `OverlayIsKept` joins two invariants. `BeliefInv` is what the loop
knows at each of its points: at the top and while it pumps, a drawing of the
window's size is on it unless an exposure waits; a resize alone cannot break this
because `Pump` then draws. `DrawInv` is about the buffers: what the compositor
reads is what it was sent. It is kept because the buffer drawn into is one it has
released or a new one (`BuffersFit`), and the picture presented has the size that
was read.

*Border.* `BorderIsRight`. `BorderIInv` follows a frame from step to step. What is
seen (`SeenInv`) are consecutive tabs of the side in one direction, read right
unless a symbol was misread, cut off only at the ends unless `CutInside`. A run or
stretch of these is a slice of the side (`PiecesAreSlices`, `SlicesNest`), so the
place it has in truth is one of those the code finds (`TruthIsPlaced`); as
`identify` and `locate` answer only where there is one place, the one is the true
one, and no table of which slices look alike is needed. The second decoding is
told its side, and `DecodesTo` holds of it because the edges that were read right
all vote for the roll as it is (`ReadEdgesTellTheRoll`), hence every name is the
side's own (`LabelsInv`). A misread symbol can put every name off by quarter
turns. Then a placed edge still has two tabs beside each other that are placed
beside each other (`Neighbours`); such tabs stand 9.6 percent of a long side apart
or 15 of a short one, so that under a wrong name both cannot land within 2 percent
(`WrongNamesMiss`; half a turn by the places themselves). Hence four lines that
land the tabs are the screen's (`LandedIsTrue`).

*Pointer, display, preview, flash.* `PointerIsShared`: with the finiteness of the
trackers, each hide and show moves the server's count by what it moves the set of
hiding cursors. `DisplayShowsTheLiving` needs that every tracker that lives has a
name, and the shapes of the records. `TicksShowTheLiving`: the i-th slot shows
the i-th gun by name, no two the same one (`TickShows`), each gun in the map has
a tracker that lives and a tracker one name, so slots map one to one into the
living. `FirmwareIsKept`: `FlashInv` needs three facts about the command under
way: what was read is what the gun holds, what is about to be erased has been
saved, and the session is left only with the image verified.

The assumptions are the ones on the constants: a
value that stands for none is none of the values it stands beside, sizes and
bounds are numbers, the supervisor's thread is not a tracker's, settings are
Booleans, an aim is near itself, no more of the edge beside is glimpsed than the
shortest side has tabs (`BorderAssumption`).

*Only model-checked.* All liveness (the prover has no fairness and no `ENABLED`):
`StopReturns`, `EventuallyTracked`, `ClosingClears`, `HuskBlocksNobody`,
`OverlayFollowsWorker`, `RunWindsDown`, `DeadLineEnds`, `OverlaySettles`,
`PreviewEnds`. Every invariant of a passing run is a theorem.

## 6. Not modelled, and why

- *Configuration* (`src/config.rs`): one file is parsed, filled up with defaults
  and written back; while the program runs it changes only through Reload, which
  `RunLoop` has.
- *Vision below the tabs* (`src/vision/luma.rs`, `lines.rs`, `homography.rs`,
  `lens.rs`, `lensfit.rs`, most of `acquire.rs`): floating-point image processing
  without state across frames. `Border` takes its outcome as a choice.
- *Drawing*: pixels of overlay, display and preview, the menu's texts and its
  login item. What switches and stops is in `Hud` and `RunLoop`.
- *UVC controls, process activity and thread priority*: transfers and hints
  without state. *USB port power* and *discovery* are there by their effect on the
  supervisor: any subset of the guns, with or without their cameras.
- *Diagnostic commands*: those that talk to a gun are `GunLink`'s commands, the
  preview is `Preview`; listing, replaying and measuring are sequential uses of
  the parts above.
- *Scripts, udev rules, packaging*: not part of the running program.

## 7. What is left

In the order of what it would add.

1. The links between the parts as state: the scene that `Calibration` writes and
   `Overlay` draws, the trackers of `Supervisor` feeding `Hud`, so that orders
   across them can be stated. Today each has the other as an arbitrary outside.
2. The lists of `config.rs` that are merged by gun id, if they come to be changed
   while guns are running.
