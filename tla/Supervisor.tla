----------------------------- MODULE Supervisor -----------------------------
(***************************************************************************)
(* run's gun supervisor (supervise_guns, src/main.rs) with the tracker     *)
(* threads it starts and the recovery in connect, over the ports of        *)
(* SerialPort: guns come and go, wedge, fail and are retried, and one stop *)
(* flag ends it all.                                                       *)
(*                                                                         *)
(* A gun stands for its USB path, its port's path and the tracker thread   *)
(* that runs it; Sup is the supervisor's thread.  Once calm, the world     *)
(* outside stops changing: no faults, no plugging.  Deadlines are choices. *)
(***************************************************************************)
EXTENDS SerialPort

CONSTANTS
  Sup,            \* the supervisor's thread
  AutoRecover,    \* the setting global.auto_recover
  CanPowerCycle,  \* whether the gun's hub port can be switched (Linux)
  SilentCamera    \* whether a lost camera is only silence (macOS)

Guns == Paths

ASSUME ThreadsAssumption == Users = Guns \cup {Sup} /\ Sup \notin Guns
ASSUME SettingsAssumption ==
  {AutoRecover, CanPowerCycle, SilentCamera} \subseteq BOOLEAN

VARIABLES
  pc,         \* where the supervisor is
  cur,        \* the gun it is starting, or NoPath
  todo,       \* the guns this pass found and has not dealt with
  paired,     \* the guns for which this pass found a camera
  running,    \* the keys of the running map
  tracker,    \* each gun's tracker thread
  retry,      \* retry_after: no entry, in the future, in the past
  stop,       \* the shared stop flag
  attached,   \* external: guns on the bus
  stale,      \* external: guns whose open session an unplugging has cut
  calm        \* external: nothing outside changes any more

supVars == <<pc, cur, todo, paired, running, tracker, retry, stop>>
envVars == <<attached, stale, calm>>
vars    == <<portVars, supVars, envVars>>

(* The points of connect that open the port, and where each goes next.     *)
Opening == {"connect", "touch", "reopen"}

(* The points where the supervisor's own session is being dropped.         *)
Dropping == {"dropRetry", "dropReset", "dropFail"}

PCs == Opening \cup Dropping \cup
  {"top", "discover", "scan", "auth", "reset", "touched", "rebooting", "power",
   "back", "auth2", "prepare", "spawn", "joining", "returned", "failed"}

Init ==
  /\ PortInit
  /\ pc = "top" /\ cur = NoPath
  /\ todo = {} /\ paired = {} /\ running = {}
  /\ tracker = [g \in Guns |-> "none"]
  /\ retry   = [g \in Guns |-> "none"]
  /\ stop = FALSE
  /\ attached \in SUBSET Guns
  /\ stale = {}
  /\ calm = FALSE

-----------------------------------------------------------------------------
(* Something goes wrong with g that need not have: only before the calm,   *)
(* or because g is wedged or gone, or was gone for a moment.               *)
Answers(g) == g \in attached \ (wedged \cup stale)

Trouble(g) == ~calm \/ ~Answers(g)

(* The session u has open is dropped.                                      *)
DropSession(u) ==
  /\ Drop(u)
  /\ stale' = stale \ {at[u]}
  /\ UNCHANGED <<attached, calm>>

Goto(place) == pc' = place

(* A mistake the checks must notice: a failed gun left without an entry.   *)
ForgetsGun(g) ==
  /\ todo' = todo \ {g}
  /\ cur'  = NoPath
  /\ Goto("scan")
  /\ UNCHANGED retry

(* The retry arms of the loop: g waits its three seconds.                  *)
BackOff(g) ==
  /\ retry' = [retry EXCEPT ![g] = "waiting"]
  /\ todo'  = todo \ {g}
  /\ cur'   = NoPath
  /\ Goto("scan")

KeepTrackers == UNCHANGED <<running, tracker>>

-----------------------------------------------------------------------------
(* Mistakes the checks must notice: reaping a thread that still drops its  *)
(* gun, or reaping without the key; starting a gun that runs; returning    *)
(* without joining; and a tracker deaf to stop, or done before its drop.   *)
ReapsEarly ==
  LET over     == {g \in running : tracker[g] \in {"ending", "finished"}}
      finished == {g \in over : tracker[g] = "finished"}
  IN
  /\ pc = "top" /\ ~stop
  /\ running' = running \ over
  /\ tracker' = [g \in Guns |-> IF g \in finished THEN "none" ELSE tracker[g]]
  /\ retry'   = [g \in Guns |-> IF g \in over THEN "waiting" ELSE retry[g]]
  /\ Goto("discover")
  /\ UNCHANGED <<portVars, cur, todo, paired, stop, envVars>>

ReapsNothing ==
  /\ pc = "top" /\ ~stop
  /\ Goto("discover")
  /\ UNCHANGED <<portVars, cur, todo, paired, running, tracker, retry, stop,
                 envVars>>

ConnectsAgain(g) ==
  /\ pc = "scan" /\ g \in todo /\ g \in paired
  /\ retry[g] # "waiting"
  /\ cur' = g
  /\ BeginOpen(Sup, g)
  /\ Goto("connect")
  /\ KeepTrackers
  /\ UNCHANGED <<todo, paired, retry, stop, envVars>>

ReturnsAtOnce ==
  /\ pc = "joining"
  /\ Goto("returned")
  /\ UNCHANGED <<portVars, cur, todo, paired, running, tracker, retry, stop,
                 envVars>>

IgnoresStop(g) ==
  /\ tracker[g] = "tracking" /\ Trouble(g)
  /\ DropSession(g)
  /\ tracker' = [tracker EXCEPT ![g] = "ending"]
  /\ UNCHANGED <<pc, cur, todo, paired, running, retry, stop>>

ReturnsBeforeDrop(g) ==
  /\ tracker[g] = "ending"
  /\ tracker' = [tracker EXCEPT ![g] = "finished"]
  /\ UNCHANGED <<portVars, pc, cur, todo, paired, running, retry, stop,
                 envVars>>

-----------------------------------------------------------------------------
(* The top of the loop: stop, or reap every tracker whose thread ended.    *)
StopSeen ==
  /\ pc = "top" /\ stop
  /\ Goto("joining")
  /\ UNCHANGED <<portVars, cur, todo, paired, running, tracker, retry, stop,
                 envVars>>

Reap ==
  LET finished == {g \in running : tracker[g] = "finished"} IN
  /\ pc = "top" /\ ~stop
  /\ running' = running \ finished
  /\ tracker' = [g \in Guns |-> IF g \in finished THEN "none" ELSE tracker[g]]
  /\ retry'   = [g \in Guns |-> IF g \in finished THEN "waiting" ELSE retry[g]]
  /\ Goto("discover")
  /\ UNCHANGED <<portVars, cur, todo, paired, stop, envVars>>

(* find_guns and find_cameras; one that fails counts as finding nothing.   *)
(* In the calm each finds all there is, and each gun's camera is there.    *)
Discover ==
  /\ pc = "discover"
  /\ todo' \in IF calm THEN {attached} ELSE {attached, {}}
  /\ paired' \in IF calm THEN {todo'} ELSE SUBSET todo'
  /\ Goto("scan")
  /\ UNCHANGED <<portVars, cur, running, tracker, retry, stop, envVars>>

Skip(g) ==
  /\ pc = "scan" /\ g \in todo
  /\ g \in running \/ retry[g] = "waiting"
  /\ todo' = todo \ {g}
  /\ UNCHANGED <<portVars, pc, cur, paired, running, tracker, retry, stop,
                 envVars>>

NoCamera(g) ==
  /\ pc = "scan" /\ g \in todo
  /\ g \notin running /\ retry[g] # "waiting"
  /\ g \notin paired
  /\ BackOff(g)
  /\ KeepTrackers
  /\ UNCHANGED <<portVars, paired, stop, envVars>>

Connect(g) ==
  /\ pc = "scan" /\ g \in todo
  /\ g \notin running /\ retry[g] # "waiting"
  /\ g \in paired
  /\ cur' = g
  /\ BeginOpen(Sup, g)
  /\ Goto("connect")
  /\ KeepTrackers
  /\ UNCHANGED <<todo, paired, retry, stop, envVars>>

(* The pass is over; the pause before the next one is part of the loop.    *)
EndPass ==
  /\ pc = "scan" /\ todo = {}
  /\ Goto("top")
  /\ paired' = {}
  /\ UNCHANGED <<portVars, cur, todo, running, tracker, retry, stop, envVars>>

-----------------------------------------------------------------------------
(* Gun::open and bootloader_touch, on the supervisor's thread.             *)
Unblocked ==
  /\ pc \in Opening
  /\ CloseCleared(Sup)
  /\ UNCHANGED <<supVars, envVars>>

Opened ==
  /\ pc \in Opening
  /\ cur \in attached
  /\ KernelOpen(Sup)
  /\ Goto(CASE pc = "connect" -> "auth"
            [] pc = "touch"   -> "touched"
            [] pc = "reopen"  -> "auth2")
  /\ UNCHANGED <<cur, todo, paired, running, tracker, retry, stop, envVars>>

(* An open that fails: connect gives up, or reset_port fails and the port  *)
(* is power-cycled instead.  open_with_retry's tries count as one.         *)
OpenRefused ==
  /\ pc \in Opening
  /\ CloseStuck(Sup) \/ (OpenFails(Sup) /\ Trouble(cur))
  /\ \/ pc = "touch" /\ Goto("power") /\ UNCHANGED <<cur, todo, retry>>
     \/ pc # "touch" /\ BackOff(cur)
  /\ KeepTrackers
  /\ UNCHANGED <<paired, stop, envVars>>

(* Authentication succeeds; or the pending read of a wedged gun is filled  *)
(* and the second attempt does.                                            *)
AuthOk ==
  /\ pc \in {"auth", "auth2"}
  /\ Answers(cur)
  /\ Goto("prepare")
  /\ UNCHANGED <<portVars, cur, todo, paired, running, tracker, retry, stop,
                 envVars>>

Unwedged ==
  /\ pc = "auth" /\ AutoRecover
  /\ cur \in wedged \ stale
  /\ Unwedge(cur)
  /\ Goto("prepare")
  /\ UNCHANGED <<cur, todo, paired, running, tracker, retry, stop, envVars>>

(* The session is dropped: to be retried later, or to reset the gun first. *)
AuthFails ==
  /\ pc \in {"auth", "auth2"} /\ Trouble(cur)
  /\ DropSession(Sup)
  /\ \/ Goto("dropRetry")
     \/ pc = "auth" /\ AutoRecover /\ Goto("dropReset")
  /\ UNCHANGED <<cur, todo, paired, running, tracker, retry, stop>>

(* Gun's drop on the supervisor's thread, up to where it returns.          *)
CloserStarts ==
  /\ pc \in Dropping
  /\ SpawnCloser(Sup) \/ SpawnFails(Sup)
  /\ UNCHANGED <<supVars, envVars>>

Dropped ==
  /\ pc \in Dropping
  /\ CloseReported(Sup) \/ BudgetSpent(Sup) \/ InlineClosed(Sup)
  /\ \/ pc = "dropRetry" /\ BackOff(cur) /\ UNCHANGED running
     \/ pc = "dropReset" /\ Goto("reset")
                         /\ UNCHANGED <<cur, todo, retry, running>>
     \/ pc = "dropFail"  /\ Goto("failed")
                         /\ running' = {}
                         /\ UNCHANGED <<cur, todo, retry>>
  /\ UNCHANGED <<paired, tracker, stop, envVars>>

-----------------------------------------------------------------------------
(* reset_port: the 1200-baud touch, its bare port dropped on the spot; the *)
(* gun gone, and back with its firmware restarted, or not within 20 s.     *)
Touch ==
  /\ pc = "reset"
  /\ BeginOpen(Sup, cur)
  /\ Goto("touch")
  /\ UNCHANGED <<cur, todo, paired, running, tracker, retry, stop, envVars>>

Touched ==
  /\ pc = "touched"
  /\ TouchDone(Sup)
  /\ stale' = stale \ {cur}
  /\ Goto("rebooting")
  /\ UNCHANGED <<cur, todo, paired, running, tracker, retry, stop, attached,
                 calm>>

CameBack ==
  /\ pc = "rebooting"
  /\ cur \in attached
  /\ Unwedge(cur)
  /\ Goto("back")
  /\ UNCHANGED <<cur, todo, paired, running, tracker, retry, stop, envVars>>

NeverCameBack ==
  /\ pc = "rebooting" /\ Trouble(cur)
  /\ Goto("power")
  /\ UNCHANGED <<portVars, cur, todo, paired, running, tracker, retry, stop,
                 envVars>>

(* power_cycle_port, which restarts the firmware too, and its failure.     *)
PowerCycled ==
  /\ pc = "power" /\ CanPowerCycle
  /\ cur \in attached
  /\ Unwedge(cur)
  /\ Goto("back")
  /\ UNCHANGED <<cur, todo, paired, running, tracker, retry, stop, envVars>>

PowerFails ==
  /\ pc = "power" /\ (~CanPowerCycle \/ Trouble(cur))
  /\ BackOff(cur)
  /\ KeepTrackers
  /\ UNCHANGED <<portVars, paired, stop, envVars>>

Reopen ==
  /\ pc = "back"
  /\ BeginOpen(Sup, cur)
  /\ Goto("reopen")
  /\ UNCHANGED <<cur, todo, paired, running, tracker, retry, stop, envVars>>

-----------------------------------------------------------------------------
(* prepare_gun on the authenticated session.                               *)
Prepared ==
  /\ pc = "prepare" /\ Answers(cur)
  /\ Goto("spawn")
  /\ UNCHANGED <<portVars, cur, todo, paired, running, tracker, retry, stop,
                 envVars>>

PrepareFails ==
  /\ pc = "prepare" /\ Trouble(cur)
  /\ DropSession(Sup)
  /\ Goto("dropRetry")
  /\ UNCHANGED <<cur, todo, paired, running, tracker, retry, stop>>

(* The session moves into the tracker's thread; its key into the map.      *)
Spawn ==
  /\ pc = "spawn"
  /\ HandOver(Sup, cur)
  /\ tracker' = [tracker EXCEPT ![cur] = "tracking"]
  /\ running' = running \cup {cur}
  /\ retry'   = [retry EXCEPT ![cur] = "none"]
  /\ todo'    = todo \ {cur}
  /\ cur'     = NoPath
  /\ Goto("scan")
  /\ UNCHANGED <<paired, stop, envVars>>

(* No thread to spare: the closure is dropped with the session in it, and  *)
(* `?` ends the supervisor, whose map goes with it: the trackers it has    *)
(* are detached, and stop is not set.                                      *)
SpawnRefused ==
  /\ pc = "spawn" /\ SpawnCanFail
  /\ DropSession(Sup)
  /\ Goto("dropFail")
  /\ UNCHANGED <<cur, todo, paired, running, tracker, retry, stop>>

(* After the loop: join the trackers in turn; the last one ends it.        *)
Join(g) ==
  /\ pc = "joining" /\ g \in running
  /\ tracker[g] = "finished"
  /\ running' = running \ {g}
  /\ tracker' = [tracker EXCEPT ![g] = "none"]
  /\ UNCHANGED <<portVars, pc, cur, todo, paired, retry, stop, envVars>>

Return ==
  /\ pc = "joining" /\ running = {}
  /\ Goto("returned")
  /\ UNCHANGED <<portVars, cur, todo, paired, running, tracker, retry, stop,
                 envVars>>

-----------------------------------------------------------------------------
(* A tracker whose camera delivers no more frames, and no error, waits for *)
(* the next in turns of three seconds, looking at stop and at nothing else.*)
CameraFallsSilent(g) ==
  /\ SilentCamera /\ ~calm
  /\ tracker[g] = "tracking"
  /\ tracker' = [tracker EXCEPT ![g] = "deaf"]
  /\ UNCHANGED <<portVars, pc, cur, todo, paired, running, retry, stop,
                 envVars>>

(* A tracker's thread: the loop ends on stop or on a fault, the gun is     *)
(* dropped, and the thread is finished once the drop has returned.         *)
TrackerEnds(g) ==
  /\ \/ tracker[g] = "tracking" /\ (stop \/ Trouble(g))
     \/ tracker[g] = "deaf" /\ stop
  /\ DropSession(g)
  /\ tracker' = [tracker EXCEPT ![g] = "ending"]
  /\ UNCHANGED <<pc, cur, todo, paired, running, retry, stop>>

TrackerDrops(g) ==
  /\ tracker[g] = "ending"
  /\ \/ SpawnCloser(g) \/ SpawnFails(g)
     \/ CloseReported(g) \/ BudgetSpent(g) \/ InlineClosed(g)
  /\ UNCHANGED <<supVars, envVars>>

TrackerReturns(g) ==
  /\ tracker[g] = "ending" /\ sess[g] = "idle"
  /\ tracker' = [tracker EXCEPT ![g] = "finished"]
  /\ UNCHANGED <<portVars, pc, cur, todo, paired, running, retry, stop,
                 envVars>>

(* The closing threads, left behind or not.                                *)
CloserRuns(u, g) == CloserStep(u, g) /\ UNCHANGED <<supVars, envVars>>

(* Three seconds pass; the stop flag is set by the menu or Ctrl-C.         *)
RetryDue(g) ==
  /\ retry[g] = "waiting"
  /\ retry' = [retry EXCEPT ![g] = "due"]
  /\ UNCHANGED <<portVars, pc, cur, todo, paired, running, tracker, stop,
                 envVars>>

Stop ==
  /\ stop' = TRUE
  /\ UNCHANGED <<portVars, pc, cur, todo, paired, running, tracker, retry,
                 envVars>>

-----------------------------------------------------------------------------
(* External: plugging, wedging and the end of both.  A gun that is         *)
(* unplugged loses its power, any close stuck on it returns, and a session *)
(* open on it is dead even if the gun comes back.                          *)
GunPlugged(g) ==
  /\ ~calm /\ attached' = attached \cup {g}
  /\ UNCHANGED <<portVars, supVars, stale, calm>>

GunUnplugged(g) ==
  /\ ~calm /\ attached' = attached \ {g}
  /\ stale' = IF \E u \in Users : at[u] = g /\ sess[u] = "open"
              THEN stale \cup {g} ELSE stale
  /\ Unwedge(g)
  /\ UNCHANGED <<supVars, calm>>

GunWedges(g) ==
  /\ ~calm /\ g \in attached
  /\ Wedge(g)
  /\ UNCHANGED <<supVars, envVars>>

Calm ==
  /\ calm' = TRUE
  /\ UNCHANGED <<portVars, supVars, attached, stale>>

-----------------------------------------------------------------------------
Loop == StopSeen \/ Reap \/ Discover \/ EndPass
        \/ \E g \in Guns : Skip(g) \/ NoCamera(g) \/ Connect(g)

Starting == Unblocked \/ Opened \/ OpenRefused \/ AuthOk \/ Unwedged
            \/ AuthFails \/ CloserStarts \/ Prepared \/ PrepareFails \/ Spawn
            \/ SpawnRefused

Recovering == Touch \/ Touched \/ CameBack \/ NeverCameBack \/ PowerCycled
              \/ PowerFails \/ Reopen

Leaving == Return \/ \E g \in Guns : Join(g)

SupervisorStep == Loop \/ Starting \/ Dropped \/ Recovering \/ Leaving

TrackerStep(g) ==
  \/ CameraFallsSilent(g)
  \/ TrackerEnds(g) \/ TrackerDrops(g) \/ TrackerReturns(g)

Environment ==
  \/ Stop \/ Calm
  \/ \E g \in Guns : \/ RetryDue(g) \/ GunPlugged(g) \/ GunUnplugged(g)
                    \/ GunWedges(g)

Next ==
  \/ SupervisorStep
  \/ \E g \in Guns : TrackerStep(g)
  \/ \E u \in Users, g \in Guns : CloserRuns(u, g)
  \/ Environment

Spec == Init /\ [][Next]_vars

(* The threads run; a tracker sees stop, and that its gun is or was gone,  *)
(* at its next frame (if it gets one); retries come due; a close returns   *)
(* unless its gun is wedged.                                               *)
Fairness ==
  /\ WF_vars(SupervisorStep /\ ~(sess[Sup] = "inline" /\ cur \in wedged))
  /\ \A g \in Guns :
       /\ WF_vars(TrackerEnds(g) /\ (stop \/ g \in stale))
       /\ WF_vars(TrackerDrops(g) /\ ~(sess[g] = "inline" /\ g \in wedged))
       /\ WF_vars(TrackerReturns(g))
       /\ WF_vars(RetryDue(g))
  /\ \A u \in Users, g \in Guns :
       WF_vars(CloserRuns(u, g)
               /\ (closer[u][g] = "returned" \/ g \notin wedged))

FairSpec == Spec /\ Fairness

-----------------------------------------------------------------------------
(* The values the variables range over.                                    *)
TypeOK ==
  /\ PortTypeOK
  /\ pc \in PCs
  /\ cur \in Guns \cup {NoPath}
  /\ todo \in SUBSET Guns /\ paired \in SUBSET Guns
  /\ running \in SUBSET Guns
  /\ attached \in SUBSET Guns /\ stale \in SUBSET Guns
  /\ tracker \in [Guns -> {"none", "tracking", "deaf", "ending", "finished"}]
  /\ retry \in [Guns -> {"none", "waiting", "due"}]
  /\ stop \in BOOLEAN /\ calm \in BOOLEAN

(* A gun is not opened while a tracker still has it, and the session that  *)
(* a failed start drops is over before the next open of its port: the      *)
(* supervisor keeps the contract of the ports.                             *)
PortContract == PortSpec

(* No tracker runs outside the map while the supervisor lives: each will   *)
(* be reaped or joined.                                                    *)
NoStrayTracker ==
  pc # "failed" => running = {g \in Guns : tracker[g] # "none"}

(* When run returns the guns are free: no tracker is left and no thread    *)
(* is opening, holding or dropping a session (main's run loop goes on to   *)
(* calibrate: "The guns and camera are free now").                         *)
ReturnedMeansFree ==
  pc = "returned" =>
    /\ \A g \in Guns : tracker[g] = "none"
    /\ \A u \in Users : sess[u] = "idle"

(* A pass loses no gun: one it has dealt with is tracked, or has an entry  *)
(* in retry_after and will be tried again.                                 *)
NoGunForgotten ==
  [][\A g \in todo \ todo' : g \in running' \/ retry'[g] # "none"]_vars

(* What makes these inductive: where the supervisor's and the trackers'    *)
(* sessions are at each point, and that a gun being started has no tracker.*)
SupervisorSession ==
  /\ pc \in {"top", "discover", "scan", "reset", "rebooting", "power", "back",
            "joining", "returned", "failed"} => sess[Sup] = "idle"
  /\ pc \in Opening => sess[Sup] \in {"await", "opening"}
  /\ pc \in {"auth", "touched", "auth2", "prepare", "spawn"}
       => sess[Sup] = "open"
  /\ pc \in Dropping => sess[Sup] \in {"handoff", "inline", "waiting"}
  /\ at[Sup] \in {NoPath, cur}

TrackerSession ==
  \A g \in Guns :
    /\ at[g] \in {NoPath, g}
    /\ tracker[g] \in {"none", "finished"} => sess[g] = "idle"
    /\ tracker[g] \in {"tracking", "deaf"} => sess[g] = "open"
    /\ tracker[g] = "ending"
         => sess[g] \in {"handoff", "inline", "waiting", "idle"}

StartsUntracked ==
  \/ pc \in {"top", "discover", "scan", "joining", "returned", "failed"}
  \/ cur \in Guns /\ tracker[cur] = "none"

PassIsOver == pc \in {"top", "discover"} => todo = {}

SupInv ==
  /\ PortInv
  /\ TypeOK
  /\ NoStrayTracker
  /\ SupervisorSession
  /\ TrackerSession
  /\ StartsUntracked
  /\ PassIsOver
  /\ ReturnedMeansFree

(* Stopping ends, wedged guns or not: what CLOSE_BUDGET and the bounded    *)
(* recovery are for.                                                       *)
StopReturns == stop ~> pc \in {"returned", "failed"}

(* A gun plugged in with its camera ends up tracked, whatever happened to  *)
(* it before (README.md: "an unplugged gun is picked up again when it      *)
(* returns"; the comment at the top of supervise_guns).                    *)
Startable(g) == calm /\ g \in attached \ wedged

EventuallyTracked ==
  \A g \in Guns :
    Startable(g) ~> (tracker[g] = "tracking" \/ stop)
=============================================================================
