--------------------------- MODULE RunLoop_proofs ---------------------------
(***************************************************************************)
(* Proofs about RunLoop: the phases of the app take turns with the gun,    *)
(* Ctrl-C hits the one that is on, and what follows a run is what was      *)
(* asked for in it.  For any number of calibrations, any faults of the gun *)
(* and any requests; a thread that a failed overlay left behind            *)
(* (RunLoop's abandoned) is the only one that can be in the way.           *)
(***************************************************************************)
EXTENDS RunLoop, SerialPort_proofs

USE PathsAssumption, OneGunAssumption, ThreadAssumption, RequestAssumption

InRun    == {"running", "winding"}
Measured == {"overlay", "join", "save"}

Typed ==
  /\ pc \in Phases
  /\ stop \in [Users -> BOOLEAN]
  /\ slot \in Users \cup {None}
  /\ control \in Requests \cup {None}
  /\ cal \in Workers \cup {None}
  /\ guns \in InPass \cup {"between", "joining", "finished"}
  /\ work \in [Connectors -> Works]
  /\ asked \in BOOLEAN
  /\ abandoned \subseteq Workers

CameraTyped == camera \in {"closed", "asking", "open"} /\ answered \in BOOLEAN

(* Whose turn it is: the supervisor's during a run; then one measuring     *)
(* thread's, and, when that is over, Main's.  A measuring thread at work   *)
(* out of its turn has been abandoned.                                     *)
Turns ==
  /\ guns # "finished" => pc \in InRun
  /\ pc # "save" => work[Main] \in Over
  /\ IF pc \in Measured THEN cal \in Workers ELSE cal = None
  /\ \A w \in Workers \ abandoned :
       work[w] \notin Over => w = cal /\ pc \in {"overlay", "join"}
  /\ \A w \in abandoned : w # cal /\ work[w] \notin Over

(* Whose turn it is not has let go of the gun.                             *)
Sessions ==
  /\ guns = "finished" => sess[Run] = "idle"
  /\ \A c \in Connectors : work[c] \in Over \cup {"start"} => sess[c] = "idle"

Flags == /\ slot = None => pc \in {"lock", "exited"}
         /\ CtrlCHitsThePhase

(* The menu's request is the last of what was asked for in this run.       *)
Served ==
  /\ pc \notin InRun \cup {"returned"} => control = None
  /\ pc \in InRun \cup {"returned"} => (control = None <=> ~asked)

Kept == Typed /\ Turns /\ Sessions /\ Flags /\ Served

IInv == PortTypeOK /\ CameraTyped /\ Kept

USE DEF InRun, Measured, Over, Requests, Kept

LEMMA Initially == Init => IInv
<1> SUFFICES ASSUME Init PROVE IInv
    OBVIOUS
<1>1. PortTypeOK
  BY PortInvInit DEF Init, PortInv
<1>2. Typed /\ CameraTyped
  BY DEF Init, Typed, CameraTyped, Phases, Works
<1>3. Turns /\ Sessions /\ Flags /\ Served
  BY DEF Init, PortInit, Turns, Sessions, Flags, CtrlCHitsThePhase, Served, Connectors
<1> QED
  BY <1>1, <1>2, <1>3 DEF IInv, Kept

(* A port's step keeps its variables' types, whoever else uses the port.   *)
LEMMA PortsStayTyped ==
  ASSUME PortTypeOK, NEW u \in Users, NEW p \in Paths,
         \/ BeginOpen(u, p) \/ SessionStep(u) \/ Drop(u) \/ CloserStep(u, p)
         \/ Wedge(p) \/ Unwedge(p)
  PROVE  PortTypeOK'
<1>1. CASE BeginOpen(u, p) \/ CloseCleared(u) \/ KernelOpen(u)
  BY <1>1 DEF BeginOpen, CloseCleared, KernelOpen, Become, PortTypeOK, SessionStates
<1>2. CASE CloseStuck(u) \/ OpenFails(u) \/ CloseReported(u) \/ BudgetSpent(u) \/ InlineClosed(u)
  BY <1>2 DEF CloseStuck, OpenFails, CloseReported, BudgetSpent, InlineClosed, Leave, Become,
     PortTypeOK, SessionStates
<1>3. CASE Drop(u) \/ SpawnFails(u)
  BY <1>3 DEF Drop, SpawnFails, Become, PortTypeOK, SessionStates
<1>4. CASE SpawnCloser(u)
  <2>1. sess' = [sess EXCEPT ![u] = "waiting"] /\ sess[u] = "handoff" /\ at[u] \in Paths
    BY <1>4 DEF SpawnCloser, Become, PortTypeOK
  <2>2. closer' = [closer EXCEPT ![u][at[u]] = "kernel"] /\ UNCHANGED <<at, closing, wedged>>
    BY <1>4 DEF SpawnCloser
  <2> QED
    BY <2>1, <2>2 DEF PortTypeOK, SessionStates, CloserStates
<1>5. CASE CloserStep(u, p)
  <2>1. \/ closer' = [closer EXCEPT ![u][p] = "returned"]
        \/ closer' = [closer EXCEPT ![u][p] = "none"]
    BY <1>5 DEF CloserStep, KernelClosed, Unmark
  <2>2. closing' \subseteq closing /\ UNCHANGED <<sess, at, wedged>>
    BY <1>5 DEF CloserStep, KernelClosed, Unmark
  <2>3. closer' \in [Users -> [Paths -> CloserStates]]
    BY <2>1 DEF PortTypeOK, CloserStates
  <2> QED
    BY <2>2, <2>3 DEF PortTypeOK
<1>6. CASE Wedge(p) \/ Unwedge(p)
  BY <1>6 DEF Wedge, Unwedge, PortTypeOK
<1> QED
  BY <1>1, <1>2, <1>3, <1>4, <1>5, <1>6 DEF SessionStep

(* While one has the turn, everybody else is idle, unless abandoned.       *)
LEMMA ItsTurn ==
  ASSUME IInv, abandoned = {}, NEW u \in Users, sess[u] = "idle",
         \/ u = Run /\ guns # "finished"
         \/ u \in Connectors /\ work[u] \notin Over
  PROVE  Unused(Gun)
<1>1. \A v \in Users : v # u => sess[v] = "idle"
  <2>1. CASE u = Run /\ guns # "finished"
    BY <2>1 DEF IInv, Kept, Turns, Sessions, Connectors
  <2>2. CASE u \in Connectors /\ work[u] \notin Over
    BY <2>2 DEF IInv, Kept, Turns, Sessions, Connectors
  <2> QED
    BY <2>1, <2>2
<1>2. \A v \in Users : at[v] = NoPath
  BY <1>1 DEF IInv, PortTypeOK
<1> QED
  BY <1>2 DEF Unused

-----------------------------------------------------------------------------
(* Every step's part in the ports: none, or one of theirs.                 *)
LEMMA PortsPart ==
  ASSUME IInv, [Next]_vars
  PROVE  \/ UNCHANGED portVars
         \/ \E u \in Users : /\ sess[u] = "idle" /\ BeginOpen(u, Gun)
                            /\ \/ u = Run /\ guns # "finished"
                               \/ u \in Connectors /\ work[u] \notin Over
         \/ \E u \in Users : SessionStep(u) \/ Drop(u) \/ CloserStep(u, Gun)
         \/ Wedge(Gun) \/ Unwedge(Gun)
<1>0. Run \in Users /\ Connectors \subseteq Users
  BY DEF Connectors
<1>1. CASE MainStep \/ AlreadyRunning \/ OverlayFails \/ Asking \/ CameraOpens \/ PromptAnswered
  BY <1>1 DEF MainStep, RunBegins, MenuGone, GunsJoined, Take, Reload, NothingToMeasure,
     CalibrationBegins, WorkerRefused, OverlayEnds, WorkerJoined, Saved, AlreadyRunning,
     OverlayFails, Asking, Quits, CtrlC, QuitKey, MenuRequests, CameraOpens, PromptAnswered
<1>2. CASE GunsStep
  BY <1>2 DEF GunsStep, PassBegins, PassEnds, StopSeen, TrackersJoined
<1>3. CASE PassOpens
  BY <1>0, <1>3 DEF PassOpens, BeginOpen
<1>4. CASE GunDropped
  BY <1>0, <1>4 DEF GunDropped
<1>5. ASSUME NEW c \in Connectors, ConnectorOpens(c)
      PROVE  work[c] \notin Over /\ BeginOpen(c, Gun) /\ sess[c] = "idle"
  BY <1>5 DEF ConnectorOpens, BeginOpen
<1>6. ASSUME NEW c \in Connectors, WorkStep(c) \/ WorkEnds(c), ~ConnectorOpens(c)
      PROVE  UNCHANGED portVars \/ SessionStep(c) \/ Drop(c)
  BY <1>6 DEF WorkStep, WorkEnds, ConnectorRefused, ConnectorDrops, ResetFails, Connected,
     CameraAsked, WorkReturns, SessionStep
<1>7. ASSUME NEW u \in Users, PortStep(u) \/ Closers(u)
      PROVE  SessionStep(u) \/ CloserStep(u, Gun)
  BY <1>7 DEF PortStep, OpenSteps, DropSteps, Closers, SessionStep
<1>8. CASE Firmware
  BY <1>8 DEF Firmware
<1>9. CASE UNCHANGED vars
  BY <1>9 DEF vars
<1> QED
  BY <1>0, <1>1, <1>2, <1>3, <1>4, <1>5, <1>6, <1>7, <1>8, <1>9 DEF Next

(* Every step is one the ports allow, or leaves them alone, while nobody   *)
(* is abandoned.                                                           *)
LEMMA StepKeepsContract ==
  ASSUME IInv, [Next]_vars, abandoned = {} PROVE [PortNext]_portVars
<1>1. CASE UNCHANGED portVars
  BY <1>1
<1>2. CASE \E u \in Users : /\ sess[u] = "idle" /\ BeginOpen(u, Gun)
                           /\ \/ u = Run /\ guns # "finished"
                              \/ u \in Connectors /\ work[u] \notin Over
  BY <1>2, ItsTurn DEF Open, PortNext
<1>3. CASE \/ \E u \in Users : SessionStep(u) \/ Drop(u) \/ CloserStep(u, Gun)
           \/ Wedge(Gun) \/ Unwedge(Gun)
  BY <1>3 DEF PortNext
<1> QED
  BY PortsPart, <1>1, <1>2, <1>3

LEMMA TypesKeep == ASSUME IInv, [Next]_vars PROVE PortTypeOK' /\ CameraTyped'
<1>1. Gun \in Paths
  OBVIOUS
<1>2. PortTypeOK'
  <2>1. CASE UNCHANGED portVars
    BY <2>1 DEF IInv, PortTypeOK, portVars
  <2>2. CASE ~UNCHANGED portVars
    BY <1>1, <2>2, PortsPart, PortsStayTyped DEF IInv
  <2> QED
    BY <2>1, <2>2
<1>3. CASE UNCHANGED cameraVars
  BY <1>2, <1>3 DEF IInv, CameraTyped, cameraVars
<1>4. CASE PassEnds \/ CameraOpens \/ GunDropped \/ PromptAnswered
  BY <1>2, <1>4 DEF PassEnds, CameraOpens, GunDropped, PromptAnswered, GunsKeep, IInv, CameraTyped
<1>5. ASSUME ~(PassEnds \/ CameraOpens \/ GunDropped \/ PromptAnswered) PROVE UNCHANGED cameraVars
  <2>1. CASE MainStep \/ AlreadyRunning \/ OverlayFails \/ Asking \/ UNCHANGED vars
    BY <2>1 DEF MainStep, RunBegins, MenuGone, GunsJoined, Take, Reload, NothingToMeasure,
       CalibrationBegins, WorkerRefused, OverlayEnds, WorkerJoined, Saved, AlreadyRunning,
       OverlayFails, Asking, Quits, CtrlC, QuitKey, MenuRequests, vars
  <2>2. CASE GunsStep \/ PassOpens
    BY <1>5, <2>2 DEF GunsStep, PassBegins, StopSeen, TrackersJoined, PassOpens, GunsKeep, cameraVars
  <2>3. CASE \E c \in Connectors : WorkStep(c) \/ WorkEnds(c)
    BY <2>3 DEF WorkStep, WorkEnds, ConnectorOpens, ConnectorRefused, ConnectorDrops, ResetFails,
       Connected, CameraAsked, WorkReturns, ConnectorKeeps
  <2>4. CASE (\E u \in Users : PortStep(u) \/ Closers(u)) \/ Firmware
    BY <2>4 DEF PortStep, Closers, Firmware
  <2> QED
    BY <1>5, <2>1, <2>2, <2>3, <2>4 DEF Next
<1> QED
  BY <1>2, <1>3, <1>4, <1>5

-----------------------------------------------------------------------------
(* Main's steps leave the ports and the supervisor's place alone, but for  *)
(* the start of a run.                                                     *)
LEMMA MainKeeps == ASSUME IInv, MainStep \/ AlreadyRunning PROVE Kept'
<1>0. UNCHANGED <<sess, at>>
  BY DEF MainStep, RunBegins, MenuGone, GunsJoined, Take, Reload, NothingToMeasure,
     CalibrationBegins, WorkerRefused, OverlayEnds, WorkerJoined, Saved, AlreadyRunning, portVars
<1>1. CASE RunBegins
  BY <1>0, <1>1 DEF RunBegins, Phase, OnCtrlC, IInv, Kept, Typed, Phases, InPass, Turns, Sessions,
     Flags, CtrlCHitsThePhase, Served
<1>2. CASE MenuGone \/ AlreadyRunning \/ Reload \/ NothingToMeasure
  BY <1>0, <1>2 DEF MenuGone, AlreadyRunning, Reload, NothingToMeasure, Phase, IInv, Kept, Typed,
     Phases, Turns, Sessions, Flags, CtrlCHitsThePhase, Served
<1>3. CASE GunsJoined
  BY <1>0, <1>3 DEF GunsJoined, Phase, IInv, Kept, Typed,
     Phases, Turns, Sessions, Flags, CtrlCHitsThePhase, Served
<1>4. CASE Take
  <2>1. /\ pc = "returned" /\ pc' \in {"exited", "calibrate", "reload"} /\ control' = None
        /\ asked' = FALSE /\ UNCHANGED <<stop, slot, cal, guns, work, abandoned>>
    BY <1>4 DEF Take, IInv, Typed
  <2>2. guns = "finished"
    BY <2>1 DEF IInv, Turns
  <2> QED
    BY <1>0, <2>1, <2>2 DEF IInv, Kept, Typed, Phases, Turns, Sessions, Flags,
       CtrlCHitsThePhase, Served
<1>5. CASE CalibrationBegins
  <2>1. PICK w \in Workers : /\ work[w] \in Over /\ cal' = w /\ OnCtrlC(w)
                             /\ work' = [work EXCEPT ![w] = "start"]
    BY <1>5 DEF CalibrationBegins
  <2>2. /\ pc = "calibrate" /\ pc' = "overlay" /\ UNCHANGED <<control, guns, asked, abandoned>>
        /\ w \in Connectors /\ w \in Users
    BY <1>5 DEF CalibrationBegins, Phase, Connectors
  <2>3. Typed'
    BY <2>1, <2>2 DEF OnCtrlC, IInv, Typed, Phases, Works
  <2>4. Turns' /\ Sessions'
    BY <1>0, <2>1, <2>2 DEF IInv, Typed, Turns, Sessions
  <2>5. Flags' /\ Served'
    BY <2>1, <2>2 DEF OnCtrlC, IInv, Flags, CtrlCHitsThePhase, Served
  <2> QED
    BY <2>3, <2>4, <2>5 DEF Kept
<1>6. CASE WorkerRefused
  <2>1. PICK w \in Workers : OnCtrlC(w)
    BY <1>6 DEF WorkerRefused
  <2>2. /\ pc = "calibrate" /\ pc' = "reload" /\ UNCHANGED <<control, cal, guns, work, asked, abandoned>>
        /\ w \in Users
    BY <1>6 DEF WorkerRefused, Phase, Connectors
  <2> QED
    BY <1>0, <2>1, <2>2 DEF OnCtrlC, IInv, Kept, Typed, Phases, Turns, Sessions, Flags,
       CtrlCHitsThePhase, Served
<1>7. CASE OverlayEnds
  BY <1>0, <1>7 DEF OverlayEnds, Phase, IInv, Kept, Typed, Phases, Turns, Sessions, Flags,
     CtrlCHitsThePhase, Served
<1>8. CASE WorkerJoined /\ pc' = "reload"
  <2>1. /\ pc = "join" /\ work[cal] \in Over /\ cal' = None
        /\ work' = [work EXCEPT ![cal] = "none"]
        /\ UNCHANGED <<stop, slot, control, guns, asked, abandoned>>
    BY <1>8 DEF WorkerJoined
  <2>2. cal \in Workers /\ cal \in Connectors /\ Main \notin Workers
    BY <2>1 DEF IInv, Turns, Connectors
  <2>3. Typed'
    BY <1>8, <2>1, <2>2 DEF IInv, Typed, Phases, Works
  <2>4. /\ work'[Main] = work[Main] /\ work'[cal] = "none"
        /\ \A w \in Workers : w # cal => work'[w] = work[w]
    BY <2>1, <2>2 DEF IInv, Typed, Connectors
  <2>5. Turns'
    BY <1>8, <2>1, <2>2, <2>4 DEF IInv, Typed, Turns, Connectors
  <2>6. Sessions'
    BY <1>0, <2>1, <2>2, <2>4 DEF IInv, Typed, Sessions, Connectors
  <2> QED
    BY <1>8, <2>1, <2>3, <2>5, <2>6 DEF IInv, Kept, Typed, Phases, Turns, Sessions, Flags,
       CtrlCHitsThePhase, Served
<1>9. CASE WorkerJoined /\ pc' # "reload"
  <2>1. /\ pc = "join" /\ pc' = "save" /\ work[cal] \in Over /\ cal' = cal
        /\ work' = [work EXCEPT ![cal] = "none", ![Main] = "start"]
        /\ Main \in Connectors /\ Main \notin Workers
        /\ UNCHANGED <<stop, slot, control, guns, asked, abandoned>>
    BY <1>9 DEF WorkerJoined, Connectors
  <2>2. cal \in Workers /\ cal \in Connectors /\ work[Main] \in Over
    BY <2>1 DEF IInv, Turns, Connectors
  <2>3. Typed'
    BY <2>1 DEF IInv, Typed, Phases, Works
  <2>4. /\ work'[Main] = "start" /\ work'[cal] = "none"
        /\ \A w \in Workers : w # cal => work'[w] = work[w]
    BY <2>1, <2>2 DEF IInv, Typed, Connectors
  <2>5. Turns'
    BY <2>1, <2>2, <2>4 DEF IInv, Typed, Turns
  <2>6. Sessions'
    BY <1>0, <2>1, <2>2, <2>4 DEF IInv, Typed, Turns, Sessions, Connectors
  <2>7. Flags' /\ Served'
    BY <2>1 DEF IInv, Flags, CtrlCHitsThePhase, Served
  <2> QED
    BY <2>3, <2>5, <2>6, <2>7 DEF Kept
<1>10. CASE Saved
  <2>1. /\ pc = "save" /\ pc' = "reload" /\ work[Main] \in Over /\ cal' = None
        /\ work' = [work EXCEPT ![Main] = "none"] /\ Main \in Connectors /\ Main \notin Workers
        /\ UNCHANGED <<stop, slot, control, guns, asked, abandoned>>
    BY <1>10 DEF Saved, Phase, Connectors
  <2>2. Typed'
    BY <2>1 DEF IInv, Typed, Phases, Works
  <2>3. work'[Main] = "none" /\ \A w \in Workers : work'[w] = work[w]
    BY <2>1 DEF IInv, Typed, Connectors
  <2>4. Turns'
    BY <2>1, <2>3 DEF IInv, Typed, Turns, Connectors
  <2>5. Sessions'
    BY <1>0, <2>1, <2>3 DEF IInv, Typed, Sessions, Connectors
  <2> QED
    BY <2>1, <2>2, <2>4, <2>5 DEF IInv, Kept, Typed, Phases, Turns, Sessions, Flags,
       CtrlCHitsThePhase, Served
<1> QED
  BY <1>1, <1>2, <1>3, <1>4, <1>5, <1>6, <1>7, <1>8, <1>9, <1>10 DEF MainStep

(* What asks for something changes no phase: save Ctrl-C before any flag   *)
(* is registered.                                                          *)
LEMMA AskingKeeps == ASSUME IInv, Asking PROVE Kept'
<1>0. UNCHANGED <<sess, at, guns, work, cal, slot, abandoned>>
  BY DEF Asking, Quits, CtrlC, QuitKey, MenuRequests, portVars
<1>1. CASE Quits
  BY <1>0, <1>1 DEF Quits, SetStop, IInv, Kept, Typed, Turns, Sessions, Flags,
     CtrlCHitsThePhase, Served
<1>2. CASE QuitKey
  BY <1>0, <1>2 DEF QuitKey, SetStop, IInv, Kept, Typed, Turns, Sessions, Flags,
     CtrlCHitsThePhase, Served
<1>3. ASSUME NEW r \in Requests, MenuRequests(r) PROVE Kept'
  <2>1. /\ pc = "running" /\ pc' = pc /\ control' = r /\ r # None
        /\ stop' = [stop EXCEPT ![Run] = TRUE] /\ asked' = TRUE
    BY <1>3 DEF MenuRequests, SetStop
  <2>2. Typed'
    BY <1>0, <2>1 DEF IInv, Typed
  <2> QED
    BY <1>0, <2>1, <2>2 DEF IInv, Kept, Turns, Sessions, Flags, CtrlCHitsThePhase, Served
<1>4. CASE CtrlC
  <2>2. asked' = asked
    BY <1>4 DEF CtrlC
  <2>3. control' = control /\ stop' \in [Users -> BOOLEAN]
    BY <1>4 DEF CtrlC, SetStop, IInv, Typed
  <2>4. pc' = pc \/ (slot = None /\ pc' = "exited" /\ pc \in {"lock", "exited"})
    BY <1>4 DEF CtrlC, IInv, Flags
  <2>5. Typed'
    BY <1>0, <2>2, <2>3, <2>4 DEF IInv, Typed, Phases
  <2> QED
    BY <1>0, <2>2, <2>3, <2>4, <2>5 DEF IInv, Kept, Turns, Sessions, Flags, CtrlCHitsThePhase,
       Served
<1> QED
  BY <1>1, <1>2, <1>3, <1>4 DEF Asking

(* The overlay fails: a measuring thread that is not over is abandoned.    *)
LEMMA OverlayFailsKeeps == ASSUME IInv, OverlayFails PROVE Kept'
<1>1. /\ pc = "overlay" /\ pc' = "reload" /\ cal' = None
      /\ UNCHANGED <<sess, slot, control, guns, asked>>
      /\ stop' \in [Users -> BOOLEAN]
  BY DEF OverlayFails, Phase, SetStop, IInv, Typed, portVars
<1>2. cal \in Workers /\ cal \in Connectors /\ Main \notin Workers /\ cal # None
  BY <1>1 DEF IInv, Turns, Connectors
<1>3. \/ work[cal] \in Over /\ work' = [work EXCEPT ![cal] = "none"] /\ abandoned' = abandoned
      \/ work[cal] \notin Over /\ work' = work /\ abandoned' = abandoned \cup {cal}
  BY DEF OverlayFails
<1>4. Typed'
  BY <1>1, <1>2, <1>3 DEF IInv, Typed, Phases, Works
<1>5. /\ work'[Main] = work[Main] /\ \A w \in Workers : w # cal => work'[w] = work[w]
      /\ work'[cal] = IF work[cal] \in Over THEN "none" ELSE work[cal]
  BY <1>2, <1>3 DEF IInv, Typed, Connectors
<1>6. Turns'
  BY <1>1, <1>2, <1>3, <1>5 DEF IInv, Typed, Turns, Connectors
<1>7. Sessions'
  BY <1>1, <1>2, <1>3, <1>5 DEF IInv, Typed, Sessions, Connectors
<1> QED
  BY <1>1, <1>2, <1>4, <1>6, <1>7 DEF IInv, Typed, Sessions, Flags, CtrlCHitsThePhase, Served

-----------------------------------------------------------------------------
(* The supervisor's steps are taken in a run only.                         *)
LEMMA GunsKeepInv == ASSUME IInv, GunsStep \/ PassOpens \/ CameraOpens \/ GunDropped PROVE Kept'
<1>1. UNCHANGED <<pc, stop, slot, control, cal, work, asked, abandoned>>
      /\ (guns = "finished" => guns' = "finished" /\ sess' = sess)
  BY DEF GunsStep, PassBegins, PassEnds, StopSeen, TrackersJoined, PassOpens, CameraOpens, GunDropped,
     GunsKeep, phaseVars, portVars, InPass
<1>2. /\ guns' \in InPass \cup {"between", "joining", "finished"}
      /\ guns' = "finished" => sess'[Run] = "idle"
  BY DEF GunsStep, PassBegins, PassEnds, StopSeen, TrackersJoined, PassOpens, CameraOpens, GunDropped,
     InPass, portVars, IInv, Typed, Sessions
<1>3. \A c \in Connectors : sess'[c] = sess[c]
  BY DEF GunsStep, PassBegins, PassEnds, StopSeen, TrackersJoined, PassOpens, CameraOpens, GunDropped,
     BeginOpen, Drop, Become, portVars, IInv, PortTypeOK, Connectors
<1> QED
  BY <1>1, <1>2, <1>3 DEF IInv, Kept, Typed, Turns, Sessions, Flags, CtrlCHitsThePhase, Served

(* A thread at work goes on with it, and is idle when it is over.          *)
LEMMA WorkKeeps == ASSUME IInv, NEW c \in Connectors, WorkStep(c) \/ WorkEnds(c) PROVE Kept'
<1>1. /\ UNCHANGED <<pc, slot, control, cal, guns, asked>>
      /\ stop' \in [Users -> BOOLEAN] /\ c \in Users /\ c # Run
  BY DEF WorkStep, WorkEnds, ConnectorOpens, ConnectorRefused, ConnectorDrops, ResetFails,
     Connected, CameraAsked, WorkReturns, ConnectorKeeps, phaseVars, SetStop, IInv, Typed, Connectors
<1>2. PICK place \in Works \ {"start"} : work' = [work EXCEPT ![c] = place]
  BY DEF WorkStep, WorkEnds, ConnectorOpens, ConnectorRefused, ConnectorDrops, ResetFails,
     Connected, CameraAsked, WorkReturns, Goto, Works
<1>3. work[c] \notin Over
  BY DEF WorkStep, WorkEnds, ConnectorOpens, ConnectorRefused, ConnectorDrops, ResetFails,
     Connected, CameraAsked, WorkReturns
<1>4. /\ place \in Over => sess'[c] = "idle"
      /\ abandoned' = IF place \in Over THEN abandoned \ {c} ELSE abandoned
  BY <1>2 DEF WorkStep, WorkEnds, ConnectorOpens, ConnectorRefused, ConnectorDrops, ResetFails,
     Connected, CameraAsked, WorkReturns, WorkEnds, ConnectorKeeps, Goto, portVars, IInv, Typed
<1>5. \A u \in Users : u # c => sess'[u] = sess[u]
  BY DEF WorkStep, WorkEnds, ConnectorOpens, ConnectorRefused, ConnectorDrops, ResetFails,
     Connected, CameraAsked, WorkReturns, BeginOpen, CloseStuck, OpenFails, Drop, Leave, Become, portVars,
     IInv, PortTypeOK
<1>6. Typed'
  BY <1>1, <1>2, <1>4 DEF IInv, Typed
<1>7. /\ work'[c] = place /\ \A d \in Connectors : d # c => work'[d] = work[d]
  BY <1>2 DEF IInv, Typed
<1>8. Turns'
  <2>1. c \in abandoned \/ (c = cal /\ pc \in {"overlay", "join"}) \/ (c = Main /\ pc = "save")
    BY <1>3 DEF IInv, Turns, Connectors
  <2>2. Workers \subseteq Connectors /\ Main \in Connectors /\ Main \notin Workers
    BY DEF Connectors
  <2> QED
    BY <1>1, <1>4, <1>7, <2>1, <2>2 DEF IInv, Typed, Turns
<1>9. Sessions'
  BY <1>1, <1>2, <1>4, <1>5, <1>7 DEF IInv, Sessions, Connectors
<1> QED
  BY <1>1, <1>6, <1>8, <1>9 DEF IInv, Kept, Flags, CtrlCHitsThePhase, Served

(* The ports' own steps never touch a user who is idle.                    *)
LEMMA PortsKeep ==
  ASSUME IInv, \/ \E u \in Users : PortStep(u) \/ Closers(u)
               \/ Firmware \/ PromptAnswered
  PROVE  Kept'
<1>1. UNCHANGED <<pc, stop, slot, control, cal, guns, work, asked, abandoned>>
  BY DEF PortStep, Closers, Firmware, PromptAnswered, phaseVars
<1>2. \A v \in Users : sess[v] = "idle" => sess'[v] = "idle"
  BY DEF PortStep, OpenSteps, DropSteps, Closers, CloserStep, Firmware, PromptAnswered, portVars, CloseCleared, KernelOpen,
     CloseStuck, OpenFails, SpawnCloser, SpawnFails, InlineClosed, CloseReported, BudgetSpent,
     KernelClosed, Unmark, Wedge, Unwedge, Leave, Become, IInv, PortTypeOK
<1> QED
  BY <1>1, <1>2 DEF IInv, Kept, Typed, Turns, Sessions, Flags, CtrlCHitsThePhase, Served,
     Connectors

LEMMA Keeps == IInv /\ [Next]_vars => IInv'
<1> SUFFICES ASSUME IInv, [Next]_vars PROVE IInv'
    OBVIOUS
<1>1. PortTypeOK' /\ CameraTyped'
  BY TypesKeep
<1>2. UNCHANGED vars => Kept'
  BY DEF vars, portVars, phaseVars, IInv, Typed, Turns, Sessions, Flags, CtrlCHitsThePhase, Served
<1>3. Next => Kept'
  BY MainKeeps, AskingKeeps, OverlayFailsKeeps, GunsKeepInv, WorkKeeps, PortsKeep DEF Next
<1> QED
  BY <1>1, <1>2, <1>3 DEF IInv

(* The phases take turns: whenever a calibration begins every thread has   *)
(* let go of the gun ("The guns and camera are free now") but one that a   *)
(* failed overlay has left behind, and Ctrl-C is aimed at the phase that   *)
(* is on (on_ctrl_c, main's Run arm).                                      *)
THEOREM PhasesTakeTurns == Spec => []RunLoopInv
<1>1. Init => IInv
  BY Initially
<1>2. IInv /\ [Next]_vars => IInv'
  BY Keeps
<1>3. IInv => RunLoopInv
  <2> SUFFICES ASSUME IInv PROVE RunLoopInv
    OBVIOUS
  <2>1. TypeOK /\ CtrlCHitsThePhase
    BY DEF IInv, CameraTyped, Typed, Flags, TypeOK
  <2>2. GunsAreFree
    BY DEF IInv, Turns, Sessions, GunsAreFree, Connectors
  <2> QED
    BY <2>1, <2>2 DEF RunLoopInv
<1> QED
  BY <1>1, <1>2, <1>3, PTL DEF Spec

(* A run, a calibration and the saving of its result keep the contract of  *)
(* the ports: none starts to open the gun while another still has it, so   *)
(* what is proved of the ports holds across the phases; as long as no      *)
(* thread is left behind by a failed overlay, and again when it has ended. *)
THEOREM PhasesKeepContract == Spec => PortContract
<1>1. Init => IInv /\ PortInit
  BY Initially DEF Init
<1>2. IInv /\ [Next]_vars => IInv' /\ [PortNext \/ abandoned # {}]_portVars
  BY Keeps, StepKeepsContract
<1> QED
  BY <1>1, <1>2, PTL DEF Spec, PortContract

(* What follows a run is what was asked for in it: the program ends just   *)
(* when nothing was, and no request is served twice (Control::take).       *)
THEOREM RequestsAreServed == Spec => ServesThisRun
<1>1. Init => IInv
  BY Initially
<1>2. IInv /\ [Next]_vars => IInv'
  BY Keeps
<1>3. IInv /\ [Next]_vars =>
        [pc = "returned" /\ pc' # pc => (pc' = "exited" <=> ~asked)]_vars
  <2> SUFFICES ASSUME IInv, Next, pc = "returned", pc' # pc
               PROVE  pc' = "exited" <=> ~asked
    BY DEF vars
  <2>1. Take
    <3>1. ~AlreadyRunning /\ ~OverlayFails /\ ~Asking
      BY DEF AlreadyRunning, OverlayFails, Asking, Quits, CtrlC, QuitKey, MenuRequests, Phase,
         IInv, Flags
    <3>2. MainStep => Take
      BY DEF MainStep, RunBegins, MenuGone, GunsJoined, Reload, NothingToMeasure,
         CalibrationBegins, WorkerRefused, OverlayEnds, WorkerJoined, Saved, Phase
    <3>3. ~(GunsStep \/ PassOpens \/ CameraOpens \/ GunDropped \/ PromptAnswered)
      BY DEF GunsStep, PassBegins, PassEnds, StopSeen, TrackersJoined, PassOpens, CameraOpens,
         GunDropped, PromptAnswered, GunsKeep, phaseVars
    <3>4. \A c \in Connectors : ~(WorkStep(c) \/ WorkEnds(c))
      BY DEF WorkStep, WorkEnds, ConnectorOpens, ConnectorRefused, ConnectorDrops, ResetFails,
         Connected, CameraAsked, WorkReturns, ConnectorKeeps, phaseVars
    <3>5. ~Firmware /\ \A u \in Users : ~(PortStep(u) \/ Closers(u))
      BY DEF Firmware, PortStep, Closers, phaseVars
    <3> QED
      BY <3>1, <3>2, <3>3, <3>4, <3>5 DEF Next
  <2>2. control = None <=> ~asked
    BY DEF IInv, Served
  <2>3. pc' = "exited" <=> control = None
    BY <2>1 DEF Take, IInv, Typed
  <2> QED
    BY <2>2, <2>3
<1> QED
  BY <1>1, <1>2, <1>3, PTL DEF Spec, ServesThisRun
=============================================================================
