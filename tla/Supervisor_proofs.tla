-------------------------- MODULE Supervisor_proofs --------------------------
(***************************************************************************)
(* Proofs about Supervisor: it keeps the contract of the ports, so what    *)
(* SerialPort_proofs shows of them holds in it; it never loses a tracker;  *)
(* and when it returns the guns are free.  For any guns, settings, faults. *)
(***************************************************************************)
EXTENDS Supervisor, SerialPort_proofs

USE DEF Guns

(* A gun the supervisor is free to start is nobody's business: its tracker *)
(* is gone, and the supervisor's own last session is over.                 *)
LEMMA StartFindsUnused ==
  ASSUME SupInv, NEW g \in Guns, tracker[g] = "none", sess[Sup] = "idle"
  PROVE  Unused(g)
<1> USE ThreadsAssumption, PathsAssumption
<1>1. at[Sup] = NoPath
  BY DEF SupInv, PortInv, PortTypeOK
<1>2. \A h \in Guns : at[h] # g
  BY DEF SupInv, PortInv, PortTypeOK, TrackerSession
<1> QED BY <1>1, <1>2 DEF Unused

(* Every step is one the ports allow, or leaves them alone.                *)
LEMMA StepKeepsContract == SupInv /\ [Next]_vars => [PortNext]_portVars
<1> USE ThreadsAssumption, PathsAssumption
<1> SUFFICES ASSUME SupInv, [Next]_vars
             PROVE  [PortNext]_portVars
  OBVIOUS
<1>1. ASSUME NEW g \in Guns, Connect(g)
      PROVE  PortNext
  <2>1. tracker[g] = "none" /\ sess[Sup] = "idle"
    BY <1>1 DEF Connect, SupInv, NoStrayTracker, BeginOpen
  <2> QED BY <1>1, <2>1, StartFindsUnused DEF Connect, PortNext, Open
<1>2. CASE Touch \/ Reopen
  <2>1. cur \in Guns /\ tracker[cur] = "none" /\ sess[Sup] = "idle"
    BY <1>2 DEF Touch, Reopen, SupInv, StartsUntracked, BeginOpen
  <2>2. BeginOpen(Sup, cur)
    BY <1>2 DEF Touch, Reopen
  <2> QED BY <2>1, <2>2, StartFindsUnused DEF PortNext, Open
<1>3. CASE \/ Unblocked \/ Opened \/ OpenRefused \/ CloserStarts \/ Dropped
           \/ AuthFails \/ PrepareFails \/ SpawnRefused \/ Touched
  BY <1>3 DEF Unblocked, Opened, OpenRefused, CloserStarts, Dropped, AuthFails,
     PrepareFails, SpawnRefused, Touched, DropSession, PortNext, SessionStep
<1>4. CASE Unwedged \/ CameBack \/ PowerCycled
  BY <1>4 DEF Unwedged, CameBack, PowerCycled, PortNext, SupInv,
     StartsUntracked
<1>5. CASE Spawn
  BY <1>5 DEF Spawn, PortNext, SupInv, StartsUntracked
<1>6. ASSUME NEW g \in Guns, TrackerStep(g)
      PROVE  [PortNext]_portVars
  BY <1>6 DEF TrackerStep, CameraFallsSilent, TrackerEnds, DropSession,
     TrackerDrops, TrackerReturns, PortNext, SessionStep
<1>7. ASSUME NEW u \in Users, NEW g \in Guns, CloserRuns(u, g)
      PROVE  PortNext
  BY <1>7 DEF CloserRuns, PortNext
<1>8. CASE Environment
  BY <1>8 DEF Environment, Stop, Calm, RetryDue, GunPlugged, GunUnplugged,
     GunWedges, PortNext
<1>9. CASE \/ StopSeen \/ Reap \/ Discover \/ EndPass
           \/ \E g \in Guns : Skip(g) \/ NoCamera(g)
  BY <1>9 DEF StopSeen, Reap, Discover, EndPass, Skip, NoCamera
<1>10. CASE AuthOk \/ Prepared \/ NeverCameBack \/ PowerFails \/ Leaving
  BY <1>10 DEF AuthOk, Prepared, NeverCameBack, PowerFails, Leaving, Join,
     Return
<1>11. CASE UNCHANGED vars
  BY <1>11 DEF vars
<1> QED
  BY <1>1, <1>2, <1>3, <1>4, <1>5, <1>6, <1>7, <1>8, <1>9, <1>10, <1>11
  DEF Next, SupervisorStep, Loop, Starting, Recovering

-----------------------------------------------------------------------------
(* The invariant, part by part.                                            *)
LEMMA SupInvInit == Init => SupInv
<1> USE ThreadsAssumption, PathsAssumption DEF Init
<1>1. Init => PortInv
  BY PortInvInit
<1>2. Init => TypeOK
  BY <1>1 DEF TypeOK, PortInv, PCs
<1>3. Init => NoStrayTracker /\ ReturnedMeansFree
  BY DEF NoStrayTracker, ReturnedMeansFree
<1>5. Init => StartsUntracked /\ PassIsOver
  BY DEF StartsUntracked, PassIsOver
<1>4. Init => SupervisorSession /\ TrackerSession
  BY DEF PortInit, SupervisorSession, TrackerSession, Opening, Dropping
<1> QED BY <1>1, <1>2, <1>3, <1>4, <1>5 DEF SupInv

(* A gun that backs off changes only the pass and its own retry entry.     *)
LEMMA BackOffTyped ==
  ASSUME TypeOK, NEW g \in Guns, BackOff(g)
  PROVE  /\ pc' = "scan" /\ cur' = NoPath
         /\ todo' \in SUBSET Guns
         /\ retry' \in [Guns -> {"none", "waiting", "due"}]
BY DEF BackOff, Goto, TypeOK

(* The loop itself: its steps touch no session but Connect's.              *)
LEMMA LoopKeepsInv ==
  ASSUME SupInv, PortInv', Loop \/ Leaving
  PROVE  SupInv'
<1> USE ThreadsAssumption, PathsAssumption DEF Goto
<1>1. CASE StopSeen
  BY <1>1 DEF StopSeen, SupInv, TypeOK, PCs, portVars, envVars, PortInv,
     NoStrayTracker, SupervisorSession, TrackerSession, StartsUntracked,
     PassIsOver, ReturnedMeansFree, Opening, Dropping
<1>2. CASE Reap
  BY <1>2 DEF Reap, SupInv, TypeOK, PCs, portVars, envVars, PortInv,
     NoStrayTracker, SupervisorSession, TrackerSession, StartsUntracked,
     PassIsOver, ReturnedMeansFree, Opening, Dropping
<1>3. CASE Discover \/ EndPass
  BY <1>3 DEF Discover, EndPass, SupInv, TypeOK, PCs, portVars, envVars,
     PortInv, NoStrayTracker, SupervisorSession, TrackerSession,
     StartsUntracked, PassIsOver, ReturnedMeansFree, Opening, Dropping
<1>4. ASSUME NEW g \in Guns, Skip(g)
      PROVE  SupInv'
  BY <1>4 DEF Skip, SupInv, TypeOK, PCs, portVars, envVars, PortInv,
     NoStrayTracker, SupervisorSession, TrackerSession, StartsUntracked,
     PassIsOver, ReturnedMeansFree, Opening, Dropping
<1>8. ASSUME NEW g \in Guns, NoCamera(g)
      PROVE  SupInv'
  <2>1. /\ pc = "scan" /\ pc' = "scan" /\ cur' = NoPath
        /\ todo' \in SUBSET Guns
        /\ retry' \in [Guns -> {"none", "waiting", "due"}]
        /\ UNCHANGED <<portVars, running, tracker, paired, stop, envVars>>
    BY <1>8, BackOffTyped DEF NoCamera, KeepTrackers, SupInv
  <2>2. sess[Sup] = "idle" /\ at[Sup] = NoPath
    BY <2>1 DEF SupInv, SupervisorSession, PortInv, PortTypeOK
  <2> QED
    BY <2>1, <2>2 DEF SupInv, TypeOK, PCs, portVars, envVars, PortInv,
       NoStrayTracker, SupervisorSession, TrackerSession, StartsUntracked,
       PassIsOver, ReturnedMeansFree, Opening, Dropping
<1>5. ASSUME NEW g \in Guns, Connect(g)
      PROVE  SupInv'
  BY <1>5 DEF Connect, BeginOpen, Become, KeepTrackers, SupInv, TypeOK, PCs,
     envVars, PortInv, PortTypeOK, NoStrayTracker, SupervisorSession,
     TrackerSession, StartsUntracked, PassIsOver, ReturnedMeansFree, Opening,
     Dropping
<1>6. ASSUME NEW g \in Guns, Join(g)
      PROVE  SupInv'
  BY <1>6 DEF Join, SupInv, TypeOK, PCs, portVars, envVars, PortInv,
     NoStrayTracker, SupervisorSession, TrackerSession, StartsUntracked,
     PassIsOver, ReturnedMeansFree, Opening, Dropping
<1>7. CASE Return
  <2> USE <1>7 DEF Return
  <2>1. \A g \in Guns : tracker[g] = "none" /\ sess[g] = "idle"
    BY DEF SupInv, NoStrayTracker, TrackerSession
  <2>2. ReturnedMeansFree'
    BY <2>1 DEF ReturnedMeansFree, portVars, SupInv, SupervisorSession
  <2> QED
    BY <2>2 DEF SupInv, TypeOK, PCs, portVars, envVars, PortInv,
       NoStrayTracker, SupervisorSession, TrackerSession, StartsUntracked,
       PassIsOver, Opening, Dropping
<1> QED BY <1>1, <1>2, <1>3, <1>4, <1>5, <1>6, <1>7, <1>8 DEF Loop, Leaving

(* Starting a gun: the session is the supervisor's until Spawn hands it on.*)
LEMMA StartingKeepsInv ==
  ASSUME SupInv, PortInv', Starting
  PROVE  SupInv'
<1> USE ThreadsAssumption, PathsAssumption DEF Goto, Become, Leave
<1>1. CASE Unblocked
  BY <1>1 DEF Unblocked, CloseCleared, supVars, envVars, SupInv, TypeOK, PCs,
     PortInv, PortTypeOK, NoStrayTracker, SupervisorSession, TrackerSession,
     StartsUntracked, PassIsOver, ReturnedMeansFree, Opening, Dropping
<1>2. CASE Opened
  BY <1>2 DEF Opened, KernelOpen, envVars, SupInv, TypeOK, PCs, PortInv,
     PortTypeOK, NoStrayTracker, SupervisorSession, TrackerSession,
     StartsUntracked, PassIsOver, ReturnedMeansFree, Opening, Dropping
<1>3. CASE OpenRefused
  <2>1. /\ sess' = [sess EXCEPT ![Sup] = "idle"]
        /\ at' = [at EXCEPT ![Sup] = NoPath]
        /\ UNCHANGED <<paired, running, tracker, stop, envVars>>
    BY <1>3 DEF OpenRefused, CloseStuck, OpenFails, KeepTrackers
  <2>2. cur \in Guns /\ tracker[cur] = "none" /\ pc \in Opening
    BY <1>3 DEF OpenRefused, Opening, SupInv, StartsUntracked
  <2>3. TrackerSession'
    BY <2>1 DEF SupInv, PortInv, PortTypeOK, TrackerSession
  <2>4. sess'[Sup] = "idle" /\ at'[Sup] = NoPath
    BY <2>1 DEF SupInv, PortInv, PortTypeOK
  <2>5. CASE BackOff(cur)
    <3>1. /\ pc' = "scan" /\ cur' = NoPath
          /\ todo' \in SUBSET Guns
          /\ retry' \in [Guns -> {"none", "waiting", "due"}]
      BY <2>2, <2>5, BackOffTyped DEF SupInv
    <3> QED
      BY <2>1, <2>2, <2>3, <2>4, <3>1 DEF envVars, SupInv, TypeOK, PCs,
         PortInv, NoStrayTracker, SupervisorSession, StartsUntracked,
         PassIsOver, ReturnedMeansFree, Opening, Dropping
  <2>6. CASE pc' = "power" /\ UNCHANGED <<cur, todo, retry>>
    BY <2>1, <2>2, <2>3, <2>4, <2>6 DEF envVars, SupInv, TypeOK, PCs, PortInv,
       NoStrayTracker, SupervisorSession, StartsUntracked, PassIsOver,
       ReturnedMeansFree, Opening, Dropping
  <2> QED BY <1>3, <2>5, <2>6 DEF OpenRefused
<1>4. CASE AuthOk \/ Unwedged \/ Prepared
  BY <1>4 DEF AuthOk, Unwedged, Unwedge, Prepared, portVars, envVars, SupInv,
     TypeOK, PCs, PortInv, NoStrayTracker, SupervisorSession, TrackerSession,
     StartsUntracked, PassIsOver, ReturnedMeansFree, Opening, Dropping
<1>5. CASE AuthFails \/ PrepareFails \/ SpawnRefused
  BY <1>5 DEF AuthFails, PrepareFails, SpawnRefused, DropSession, Drop, SupInv,
     TypeOK, PCs, PortInv, PortTypeOK, NoStrayTracker, SupervisorSession,
     TrackerSession, StartsUntracked, PassIsOver, ReturnedMeansFree, Opening,
     Dropping
<1>6. CASE CloserStarts
  BY <1>6 DEF CloserStarts, SpawnCloser, SpawnFails, supVars, envVars, SupInv,
     TypeOK, PCs, PortInv, PortTypeOK, NoStrayTracker, SupervisorSession,
     TrackerSession, StartsUntracked, PassIsOver, ReturnedMeansFree, Opening,
     Dropping
<1>7. CASE Spawn
  BY <1>7 DEF Spawn, HandOver, envVars, SupInv, TypeOK, PCs, PortInv,
     PortTypeOK, NoStrayTracker, SupervisorSession, TrackerSession,
     StartsUntracked, PassIsOver, ReturnedMeansFree, Opening, Dropping
<1> QED BY <1>1, <1>2, <1>3, <1>4, <1>5, <1>6, <1>7 DEF Starting

(* Dropping the supervisor's session, and the recovery between two opens.  *)
LEMMA RecoveringKeepsInv ==
  ASSUME SupInv, PortInv', Dropped \/ Recovering
  PROVE  SupInv'
<1> USE ThreadsAssumption, PathsAssumption DEF Goto, Become, Leave
<1>1. CASE Dropped
  <2>1. /\ sess' = [sess EXCEPT ![Sup] = "idle"]
        /\ at' = [at EXCEPT ![Sup] = NoPath]
        /\ UNCHANGED <<paired, tracker, stop, envVars>>
    BY <1>1 DEF Dropped, CloseReported, BudgetSpent, InlineClosed
  <2>2. cur \in Guns /\ tracker[cur] = "none" /\ pc \in Dropping
    BY <1>1 DEF Dropped, Dropping, SupInv, StartsUntracked
  <2>3. TrackerSession'
    BY <2>1 DEF SupInv, PortInv, PortTypeOK, TrackerSession
  <2>4. sess'[Sup] = "idle" /\ at'[Sup] = NoPath
    BY <2>1 DEF SupInv, PortInv, PortTypeOK
  <2>5. CASE BackOff(cur) /\ UNCHANGED running
    <3>1. /\ pc' = "scan" /\ cur' = NoPath
          /\ todo' \in SUBSET Guns
          /\ retry' \in [Guns -> {"none", "waiting", "due"}]
      BY <2>2, <2>5, BackOffTyped DEF SupInv
    <3> QED
      BY <2>1, <2>2, <2>3, <2>4, <2>5, <3>1 DEF envVars, SupInv, TypeOK, PCs,
         PortInv, NoStrayTracker, SupervisorSession, StartsUntracked,
         PassIsOver, ReturnedMeansFree, Opening, Dropping
  <2>6. CASE /\ pc' \in {"reset", "failed"}
             /\ (pc' = "failed" /\ running' = {}) \/ UNCHANGED running
             /\ UNCHANGED <<cur, todo, retry>>
    BY <2>1, <2>2, <2>3, <2>4, <2>6 DEF envVars, SupInv, TypeOK, PCs, PortInv,
       NoStrayTracker, SupervisorSession, StartsUntracked, PassIsOver,
       ReturnedMeansFree, Opening, Dropping
  <2> QED BY <1>1, <2>5, <2>6 DEF Dropped
<1>2. CASE Touch \/ Reopen
  BY <1>2 DEF Touch, Reopen, BeginOpen, envVars, SupInv, TypeOK, PCs, PortInv,
     PortTypeOK, NoStrayTracker, SupervisorSession, TrackerSession,
     StartsUntracked, PassIsOver, ReturnedMeansFree, Opening, Dropping
<1>3. CASE Touched
  BY <1>3 DEF Touched, TouchDone, envVars, SupInv, TypeOK, PCs, PortInv,
     PortTypeOK, NoStrayTracker, SupervisorSession, TrackerSession,
     StartsUntracked, PassIsOver, ReturnedMeansFree, Opening, Dropping
<1>4. CASE CameBack \/ PowerCycled
  BY <1>4 DEF CameBack, PowerCycled, Unwedge, envVars, SupInv, TypeOK, PCs,
     PortInv, NoStrayTracker, SupervisorSession, TrackerSession,
     StartsUntracked, PassIsOver, ReturnedMeansFree, Opening, Dropping
<1>5. CASE NeverCameBack
  BY <1>5 DEF NeverCameBack, portVars, envVars, SupInv, TypeOK, PCs, PortInv,
     NoStrayTracker, SupervisorSession, TrackerSession, StartsUntracked,
     PassIsOver, ReturnedMeansFree, Opening, Dropping
<1>6. CASE PowerFails
  <2>1. cur \in Guns /\ pc = "power"
    BY <1>6 DEF PowerFails, SupInv, StartsUntracked
  <2>2. /\ pc' = "scan" /\ cur' = NoPath
        /\ todo' \in SUBSET Guns
        /\ retry' \in [Guns -> {"none", "waiting", "due"}]
        /\ UNCHANGED <<portVars, running, tracker, paired, stop, envVars>>
    BY <1>6, <2>1, BackOffTyped DEF PowerFails, KeepTrackers, SupInv
  <2>3. sess[Sup] = "idle" /\ at[Sup] = NoPath
    BY <2>1 DEF SupInv, SupervisorSession, PortInv, PortTypeOK
  <2> QED
    BY <2>1, <2>2, <2>3 DEF SupInv, TypeOK, PCs, portVars, envVars, PortInv,
       NoStrayTracker, SupervisorSession, TrackerSession, StartsUntracked,
       PassIsOver, ReturnedMeansFree, Opening, Dropping
<1> QED BY <1>1, <1>2, <1>3, <1>4, <1>5, <1>6 DEF Recovering

(* The trackers' threads, the closers, and the world outside.              *)
LEMMA TrackerKeepsInv ==
  ASSUME SupInv, PortInv', NEW g \in Guns, TrackerStep(g)
  PROVE  SupInv'
<1> USE ThreadsAssumption, PathsAssumption DEF Become, Leave
<1>1. pc # "failed" => g \in running
  BY DEF TrackerStep, CameraFallsSilent, TrackerEnds, TrackerDrops,
     TrackerReturns, SupInv, NoStrayTracker
<1>2. pc # "returned"
  BY DEF TrackerStep, CameraFallsSilent, TrackerEnds, TrackerDrops,
     TrackerReturns, SupInv, ReturnedMeansFree
<1>3. CASE TrackerEnds(g)
  BY <1>1, <1>2, <1>3 DEF TrackerEnds, DropSession, Drop, SupInv, TypeOK, PCs,
     PortInv, PortTypeOK, NoStrayTracker, SupervisorSession, TrackerSession,
     StartsUntracked, PassIsOver, ReturnedMeansFree
<1>4. CASE TrackerDrops(g)
  <2>1. /\ UNCHANGED <<supVars, envVars>>
        /\ \E st \in {"handoff", "inline", "waiting", "idle"} :
             sess' = [sess EXCEPT ![g] = st]
        /\ at' = at \/ at' = [at EXCEPT ![g] = NoPath]
    BY <1>4 DEF TrackerDrops, SpawnCloser, SpawnFails, CloseReported,
       BudgetSpent, InlineClosed
  <2>2. tracker[g] = "ending"
    BY <1>4 DEF TrackerDrops
  <2>3. TrackerSession' /\ SupervisorSession'
    BY <2>1, <2>2 DEF supVars, SupInv, PortInv, PortTypeOK, TrackerSession,
       SupervisorSession
  <2> QED
    BY <1>2, <2>1, <2>3 DEF supVars, envVars, SupInv, TypeOK, PortInv,
       NoStrayTracker, StartsUntracked, PassIsOver, ReturnedMeansFree
<1>5. CASE TrackerReturns(g)
  BY <1>1, <1>2, <1>5 DEF TrackerReturns, portVars, envVars, SupInv, TypeOK,
     PCs, PortInv, NoStrayTracker, SupervisorSession, TrackerSession,
     StartsUntracked, PassIsOver, ReturnedMeansFree
<1>6. CASE CameraFallsSilent(g)
  BY <1>1, <1>2, <1>6 DEF CameraFallsSilent, portVars, envVars, SupInv, TypeOK,
     PCs, PortInv, NoStrayTracker, SupervisorSession, TrackerSession,
     StartsUntracked, PassIsOver, ReturnedMeansFree
<1> QED BY <1>3, <1>4, <1>5, <1>6 DEF TrackerStep

LEMMA OthersKeepInv ==
  ASSUME SupInv, PortInv',
         \/ \E u \in Users, g \in Guns : CloserRuns(u, g)
         \/ Environment
         \/ UNCHANGED vars
  PROVE  SupInv'
<1> USE ThreadsAssumption, PathsAssumption
<1>1. CASE \/ \E u \in Users, g \in Guns : CloserRuns(u, g)
           \/ UNCHANGED vars
  BY <1>1 DEF CloserRuns, CloserStep, KernelClosed, Unmark, vars, portVars,
     supVars, envVars, SupInv, TypeOK, PortInv, NoStrayTracker,
     SupervisorSession, TrackerSession, StartsUntracked, PassIsOver,
     ReturnedMeansFree
<1>2. CASE Environment
  <2>1. /\ UNCHANGED <<sess, at, closer, closing, pc, cur, todo, paired,
                       running, tracker>>
        /\ retry' \in [Guns -> {"none", "waiting", "due"}]
        /\ stop' \in BOOLEAN /\ calm' \in BOOLEAN
        /\ attached' \in SUBSET Guns /\ stale' \in SUBSET Guns
    BY <1>2 DEF Environment, Stop, Calm, RetryDue, GunPlugged, GunUnplugged,
       GunWedges, Wedge, Unwedge, portVars, supVars, envVars, SupInv, TypeOK
  <2> QED
    BY <2>1 DEF SupInv, TypeOK, PortInv, NoStrayTracker, SupervisorSession,
       TrackerSession, StartsUntracked, PassIsOver, ReturnedMeansFree
<1> QED BY <1>1, <1>2

LEMMA SupInvStep == SupInv /\ [Next]_vars => SupInv'
<1> SUFFICES ASSUME SupInv, [Next]_vars
             PROVE  SupInv'
  OBVIOUS
<1>1. PortInv'
  BY StepKeepsContract, PortInvStep DEF SupInv
<1> QED
  BY <1>1, LoopKeepsInv, StartingKeepsInv, RecoveringKeepsInv,
     TrackerKeepsInv, OthersKeepInv DEF Next, SupervisorStep

(* The supervisor, its trackers and their sessions keep their invariant.   *)
THEOREM SupervisorInvariant == Spec => []SupInv
BY SupInvInit, SupInvStep, PTL DEF Spec

(* The supervisor keeps the contract of the ports: it never starts to open *)
(* a gun's port while a tracker, or a drop of its own, still has it.       *)
THEOREM KeepsPortContract == Spec => PortContract
<1>1. Init => PortInit
  BY DEF Init
<1> QED
  BY <1>1, StepKeepsContract, SupervisorInvariant, PTL
  DEF Spec, PortContract, PortSpec

(* So CLOSING stays exact in it, and no port is reopened under its close.  *)
THEOREM PortsStaySafe == Spec => [](ClosingExact /\ NoReopenDuringClose)
BY KeepsPortContract, ClosingIsExact, NeverReopenedDuringClose, PTL
DEF PortContract

(* The map loses no tracker.                                               *)
THEOREM TrackersAreKept == Spec => []NoStrayTracker
<1>1. SupInv => NoStrayTracker
  BY DEF SupInv
<1> QED BY <1>1, SupervisorInvariant, PTL

(* When the supervisor returns, every gun is free.                         *)
THEOREM GunsAreFree == Spec => []ReturnedMeansFree
<1>1. SupInv => ReturnedMeansFree
  BY DEF SupInv
<1> QED BY <1>1, SupervisorInvariant, PTL

(* A pass loses no gun it has found.                                       *)
THEOREM NoGunIsForgotten == Spec => NoGunForgotten
<1>1. SupInv /\ [Next]_vars
        => [\A g \in todo \ todo' : g \in running' \/ retry'[g] # "none"]_vars
  <2> SUFFICES ASSUME SupInv, Next, NEW g \in todo \ todo'
               PROVE  g \in running' \/ retry'[g] # "none"
    BY DEF vars
  <2>1. CASE Discover
    BY <2>1 DEF Discover, SupInv, PassIsOver
  <2>2. ASSUME NEW h \in Guns, Skip(h)
        PROVE  g \in running' \/ retry'[g] # "none"
    BY <2>2 DEF Skip
  <2>3. ASSUME NEW h \in Guns, BackOff(h)
        PROVE  g \in running' \/ retry'[g] # "none"
    BY <2>3 DEF BackOff, SupInv, TypeOK
  <2>4. CASE \/ OpenRefused \/ Dropped \/ PowerFails
             \/ \E h \in Guns : NoCamera(h)
    BY <2>3, <2>4 DEF OpenRefused, Dropped, PowerFails, NoCamera, SupInv,
       StartsUntracked, Opening, Dropping
  <2>5. CASE Spawn
    BY <2>5 DEF Spawn
  <2>6. CASE \/ StopSeen \/ Reap \/ EndPass \/ Leaving
             \/ \E h \in Guns : Connect(h)
    BY <2>6 DEF StopSeen, Reap, EndPass, Leaving, Return, Join, Connect
  <2>7. CASE \/ Unblocked \/ Opened \/ AuthOk \/ Unwedged \/ AuthFails
             \/ CloserStarts \/ Prepared \/ PrepareFails \/ SpawnRefused
    BY <2>7 DEF Unblocked, Opened, AuthOk, Unwedged, AuthFails, CloserStarts,
       Prepared, PrepareFails, SpawnRefused, supVars
  <2>8. CASE Touch \/ Touched \/ CameBack \/ NeverCameBack \/ PowerCycled
             \/ Reopen
    BY <2>8 DEF Touch, Touched, CameBack, NeverCameBack, PowerCycled, Reopen
  <2>9. CASE \/ \E h \in Guns : TrackerStep(h)
             \/ \E u \in Users, h \in Guns : CloserRuns(u, h)
    BY <2>9 DEF TrackerStep, CameraFallsSilent, TrackerEnds, TrackerDrops,
       TrackerReturns, CloserRuns, supVars
  <2>10. CASE Environment
    BY <2>10 DEF Environment, Stop, Calm, RetryDue, GunPlugged, GunUnplugged,
       GunWedges, supVars
  <2> QED
    BY <2>1, <2>2, <2>4, <2>5, <2>6, <2>7, <2>8, <2>9, <2>10
    DEF Next, SupervisorStep, Loop, Starting, Recovering
<1> QED BY <1>1, SupervisorInvariant, PTL DEF Spec, NoGunForgotten
=============================================================================
