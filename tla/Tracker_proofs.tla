--------------------------- MODULE Tracker_proofs ---------------------------
(***************************************************************************)
(* Proofs about Tracker: what the jump guard lets through, where the gun   *)
(* points and what the pointer is left like, for every geometry of aims,   *)
(* every set of supports and every number of tolerated timeouts.           *)
(***************************************************************************)
EXTENDS Tracker, TLAPS

USE ConstantsAssumption

LEMMA InitHolds == Init => TrackInv
BY DEF Init, TrackInv, Frames, Verdicts, Lost, Nothing, GuardRemembers, AimIsLast,
       TellsAim, ButtonsAgree, PointerIsGivenBack

(* What the leaving of the loop leaves behind.                             *)
LEMMA EndGivesBack ==
  ASSUME NEW reason, NEW d, Ends(reason, d),
         reason = "post" \/ (d = down /\ pressed = down)
  PROVE  PointerIsGivenBack' /\ TellsAim' /\ ButtonsAgree' /\ pc' = "ended"
BY DEF Ends, PointerIsGivenBack, TellsAim, ButtonsAgree

(* The four verdicts on a frame keep what guard and smoother remember.     *)
LEMMA TakeKeeps ==
  ASSUME TrackInv, seen \in Sights, NEW a \in Smoothed(seen), Take(seen, a)
  PROVE  /\ shown' \in Verdicts /\ last' \in [at : Points, by : Supports]
         /\ {pending', smooth', lastAim'} \subseteq {None} \cup Points
         /\ since' = "loss" => smooth' = None
         /\ GuardRemembers' /\ AimIsLast' /\ lastAim' = a
<1>1. seen.at \in Points /\ seen.by \in Supports
  BY DEF Sights
<1>2. a \in Points /\ Close(a, seen.at)
  BY <1>1 DEF Smoothed, Close
<1> QED BY <1>1, <1>2 DEF Take, Verdicts, GuardRemembers, AimIsLast, Close

LEMMA HoldKeeps ==
  ASSUME TrackInv, seen \in Sights, Hold(seen)
  PROVE  /\ shown' \in Verdicts /\ pending' \in Points
         /\ GuardRemembers' /\ AimIsLast'
<1>1. seen.at \in Points /\ seen.by \in Supports
  BY DEF Sights
<1> QED BY <1>1 DEF Hold, Verdicts, GuardRemembers, AimIsLast, Close, TrackInv

LEMMA LoseKeeps ==
  ASSUME TrackInv, Lose
  PROVE  /\ shown' \in Verdicts /\ pending' = None /\ smooth' = None
         /\ GuardRemembers' /\ AimIsLast'
BY DEF TrackInv, Lose, Lost, Verdicts, GuardRemembers, AimIsLast, Close

(* A position sent is the one the invariant wants, or the loop is over.    *)
LEMMA SendKeeps ==
  ASSUME TrackInv, pc = "solve", NEW p, NEW h, Send(p, h), last' # None => lastAim' = p
  PROVE  /\ timeouts' \in Nat /\ pc' # "start"
         /\ TellsAim' /\ ButtonsAgree' /\ PointerIsGivenBack'
<1>1. pressed = down /\ timeouts \in Nat
  BY DEF TrackInv, ButtonsAgree
<1>2. CASE Ends("dead line", down) /\ timeouts' = timeouts + 1
  <2>1. PointerIsGivenBack' /\ TellsAim' /\ ButtonsAgree' /\ pc' = "ended"
    BY <1>1, <1>2, EndGivesBack
  <2>2. timeouts' = timeouts + 1
    BY <1>2
  <2>3. timeouts' \in Nat
    BY <1>1, <2>2
  <2> QED BY <2>1, <2>3
<1>3. CASE Ends("error", down) /\ UNCHANGED gunVars
  BY <1>1, <1>3, EndGivesBack DEF gunVars
<1>4. CASE /\ wrote' = "ok" /\ told' = p /\ timeouts' = 0
           /\ pc' = "poll" /\ UNCHANGED <<calls, down, pressed, why>>
  BY <1>1, <1>4 DEF TellsAim, ButtonsAgree, PointerIsGivenBack
<1>5. CASE /\ timeouts' = timeouts + 1
           /\ pc' = "poll" /\ UNCHANGED <<calls, down, pressed, why>>
  BY <1>1, <1>5 DEF TellsAim, ButtonsAgree, PointerIsGivenBack
<1> QED BY <1>2, <1>3, <1>4, <1>5 DEF Send

(* Nothing sent: right as long as the aim is still the one it was.         *)
LEMMA SilenceKeeps ==
  ASSUME TrackInv, pc = "solve", NEW h, SendNothing(h), UNCHANGED <<last, lastAim>>
  PROVE  /\ timeouts' \in Nat /\ pc' # "start"
         /\ TellsAim' /\ ButtonsAgree' /\ PointerIsGivenBack'
BY DEF SendNothing, gunVars, TrackInv, TellsAim, ButtonsAgree, PointerIsGivenBack

LEMMA SolveKeeps == TrackInv /\ Solve => TrackInv'
<1> SUFFICES ASSUME TrackInv, Solve PROVE TrackInv'
  OBVIOUS
<1>0. pc = "solve"
  BY DEF Solve, SolveTaken, SolveHeld, SolveRough, SolveNothing
<1>n. Nothing \in Frames
  BY DEF Frames
<1>s. seen.kind = "aim" => seen \in Sights
  BY DEF TrackInv, Frames, Nothing, Rough, Sights
<1>1. CASE SolveTaken
  <2>1. PICK a \in Smoothed(seen) :
           Take(seen, a) /\ IF synthesising THEN MoveAndSend(a) ELSE Send(a, hidden)
    BY <1>1 DEF SolveTaken
  <2>2. seen \in Sights /\ seen' = Nothing
    BY <1>1, <1>s DEF SolveTaken
  <2>3. lastAim' = a
    BY <2>1 DEF Take
  <2>4. /\ timeouts' \in Nat /\ pc' # "start"
        /\ TellsAim' /\ ButtonsAgree' /\ PointerIsGivenBack'
    <3>1. CASE \E h : Send(a, h)
      BY <1>0, <2>3, <3>1, SendKeeps
    <3>2. CASE Ends("post", down) /\ UNCHANGED gunVars
      BY <3>2, EndGivesBack DEF gunVars, TrackInv
    <3> QED BY <2>1, <3>1, <3>2 DEF MoveAndSend
  <2> QED BY <1>n, <2>1, <2>2, <2>4, TakeKeeps DEF TrackInv
<1>2. ASSUME KeepAim, UNCHANGED <<last, lastAim>>
      PROVE  /\ timeouts' \in Nat /\ pc' # "start"
             /\ TellsAim' /\ ButtonsAgree' /\ PointerIsGivenBack'
  BY <1>0, <1>2, SendKeeps, SilenceKeeps DEF KeepAim
<1>3. CASE SolveHeld
  <2>1. seen \in Sights /\ Hold(seen) /\ KeepAim /\ seen' = Nothing
    BY <1>3, <1>s DEF SolveHeld
  <2>2. UNCHANGED <<last, smooth, lastAim, since>>
    BY <2>1 DEF Hold
  <2> QED BY <1>n, <1>2, <2>1, <2>2, HoldKeeps DEF TrackInv
<1>4. CASE SolveRough
  <2>1. Lose /\ KeepAim /\ seen' = Nothing /\ UNCHANGED <<last, lastAim>>
    BY <1>4 DEF SolveRough, Lose
  <2> QED BY <1>n, <1>2, <2>1, LoseKeeps DEF TrackInv
<1>5. CASE SolveNothing
  <2>1. Lose /\ seen' = Nothing /\ UNCHANGED <<last, lastAim>>
    BY <1>5 DEF SolveNothing, Lose
  <2>2. last # None => lastAim # None
    BY DEF TrackInv, AimIsLast
  <2>3. /\ timeouts' \in Nat /\ pc' # "start"
        /\ TellsAim' /\ ButtonsAgree' /\ PointerIsGivenBack'
    BY <1>0, <1>5, <2>1, <2>2, SendKeeps, SilenceKeeps DEF SolveNothing
  <2> QED BY <1>n, <2>1, <2>3, LoseKeeps DEF TrackInv
<1> QED BY <1>1, <1>3, <1>4, <1>5 DEF Solve

(* The steps outside the solve leave guard, smoother and gun alone.        *)
LEMMA OtherStepsKeep == TrackInv /\ [Next]_vars /\ ~Solve => TrackInv'
<1> SUFFICES ASSUME TrackInv, [Next]_vars, ~Solve PROVE TrackInv'
  OBVIOUS
<1> USE DEF TrackInv, GuardRemembers, AimIsLast, Close
<1>0. pc # "ended" => pressed = down
  BY DEF ButtonsAgree
<1>1. ASSUME NEW reason, NEW d, Ends(reason, d), pc # "ended",
             reason = "post" \/ d = down,
             UNCHANGED <<seen, aimVars, gunVars>>
      PROVE  TrackInv'
  <2>1. PointerIsGivenBack' /\ TellsAim' /\ ButtonsAgree' /\ pc' = "ended"
    BY <1>0, <1>1, EndGivesBack
  <2> QED BY <1>1, <2>1 DEF aimVars, gunVars
<1>2. ASSUME UNCHANGED <<aimVars, timeouts, told, down, pressed, hidden, why>>,
             seen' \in Frames, pc' # "start" \/ pc' = pc, pc' = "ended" <=> pc = "ended"
      PROVE  TrackInv'
  BY <1>2 DEF aimVars, TellsAim, ButtonsAgree, PointerIsGivenBack
<1>3. CASE Start
  BY <1>1, <1>2, <1>3 DEF Start, gunVars, curVars
<1>4. CASE Stops \/ CameraFails
  BY <1>1, <1>4 DEF Stops, CameraFails
<1>5. CASE FrameArrives \/ NoFrame \/ AskToStop
  BY <1>2, <1>5 DEF FrameArrives, NoFrame, AskToStop, curVars, gunVars
<1>6. CASE Poll
  BY <1>1, <1>2, <1>6 DEF Poll, gunVars, curVars
<1>7. CASE Press
  <2> DEFINE c == Head(calls)
             d == IF c.held THEN down \cup {c.button} ELSE down \ {c.button}
  <2>0. pc = "press" /\ UNCHANGED <<seen, aimVars, gunVars>>
    BY <1>7 DEF Press
  <2>1. CASE Ends("post", d)
    BY <1>1, <2>0, <2>1
  <2>2. CASE /\ down' = d /\ pressed' = IF d = down THEN pressed ELSE d
             /\ UNCHANGED <<pc, hidden, why>>
    <3>1. pressed' = down'
      BY <1>0, <2>0, <2>2
    <3> QED BY <2>0, <2>2, <3>1
            DEF aimVars, gunVars, TellsAim, ButtonsAgree, PointerIsGivenBack
  <2> QED BY <1>7, <2>1, <2>2 DEF Press
<1>8. CASE PressesDone
  BY <1>2, <1>8 DEF PressesDone, gunVars, curVars
<1>9. CASE Hook
  BY <1>1, <1>2, <1>9 DEF Hook, gunVars, curVars
<1>10. CASE UNCHANGED vars
  BY <1>2, <1>10 DEF vars, gunVars, curVars
<1> QED BY <1>3, <1>4, <1>5, <1>6, <1>7, <1>8, <1>9, <1>10 DEF Next, Turn

(* The tracking loop's invariant holds in every state it can reach.        *)
THEOREM TrackerInvariant == Spec => []TrackInv
<1>1. TrackInv /\ [Next]_vars => TrackInv'
  BY SolveKeeps, OtherStepsKeep
<1> QED BY <1>1, InitHolds, PTL DEF Spec

(* The position the gun was told last is near the aim let through last.    *)
THEOREM GunPointsWhereSeen == Spec => []GunIsTold
<1>1. TrackInv => GunIsTold
  BY DEF TrackInv, GunIsTold, AimIsLast, TellsAim
<1> QED BY <1>1, TrackerInvariant, PTL

(* However the loop is left, its Drop leaves no pointer hidden and, unless *)
(* an event was refused, no button held.                                   *)
THEOREM DropGivesBack == Spec => []PointerIsGivenBack
<1>1. TrackInv => PointerIsGivenBack
  BY DEF TrackInv
<1> QED BY <1>1, TrackerInvariant, PTL

(* Which verdict a step that deals with a frame gives, and on what.        *)
LEMMA VerdictOfStep ==
  ASSUME TrackInv, [Next]_vars, Solving
  PROVE  \/ SolveTaken \/ SolveHeld \/ ((SolveRough \/ SolveNothing) /\ shown' = Lost)
BY DEF Solving, Next, Turn, Start, Stops, FrameArrives, NoFrame, CameraFails, Solve,
       SolveRough, SolveNothing, Lose, Poll, Press, PressesDone, Hook, AskToStop, vars

(* No leap on weaker support is let through that the frame before did not  *)
(* confirm (JumpGuard::filter with JumpGuard::lost).                       *)
THEOREM LeapsAreConfirmed == Spec => LeapIsConfirmed
<1>1. ASSUME TrackInv, [Next]_vars, Solving, shown'.verdict = "taken"
      PROVE  ~Suspicious(seen) \/ (shown.verdict = "held" /\ Near(seen.at, shown.at))
  <2>1. SolveTaken
    BY <1>1, VerdictOfStep DEF SolveHeld, Hold, Lost
  <2> QED BY <1>1, <2>1
          DEF SolveTaken, GuardHolds, Confirmed, TrackInv, GuardRemembers
<1> QED BY <1>1, TrackerInvariant, PTL DEF Spec, LeapIsConfirmed

(* Two solved frames in a row that agree: the second one is never held.    *)
THEOREM AgreementPasses == Spec => AgreementIsHeeded
<1>1. ASSUME TrackInv, [Next]_vars, Solving, seen.kind = "aim",
             shown.verdict # "lost", Near(seen.at, shown.at)
      PROVE  shown'.verdict = "taken"
  <2>1. ~GuardHolds(seen)
    BY <1>1 DEF GuardHolds, Suspicious, Confirmed, TrackInv, GuardRemembers,
                Verdicts, Lost
  <2>2. SolveTaken
    BY <1>1, <2>1, VerdictOfStep DEF SolveHeld, SolveRough, SolveNothing
  <2> QED BY <2>2 DEF SolveTaken, Take
<1> QED BY <1>1, TrackerInvariant, PTL DEF Spec, AgreementIsHeeded

(* The first aim after a loss is the solve's own (HoverSmoother::reset).   *)
THEOREM GapsAreNotBlended == Spec => FirstAimIsRaw
<1>1. ASSUME TrackInv, [Next]_vars, Solving, since = "loss", shown'.verdict = "taken"
      PROVE  lastAim' = seen.at
  <2>1. SolveTaken
    BY <1>1, VerdictOfStep DEF SolveHeld, Hold, Lost
  <2>2. smooth = None
    BY <1>1 DEF TrackInv
  <2> QED BY <2>1, <2>2 DEF SolveTaken, Smoothed, Take
<1> QED BY <1>1, TrackerInvariant, PTL DEF Spec, FirstAimIsRaw
=============================================================================
