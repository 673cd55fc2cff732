---------------------------- MODULE RunLoopQuit ----------------------------
(***************************************************************************)
(* RunLoop with the memory of a quit: the shortcut or the menu item while  *)
(* the event loop turns, or Ctrl-C at any point of a run or right after    *)
(* it.  Nothing in the program depends on it.                              *)
(***************************************************************************)
EXTENDS RunLoop

VARIABLE quit     \* history: a quit no request came after, in this run

quitVars == <<vars, quit>>

AsksToQuit == Quits \/ (CtrlC /\ pc \in {"running", "winding", "returned", "reload"})

TakesItBack == RunBegins \/ \E r \in Requests : MenuRequests(r)

QuitInit == Init /\ quit = FALSE

QuitNext ==
  /\ Next
  /\ quit' = IF AsksToQuit THEN TRUE ELSE quit /\ ~TakesItBack

QuitSpec == QuitInit /\ [][QuitNext]_quitVars /\ Fairness

(* "It draws the border, tracks every attached gun, and stops on Ctrl-C"   *)
(* (README.md): a quit asked for during a run ends the program, if nothing *)
(* else is asked for after it and nothing keeps the run from ending.       *)
QuitIsHeeded ==
  quit ~> \/ pc = "exited" \/ StuckInKernel(Run) \/ TrackerPrompts
          \/ pc = "running" /\ asked /\ ~quit
=============================================================================
