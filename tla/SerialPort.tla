----------------------------- MODULE SerialPort -----------------------------
(***************************************************************************)
(* The life of a gun's serial port (src/gun.rs): Gun::open, which first    *)
(* waits for an unfinished close of the same path; the session; and the    *)
(* drop, whose close runs on a thread of its own, waited for CLOSE_BUDGET  *)
(* and then left behind with the path held in the CLOSING set.             *)
(*                                                                         *)
(* A user is a thread that owns at most one session at a time.  A gun      *)
(* whose firmware has wedged may keep a close in the kernel until the gun  *)
(* is unplugged; the deadlines (REOPEN_WAIT, CLOSE_BUDGET) are choices a   *)
(* waiting thread may make while what it waits for has not happened.       *)
(***************************************************************************)
EXTENDS FiniteSets

CONSTANTS
  Users,          \* threads that open, hold and drop sessions
  Paths,          \* device paths of the guns' ports
  NoPath,         \* where an idle user is
  SpawnCanFail    \* whether the system may refuse the closer's thread

ASSUME PathsAssumption == NoPath \notin Paths
ASSUME SpawnAssumption == SpawnCanFail \in BOOLEAN

VARIABLES
  sess,     \* what each user is doing
  at,       \* the path it is doing it to
  closer,   \* the closing thread each user left for each path
  closing,  \* the static CLOSING set
  wedged    \* external: guns whose firmware has stopped reading

portVars == <<sess, at, closer, closing, wedged>>

(* "await": inside await_close; "opening": inside the kernel's open;       *)
(* "handoff": the path is in CLOSING and the closer is being spawned;      *)
(* "inline": the spawn failed and the port is closing on this thread;      *)
(* "waiting": waiting for the closer, at most CLOSE_BUDGET.                *)
SessionStates ==
  {"idle", "await", "opening", "open", "handoff", "inline", "waiting"}

(* "kernel": close() has not returned; "returned": it has, and the path is *)
(* about to be taken out of CLOSING.                                       *)
CloserStates == {"none", "kernel", "returned"}

PortInit ==
  /\ sess    = [u \in Users |-> "idle"]
  /\ at      = [u \in Users |-> NoPath]
  /\ closer  = [u \in Users |-> [p \in Paths |-> "none"]]
  /\ closing = {}
  /\ wedged  = {}

-----------------------------------------------------------------------------
(* Whether the kernel is still inside a close of p.                        *)
InKernelClose(p) ==
  \E u \in Users : closer[u][p] = "kernel" \/ (sess[u] = "inline" /\ at[u] = p)

(* Whether somebody has p open.                                            *)
HeldOpen(p) == \E u \in Users : sess[u] \in {"open", "handoff"} /\ at[u] = p

Become(u, state) == sess' = [sess EXCEPT ![u] = state]

(* A mistake the checks must notice: the user's path outlives its session. *)
KeepsPath(u) == Become(u, "idle") /\ UNCHANGED at

Leave(u) ==
  /\ Become(u, "idle")
  /\ at' = [at EXCEPT ![u] = NoPath]

-----------------------------------------------------------------------------
(* The operations with a mistake in them that the checks must notice: an   *)
(* open that does not wait, a drop that does not mark its path, a refused  *)
(* spawn and a closer that leave it marked.                                *)
DoesNotWait(u) ==
  /\ sess[u] = "await"
  /\ Become(u, "opening")
  /\ UNCHANGED <<at, closer, closing, wedged>>

LeavesInlineMarked(u) ==
  /\ sess[u] = "inline"
  /\ Leave(u)
  /\ UNCHANGED <<closer, closing, wedged>>

LeavesMarked(u, p) ==
  /\ closer[u][p] = "returned"
  /\ closer' = [closer EXCEPT ![u][p] = "none"]
  /\ UNCHANGED <<sess, at, closing, wedged>>

-----------------------------------------------------------------------------
(* Gun::open and bootloader_touch enter await_close.                       *)
BeginOpen(u, p) ==
  /\ sess[u] = "idle"
  /\ Become(u, "await")
  /\ at' = [at EXCEPT ![u] = p]
  /\ UNCHANGED <<closer, closing, wedged>>

(* await_close finds the path out of CLOSING and the open call is made.    *)
CloseCleared(u) ==
  /\ sess[u] = "await"
  /\ at[u] \notin closing
  /\ Become(u, "opening")
  /\ UNCHANGED <<at, closer, closing, wedged>>

(* REOPEN_WAIT passes first: GunError::CloseStuck.                         *)
CloseStuck(u) ==
  /\ sess[u] = "await"
  /\ at[u] \in closing
  /\ Leave(u)
  /\ UNCHANGED <<closer, closing, wedged>>

(* The kernel's open queues behind a close of the same path; otherwise it  *)
(* returns the exclusive descriptor, or fails: another session has it, the *)
(* node is gone or not yet accessible, or a modem line could not be set,   *)
(* in which case the fresh port, with nothing to send, closes at once.     *)
KernelOpen(u) ==
  /\ sess[u] = "opening"
  /\ ~InKernelClose(at[u])
  /\ ~HeldOpen(at[u])
  /\ Become(u, "open")
  /\ UNCHANGED <<at, closer, closing, wedged>>

OpenFails(u) ==
  /\ sess[u] = "opening"
  /\ ~InKernelClose(at[u])
  /\ Leave(u)
  /\ UNCHANGED <<closer, closing, wedged>>

(* The Gun value moves to another thread, its port with it.                *)
HandOver(u, v) ==
  /\ sess[u] = "open"
  /\ sess[v] = "idle"
  /\ sess' = [sess EXCEPT ![u] = "idle", ![v] = "open"]
  /\ at'   = [at EXCEPT ![u] = NoPath, ![v] = at[u]]
  /\ UNCHANGED <<closer, closing, wedged>>

(* bootloader_touch drops its bare port on the spot: it never wrote.       *)
TouchDone(u) ==
  /\ sess[u] = "open"
  /\ Leave(u)
  /\ UNCHANGED <<closer, closing, wedged>>

(* Gun's drop: finish_close marks the path before anything closes.         *)
Drop(u) ==
  /\ sess[u] = "open"
  /\ Become(u, "handoff")
  /\ closing' = closing \cup {at[u]}
  /\ UNCHANGED <<at, closer, wedged>>

SpawnCloser(u) ==
  /\ sess[u] = "handoff"
  /\ Become(u, "waiting")
  /\ closer' = [closer EXCEPT ![u][at[u]] = "kernel"]
  /\ UNCHANGED <<at, closing, wedged>>

(* The failed spawn drops the closure, and the port in it, right here.     *)
SpawnFails(u) ==
  /\ SpawnCanFail
  /\ sess[u] = "handoff"
  /\ Become(u, "inline")
  /\ UNCHANGED <<at, closer, closing, wedged>>

InlineClosed(u) ==
  /\ sess[u] = "inline"
  /\ Leave(u)
  /\ closing' = closing \ {at[u]}
  /\ UNCHANGED <<closer, wedged>>

(* On the closing thread: close() returns, then the path is unmarked and   *)
(* the waiting thread, if it still waits, is told.                         *)
KernelClosed(u, p) ==
  /\ closer[u][p] = "kernel"
  /\ closer' = [closer EXCEPT ![u][p] = "returned"]
  /\ UNCHANGED <<sess, at, closing, wedged>>

Unmark(u, p) ==
  /\ closer[u][p] = "returned"
  /\ closer' = [closer EXCEPT ![u][p] = "none"]
  /\ closing' = closing \ {p}
  /\ UNCHANGED <<sess, at, wedged>>

(* recv_timeout: told in time, or the budget is spent and the closer left. *)
CloseReported(u) ==
  /\ sess[u] = "waiting"
  /\ closer[u][at[u]] = "none"
  /\ Leave(u)
  /\ UNCHANGED <<closer, closing, wedged>>

BudgetSpent(u) ==
  /\ sess[u] = "waiting"
  /\ closer[u][at[u]] # "none"
  /\ Leave(u)
  /\ UNCHANGED <<closer, closing, wedged>>

(* External: the firmware stops reading; unplugging the gun ends that.     *)
Wedge(p) ==
  /\ wedged' = wedged \cup {p}
  /\ UNCHANGED <<sess, at, closer, closing>>

Unwedge(p) ==
  /\ wedged' = wedged \ {p}
  /\ UNCHANGED <<sess, at, closer, closing>>

-----------------------------------------------------------------------------
(* What the users of this module must keep to: nobody starts to open a     *)
(* path while another thread still has business with it.                   *)
Unused(p) == \A u \in Users : at[u] # p

Open(u, p) == Unused(p) /\ BeginOpen(u, p)

(* What a user's own thread does once it is past BeginOpen.                *)
SessionStep(u) ==
  \/ CloseCleared(u) \/ CloseStuck(u) \/ KernelOpen(u) \/ OpenFails(u)
  \/ SpawnCloser(u) \/ SpawnFails(u) \/ InlineClosed(u)
  \/ CloseReported(u) \/ BudgetSpent(u)

CloserStep(u, p) == KernelClosed(u, p) \/ Unmark(u, p)

PortNext ==
  \/ \E u \in Users, p \in Paths : Open(u, p) \/ CloserStep(u, p)
  \/ \E u \in Users : SessionStep(u) \/ Drop(u) \/ TouchDone(u)
  \/ \E u, v \in Users : HandOver(u, v)
  \/ \E p \in Paths : Wedge(p) \/ Unwedge(p)

PortSpec == PortInit /\ [][PortNext]_portVars

(* Threads run, deadlines pass, and a close returns unless its gun is      *)
(* wedged; nothing makes a wedged gun's close return.                      *)
PortFairness ==
  /\ \A u \in Users :
       /\ WF_portVars(CloseCleared(u) \/ CloseStuck(u))
       /\ WF_portVars(KernelOpen(u) \/ OpenFails(u))
       /\ WF_portVars(SpawnCloser(u) \/ SpawnFails(u))
       /\ WF_portVars(InlineClosed(u) /\ at[u] \notin wedged)
       /\ WF_portVars(CloseReported(u) \/ BudgetSpent(u))
  /\ \A u \in Users, p \in Paths :
       /\ WF_portVars(KernelClosed(u, p) /\ p \notin wedged)
       /\ WF_portVars(Unmark(u, p))

FairPortSpec == PortSpec /\ PortFairness

-----------------------------------------------------------------------------
(* The values the variables range over; only an idle user is nowhere.      *)
PortTypeOK ==
  /\ sess    \in [Users -> SessionStates]
  /\ at      \in [Users -> Paths \cup {NoPath}]
  /\ closer  \in [Users -> [Paths -> CloserStates]]
  /\ closing \in SUBSET Paths
  /\ wedged  \in SUBSET Paths
  /\ \A u \in Users : at[u] = NoPath <=> sess[u] = "idle"

(* A close of p that Gun's drop has begun and that is not over.            *)
Unfinished(p) ==
  \E u \in Users :
    \/ closer[u][p] # "none"
    \/ sess[u] \in {"handoff", "inline"} /\ at[u] = p

(* CLOSING holds exactly the paths whose close has not finished (the       *)
(* comment on the static): a path missing from it would be reopened under  *)
(* a running close, one left in it would refuse its gun until a restart.   *)
ClosingExact == \A p \in Paths : p \in closing <=> Unfinished(p)

(* Nothing opens a port, or has it open, while an earlier close of it is   *)
(* still in the kernel ("with the path held in CLOSING so nothing reopens  *)
(* it meanwhile", close_bounded).                                          *)
NoReopenDuringClose ==
  \A u \in Users, p \in Paths :
    (sess[u] \in {"opening", "open", "handoff"} /\ at[u] = p)
      => ~InKernelClose(p)

(* What makes the two above inductive: one thread per path, one closer per  *)
(* path, and no thread past await_close on a path that has a closer, save  *)
(* the one that waits for it.                                              *)
OneUserPerPath ==
  \A u, v \in Users : at[u] = at[v] /\ at[u] # NoPath => u = v

OneCloserPerPath ==
  \A u, v \in Users, p \in Paths :
    closer[u][p] # "none" /\ closer[v][p] # "none" => u = v

CloserKeepsOthersOut ==
  \A u, v \in Users, p \in Paths :
    closer[u][p] # "none" /\ at[v] = p => sess[v] \in {"await", "waiting"}

PortInv ==
  /\ PortTypeOK
  /\ ClosingExact
  /\ OneUserPerPath
  /\ OneCloserPerPath
  /\ CloserKeepsOthersOut

(* A close that is merely slow lets the next open through: once its gun    *)
(* answers, the path leaves CLOSING (REOPEN_WAIT's comment).               *)
ClosingClears ==
  \A p \in Paths : (p \in closing) ~> (p \notin closing \/ p \in wedged)
=============================================================================
