------------------------------ MODULE RunLock ------------------------------
(***************************************************************************)
(* The run lock of macOS (run_all, src/main.rs): processes that start to   *)
(* run, race for an flock on one file in the temporary directory, judge    *)
(* the pid they find in it and retire a dead holder's lock by unlinking    *)
(* the file.  Every system call is a step of its own.                      *)
(*                                                                         *)
(* A process is started once: pids are not reused.  A process killed while *)
(* a wedged gun holds its serial close is a husk: dead to proc_pidpath,    *)
(* but holding its flock until the gun is unplugged.                       *)
(***************************************************************************)
EXTENDS Naturals, FiniteSets

CONSTANTS
  Procs,      \* processes that execute `run`
  Inodes,     \* inodes the file system can give the lock file
  Nil        \* no inode, no process, no pid

ASSUME InodesAssumption == Inodes # {}
ASSUME NilAssumption == Nil \notin Procs \cup Inodes

VARIABLES
  pc,        \* where each process is
  file,      \* external: the inode the lock file's name leads to
  content,   \* external: the pid each inode holds
  flock,     \* external: the process that holds each inode's flock
  fd,        \* the inode each process has open
  holder,    \* the pid each process read from the file
  crossed    \* history: the processes whose last start met another one's

lockVars == <<pc, file, content, flock, fd, holder, crossed>>

(* The steps of the first and of the second call of the closure `lock`.    *)
First   == {"open1", "try1", "trunc1", "write1"}
Second  == {"open2", "try2", "trunc2", "write2"}
Judging == {"read", "judge", "unlink"}

Taking == First \cup Judging \cup Second

States == Taking \cup
  {"new", "running", "calibrating", "refused", "leaving", "husk", "gone"}

Lives(p) == pc[p] \notin {"new", "husk", "gone"}

LockInit ==
  /\ pc      = [p \in Procs |-> "new"]
  /\ file    \in {Nil, CHOOSE i \in Inodes : TRUE}
  /\ content = [i \in Inodes |-> Nil]
  /\ flock   = [i \in Inodes |-> Nil]
  /\ fd      = [p \in Procs |-> Nil]
  /\ holder  = [p \in Procs |-> Nil]
  /\ crossed = {}

-----------------------------------------------------------------------------
Moves(p, from, to) == pc[p] = from /\ pc' = [pc EXCEPT ![p] = to]

(* Mistakes the checks must notice: a lock that outlives its descriptor, a *)
(* pid never written, a live holder judged dead, a dead one's lock kept.   *)
KeepsLock(p) == fd' = [fd EXCEPT ![p] = Nil] /\ UNCHANGED <<file, content, flock>>

WritesNoPid(p, from) ==
  /\ Moves(p, from, "running")
  /\ UNCHANGED <<file, content, flock, fd, holder>>

JudgesAllDead(p) ==
  /\ Moves(p, "judge", "unlink")
  /\ holder' = [holder EXCEPT ![p] = Nil]
  /\ UNCHANGED <<file, content, flock, fd>>

DoesNotUnlink(p) ==
  /\ Moves(p, "unlink", "open2")
  /\ UNCHANGED <<file, content, flock, fd, holder>>

(* The inodes that no name and no descriptor keeps: gone, with what was in *)
(* them.  Which of them a new file takes makes no difference to anybody.   *)
Fresh == {i \in Inodes : i # file /\ \A p \in Procs : fd[p] # i}

Freed == content' = [i \in Inodes |-> IF i \in Fresh' THEN Nil ELSE content[i]]

(* Closing the file releases the flock, if it was this process's.          *)
CloseFile(p) ==
  /\ file' = file
  /\ fd'    = [fd EXCEPT ![p] = Nil]
  /\ flock' = [i \in Inodes |-> IF flock[i] = p THEN Nil ELSE flock[i]]
  /\ Freed

(* The program is started, while others may be taking the lock: crossed    *)
(* notes those that do so together.                                        *)
BeginTaking(p, from) ==
  /\ Moves(p, from, "open1")
  /\ LET others == {q \in Procs \ {p} : pc[q] \in Taking}
     IN  crossed' = IF others = {} THEN crossed \ {p} ELSE crossed \cup others \cup {p}
  /\ UNCHANGED <<file, content, flock, fd, holder>>

(* No other step is a start; who stops trying, or running, is forgotten.   *)
Crossing == crossed' = {p \in crossed : pc'[p] \in Taking \cup {"running"}}

Start(p) == BeginTaking(p, "new")

(* Open the file, creating it when there is none, without truncating it.   *)
OpenAs(p, from, to) ==
  /\ Moves(p, from, to)
  /\ \/ file # Nil /\ UNCHANGED <<file, content>>
     \/ /\ file = Nil
        /\ Fresh # {}
        /\ file' = CHOOSE i \in Fresh : TRUE
        /\ UNCHANGED content
  /\ fd' = [fd EXCEPT ![p] = file']
  /\ UNCHANGED <<flock, holder>>

TryLock(p, from, got, busy) ==
  \/ /\ Moves(p, from, got)
     /\ flock[fd[p]] = Nil
     /\ flock' = [flock EXCEPT ![fd[p]] = p]
     /\ UNCHANGED <<file, content, fd, holder>>
  \/ /\ Moves(p, from, busy)
     /\ flock[fd[p]] # Nil
     /\ CloseFile(p)
     /\ UNCHANGED holder

Truncate(p, from, to) ==
  /\ Moves(p, from, to)
  /\ content' = [content EXCEPT ![fd[p]] = Nil]
  /\ UNCHANGED <<file, flock, fd, holder>>

WritePid(p, from) ==
  /\ Moves(p, from, "running")
  /\ content' = [content EXCEPT ![fd[p]] = p]
  /\ UNCHANGED <<file, flock, fd, holder>>

(* Read the holder's pid by the file's name: the file may be another by    *)
(* now, or none, and what it holds may be no pid.                          *)
ReadHolder(p) ==
  /\ Moves(p, "read", "judge")
  /\ holder' = [holder EXCEPT ![p] = IF file = Nil THEN Nil
                                     ELSE content[file]]
  /\ UNCHANGED <<file, content, flock, fd>>

(* The holder is none or does not resolve to a live executable, or it does *)
(* and sindenrs is "already running".                                      *)
Judge(p) ==
  /\ IF holder[p] \in Procs /\ Lives(holder[p])
     THEN Moves(p, "judge", "refused")
     ELSE Moves(p, "judge", "unlink")
  /\ holder' = [holder EXCEPT ![p] = Nil]
  /\ UNCHANGED <<file, content, flock, fd>>

Unlink(p) ==
  /\ Moves(p, "unlink", "open2")
  /\ file' = Nil
  /\ UNCHANGED <<flock, fd, holder>>
  /\ Freed

TakeLock(p) ==
  /\ \/ OpenAs(p, "open1", "try1")
     \/ TryLock(p, "try1", "trunc1", "read")
     \/ Truncate(p, "trunc1", "write1")
     \/ WritePid(p, "write1")
     \/ ReadHolder(p) \/ Judge(p) \/ Unlink(p)
     \/ OpenAs(p, "open2", "try2")
     \/ TryLock(p, "try2", "trunc2", "refused")
     \/ Truncate(p, "trunc2", "write2")
     \/ WritePid(p, "write2")
  /\ Crossing

-----------------------------------------------------------------------------
(* run_all returns, which drops the lock: for the menu's calibration (or,  *)
(* as brief as one can be, a reload), or for good.                         *)
RunEnds(p) ==
  /\ Moves(p, "running", "calibrating") \/ Moves(p, "running", "leaving")
  /\ CloseFile(p)
  /\ UNCHANGED holder
  /\ Crossing

RunAgain(p) == BeginTaking(p, "calibrating")

Exit(p) ==
  /\ Moves(p, "leaving", "gone") \/ Moves(p, "refused", "gone")
  /\ UNCHANGED <<file, content, flock, fd, holder>>
  /\ Crossing

(* External: a process is killed, and the kernel closes its file; or its   *)
(* exit hangs in the close of a wedged gun until the gun is unplugged.     *)
Killed(p) ==
  /\ Lives(p)
  /\ pc' = [pc EXCEPT ![p] = "gone"]
  /\ CloseFile(p)
  /\ holder' = [holder EXCEPT ![p] = Nil]
  /\ Crossing

Hangs(p) ==
  /\ Moves(p, "running", "husk")
  /\ UNCHANGED <<file, content, flock, fd, holder>>
  /\ Crossing

Unplugged(p) ==
  /\ Moves(p, "husk", "gone")
  /\ CloseFile(p)
  /\ UNCHANGED holder
  /\ Crossing

LockNext ==
  \E p \in Procs :
    \/ Start(p) \/ TakeLock(p) \/ RunEnds(p) \/ RunAgain(p) \/ Exit(p)
    \/ Killed(p) \/ Hangs(p) \/ Unplugged(p)

LockSpec == LockInit /\ [][LockNext]_lockVars

(* A process that is taking the lock keeps running.                        *)
LockFairSpec == LockSpec /\ \A p \in Procs : WF_lockVars(TakeLock(p))

-----------------------------------------------------------------------------
(* The values the variables range over; the flock belongs to somebody who  *)
(* has the inode open.                                                     *)
LockTypeOK ==
  /\ pc \in [Procs -> States]
  /\ file \in Inodes \cup {Nil}
  /\ content \in [Inodes -> Procs \cup {Nil}]
  /\ flock \in [Inodes -> Procs \cup {Nil}]
  /\ fd \in [Procs -> Inodes \cup {Nil}]
  /\ holder \in [Procs -> Procs \cup {Nil}]
  /\ crossed \subseteq Procs
  /\ \A i \in Inodes : flock[i] # Nil => fd[flock[i]] = i

(* "One `run` per user on macOS": no two live processes are past the lock. *)
(* It does not hold: of two starts that cross, one may read the lock file  *)
(* before the other has written its pid, or judge a dead holder whose lock *)
(* the other has retired by now, and unlinks a lock that is held.          *)
OneRun == Cardinality({p \in Procs : pc[p] = "running"}) <= 1

(* A run whose start met no other start.                                   *)
Clear(p) == pc[p] = "running" /\ p \notin crossed

(* Its lock is the one the next process will try, for as long as it runs:  *)
(* the file's name leads to its inode, which it holds with its pid in it.  *)
ClearRunIsVisible ==
  \A p \in Procs : Clear(p) => /\ file = fd[p]
                              /\ flock[file] = p
                              /\ content[file] = p

(* And nobody gets past it, neither to the lock nor to retiring it, also   *)
(* of starts that cross each other.                                        *)
Past == {"unlink", "open2", "try2"} \cup {"trunc1", "write1", "trunc2", "write2"}

NobodyGetsPast ==
  \A p, q \in Procs : Clear(p) /\ q # p => pc[q] \notin Past

OneClearRun == Cardinality({p \in Procs : Clear(p)}) <= 1

(* A husk does not keep anybody out: whoever starts to take the lock while *)
(* nobody live runs, meets no other start and is not killed, gets it       *)
(* ("every relaunch would fail until a replug" is what retiring the lock   *)
(* is for).                                                                *)
NobodyElseRuns(p) == \A q \in Procs \ {p} : pc[q] # "running"

HuskBlocksNobody ==
  \A p \in Procs :
    (pc[p] = "open1" /\ NobodyElseRuns(p)) ~> (pc[p] \in {"running", "gone"} \/ p \in crossed)

(* A second process "would fight the first for the cameras", so the lock   *)
(* "goes with the process": no two use the guns, calibration included.     *)
NobodyFights ==
  Cardinality({p \in Procs : pc[p] \in {"running", "calibrating"}}) <= 1

(* The lock of a run whose start crossed no other keeps everybody out.     *)
LockInv == LockTypeOK /\ ClearRunIsVisible /\ NobodyGetsPast /\ OneClearRun
=============================================================================
