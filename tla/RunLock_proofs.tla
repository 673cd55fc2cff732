--------------------------- MODULE RunLock_proofs ---------------------------
(***************************************************************************)
(* Proofs about RunLock: however many processes are started, together or   *)
(* one after the other, and killed at any point, a run whose own start met *)
(* no other keeps the lock, and keeps everybody else out.                  *)
(***************************************************************************)
EXTENDS RunLock, FiniteSetTheorems, TLAPS

USE NilAssumption

Opened == {"try1", "try2"}
Locked == {"trunc1", "write1", "trunc2", "write2"}
Shut   == {"new", "open1", "read", "judge", "unlink", "open2", "calibrating"}

(* What a process has open, and whose lock it is.                          *)
Descriptors ==
  /\ \A p \in Procs : pc[p] \in Opened => fd[p] # Nil
  /\ \A p \in Procs : pc[p] \in Locked \cup {"running"} => fd[p] # Nil /\ flock[fd[p]] = p
  /\ \A p \in Procs : pc[p] \in Shut => fd[p] = Nil

(* Of two processes that are taking the lock both know to be crossed.      *)
Apart == \A p, q \in Procs : pc[p] \in Taking /\ pc[q] \in Taking /\ p # q => p \in crossed

(* Who takes it alone goes on with what it found under the file's name.    *)
Alone == \A p \in Procs \ crossed : pc[p] \in Opened \cup Locked => fd[p] = file

(* And when it runs, whoever starts next finds its lock, or has read its   *)
(* pid and will find it alive.                                             *)
Found ==
  \A p, q \in Procs : Clear(p) => /\ pc[q] = "try1" => fd[q] = file
                                  /\ pc[q] = "judge" => holder[q] = p

Seen == ClearRunIsVisible /\ NobodyGetsPast /\ Found

IInv == LockTypeOK /\ Descriptors /\ Apart /\ Alone /\ Seen

USE DEF States, Taking, First, Second, Judging, Opened, Locked, Shut, Past

LEMMA Initially == LockInit => IInv
<1> SUFFICES ASSUME LockInit PROVE IInv
    OBVIOUS
<1>1. LockTypeOK
  BY InodesAssumption DEF LockInit, LockTypeOK
<1>2. Descriptors /\ Apart /\ Alone /\ Seen
  BY DEF LockInit, Descriptors, Apart, Alone, Seen, ClearRunIsVisible, NobodyGetsPast, Found, Clear
<1> QED
  BY <1>1, <1>2 DEF IInv

(* A step of p that moves p alone.                                         *)
LEMMA Moved ==
  ASSUME LockTypeOK, NEW p \in Procs, NEW from, NEW to \in States, Moves(p, from, to)
  PROVE  /\ pc' \in [Procs -> States] /\ pc[p] = from /\ pc'[p] = to
         /\ \A q \in Procs : q # p => pc'[q] = pc[q]
BY DEF Moves, LockTypeOK

(* Who was crossed and goes on taking the lock, or running, still is.      *)
LEMMA StaysCrossed ==
  ASSUME IInv, Crossing
  PROVE  /\ crossed' \subseteq crossed
         /\ \A p \in crossed : pc'[p] \in Taking \cup {"running"} => p \in crossed'
BY DEF Crossing

(* A clear run of another process was one before the step.                 *)
LEMMA ClearBefore ==
  ASSUME IInv, Crossing, NEW p \in Procs, pc'[p] = pc[p], Clear(p)'
  PROVE  Clear(p)
BY StaysCrossed DEF Clear

LEMMA ApartKept ==
  ASSUME IInv, Crossing, NEW p \in Procs, \A q \in Procs : q # p => pc'[q] = pc[q],
         pc'[p] \in Taking => pc[p] \in Taking
  PROVE  Apart'
BY StaysCrossed DEF IInv, Apart

LEMMA StartKeeps == ASSUME IInv, NEW p \in Procs, Start(p) \/ RunAgain(p) PROVE IInv'
<1> DEFINE others == {q \in Procs \ {p} : pc[q] \in Taking}
<1>1. /\ Moves(p, "new", "open1") \/ Moves(p, "calibrating", "open1")
      /\ crossed' = IF others = {} THEN crossed \ {p} ELSE crossed \cup others \cup {p}
      /\ UNCHANGED <<file, content, flock, fd, holder>>
  BY DEF Start, RunAgain, BeginTaking
<1>2. /\ pc' \in [Procs -> States] /\ pc[p] \in {"new", "calibrating"} /\ pc'[p] = "open1"
      /\ \A q \in Procs : q # p => pc'[q] = pc[q]
  BY <1>1, Moved DEF IInv
<1>3. LockTypeOK'
  BY <1>1, <1>2 DEF IInv, LockTypeOK
<1>4. Descriptors'
  BY <1>1, <1>2 DEF IInv, Descriptors
<1>5. Apart'
  BY <1>1, <1>2 DEF IInv, Apart
<1>6. Alone'
  BY <1>1, <1>2 DEF IInv, Alone
<1>7. \A q \in Procs : Clear(q)' => q # p /\ Clear(q)
  BY <1>1, <1>2 DEF Clear
<1>8. Seen'
  BY <1>1, <1>2, <1>7 DEF IInv, Seen, ClearRunIsVisible, NobodyGetsPast, Found
<1> QED
  BY <1>3, <1>4, <1>5, <1>6, <1>8 DEF IInv

LEMMA OpenKeeps ==
  ASSUME IInv, NEW p \in Procs, OpenAs(p, "open1", "try1") \/ OpenAs(p, "open2", "try2"),
         Crossing
  PROVE  IInv'
<1>1. /\ pc' \in [Procs -> States] /\ pc[p] \in {"open1", "open2"}
      /\ pc'[p] = IF pc[p] = "open1" THEN "try1" ELSE "try2"
      /\ \A q \in Procs : q # p => pc'[q] = pc[q]
  BY Moved DEF OpenAs, IInv
<1>2. /\ flock' = flock /\ holder' = holder /\ content' = content
      /\ fd' = [fd EXCEPT ![p] = file']
      /\ file' \in Inodes /\ (file # Nil => file' = file)
  <2>1. CASE file = Nil
    BY <2>1 DEF OpenAs, Fresh
  <2>2. CASE file # Nil
    BY <2>2 DEF OpenAs, IInv, LockTypeOK
  <2> QED
    BY <2>1, <2>2
<1>3. fd[p] = Nil /\ \A i \in Inodes : flock[i] # p
  BY <1>1 DEF IInv, Descriptors, LockTypeOK
<1>4. LockTypeOK'
  BY <1>1, <1>2, <1>3, StaysCrossed DEF IInv, LockTypeOK
<1>5. Descriptors'
  BY <1>1, <1>2 DEF IInv, LockTypeOK, Descriptors
<1>6. Apart'
  BY <1>1, ApartKept
<1>7. Alone'
  <2> SUFFICES ASSUME NEW q \in Procs \ crossed', pc'[q] \in Opened \cup Locked
               PROVE  fd'[q] = file'
      BY DEF Alone
  <2>1. CASE q = p
    BY <2>1, <1>2 DEF IInv, LockTypeOK
  <2>2. CASE q # p
    <3>1. q \in crossed
      BY <1>1, <2>2 DEF IInv, Apart
    <3> QED
      BY <3>1, <2>2, <1>1, StaysCrossed
  <2> QED
    BY <2>1, <2>2
<1>8. \A q \in Procs : Clear(q)' => q # p /\ Clear(q) /\ file # Nil /\ pc[p] = "open1"
  BY <1>1, ClearBefore DEF Clear, IInv, Seen, ClearRunIsVisible, NobodyGetsPast, Descriptors
<1>9. Seen'
  BY <1>1, <1>2, <1>8 DEF IInv, LockTypeOK, Seen, ClearRunIsVisible, NobodyGetsPast, Found
<1> QED
  BY <1>4, <1>5, <1>6, <1>7, <1>9 DEF IInv

(* A file is closed: its owner's flock goes, nobody else's, and of the     *)
(* contents only those of inodes that nothing keeps.                       *)
LEMMA Closes ==
  ASSUME LockTypeOK, NEW p \in Procs, CloseFile(p)
  PROVE  /\ file' = file
         /\ fd' \in [Procs -> Inodes \cup {Nil}] /\ fd'[p] = Nil
         /\ \A q \in Procs : q # p => fd'[q] = fd[q]
         /\ flock' \in [Inodes -> Procs \cup {Nil}]
         /\ \A i \in Inodes : flock[i] # p => flock'[i] = flock[i]
         /\ \A i \in Inodes : flock'[i] # p
         /\ \A i \in Inodes : flock'[i] # Nil => fd'[flock'[i]] = i
         /\ content' \in [Inodes -> Procs \cup {Nil}]
         /\ file # Nil => content'[file] = content[file]
BY DEF CloseFile, Freed, Fresh, LockTypeOK

(* Whatever p does to its own file only, while it is no taker that still   *)
(* has to look, disturbs no clear run of another.                          *)
LEMMA CloseKeeps ==
  ASSUME IInv, NEW p \in Procs, CloseFile(p), Crossing,
         pc' \in [Procs -> States], \A q \in Procs : q # p => pc'[q] = pc[q] /\ holder'[q] = holder[q],
         holder' \in [Procs -> Procs \cup {Nil}],
         \/ pc'[p] \in {"calibrating", "leaving", "gone"}
         \/ pc[p] = "try1" /\ pc'[p] = "read"
         \/ pc[p] = "try2" /\ pc'[p] = "refused"
  PROVE  IInv'
<1>1. LockTypeOK'
  BY Closes, StaysCrossed DEF IInv, LockTypeOK
<1>2. Descriptors'
  BY Closes DEF IInv, LockTypeOK, Descriptors
<1>3. Apart'
  BY ApartKept
<1>4. Alone'
  BY Closes, StaysCrossed DEF IInv, Alone
<1>5. \A q \in Procs : Clear(q)' => q # p /\ Clear(q)
  BY ClearBefore DEF Clear
<1>6. \A q \in Procs : Clear(q)' => /\ file' = file /\ file # Nil /\ fd'[q] = file
                                     /\ flock'[file] = q /\ content'[file] = q
  BY <1>5, Closes DEF IInv, LockTypeOK, Descriptors, Seen, ClearRunIsVisible, Clear
<1>7. Seen'
  BY <1>5, <1>6, Closes DEF IInv, Seen, ClearRunIsVisible, NobodyGetsPast, Found
<1> QED
  BY <1>1, <1>2, <1>3, <1>4, <1>7 DEF IInv

LEMMA TryKeeps ==
  ASSUME IInv, NEW p \in Procs, Crossing,
         TryLock(p, "try1", "trunc1", "read") \/ TryLock(p, "try2", "trunc2", "refused")
  PROVE  IInv'
<1>1. pc[p] \in Opened /\ fd[p] \in Inodes
  BY Moved DEF TryLock, IInv, Descriptors, LockTypeOK
<1>2. CASE flock[fd[p]] = Nil
  <2>1. /\ flock' = [flock EXCEPT ![fd[p]] = p] /\ UNCHANGED <<file, content, fd, holder>>
        /\ Moves(p, "try1", "trunc1") \/ Moves(p, "try2", "trunc2")
    BY <1>1, <1>2 DEF TryLock
  <2>2. /\ pc' \in [Procs -> States] /\ pc'[p] \in {"trunc1", "trunc2"}
        /\ \A q \in Procs : q # p => pc'[q] = pc[q]
    BY <2>1, Moved DEF IInv
  <2>3. \A q \in Procs : ~Clear(q)
    BY <1>1, <1>2, NilAssumption
       DEF IInv, Seen, ClearRunIsVisible, NobodyGetsPast, Found, Clear
  <2>4. LockTypeOK'
    BY <1>1, <2>1, <2>2, StaysCrossed DEF IInv, LockTypeOK
  <2>5. Descriptors'
    BY <1>1, <1>2, <2>1, <2>2 DEF IInv, LockTypeOK, Descriptors
  <2>6. Apart'
    BY <1>1, <2>2, ApartKept
  <2>7. Alone'
    BY <1>1, <2>1, <2>2, StaysCrossed DEF IInv, Alone
  <2>8. \A q \in Procs : ~Clear(q)'
    BY <2>2, <2>3, ClearBefore DEF Clear
  <2>9. Seen'
    BY <2>8 DEF Seen, ClearRunIsVisible, NobodyGetsPast, Found
  <2> QED
    BY <2>4, <2>5, <2>6, <2>7, <2>9 DEF IInv
<1>3. CASE flock[fd[p]] # Nil
  <2>1. /\ CloseFile(p) /\ holder' = holder
        /\ Moves(p, "try1", "read") \/ Moves(p, "try2", "refused")
    BY <1>3 DEF TryLock
  <2>2. /\ pc' \in [Procs -> States]
        /\ \/ pc[p] = "try1" /\ pc'[p] = "read"
           \/ pc[p] = "try2" /\ pc'[p] = "refused"
        /\ \A q \in Procs : q # p => pc'[q] = pc[q]
    BY <2>1, Moved DEF IInv
  <2>3. holder' \in [Procs -> Procs \cup {Nil}]
    BY <2>1 DEF IInv, LockTypeOK
  <2> QED
    BY <2>1, <2>2, <2>3, CloseKeeps
<1> QED
  BY <1>2, <1>3

(* Whoever holds the lock finds no clear run.                              *)
LEMMA WriteKeeps ==
  ASSUME IInv, NEW p \in Procs, Crossing,
         \/ Truncate(p, "trunc1", "write1") \/ Truncate(p, "trunc2", "write2")
         \/ WritePid(p, "write1") \/ WritePid(p, "write2")
  PROVE  IInv'
<1>1. pc[p] \in Locked /\ fd[p] \in Inodes /\ flock[fd[p]] = p
  BY Moved DEF Truncate, WritePid, IInv, Descriptors, LockTypeOK
<1>2. /\ pc' \in [Procs -> States] /\ pc'[p] \in {"write1", "write2", "running"}
      /\ \A q \in Procs : q # p => pc'[q] = pc[q]
  BY Moved DEF Truncate, WritePid, IInv
<1>3. /\ UNCHANGED <<file, flock, fd, holder>>
      /\ content' \in [Inodes -> Procs \cup {Nil}]
      /\ pc'[p] = "running" => content'[fd[p]] = p
  BY <1>1, Moved DEF Truncate, WritePid, IInv, LockTypeOK
<1>4. \A q \in Procs : ~Clear(q)
  BY <1>1 DEF IInv, Seen, NobodyGetsPast, Clear
<1>5. LockTypeOK'
  BY <1>2, <1>3, StaysCrossed DEF IInv, LockTypeOK
<1>6. Descriptors'
  BY <1>1, <1>2, <1>3 DEF IInv, Descriptors
<1>7. Apart'
  BY <1>1, <1>2, ApartKept
<1>8. Alone'
  BY <1>1, <1>2, <1>3, StaysCrossed DEF IInv, Alone
<1>9. Seen'
  <2>1. \A q \in Procs : Clear(q)' => q = p
    BY <1>2, <1>4, ClearBefore
  <2>2. ASSUME Clear(p)' PROVE file = fd[p] /\ content'[file] = p /\ \A q \in Procs : q # p => pc[q] \notin Taking
    <3>1. p \notin crossed
      BY <2>2, StaysCrossed DEF Clear
    <3> QED
      BY <3>1, <2>2, <1>1, <1>3 DEF Clear, IInv, Alone, Apart
  <2> QED
    BY <2>1, <2>2, <1>1, <1>2, <1>3 DEF Seen, ClearRunIsVisible, NobodyGetsPast, Found, Clear
<1> QED
  BY <1>5, <1>6, <1>7, <1>8, <1>9 DEF IInv

LEMMA ReadKeeps == ASSUME IInv, NEW p \in Procs, ReadHolder(p), Crossing PROVE IInv'
<1>1. /\ pc' \in [Procs -> States] /\ pc[p] = "read" /\ pc'[p] = "judge"
      /\ \A q \in Procs : q # p => pc'[q] = pc[q]
  BY Moved DEF ReadHolder, IInv
<1>2. /\ UNCHANGED <<file, content, flock, fd>>
      /\ holder' = [holder EXCEPT ![p] = IF file = Nil THEN Nil ELSE content[file]]
  BY DEF ReadHolder
<1>3. LockTypeOK'
  BY <1>1, <1>2, StaysCrossed DEF IInv, LockTypeOK
<1>4. Descriptors'
  BY <1>1, <1>2 DEF IInv, Descriptors
<1>5. Apart'
  BY <1>1, ApartKept
<1>6. Alone'
  BY <1>1, <1>2, StaysCrossed DEF IInv, Alone
<1>7. \A q \in Procs : Clear(q)' => q # p /\ Clear(q)
  BY <1>1, ClearBefore DEF Clear
<1>8. Seen'
  BY <1>1, <1>2, <1>7 DEF IInv, LockTypeOK, Seen, ClearRunIsVisible, NobodyGetsPast, Found, Clear, Descriptors
<1> QED
  BY <1>3, <1>4, <1>5, <1>6, <1>8 DEF IInv

LEMMA JudgeKeeps == ASSUME IInv, NEW p \in Procs, Judge(p), Crossing PROVE IInv'
<1>1. /\ pc' \in [Procs -> States] /\ pc[p] = "judge" /\ pc'[p] \in {"refused", "unlink"}
      /\ \A q \in Procs : q # p => pc'[q] = pc[q]
  BY Moved DEF Judge, IInv
<1>2. /\ UNCHANGED <<file, content, flock, fd>> /\ holder' = [holder EXCEPT ![p] = Nil]
  BY DEF Judge
<1>3. pc'[p] = "unlink" => \A q \in Procs : ~Clear(q)
  <2> SUFFICES ASSUME pc'[p] = "unlink", NEW q \in Procs, Clear(q) PROVE FALSE
    OBVIOUS
  <2>1. holder[p] = q /\ Lives(q)
    BY <1>1 DEF IInv, Seen, Found, Lives, Clear
  <2>2. Moves(p, "judge", "refused")
    BY <2>1 DEF Judge
  <2> QED
    BY <2>2, Moved DEF IInv
<1>4. LockTypeOK'
  BY <1>1, <1>2, StaysCrossed DEF IInv, LockTypeOK
<1>5. Descriptors'
  BY <1>1, <1>2 DEF IInv, Descriptors, LockTypeOK
<1>6. Apart'
  BY <1>1, ApartKept
<1>7. Alone'
  BY <1>1, <1>2, StaysCrossed DEF IInv, Alone
<1>8. \A q \in Procs : Clear(q)' => q # p /\ Clear(q) /\ pc'[p] = "refused"
  BY <1>1, <1>3, ClearBefore DEF Clear
<1>9. Seen'
  BY <1>1, <1>2, <1>8 DEF IInv, LockTypeOK, Seen, ClearRunIsVisible, NobodyGetsPast, Found
<1> QED
  BY <1>4, <1>5, <1>6, <1>7, <1>9 DEF IInv

LEMMA UnlinkKeeps == ASSUME IInv, NEW p \in Procs, Unlink(p), Crossing PROVE IInv'
<1>1. /\ pc' \in [Procs -> States] /\ pc[p] = "unlink" /\ pc'[p] = "open2"
      /\ \A q \in Procs : q # p => pc'[q] = pc[q]
  BY Moved DEF Unlink, IInv
<1>2. /\ UNCHANGED <<flock, fd, holder>> /\ file' = Nil
      /\ content' \in [Inodes -> Procs \cup {Nil}]
  BY DEF Unlink, Freed, IInv, LockTypeOK
<1>3. LockTypeOK'
  BY <1>1, <1>2, StaysCrossed DEF IInv, LockTypeOK
<1>4. Descriptors'
  BY <1>1, <1>2 DEF IInv, Descriptors
<1>5. Apart'
  BY <1>1, ApartKept
<1>6. Alone'
  <2>1. \A q \in Procs \ crossed' : pc'[q] \in Taking => q = p
    BY <1>1, StaysCrossed DEF IInv, Apart
  <2> QED
    BY <2>1, <1>1 DEF Alone
<1>7. \A q \in Procs : ~Clear(q)'
  BY <1>1, ClearBefore DEF Clear, IInv, Seen, NobodyGetsPast
<1>8. Seen'
  BY <1>7 DEF Seen, ClearRunIsVisible, NobodyGetsPast, Found
<1> QED
  BY <1>3, <1>4, <1>5, <1>6, <1>8 DEF IInv

(* What ends a run, or a process, takes its own lock and nobody else's.    *)
LEMMA EndKeeps ==
  ASSUME IInv, NEW p \in Procs,
         RunEnds(p) \/ Exit(p) \/ Killed(p) \/ Hangs(p) \/ Unplugged(p)
  PROVE  IInv'
<1>1. /\ pc' \in [Procs -> States]
      /\ pc'[p] \in {"calibrating", "leaving", "gone", "husk"}
      /\ \A q \in Procs : q # p => pc'[q] = pc[q]
  BY Moved DEF RunEnds, Exit, Killed, Hangs, Unplugged, IInv, LockTypeOK
<1>2. /\ Crossing /\ \A q \in Procs : q # p => holder'[q] = holder[q]
      /\ holder' \in [Procs -> Procs \cup {Nil}]
  BY DEF RunEnds, Exit, Killed, Hangs, Unplugged, IInv, LockTypeOK
<1>3. CASE RunEnds(p) \/ Killed(p) \/ Unplugged(p)
  <2>1. CloseFile(p) /\ pc'[p] \in {"calibrating", "leaving", "gone"}
    BY <1>3, Moved DEF RunEnds, Killed, Unplugged, IInv, LockTypeOK
  <2> QED
    BY <2>1, <1>1, <1>2, CloseKeeps
<1>4. CASE Exit(p) \/ Hangs(p)
  <2>1. /\ UNCHANGED <<file, content, flock, fd, holder>>
        /\ pc'[p] \in {"gone", "husk"}
    BY <1>4, Moved DEF Exit, Hangs, IInv
  <2>2. LockTypeOK'
    BY <1>1, <1>2, <2>1, StaysCrossed DEF IInv, LockTypeOK
  <2>3. Descriptors'
    BY <1>1, <2>1 DEF IInv, Descriptors
  <2>4. Apart'
    BY <1>1, <1>2, <2>1, ApartKept
  <2>5. Alone'
    BY <1>1, <1>2, <2>1, StaysCrossed DEF IInv, Alone
  <2>6. \A q \in Procs : Clear(q)' => q # p /\ Clear(q)
    BY <1>1, <1>2, <2>1, ClearBefore DEF Clear
  <2>7. Seen'
    BY <1>1, <2>1, <2>6 DEF IInv, Seen, ClearRunIsVisible, NobodyGetsPast, Found
  <2> QED
    BY <2>2, <2>3, <2>4, <2>5, <2>7 DEF IInv
<1> QED
  BY <1>3, <1>4

LEMMA Keeps == IInv /\ [LockNext]_lockVars => IInv'
<1> SUFFICES ASSUME IInv, [LockNext]_lockVars PROVE IInv'
    OBVIOUS
<1>1. CASE UNCHANGED lockVars
  BY <1>1 DEF lockVars, IInv, LockTypeOK, Descriptors, Apart, Alone, Seen, ClearRunIsVisible,
              NobodyGetsPast, Found, Clear
<1>2. ASSUME NEW p \in Procs, TakeLock(p) PROVE IInv'
  BY <1>2, OpenKeeps, TryKeeps, WriteKeeps, ReadKeeps, JudgeKeeps, UnlinkKeeps DEF TakeLock
<1> QED
  BY <1>1, <1>2, StartKeeps, EndKeeps DEF LockNext

LEMMA ClearRunsAreOne == IInv => OneClearRun
<1> SUFFICES ASSUME IInv PROVE OneClearRun
    OBVIOUS
<1> DEFINE runs == {p \in Procs : Clear(p)}
<1>1. \A p, q \in runs : p = q
  BY DEF IInv, Seen, ClearRunIsVisible
<1>2. CASE runs = {}
  BY <1>2, FS_EmptySet DEF OneClearRun
<1>3. ASSUME NEW p \in runs PROVE Cardinality(runs) = 1
  <2>1. runs = {p}
    BY <1>1
  <2> QED
    BY <2>1, FS_Singleton
<1> QED
  BY <1>2, <1>3 DEF OneClearRun

(* The lock keeps everybody out: for a run whose own start met no other,   *)
(* the file is its inode, locked by it, with its pid, as long as it lives, *)
(* and nobody else gets to the lock or to retiring it, in whatever number  *)
(* and however crossed they start, are killed or hang at their exit (the   *)
(* flock of run_all, and the retiring of a dead one's).                    *)
THEOREM LockHolds == LockSpec => []LockInv
<1>1. LockInit => IInv
  BY Initially
<1>2. IInv /\ [LockNext]_lockVars => IInv'
  BY Keeps
<1>3. IInv => LockInv
  BY ClearRunsAreOne DEF IInv, LockInv, Seen
<1> QED
  BY <1>1, <1>2, <1>3, PTL DEF LockSpec
=============================================================================
