-------------------------- MODULE SerialPort_proofs --------------------------
(***************************************************************************)
(* Proofs about SerialPort: for any threads, any paths and any wedging, the *)
(* CLOSING set is exact and nothing reopens a port under its close.        *)
(***************************************************************************)
EXTENDS SerialPort, TLAPS

(* PortInv holds at the start.                                             *)
LEMMA PortInvInit == PortInit => PortInv
<1> USE PathsAssumption DEF PortInit
<1>1. PortInit => PortTypeOK
  BY DEF PortTypeOK, SessionStates, CloserStates
<1>2. PortInit => ClosingExact
  BY DEF ClosingExact, Unfinished
<1>3. PortInit => OneUserPerPath /\ OneCloserPerPath /\ CloserKeepsOthersOut
  BY DEF OneUserPerPath, OneCloserPerPath, CloserKeepsOthersOut
<1> QED BY <1>1, <1>2, <1>3 DEF PortInv

(* Opening keeps PortInv as long as the opener finds the path unused.      *)
LEMMA OpenKeepsInv ==
  ASSUME PortInv, NEW u \in Users, NEW p \in Paths, Open(u, p)
  PROVE  PortInv'
<1> USE PathsAssumption DEF PortInv, Open, Unused, BeginOpen, Become
<1>1. PortTypeOK'
  BY DEF PortTypeOK, SessionStates
<1>2. ClosingExact'
  BY DEF ClosingExact, Unfinished, PortTypeOK
<1>3. OneUserPerPath'
  BY DEF OneUserPerPath, PortTypeOK
<1>4. OneCloserPerPath'
  BY DEF OneCloserPerPath
<1>5. CloserKeepsOthersOut'
  BY DEF CloserKeepsOthersOut, PortTypeOK
<1> QED BY <1>1, <1>2, <1>3, <1>4, <1>5

(* The steps that give the path up without a close.                        *)
LEMMA LeavingKeepsInv ==
  ASSUME PortInv, NEW u \in Users,
         \/ CloseStuck(u) \/ OpenFails(u) \/ TouchDone(u)
         \/ CloseReported(u) \/ BudgetSpent(u)
  PROVE  PortInv'
<1> USE PathsAssumption DEF PortInv
<1>1. /\ sess[u] \in {"await", "opening", "open", "waiting"}
      /\ sess' = [sess EXCEPT ![u] = "idle"]
      /\ at' = [at EXCEPT ![u] = NoPath]
      /\ UNCHANGED <<closer, closing, wedged>>
  BY DEF CloseStuck, OpenFails, TouchDone, CloseReported, BudgetSpent,
         Leave, Become
<1>2. PortTypeOK'
  BY <1>1 DEF PortTypeOK, SessionStates
<1>3. ClosingExact'
  BY <1>1 DEF ClosingExact, Unfinished, PortTypeOK
<1>4. OneUserPerPath'
  BY <1>1 DEF OneUserPerPath, PortTypeOK
<1>5. OneCloserPerPath'
  BY <1>1 DEF OneCloserPerPath
<1>6. CloserKeepsOthersOut'
  BY <1>1 DEF CloserKeepsOthersOut, PortTypeOK
<1> QED BY <1>2, <1>3, <1>4, <1>5, <1>6

(* The steps from await_close to an open port, and of the port to another  *)
(* thread.  Only the first needs a fact: the path is not in CLOSING, so it *)
(* has no closer.                                                          *)
LEMMA OpeningKeepsInv ==
  ASSUME PortInv, NEW u \in Users, CloseCleared(u) \/ KernelOpen(u)
  PROVE  PortInv'
<1> USE PathsAssumption DEF PortInv
<1>1. /\ sess[u] \in {"await", "opening"}
      /\ \/ sess' = [sess EXCEPT ![u] = "opening"] /\ at[u] \notin closing
         \/ sess' = [sess EXCEPT ![u] = "open"] /\ sess[u] = "opening"
      /\ UNCHANGED <<at, closer, closing, wedged>>
  BY DEF CloseCleared, KernelOpen, Become
<1>2. at[u] \in Paths
  BY <1>1 DEF PortTypeOK
<1>3. \A v \in Users : closer[v][at[u]] = "none"
  BY <1>1, <1>2 DEF ClosingExact, Unfinished, CloserKeepsOthersOut
<1>4. PortTypeOK'
  BY <1>1 DEF PortTypeOK, SessionStates
<1>5. ClosingExact'
  BY <1>1 DEF ClosingExact, Unfinished, PortTypeOK
<1>6. OneUserPerPath' /\ OneCloserPerPath'
  BY <1>1 DEF OneUserPerPath, OneCloserPerPath
<1>7. CloserKeepsOthersOut'
  BY <1>1, <1>3 DEF CloserKeepsOthersOut, PortTypeOK
<1> QED BY <1>4, <1>5, <1>6, <1>7

LEMMA HandOverKeepsInv ==
  ASSUME PortInv, NEW u \in Users, NEW v \in Users, HandOver(u, v)
  PROVE  PortInv'
<1> USE PathsAssumption DEF PortInv, HandOver
<1>1. u # v
  OBVIOUS
<1>2. PortTypeOK'
  BY <1>1 DEF PortTypeOK, SessionStates
<1>3. ClosingExact'
  BY <1>1 DEF ClosingExact, Unfinished, PortTypeOK
<1>4. OneUserPerPath'
  BY <1>1 DEF OneUserPerPath, PortTypeOK
<1>5. OneCloserPerPath'
  BY DEF OneCloserPerPath
<1>6. CloserKeepsOthersOut'
  BY <1>1 DEF CloserKeepsOthersOut, PortTypeOK
<1> QED BY <1>2, <1>3, <1>4, <1>5, <1>6

(* The steps of a drop.  An open path has no closer, so the one that is    *)
(* spawned for it is its only one.                                         *)
LEMMA DropKeepsInv ==
  ASSUME PortInv, NEW u \in Users, Drop(u) \/ SpawnFails(u)
  PROVE  PortInv'
<1> USE PathsAssumption DEF PortInv
<1>1. /\ \/ sess[u] = "open" /\ sess' = [sess EXCEPT ![u] = "handoff"]
                             /\ closing' = closing \cup {at[u]}
         \/ sess[u] = "handoff" /\ sess' = [sess EXCEPT ![u] = "inline"]
                                /\ closing' = closing
      /\ UNCHANGED <<at, closer, wedged>>
  BY DEF Drop, SpawnFails, Become
<1>2. at[u] \in Paths
  BY <1>1 DEF PortTypeOK
<1>3. \A v \in Users : closer[v][at[u]] = "none"
  BY <1>1, <1>2 DEF CloserKeepsOthersOut
<1>4. PortTypeOK'
  BY <1>1, <1>2 DEF PortTypeOK, SessionStates
<1>5. ClosingExact'
  BY <1>1, <1>2 DEF ClosingExact, Unfinished, PortTypeOK
<1>6. OneUserPerPath' /\ OneCloserPerPath'
  BY <1>1 DEF OneUserPerPath, OneCloserPerPath
<1>7. CloserKeepsOthersOut'
  BY <1>1, <1>3 DEF CloserKeepsOthersOut, PortTypeOK
<1> QED BY <1>4, <1>5, <1>6, <1>7

LEMMA SpawnKeepsInv ==
  ASSUME PortInv, NEW u \in Users, SpawnCloser(u)
  PROVE  PortInv'
<1> USE PathsAssumption DEF PortInv
<1> DEFINE p == at[u]
<1>1. /\ sess[u] = "handoff"
      /\ sess' = [sess EXCEPT ![u] = "waiting"]
      /\ closer' = [closer EXCEPT ![u][p] = "kernel"]
      /\ UNCHANGED <<at, closing, wedged>>
  BY DEF SpawnCloser, Become
<1>2. p \in Paths
  BY <1>1 DEF PortTypeOK
<1>3. \A v \in Users : closer[v][p] = "none"
  BY <1>1, <1>2 DEF CloserKeepsOthersOut
<1>4. \A v \in Users, q \in Paths :
        closer'[v][q] = IF v = u /\ q = p THEN "kernel" ELSE closer[v][q]
  BY <1>1, <1>2 DEF PortTypeOK
<1>5. PortTypeOK'
  BY <1>1, <1>2 DEF PortTypeOK, SessionStates, CloserStates
<1>6. ClosingExact'
  <2> SUFFICES ASSUME NEW q \in Paths
               PROVE  q \in closing' <=> Unfinished(q)'
    BY DEF ClosingExact
  <2>1. CASE q = p
    BY <1>1, <1>2, <1>4, <2>1 DEF ClosingExact, Unfinished
  <2>2. CASE q # p
    BY <1>1, <1>4, <2>2 DEF ClosingExact, Unfinished, PortTypeOK
  <2> QED BY <2>1, <2>2
<1>7. OneUserPerPath'
  BY <1>1 DEF OneUserPerPath
<1>8. OneCloserPerPath'
  BY <1>3, <1>4 DEF OneCloserPerPath
<1>9. CloserKeepsOthersOut'
  BY <1>1, <1>2, <1>4 DEF CloserKeepsOthersOut, OneUserPerPath, PortTypeOK
<1> QED BY <1>5, <1>6, <1>7, <1>8, <1>9

(* A close that ends is the path's only one: unmarking it is right.        *)
LEMMA ClosedKeepsInv ==
  ASSUME PortInv, NEW u \in Users, NEW p \in Paths, CloserStep(u, p)
  PROVE  PortInv'
<1> USE PathsAssumption DEF PortInv
<1>1. /\ closer[u][p] # "none"
      /\ UNCHANGED <<sess, at, wedged>>
  BY DEF CloserStep, KernelClosed, Unmark
<1>2. CASE KernelClosed(u, p)
  <2>1. /\ closer' = [closer EXCEPT ![u][p] = "returned"]
        /\ closing' = closing
    BY <1>2 DEF KernelClosed
  <2>2. \A v \in Users, q \in Paths :
          closer'[v][q] = IF v = u /\ q = p THEN "returned" ELSE closer[v][q]
    BY <2>1 DEF PortTypeOK
  <2>3. PortTypeOK'
    BY <1>1, <2>1 DEF PortTypeOK, CloserStates
  <2>4. ClosingExact'
    BY <1>1, <2>1, <2>2 DEF ClosingExact, Unfinished
  <2>5. OneUserPerPath' /\ OneCloserPerPath' /\ CloserKeepsOthersOut'
    BY <1>1, <2>2 DEF OneUserPerPath, OneCloserPerPath, CloserKeepsOthersOut
  <2> QED BY <2>3, <2>4, <2>5
<1>3. CASE Unmark(u, p)
  <2>1. /\ closer' = [closer EXCEPT ![u][p] = "none"]
        /\ closing' = closing \ {p}
    BY <1>3 DEF Unmark
  <2>2. \A v \in Users, q \in Paths :
          closer'[v][q] = IF v = u /\ q = p THEN "none" ELSE closer[v][q]
    BY <2>1 DEF PortTypeOK
  <2>3. PortTypeOK'
    BY <1>1, <2>1 DEF PortTypeOK, CloserStates
  <2>4. ~Unfinished(p)'
    BY <1>1, <2>2 DEF Unfinished, OneCloserPerPath, CloserKeepsOthersOut
  <2>5. ClosingExact'
    BY <1>1, <2>1, <2>2, <2>4 DEF ClosingExact, Unfinished
  <2>6. OneUserPerPath' /\ OneCloserPerPath' /\ CloserKeepsOthersOut'
    BY <1>1, <2>2 DEF OneUserPerPath, OneCloserPerPath, CloserKeepsOthersOut
  <2> QED BY <2>3, <2>5, <2>6
<1> QED BY <1>2, <1>3 DEF CloserStep

LEMMA InlineKeepsInv ==
  ASSUME PortInv, NEW u \in Users, InlineClosed(u)
  PROVE  PortInv'
<1> USE PathsAssumption DEF PortInv
<1>1. /\ sess[u] = "inline"
      /\ sess' = [sess EXCEPT ![u] = "idle"]
      /\ at' = [at EXCEPT ![u] = NoPath]
      /\ closing' = closing \ {at[u]}
      /\ UNCHANGED <<closer, wedged>>
  BY DEF InlineClosed, Leave, Become
<1>2. PICK p \in Paths : p = at[u]
  BY <1>1 DEF PortTypeOK
<1>3. PortTypeOK'
  BY <1>1 DEF PortTypeOK, SessionStates
<1>4. ~Unfinished(p)'
  BY <1>1, <1>2 DEF Unfinished, OneUserPerPath, CloserKeepsOthersOut,
     PortTypeOK
<1>5. ClosingExact'
  BY <1>1, <1>2, <1>4 DEF ClosingExact, Unfinished, PortTypeOK
<1>6. OneUserPerPath'
  BY <1>1 DEF OneUserPerPath, PortTypeOK
<1>7. OneCloserPerPath'
  BY <1>1 DEF OneCloserPerPath
<1>8. CloserKeepsOthersOut'
  BY <1>1 DEF CloserKeepsOthersOut, PortTypeOK
<1> QED BY <1>3, <1>5, <1>6, <1>7, <1>8

LEMMA WedgeKeepsInv ==
  ASSUME PortInv, NEW p \in Paths, Wedge(p) \/ Unwedge(p)
  PROVE  PortInv'
<1>1. wedged' \in SUBSET Paths /\ UNCHANGED <<sess, at, closer, closing>>
  BY DEF Wedge, Unwedge, PortInv, PortTypeOK
<1> QED
  BY <1>1 DEF PortInv, PortTypeOK, ClosingExact, Unfinished, OneUserPerPath,
              OneCloserPerPath, CloserKeepsOthersOut

LEMMA StutterKeepsInv == PortInv /\ UNCHANGED portVars => PortInv'
BY DEF portVars, PortInv, PortTypeOK, ClosingExact, Unfinished, OneUserPerPath,
       OneCloserPerPath, CloserKeepsOthersOut

LEMMA PortInvStep == PortInv /\ [PortNext]_portVars => PortInv'
<1> SUFFICES ASSUME PortInv, PortNext
             PROVE  PortInv'
  BY StutterKeepsInv
<1>1. CASE \E u \in Users, p \in Paths : Open(u, p) \/ CloserStep(u, p)
  BY <1>1, OpenKeepsInv, ClosedKeepsInv
<1>2. CASE \E u \in Users : SessionStep(u) \/ Drop(u) \/ TouchDone(u)
  BY <1>2, OpeningKeepsInv, LeavingKeepsInv, SpawnKeepsInv, DropKeepsInv,
     InlineKeepsInv DEF SessionStep
<1>3. CASE \E u, v \in Users : HandOver(u, v)
  BY <1>3, HandOverKeepsInv
<1>4. CASE \E p \in Paths : Wedge(p) \/ Unwedge(p)
  BY <1>4, WedgeKeepsInv
<1> QED BY <1>1, <1>2, <1>3, <1>4 DEF PortNext

LEMMA PortInvImplies ==
  PortInv => PortTypeOK /\ ClosingExact /\ NoReopenDuringClose
<1> SUFFICES ASSUME PortInv
             PROVE  NoReopenDuringClose
  BY DEF PortInv
<1>1. SUFFICES ASSUME NEW u \in Users, NEW p \in Paths,
                      sess[u] \in {"opening", "open", "handoff"}, at[u] = p
               PROVE  ~InKernelClose(p)
  BY DEF NoReopenDuringClose
<1>2. \A v \in Users : closer[v][p] = "none"
  BY <1>1 DEF PortInv, CloserKeepsOthersOut
<1>3. \A v \in Users : at[v] = p => v = u
  BY <1>1, PathsAssumption DEF PortInv, OneUserPerPath
<1> QED BY <1>1, <1>2, <1>3 DEF InKernelClose

(* The port protocol keeps its inductive invariant.                        *)
THEOREM PortInvariant == PortSpec => []PortInv
<1>1. PortInit => PortInv
  BY PortInvInit
<1>2. PortInv /\ [PortNext]_portVars => PortInv'
  BY PortInvStep
<1> QED BY <1>1, <1>2, PTL DEF PortSpec

(* Every state of the protocol is well typed.                              *)
THEOREM PortTypeCorrect == PortSpec => []PortTypeOK
BY PortInvariant, PortInvImplies, PTL

(* CLOSING is exact: no path is missing from it while its close is running *)
(* and none is left in it afterwards.                                      *)
THEOREM ClosingIsExact == PortSpec => []ClosingExact
BY PortInvariant, PortInvImplies, PTL

(* Gun::open never meets an unfinished close of its path in the kernel.    *)
THEOREM NeverReopenedDuringClose == PortSpec => []NoReopenDuringClose
BY PortInvariant, PortInvImplies, PTL
=============================================================================
