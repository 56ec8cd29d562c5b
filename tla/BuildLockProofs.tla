--------------------------- MODULE BuildLockProofs ---------------------------
(***************************************************************************)
(* Proofs about BuildLock, for any number of blade processes.              *)
(***************************************************************************)
EXTENDS BuildLock, TLAPS

(* Nobody has started: the lock is free and no SConstruct is there.        *)
LEMMA InitLockInv == Init => LockInv
  BY BladesAssumption DEF Init, LockInv, TypeOK, LockHeld, OwnScript, NoLitter, Critical

(* Every step of a blade process, of its children, of the user and of the  *)
(* system keeps the lock, the SConstruct and the children accounted for.   *)
LEMMA NextLockInv == LockInv /\ [Next]_vars => LockInv'
<1> SUFFICES ASSUME LockInv, [Next]_vars PROVE LockInv'
  OBVIOUS
<1> USE BladesAssumption
    DEF LockInv, TypeOK, LockHeld, OwnScript, NoLitter, Critical, Goto, children, Gone,
        SconsOnly
<1>1. ASSUME NEW p \in Blades, NEW c \in Commands, TryLock(p, c) PROVE LockInv'
  BY <1>1 DEF TryLock
<1>2. ASSUME NEW p \in Blades, Main(p) PROVE LockInv'
  <2>1. CASE Generate(p)
    BY <2>1 DEF Generate
  <2>2. CASE GenerateError(p)
    BY <2>2 DEF GenerateError
  <2>3. CASE Dispatch(p)
    BY <2>3 DEF Dispatch
  <2>4. CASE BuildDone(p)
    BY <2>4 DEF BuildDone
  <2>5. CASE TestsDone(p)
    BY <2>5 DEF TestsDone
  <2>6. CASE RemoveScript(p)
    BY <2>6 DEF RemoveScript
  <2>7. CASE RefusedExit(p)
    BY <2>7 DEF RefusedExit
  <2>8. CASE Unlock(p)
    BY <2>8 DEF Unlock
  <2>9. CASE Exit(p)
    BY <2>9 DEF Exit
  <2>10. QED
    BY <1>2, <2>1, <2>2, <2>3, <2>4, <2>5, <2>6, <2>7, <2>8, <2>9 DEF Main
<1>3. ASSUME NEW p \in Blades, CtrlC(p) PROVE LockInv'
  BY <1>3 DEF CtrlC
<1>4. ASSUME NEW p \in Blades, Kill(p) PROVE LockInv'
  BY <1>4 DEF Kill
<1>5. ASSUME NEW p \in Blades, Children(p) PROVE LockInv'
  <2>1. CASE SconsReads(p)
    BY <2>1 DEF SconsReads
  <2>2. CASE SconsEnds(p)
    BY <2>2 DEF SconsEnds
  <2>3. CASE TestsEnd(p)
    BY <2>3 DEF TestsEnd
  <2>4. CASE TestsHang(p)
    BY <2>4 DEF TestsHang
  <2>5. QED
    BY <1>5, <2>1, <2>2, <2>3, <2>4 DEF Children
<1>6. CASE UNCHANGED vars
  BY <1>6 DEF vars
<1>7. QED
  BY <1>1, <1>2, <1>3, <1>4, <1>5, <1>6 DEF Next

(* The lock, the SConstruct and the children belong to the processes they  *)
(* should belong to at every step, for any number of processes.            *)
THEOREM Invariance == Spec => []LockInv
  BY InitLockInv, NextLockInv, PTL DEF Spec

(* A process works in the tree only while it holds .Building.lock, however *)
(* many others start, are interrupted or are killed.                       *)
THEOREM LockIsHeld == Spec => []LockHeld
  BY Invariance, PTL DEF LockInv

(* The scons process a blade waits for has read the SConstruct that this   *)
(* blade wrote.                                                            *)
THEOREM ScriptIsOwn == Spec => []OwnScript
  BY Invariance, PTL DEF LockInv

(* Whoever gives the lock back in order has removed SConstruct, unless he  *)
(* was asked not to.                                                       *)
THEOREM TreeIsClean == Spec => []NoLitter
  BY Invariance, PTL DEF LockInv

(* Unless somebody is interrupted or killed, scons and the tests of one    *)
(* blade never run beside those of another.                                *)
THEOREM BuildsAreAlone ==
    ASSUME ~MayInterrupt, ~MayKill
    PROVE  Spec => []OneBuild
<1>1. LockInv => OneBuild
  <2> SUFFICES ASSUME LockInv, NEW p \in Blades, NEW q \in Blades,
                      scons[p] # "none" \/ testing[p] = "yes",
                      scons[q] # "none" \/ testing[q] = "yes"
               PROVE  p = q
    BY DEF OneBuild
  <2>1. pc[p] \in Critical /\ pc[q] \in Critical
    BY DEF LockInv, Critical
  <2>2. QED
    BY <2>1 DEF LockInv, LockHeld
<1>2. QED
  BY Invariance, <1>1, PTL
==============================================================================
