----------------------------- MODULE BuildLock -----------------------------
(***************************************************************************)
(* Several blade processes in one source tree (blade_main.py).  They share *)
(* the file .Building.lock, which one of them holds with flock, and the    *)
(* file SConstruct, which the holder writes, has scons read, and removes.  *)
(* scons and the test programs are processes of their own: the lock file   *)
(* is closed on exec, so they go on without the lock when blade is gone.   *)
(***************************************************************************)
EXTENDS FiniteSets

CONSTANTS Blades,        \* the processes that may be started in the tree
          Commands,      \* the commands they may be given
          MayInterrupt,  \* may the user press Ctrl-C?
          MayKill,       \* may a blade process be killed?
          None

ASSUME BladesAssumption ==
    /\ None \notin Blades
    /\ Commands \subseteq {"build", "sconsOnly", "test", "testSconsOnly", "query"}
    /\ MayInterrupt \in BOOLEAN
    /\ MayKill \in BOOLEAN

VARIABLES lock,     \* who holds .Building.lock
          script,   \* whose rules are in SConstruct
          pc,       \* where each process is in _main
          cmd,      \* its command
          scons,    \* its scons process: "none", "started" or "building"
          read,     \* whose SConstruct that scons process has read
          testing   \* its tests: "yes", "no", or "hung" when a worker thread of
                    \* the scheduler has blocked for ever

vars == <<lock, script, pc, cmd, scons, read, testing>>

Init ==
    /\ lock = None
    /\ script = None
    /\ pc = [p \in Blades |-> "out"]
    /\ cmd = [p \in Blades |-> "query"]
    /\ scons = [p \in Blades |-> "none"]
    /\ read = [p \in Blades |-> None]
    /\ testing = [p \in Blades |-> "no"]

Goto(p, l) == pc' = [pc EXCEPT ![p] = l]
children == <<scons, read, testing>>
-----------------------------------------------------------------------------
(* lock_file with LOCK_NB: take the lock, or exit with "There is already   *)
(* an active building", which passes through the finally clause.  A member *)
(* of Blades stands for a new process when its children have ended.        *)
TryLock(p, c) ==
    /\ pc[p] = "out" /\ scons[p] = "none" /\ testing[p] = "no"
    /\ \/ /\ lock = None
          /\ lock' = p
          /\ cmd' = [cmd EXCEPT ![p] = c]
          /\ Goto(p, "generate")
       \/ /\ lock # None
          /\ Goto(p, "refused")
          /\ UNCHANGED <<lock, cmd>>
    /\ UNCHANGED <<script, children>>

(* blade.generate: load and analyze the targets and write SConstruct.      *)
Generate(p) ==
    /\ pc[p] = "generate"
    /\ script' = p
    /\ Goto(p, "dispatch")
    /\ UNCHANGED <<lock, cmd, children>>

(* An error in a BUILD file ends it before SConstruct is written.          *)
GenerateError(p) ==
    /\ pc[p] = "generate"
    /\ Goto(p, "finally")
    /\ UNCHANGED <<lock, script, cmd, children>>

(* query is done, and so is build with --scons-only, with which test runs  *)
(* the programs of an earlier build; the other commands start scons.       *)
Dispatch(p) ==
    /\ pc[p] = "dispatch"
    /\ \/ /\ cmd[p] \in {"query", "sconsOnly"}
          /\ Goto(p, "finally")
          /\ UNCHANGED children
       \/ /\ cmd[p] = "testSconsOnly"
          /\ testing' = [testing EXCEPT ![p] = "yes"]
          /\ Goto(p, "tests")
          /\ UNCHANGED <<scons, read>>
       \/ /\ cmd[p] \in {"build", "test"}
          /\ scons' = [scons EXCEPT ![p] = "started"]
          /\ Goto(p, "wait")
          /\ UNCHANGED <<read, testing>>
    /\ UNCHANGED <<lock, script, cmd>>

(* p.wait() returns; test goes on with TestRunner unless the build failed. *)
BuildDone(p) ==
    /\ pc[p] = "wait" /\ scons[p] = "none"
    /\ \/ /\ cmd[p] = "test"
          /\ testing' = [testing EXCEPT ![p] = "yes"]
          /\ Goto(p, "tests")
       \/ Goto(p, "finally") /\ UNCHANGED testing
    /\ UNCHANGED <<lock, script, cmd, scons, read>>

(* The test runner returns when the last test has ended.                   *)
TestsDone(p) ==
    /\ pc[p] = "tests" /\ testing[p] = "no"
    /\ Goto(p, "finally")
    /\ UNCHANGED <<lock, script, cmd, children>>

(* KeyboardInterrupt, in p.wait() or anywhere else: to the finally clause. *)
(* scons and the tests get the signal too, but end in their own time.      *)
CtrlC(p) ==
    /\ MayInterrupt
    /\ pc[p] \in {"generate", "dispatch", "wait", "tests"}
    /\ Goto(p, "finally")
    /\ UNCHANGED <<lock, script, cmd, children>>

SconsOnly(p) == cmd[p] \in {"sconsOnly", "testSconsOnly"}

(* Mutant: SConstruct is left to a scons process that has not ended.       *)
RemoveUnused(p) ==
    /\ pc[p] = "finally"
    /\ IF ~SconsOnly(p) /\ script # None /\ scons[p] = "none"
         THEN script' = None /\ Goto(p, "unlock")
         ELSE UNCHANGED script /\ Goto(p, "exit")
    /\ UNCHANGED <<lock, cmd, children>>

(* The finally clause: os.remove raises OSError when there is no           *)
(* SConstruct, and then neither unlock_file nor close is called.           *)
RemoveScript(p) ==
    /\ pc[p] = "finally"
    /\ IF ~SconsOnly(p) /\ script # None
         THEN script' = None /\ Goto(p, "unlock")
         ELSE UNCHANGED script /\ Goto(p, "exit")
    /\ UNCHANGED <<lock, cmd, children>>

(* Mutant: a refused process removes SConstruct, too.                      *)
RefusedRemoves(p) ==
    /\ pc[p] = "refused"
    /\ script' = None
    /\ Goto(p, "exit")
    /\ UNCHANGED <<lock, cmd, children>>

(* Mutant: flock without LOCK_NB: the process waits for the lock.          *)
RefusedWaits(p) ==
    /\ pc[p] = "refused"
    /\ lock = None
    /\ lock' = p
    /\ Goto(p, "generate")
    /\ UNCHANGED <<script, cmd, children>>

(* Without the lock there is nothing to clean up.                          *)
RefusedExit(p) ==
    /\ pc[p] = "refused"
    /\ Goto(p, "exit")
    /\ UNCHANGED <<lock, script, cmd, children>>

Unlock(p) ==
    /\ pc[p] = "unlock"
    /\ lock' = None
    /\ Goto(p, "exit")
    /\ UNCHANGED <<script, cmd, children>>

(* The process ends, and with it its lock, if it still has it.             *)
Gone(p) ==
    /\ lock' = IF lock = p THEN None ELSE lock
    /\ cmd' = [cmd EXCEPT ![p] = "query"]
    /\ Goto(p, "out")

(* sys.exit: the interpreter waits for the worker threads of an            *)
(* interrupted test run; the lock, if it is still held, goes with the      *)
(* process.                                                                *)
Exit(p) ==
    /\ pc[p] = "exit" /\ testing[p] = "no"
    /\ Gone(p)
    /\ UNCHANGED <<script, children>>

(* SIGKILL: no finally clause.  A blocked thread goes with its process.    *)
Kill(p) ==
    /\ MayKill
    /\ pc[p] # "out"
    /\ Gone(p)
    /\ testing' = [testing EXCEPT ![p] = IF @ = "hung" THEN "no" ELSE @]
    /\ UNCHANGED <<script, scons, read>>
-----------------------------------------------------------------------------
(* The children.                                                           *)

(* scons reads SConstruct after it has been started; without one it ends.  *)
SconsReads(p) ==
    /\ scons[p] = "started"
    /\ scons' = [scons EXCEPT ![p] = IF script = None THEN "none" ELSE "building"]
    /\ read' = [read EXCEPT ![p] = script]
    /\ UNCHANGED <<lock, script, pc, cmd, testing>>

SconsEnds(p) ==
    /\ scons[p] = "building"
    /\ scons' = [scons EXCEPT ![p] = "none"]
    /\ read' = [read EXCEPT ![p] = None]
    /\ UNCHANGED <<lock, script, pc, cmd, testing>>

TestsEnd(p) ==
    /\ testing[p] = "yes"
    /\ testing' = [testing EXCEPT ![p] = "no"]
    /\ UNCHANGED <<lock, script, pc, cmd, scons, read>>

(* The test programs have ended, but a worker thread of the scheduler has   *)
(* come too late to a queue that another one has emptied.                  *)
TestsHang(p) ==
    /\ testing[p] = "yes" /\ pc[p] # "out"
    /\ testing' = [testing EXCEPT ![p] = "hung"]
    /\ UNCHANGED <<lock, script, pc, cmd, scons, read>>

Main(p) ==
    \/ Generate(p) \/ GenerateError(p) \/ Dispatch(p) \/ BuildDone(p)
    \/ TestsDone(p) \/ RemoveScript(p) \/ RefusedExit(p) \/ Unlock(p) \/ Exit(p)

Children(p) == SconsReads(p) \/ SconsEnds(p) \/ TestsEnd(p) \/ TestsHang(p)

Next ==
    \E p \in Blades :
       \/ \E c \in Commands : TryLock(p, c)
       \/ Main(p)
       \/ CtrlC(p)
       \/ Kill(p)
       \/ Children(p)

Spec == Init /\ [][Next]_vars

(* A process that can go on does; scons and every test program end, but    *)
(* the scheduler that has started the tests may hang instead of returning. *)
Fairness == \A p \in Blades : WF_vars(Main(p)) /\ WF_vars(Children(p))

FairSpec == Spec /\ Fairness
-----------------------------------------------------------------------------
(* Properties.                                                             *)

(* The lock, the files and the places of the processes in _main.           *)
TypeOK ==
    /\ lock \in Blades \cup {None}
    /\ script \in Blades \cup {None}
    /\ pc \in [Blades -> {"out", "refused", "generate", "dispatch", "wait",
                          "tests", "finally", "unlock", "exit"}]
    /\ cmd \in [Blades -> Commands \cup {"query"}]
    /\ scons \in [Blades -> {"none", "started", "building"}]
    /\ read \in [Blades -> Blades \cup {None}]
    /\ testing \in [Blades -> {"yes", "no", "hung"}]

(* The labels at which a process must hold the lock.                       *)
Critical == {"generate", "dispatch", "wait", "tests", "finally", "unlock"}

(* What a process has written stays in SConstruct until it has done with   *)
(* it, and the scons process it waits for has read nothing else: no other  *)
(* process, refused, interrupted, killed or about to exit, writes or       *)
(* removes the file meanwhile.                                             *)
OwnScript ==
    \A p \in Blades :
        /\ pc[p] \in {"dispatch", "wait", "tests"} => script = p
        /\ pc[p] = "wait" /\ scons[p] = "building" => read[p] = p

(* A process works in the tree only with the lock, hence alone.            *)
LockHeld == \A p \in Blades : pc[p] \in Critical => lock = p

(* A process that is about to give back the lock has left no SConstruct    *)
(* behind, neither its own nor that of one that was killed before, unless  *)
(* it was asked to: whether it was interrupted, failed to generate, or     *)
(* came to its end.                                                        *)
NoLitter ==
    \A p \in Blades :
        lock = p /\ pc[p] \in {"unlock", "exit"} /\ ~SconsOnly(p) => script = None

(* At most one blade has scons or tests at work in the tree.               *)
OneBuild ==
    \A p, q \in Blades :
        /\ scons[p] # "none" \/ testing[p] = "yes"
        /\ scons[q] # "none" \/ testing[q] = "yes"
        => p = q

(* Every blade comes to its end unless a thread of its test scheduler has  *)
(* blocked: none waits for another one.  And the lock is free again, even  *)
(* so: the user may press Ctrl-C, and the finally clause gives it back     *)
(* although the interpreter never exits.  With --scons-only this clause    *)
(* does nothing, and the lock stays with the process.                      *)
EveryBladeEnds ==
    \A p \in Blades :
        /\ pc[p] # "out" ~> pc[p] = "out" \/ testing[p] = "hung"
        /\ lock = p ~> lock # p \/ (testing[p] = "hung" /\ (pc[p] = "tests" \/ SconsOnly(p)))

(* The inductive invariant of the proofs: the lock belongs to a process    *)
(* that has taken it and not yet left, and children that nobody abandoned  *)
(* have a parent that waits for them.                                      *)
LockInv ==
    /\ TypeOK
    /\ LockHeld
    /\ OwnScript
    /\ \A p \in Blades : lock = p => pc[p] \in Critical \cup {"exit"}
    /\ NoLitter
    /\ ~MayKill /\ ~MayInterrupt => \A p \in Blades :
          /\ scons[p] # "none" => pc[p] = "wait"
          /\ testing[p] = "yes" => pc[p] = "tests"
=============================================================================
