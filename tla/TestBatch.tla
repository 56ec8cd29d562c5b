----------------------------- MODULE TestBatch -----------------------------
(***************************************************************************)
(* What TestScheduler.schedule_jobs promises its caller, TestRunner.run,   *)
(* without threads, queues or locks: a batch of tests of which each is     *)
(* executed at most once, exclusive ones never beside another test, and    *)
(* of which none is executing once the batch is closed.                    *)
(***************************************************************************)
CONSTANTS Tests,      \* the targets of tests_list
          Exclusive   \* those whose BUILD rule says exclusive = True

VARIABLES running,    \* the tests whose process exists
          fate,       \* how each test ended
          phase       \* "open", "closed" (schedule_jobs returned) or "aborted"

batchVars == <<running, fate, phase>>

Fates == {"none", "pass", "fail", "lost"}

BatchInit ==
    /\ running = {}
    /\ fate = [t \in Tests |-> "none"]
    /\ phase = "open"

(* A test starts at most once, and an exclusive one only when it is alone. *)
Begin(t) ==
    /\ phase # "closed"
    /\ t \notin running
    /\ fate[t] = "none"
    /\ t \in Exclusive => running = {}
    /\ running \cap Exclusive = {}
    /\ running' = running \cup {t}
    /\ UNCHANGED <<fate, phase>>

(* It ends with a verdict, or without one when the scheduler lost it.      *)
Finish(t) ==
    /\ t \in running
    /\ \E f \in Fates \ {"none"} : fate' = [fate EXCEPT ![t] = f]
    /\ running' = running \ {t}
    /\ UNCHANGED phase

(* schedule_jobs returns: nothing is executing, and nothing will be.       *)
Close ==
    /\ phase = "open"
    /\ running = {}
    /\ phase' = "closed"
    /\ UNCHANGED <<running, fate>>

(* Ctrl-C: the caller is gone, but tests may go on.                        *)
Abort ==
    /\ phase = "open"
    /\ phase' = "aborted"
    /\ UNCHANGED <<running, fate>>

BatchNext ==
    \/ \E t \in Tests : Begin(t) \/ Finish(t)
    \/ Close
    \/ Abort

BatchSpec == BatchInit /\ [][BatchNext]_batchVars
=============================================================================
