--------------------------- MODULE TestScheduler ---------------------------
(***************************************************************************)
(* Blade's parallel test scheduler (test_scheduler.py): schedule_jobs in   *)
(* the main thread fills two queues, starts the workers, joins them and    *)
(* then runs the exclusive tests in one more worker.  Every worker runs    *)
(* _process_command: a loop that looks whether the queue is empty, takes a *)
(* job with a blocking get, runs it and records the result under a lock    *)
(* per shared object.                                                      *)
(*                                                                         *)
(* A step is one access to state that threads share.  The queues are sets: *)
(* they are filled before the first worker starts, in the order of a       *)
(* Python dict, so the order in which they are emptied is arbitrary.       *)
(***************************************************************************)
EXTENDS Integers, FiniteSets

CONSTANTS Tests,       \* the targets of tests_list
          Exclusive,   \* targets with data['exclusive']
          Tracked,     \* targets that have an entry in tests_run_map
          Jobs,        \* options.test_jobs
          CpuCores,    \* blade_util.cpu_count()
          MaxWorkerThreads,  \* max_worker_threads (16 in the code)
          ReturnCodes, \* exit codes a test process may end with
          MayRaise,    \* may a worker meet an exception other than OSError?
          NoJob

ASSUME TestsAssumption ==
    /\ IsFiniteSet(Tests)
    /\ Exclusive \subseteq Tests
    /\ Tracked \subseteq Tests
    /\ NoJob \notin Tests

ASSUME ConfigAssumption ==
    /\ Jobs \in Int
    /\ CpuCores \in Nat
    /\ MaxWorkerThreads \in Nat \ {0}
    /\ ReturnCodes \subseteq Int
    /\ MayRaise \in BOOLEAN

VARIABLES main,                 \* where schedule_jobs is
          spawned,              \* len(self.threads)
          job_queue,            \* tests waiting for an ordinary worker
          exclusive_job_queue,  \* tests waiting for the last worker
          pc,                   \* where each thread is in _process_command
          job,                  \* the test each thread holds
          returncode,           \* local variable of each thread
          failed_targets,
          tests_run_map,        \* 'result' of each tracked test
          num_of_run_tests,
          count_lock,           \* holder of num_of_run_tests_lock
          seen,                 \* num_of_run_tests as loaded by each thread
          fate                  \* history: how the process of each test ended

vars == <<main, spawned, job_queue, exclusive_job_queue, pc, job, returncode,
          failed_targets, tests_run_map, num_of_run_tests, count_lock, seen,
          fate>>
-----------------------------------------------------------------------------
(* __get_workers_num.  max_workers is at least MaxWorkerThreads, so the    *)
(* branch for 0 is never taken.                                            *)
MaxWorkers == IF CpuCores > MaxWorkerThreads THEN CpuCores ELSE MaxWorkerThreads

CappedJobs == IF Jobs > MaxWorkers THEN MaxWorkers ELSE Jobs

NumWorkers ==
    IF Jobs <= 1 THEN 1
    ELSE IF Cardinality(Tests) <= CappedJobs THEN Cardinality(Tests)
    ELSE CappedJobs

Workers == 0 .. NumWorkers - 1     \* the threads of self.threads
LastWorker == NumWorkers           \* last_t, the exclusive worker
Threads == 0 .. NumWorkers

Free == -1                         \* nobody holds a lock

(* __get_result: the names of signals only change the wording.             *)
Result(rc) == IF rc = 0 THEN "SUCCESS" ELSE "FAILED"

QueueOf(w) == IF w = LastWorker THEN exclusive_job_queue ELSE job_queue

Alive(w) == pc[w] \notin {"unborn", "exit"}

Init ==
    /\ main = "start"
    /\ spawned = 0
    /\ job_queue = {}
    /\ exclusive_job_queue = {}
    /\ pc = [w \in Threads |-> "unborn"]
    /\ job = [w \in Threads |-> NoJob]
    /\ returncode = [w \in Threads |-> 0]
    /\ failed_targets = {}
    /\ tests_run_map = [t \in Tests |-> "-"]
    /\ num_of_run_tests = 0
    /\ count_lock = Free
    /\ seen = [w \in Threads |-> 0]
    /\ fate = [t \in Tests |-> "none"]
-----------------------------------------------------------------------------
(* The main thread: schedule_jobs.                                         *)

shared == <<failed_targets, tests_run_map, num_of_run_tests, count_lock, fate>>
locals == <<job, returncode, seen>>

(* Distribute tests_list over the two queues; return at once when there is *)
(* nothing to run.                                                         *)
FillQueues ==
    /\ main = "start"
    /\ exclusive_job_queue' = Exclusive
    /\ job_queue' = Tests \ Exclusive
    /\ main' = IF Tests = {} THEN "returned" ELSE "spawn"
    /\ UNCHANGED <<spawned, pc, locals, shared>>

(* Create and start the next worker; it runs from here on.                 *)
SpawnWorker ==
    /\ main = "spawn"
    /\ pc' = [pc EXCEPT ![spawned] = "check"]
    /\ spawned' = spawned + 1
    /\ main' = IF spawned + 1 = NumWorkers THEN "join" ELSE "spawn"
    /\ UNCHANGED <<job_queue, exclusive_job_queue, locals, shared>>

(* Mutant: last_t starts when one of the workers has been joined.          *)
JoinSomeWorker ==
    /\ main = "join"
    /\ \E w \in Workers : ~Alive(w)
    /\ IF exclusive_job_queue = {}
         THEN main' = "returned" /\ UNCHANGED pc
         ELSE /\ main' = "joinExclusive"
              /\ pc' = [pc EXCEPT ![LastWorker] = "check"]
    /\ UNCHANGED <<spawned, job_queue, exclusive_job_queue, locals, shared>>

(* Every worker has been joined; start the exclusive worker if it is       *)
(* needed.                                                                 *)
JoinWorkers ==
    /\ main = "join"
    /\ \A w \in Workers : ~Alive(w)
    /\ IF exclusive_job_queue = {}
         THEN main' = "returned" /\ UNCHANGED pc
         ELSE /\ main' = "joinExclusive"
              /\ pc' = [pc EXCEPT ![LastWorker] = "check"]
    /\ UNCHANGED <<spawned, job_queue, exclusive_job_queue, locals, shared>>

(* Mutant: schedule_jobs does not join last_t.                             *)
StartExclusiveOnly ==
    /\ main = "joinExclusive"
    /\ main' = "returned"
    /\ UNCHANGED <<spawned, job_queue, exclusive_job_queue, pc, locals, shared>>

JoinExclusive ==
    /\ main = "joinExclusive"
    /\ ~Alive(LastWorker)
    /\ main' = "returned"
    /\ UNCHANGED <<spawned, job_queue, exclusive_job_queue, pc, locals, shared>>

(* Ctrl-C: KeyboardInterrupt leaves schedule_jobs.  The workers are not    *)
(* daemon threads: they go on until their queue is empty.                  *)
Interrupt ==
    /\ main \in {"start", "spawn", "join", "joinExclusive"}
    /\ main' = "interrupted"
    /\ UNCHANGED <<spawned, job_queue, exclusive_job_queue, pc, locals, shared>>
-----------------------------------------------------------------------------
(* A worker thread: _process_command.                                      *)

queues == <<job_queue, exclusive_job_queue>>

(* while not job_queue.empty()                                             *)
CheckQueue(w) ==
    /\ pc[w] = "check"
    /\ pc' = [pc EXCEPT ![w] = IF QueueOf(w) = {} THEN "exit" ELSE "get"]
    /\ UNCHANGED <<main, spawned, queues, locals, shared>>

(* Mutant: the job is read from the queue but not removed from it.         *)
PeekJob(w) ==
    /\ pc[w] = "get"
    /\ \E t \in QueueOf(w) : job' = [job EXCEPT ![w] = t]
    /\ pc' = [pc EXCEPT ![w] = "run"]
    /\ UNCHANGED <<main, spawned, queues, returncode, seen, shared>>

(* job = job_queue.get(), which blocks while the queue is empty            *)
GetJob(w) ==
    /\ pc[w] = "get"
    /\ \E t \in QueueOf(w) :
          /\ job' = [job EXCEPT ![w] = t]
          /\ job_queue' = job_queue \ {t}
          /\ exclusive_job_queue' = exclusive_job_queue \ {t}
    /\ pc' = [pc EXCEPT ![w] = "run"]
    /\ UNCHANGED <<main, spawned, returncode, seen, shared>>

(* The test process ends and _run_job or _run_job_redirect returns.        *)
RunJob(w) ==
    /\ pc[w] = "run"
    /\ \E rc \in ReturnCodes :
          /\ returncode' = [returncode EXCEPT ![w] = rc]
          /\ fate' = [fate EXCEPT ![job[w]] = IF rc = 0 THEN "pass" ELSE "fail"]
    /\ pc' = [pc EXCEPT ![w] = "judge"]
    /\ UNCHANGED <<main, spawned, queues, job, seen, failed_targets,
                   tests_run_map, num_of_run_tests, count_lock>>

(* The process cannot be created: except OSError.                          *)
CreateProcessError(w) ==
    /\ pc[w] = "run"
    /\ returncode' = [returncode EXCEPT ![w] = 255]
    /\ fate' = [fate EXCEPT ![job[w]] = "fail"]
    /\ pc' = [pc EXCEPT ![w] = "judge"]
    /\ UNCHANGED <<main, spawned, queues, job, seen, failed_targets,
                   tests_run_map, num_of_run_tests, count_lock>>

(* Any other exception (an IOError of a console message, a missing PWD)    *)
(* leaves _process_command; WorkerThread.run prints it and the thread ends.*)
JobException(w) ==
    /\ MayRaise
    /\ pc[w] = "run"
    /\ fate' = [fate EXCEPT ![job[w]] = "lost"]
    /\ job' = [job EXCEPT ![w] = NoJob]
    /\ pc' = [pc EXCEPT ![w] = "exit"]
    /\ UNCHANGED <<main, spawned, queues, returncode, seen, failed_targets,
                   tests_run_map, num_of_run_tests, count_lock>>

(* if returncode: failed_targets.append(target), under its lock            *)
JudgeJob(w) ==
    /\ pc[w] = "judge"
    /\ failed_targets' = IF returncode[w] # 0 THEN failed_targets \cup {job[w]}
                                              ELSE failed_targets
    /\ pc' = [pc EXCEPT ![w] = "record"]
    /\ UNCHANGED <<main, spawned, queues, locals, tests_run_map,
                   num_of_run_tests, count_lock, fate>>

(* run_item_map['result'] = ..., under tests_run_map_lock, if there is one *)
RecordResult(w) ==
    /\ pc[w] = "record"
    /\ tests_run_map' =
          IF job[w] \in Tracked
            THEN [tests_run_map EXCEPT ![job[w]] = Result(returncode[w])]
            ELSE tests_run_map
    /\ pc' = [pc EXCEPT ![w] = "count"]
    /\ UNCHANGED <<main, spawned, queues, locals, failed_targets,
                   num_of_run_tests, count_lock, fate>>

(* Mutant: num_of_run_tests_lock is not acquired.                          *)
CountLoadUnlocked(w) ==
    /\ pc[w] = "count"
    /\ seen' = [seen EXCEPT ![w] = num_of_run_tests]
    /\ pc' = [pc EXCEPT ![w] = "store"]
    /\ UNCHANGED <<main, spawned, queues, job, returncode, shared>>

(* num_of_run_tests += 1: a load and a store, between which another thread *)
(* may run; num_of_run_tests_lock is held over both.                       *)
CountLoad(w) ==
    /\ pc[w] = "count"
    /\ count_lock = Free
    /\ count_lock' = w
    /\ seen' = [seen EXCEPT ![w] = num_of_run_tests]
    /\ pc' = [pc EXCEPT ![w] = "store"]
    /\ UNCHANGED <<main, spawned, queues, job, returncode, failed_targets,
                   tests_run_map, num_of_run_tests, fate>>

(* Mutant: num_of_run_tests_lock is not released.                          *)
CountStoreLocked(w) ==
    /\ pc[w] = "store"
    /\ num_of_run_tests' = seen[w] + 1
    /\ job' = [job EXCEPT ![w] = NoJob]
    /\ pc' = [pc EXCEPT ![w] = "check"]
    /\ UNCHANGED <<main, spawned, queues, returncode, seen, failed_targets,
                   tests_run_map, count_lock, fate>>

(* Mutant: if instead of while, one job per worker.                        *)
CountStoreAndExit(w) ==
    /\ pc[w] = "store"
    /\ num_of_run_tests' = seen[w] + 1
    /\ count_lock' = Free
    /\ job' = [job EXCEPT ![w] = NoJob]
    /\ pc' = [pc EXCEPT ![w] = "exit"]
    /\ UNCHANGED <<main, spawned, queues, returncode, seen, failed_targets,
                   tests_run_map, fate>>

CountStore(w) ==
    /\ pc[w] = "store"
    /\ num_of_run_tests' = seen[w] + 1
    /\ count_lock' = Free
    /\ job' = [job EXCEPT ![w] = NoJob]
    /\ pc' = [pc EXCEPT ![w] = "check"]
    /\ UNCHANGED <<main, spawned, queues, returncode, seen, failed_targets,
                   tests_run_map, fate>>

ProcessCommand(w) ==
    \/ CheckQueue(w) \/ GetJob(w)
    \/ RunJob(w) \/ CreateProcessError(w) \/ JobException(w)
    \/ JudgeJob(w) \/ RecordResult(w) \/ CountLoad(w) \/ CountStore(w)

ScheduleJobs ==
    \/ FillQueues \/ SpawnWorker \/ JoinWorkers \/ JoinExclusive

(* The process has ended.                                                  *)
Terminated ==
    /\ main \in {"returned", "interrupted"}
    /\ \A w \in Threads : ~Alive(w)
    /\ UNCHANGED vars

Next ==
    \/ ScheduleJobs
    \/ Interrupt
    \/ \E w \in Threads : ProcessCommand(w)
    \/ Terminated

Spec == Init /\ [][Next]_vars

(* The operating system runs every thread that can run, and every test     *)
(* program ends; nobody has to press Ctrl-C.                               *)
Fairness ==
    /\ WF_vars(ScheduleJobs)
    /\ \A w \in Threads : WF_vars(ProcessCommand(w))

FairSpec == Spec /\ Fairness
-----------------------------------------------------------------------------
(* Properties.                                                             *)

Verdicts == {"pass", "fail"}

(* The threads that hold a job, and those whose test process exists.       *)
Holding == {"run", "judge", "record", "count", "store"}
Holders == {w \in Threads : pc[w] \in Holding}
Runners == {w \in Threads : pc[w] = "run"}

Running == {job[w] : w \in Runners}
Queued == job_queue \cup exclusive_job_queue

(* The tests whose process ended and whose worker is through with them.    *)
Settled == {t \in Tests : fate[t] \in Verdicts /\ \A w \in Holders : job[w] # t}

(* The values of every attribute and local variable of the scheduler.      *)
TypeOK ==
    /\ main \in {"start", "spawn", "join", "joinExclusive", "returned",
                 "interrupted"}
    /\ spawned \in 0 .. NumWorkers
    /\ job_queue \subseteq Tests \ Exclusive
    /\ exclusive_job_queue \subseteq Exclusive
    /\ pc \in [Threads -> {"unborn", "check", "get", "exit"} \cup Holding]
    /\ job \in [Threads -> Tests \cup {NoJob}]
    /\ \A w \in Threads : pc[w] \in Holding <=> job[w] # NoJob
    /\ returncode \in [Threads -> ReturnCodes \cup {0, 255}]
    /\ failed_targets \subseteq Tests
    /\ tests_run_map \in [Tests -> {"-", "SUCCESS", "FAILED"}]
    /\ num_of_run_tests \in Nat
    /\ count_lock \in Threads \cup {Free}
    /\ seen \in [Threads -> Nat]
    /\ fate \in [Tests -> {"none", "lost"} \cup Verdicts]

(* Whatever the order of empty() and get() of the workers, a test is in    *)
(* one place only: waiting in a queue, held by one worker, or done.  None  *)
(* is run twice and none is dropped between the queue and its result.      *)
EachTestInOnePlace ==
    /\ \A w, v \in Holders : job[w] = job[v] => w = v
    /\ \A w \in Holders : job[w] \notin Queued
    /\ \A w \in Holders : fate[job[w]] = "none" <=> w \in Runners
    /\ \A t \in Queued : fate[t] = "none"
    /\ main \notin {"start", "interrupted"} =>
          \A t \in Tests : fate[t] = "none" => t \in Queued \cup Running

(* A test marked exclusive never has its process beside that of another    *)
(* test: schedule_jobs joins all workers before it starts last_t.          *)
ExclusiveAlone ==
    \A w, v \in Runners : job[w] \in Exclusive => w = v

(* When schedule_jobs has returned, what TestRunner reads from it (the     *)
(* failed targets, the number of tests run, the result of each test)       *)
(* agrees with how the processes really ended, although every thread       *)
(* writes to all three.                                                    *)
SummaryAgrees ==
    main = "returned" =>
       /\ failed_targets = {t \in Tests : fate[t] = "fail"}
       /\ num_of_run_tests = Cardinality({t \in Tests : fate[t] \in Verdicts})
       /\ \A t \in Tracked :
             tests_run_map[t] = CASE fate[t] = "pass" -> "SUCCESS"
                                  [] fate[t] = "fail" -> "FAILED"
                                  [] OTHER -> "-"

(* Which threads exist while schedule_jobs is where: workers are started   *)
(* in order, the exclusive worker only after all of them have ended, and   *)
(* none is left when schedule_jobs has returned; each takes jobs of its    *)
(* own queue only.                                                         *)
Lifecycle ==
    /\ main = "start" => /\ Queued = {}
                         /\ spawned = 0
                         /\ \A w \in Threads : pc[w] = "unborn"
                         /\ \A t \in Tests : fate[t] = "none"
    /\ main = "spawn" => spawned < NumWorkers
    /\ main \in {"join", "joinExclusive"} => spawned = NumWorkers
    /\ \A w \in Workers : spawned <= w => pc[w] = "unborn"
    /\ pc[LastWorker] # "unborn" =>
          /\ main \in {"joinExclusive", "returned", "interrupted"}
          /\ \A w \in Workers : ~Alive(w)
    /\ main = "joinExclusive" => pc[LastWorker] # "unborn"
    /\ main = "returned" => \A w \in Threads : ~Alive(w)
    /\ \A w \in Holders : job[w] \in Exclusive <=> w = LastWorker

(* At every moment failed_targets and tests_run_map agree with how the     *)
(* processes ended, up to what a worker still has to write for the test it *)
(* holds.                                                                  *)
ResultsAgree ==
    /\ \A w \in Holders \ Runners :
          /\ fate[job[w]] \in Verdicts
          /\ fate[job[w]] = "pass" <=> returncode[w] = 0
    /\ \A t \in Tests : t \in failed_targets <=>
          /\ fate[t] = "fail"
          /\ \A w \in Threads : pc[w] = "judge" => job[w] # t
    /\ \A t \in Tracked : tests_run_map[t] =
          IF \E w \in Threads : pc[w] \in {"judge", "record"} /\ job[w] = t
            THEN "-"
            ELSE CASE fate[t] = "pass" -> "SUCCESS"
                   [] fate[t] = "fail" -> "FAILED"
                   [] OTHER -> "-"

(* num_of_run_tests is the number of tests a worker is through with, and   *)
(* the holder of num_of_run_tests_lock has loaded the current count.       *)
CountAgrees ==
    /\ num_of_run_tests = Cardinality(Settled)
    /\ \A w \in Threads : pc[w] = "store" <=> count_lock = w
    /\ \A w \in Threads : pc[w] = "store" => seen[w] = num_of_run_tests

(* The inductive invariant of the proofs.                                  *)
SchedulerInv ==
    /\ TypeOK
    /\ EachTestInOnePlace
    /\ Lifecycle
    /\ ResultsAgree
    /\ CountAgrees

(* schedule_jobs returns with ordinary tests unrun only if every ordinary  *)
(* worker died of an exception, each with a test of its own, and with      *)
(* exclusive tests unrun only if the last worker did.                      *)
UnrunOnlyAfterLosses ==
    LET lost == {t \in Tests : fate[t] = "lost"}
    IN main = "returned" =>
          /\ job_queue # {} => Cardinality(lost \ Exclusive) = NumWorkers
          /\ exclusive_job_queue # {} => Cardinality(lost \cap Exclusive) = 1

(* What UnrunOnlyAfterLosses rests on: as long as a queue is not empty its *)
(* workers end only by an exception, so that the tests lost are as many as *)
(* the workers that have ended, and none of the workers was left out.      *)
LossesCounted ==
    LET lost == {t \in Tests : fate[t] = "lost"}
    IN /\ job_queue # {} =>
             Cardinality(lost \ Exclusive) = Cardinality({w \in Workers : pc[w] = "exit"})
       /\ exclusive_job_queue # {} =>
             Cardinality(lost \cap Exclusive) = IF pc[LastWorker] = "exit" THEN 1 ELSE 0
       /\ \A w \in Workers : w < spawned => pc[w] # "unborn"
       /\ main = "returned" =>
             /\ job_queue # {} => spawned = NumWorkers
             /\ exclusive_job_queue # {} => pc[LastWorker] # "unborn"

(* schedule_jobs keeps the promise of TestBatch.                           *)
Batch == INSTANCE TestBatch
           WITH running <- Running,
                phase <- CASE main = "returned" -> "closed"
                           [] main = "interrupted" -> "aborted"
                           [] OTHER -> "open"

ImplementsBatch == Batch!BatchSpec

(* blade test comes back with its summary unless it is interrupted.        *)
EventuallyReturns == <>(main \in {"returned", "interrupted"})

(* The empty() and get() of two workers are the only thing that can keep   *)
(* schedule_jobs from returning: whatever the tests do and whichever       *)
(* workers die of an exception, nothing else waits for ever.               *)
ReturnsOrHangs ==
    <>(\/ main \in {"returned", "interrupted"}
       \/ \E w \in Workers : pc[w] = "get" /\ job_queue = {})

(* Even when a worker hangs in get(), every test that is not exclusive is  *)
(* run, unless all ordinary workers die of an exception.                   *)
OrdinaryTestsRun ==
    \A t \in Tests \ Exclusive :
        <>(\/ fate[t] # "none"
           \/ main = "interrupted"
           \/ Cardinality({u \in Tests \ Exclusive : fate[u] = "lost"}) = NumWorkers)
=============================================================================
