------------------------ MODULE TestSchedulerProofs ------------------------
(***************************************************************************)
(* Proofs about TestScheduler, for every set of tests, every choice of     *)
(* exclusive tests and every number of workers.                            *)
(***************************************************************************)
EXTENDS TestScheduler, FiniteSetTheorems, TLAPS

(* __get_workers_num returns a natural number, and at least one worker     *)
(* when there is something to run.                                         *)
LEMMA NumWorkersNat ==
    /\ NumWorkers \in Nat
    /\ Tests # {} => NumWorkers >= 1
<1>1. Cardinality(Tests) \in Nat /\ (Tests # {} => Cardinality(Tests) # 0)
  BY TestsAssumption, FS_CardinalityType, FS_EmptySet
<1>2. QED
  BY <1>1, ConfigAssumption DEF NumWorkers, CappedJobs, MaxWorkers

(* The threads are the workers and the exclusive worker.                   *)
LEMMA ThreadsSplit ==
    /\ LastWorker \in Threads /\ LastWorker \notin Workers
    /\ \A w \in Threads : w \in Workers \/ w = LastWorker
    /\ \A w \in Workers : w \in Threads /\ w \in Nat /\ w < NumWorkers
    /\ \A n \in Nat : n < NumWorkers => n \in Workers
    /\ Free \notin Threads
  BY NumWorkersNat DEF Threads, Workers, LastWorker, Free

(* There are as many workers as __get_workers_num says.                    *)
LEMMA WorkersFinite == IsFiniteSet(Workers) /\ Cardinality(Workers) = NumWorkers
  BY NumWorkersNat, FS_Interval DEF Workers

(* Before schedule_jobs is called no thread exists and nothing is          *)
(* recorded.                                                               *)
LEMMA InitEstablishes == Init => SchedulerInv
<1> SUFFICES ASSUME Init PROVE SchedulerInv
  OBVIOUS
<1> USE ThreadsSplit, NumWorkersNat, TestsAssumption DEF Init
<1>1. TypeOK
  BY DEF TypeOK, Holding, Verdicts
<1>2. Holders = {} /\ Runners = {}
  BY DEF Holders, Runners, Holding
<1>3. EachTestInOnePlace
  BY <1>2 DEF EachTestInOnePlace, Queued
<1>4. Lifecycle
  BY <1>2 DEF Lifecycle, Queued
<1>5. Settled = {}
  BY DEF Settled, Verdicts
<1>6. ResultsAgree
  BY <1>2 DEF ResultsAgree
<1>7. CountAgrees
  BY <1>5, FS_EmptySet DEF CountAgrees
<1>8. QED
  BY <1>1, <1>3, <1>4, <1>6, <1>7 DEF SchedulerInv

(* Type correctness is preserved by every step.                            *)
LEMMA NextTypeOK == SchedulerInv /\ [Next]_vars => TypeOK'
<1> SUFFICES ASSUME SchedulerInv, [Next]_vars PROVE TypeOK'
  OBVIOUS
<1> USE ThreadsSplit, NumWorkersNat, TestsAssumption, ConfigAssumption
    DEF TypeOK, Holding, Verdicts, shared, locals, queues
<1>0. TypeOK /\ Lifecycle
  BY DEF SchedulerInv
<1>1. CASE FillQueues
  BY <1>0, <1>1 DEF FillQueues
<1>2. CASE SpawnWorker
  <2>1. spawned \in Workers /\ spawned \in Threads /\ pc[spawned] = "unborn"
    BY <1>0, <1>2 DEF SpawnWorker, Lifecycle, Workers
  <2>2. QED
    BY <1>0, <1>2, <2>1 DEF SpawnWorker, Workers
<1>3. CASE JoinWorkers
  <2>1. pc[LastWorker] = "unborn"
    BY <1>0, <1>3 DEF JoinWorkers, Lifecycle
  <2>2. QED
    BY <1>0, <1>3, <2>1 DEF JoinWorkers
<1>4. CASE JoinExclusive
  BY <1>0, <1>4 DEF JoinExclusive
<1>5. CASE Interrupt
  BY <1>0, <1>5 DEF Interrupt
<1>6. ASSUME NEW w \in Threads, ProcessCommand(w) PROVE TypeOK'
  <2>1. CASE CheckQueue(w)
    BY <1>0, <2>1 DEF CheckQueue
  <2>2. CASE GetJob(w)
    BY <1>0, <2>2 DEF GetJob, QueueOf
  <2>3. CASE RunJob(w)
    BY <1>0, <2>3 DEF RunJob
  <2>4. CASE CreateProcessError(w)
    BY <1>0, <2>4 DEF CreateProcessError
  <2>5. CASE JobException(w)
    BY <1>0, <2>5 DEF JobException
  <2>6. CASE JudgeJob(w)
    BY <1>0, <2>6 DEF JudgeJob
  <2>7. CASE RecordResult(w)
    BY <1>0, <2>7 DEF RecordResult, Result
  <2>8. CASE CountLoad(w)
    BY <1>0, <2>8 DEF CountLoad
  <2>9. CASE CountStore(w)
    BY <1>0, <2>9 DEF CountStore
  <2>10. QED
    BY <1>6, <2>1, <2>2, <2>3, <2>4, <2>5, <2>6, <2>7, <2>8, <2>9
       DEF ProcessCommand
<1>7. CASE UNCHANGED vars
  BY <1>0, <1>7 DEF vars
<1>8. QED
  BY <1>1, <1>2, <1>3, <1>4, <1>5, <1>6, <1>7
     DEF Next, ScheduleJobs, Terminated

(* No step puts a test in two places or drops it.                          *)
LEMMA NextOnePlace == SchedulerInv /\ [Next]_vars => EachTestInOnePlace'
<1> SUFFICES ASSUME SchedulerInv, [Next]_vars PROVE EachTestInOnePlace'
  OBVIOUS
<1> USE ThreadsSplit, TestsAssumption
    DEF EachTestInOnePlace, TypeOK, Holders, Runners, Running, Queued,
        Holding, Verdicts, shared, locals, queues
<1>0. TypeOK /\ EachTestInOnePlace /\ Lifecycle /\ TypeOK'
  BY NextTypeOK DEF SchedulerInv
<1>1. CASE FillQueues
  BY <1>0, <1>1 DEF FillQueues, Lifecycle
<1>2. CASE SpawnWorker
  BY <1>0, <1>2 DEF SpawnWorker
<1>3. CASE JoinWorkers
  BY <1>0, <1>3 DEF JoinWorkers
<1>4. CASE JoinExclusive
  BY <1>0, <1>4 DEF JoinExclusive
<1>5. CASE Interrupt
  BY <1>0, <1>5 DEF Interrupt
<1>6. ASSUME NEW w \in Threads, ProcessCommand(w) PROVE EachTestInOnePlace'
  <2>1. CASE CheckQueue(w)
    BY <1>0, <2>1 DEF CheckQueue, QueueOf
  <2>2. CASE GetJob(w)
    BY <1>0, <2>2 DEF GetJob, QueueOf
  <2>3. CASE RunJob(w)
    BY <1>0, <2>3 DEF RunJob
  <2>4. CASE CreateProcessError(w)
    BY <1>0, <2>4 DEF CreateProcessError
  <2>5. CASE JobException(w)
    BY <1>0, <2>5 DEF JobException
  <2>6. CASE JudgeJob(w)
    BY <1>0, <2>6 DEF JudgeJob
  <2>7. CASE RecordResult(w)
    BY <1>0, <2>7 DEF RecordResult
  <2>8. CASE CountLoad(w)
    BY <1>0, <2>8 DEF CountLoad
  <2>9. CASE CountStore(w)
    BY <1>0, <2>9 DEF CountStore
  <2>10. QED
    BY <1>6, <2>1, <2>2, <2>3, <2>4, <2>5, <2>6, <2>7, <2>8, <2>9
       DEF ProcessCommand
<1>7. CASE UNCHANGED vars
  BY <1>0, <1>7 DEF vars
<1>8. QED
  BY <1>1, <1>2, <1>3, <1>4, <1>5, <1>6, <1>7
     DEF Next, ScheduleJobs, Terminated

(* Threads come and go with the phases of schedule_jobs.                    *)
LEMMA NextLifecycle == SchedulerInv /\ [Next]_vars => Lifecycle'
<1> SUFFICES ASSUME SchedulerInv, [Next]_vars PROVE Lifecycle'
  OBVIOUS
<1> USE ThreadsSplit, NumWorkersNat, TestsAssumption
    DEF Lifecycle, TypeOK, Holders, Queued, Alive, Holding, Verdicts,
        shared, locals, queues
<1>0. TypeOK /\ Lifecycle /\ TypeOK'
  BY NextTypeOK DEF SchedulerInv
<1>1. CASE FillQueues
  BY <1>0, <1>1 DEF FillQueues
<1>2. CASE SpawnWorker
  BY <1>0, <1>2 DEF SpawnWorker
<1>3. CASE JoinWorkers
  BY <1>0, <1>3 DEF JoinWorkers
<1>4. CASE JoinExclusive
  BY <1>0, <1>4 DEF JoinExclusive
<1>5. CASE Interrupt
  BY <1>0, <1>5 DEF Interrupt
<1>6. ASSUME NEW w \in Threads, ProcessCommand(w) PROVE Lifecycle'
  <2>1. CASE CheckQueue(w)
    BY <1>0, <2>1 DEF CheckQueue, QueueOf
  <2>2. CASE GetJob(w)
    BY <1>0, <2>2 DEF GetJob, QueueOf
  <2>3. CASE RunJob(w)
    BY <1>0, <2>3 DEF RunJob
  <2>4. CASE CreateProcessError(w)
    BY <1>0, <2>4 DEF CreateProcessError
  <2>5. CASE JobException(w)
    BY <1>0, <2>5 DEF JobException
  <2>6. CASE JudgeJob(w)
    BY <1>0, <2>6 DEF JudgeJob
  <2>7. CASE RecordResult(w)
    BY <1>0, <2>7 DEF RecordResult
  <2>8. CASE CountLoad(w)
    BY <1>0, <2>8 DEF CountLoad
  <2>9. CASE CountStore(w)
    BY <1>0, <2>9 DEF CountStore
  <2>10. QED
    BY <1>6, <2>1, <2>2, <2>3, <2>4, <2>5, <2>6, <2>7, <2>8, <2>9
       DEF ProcessCommand
<1>7. CASE UNCHANGED vars
  BY <1>0, <1>7 DEF vars
<1>8. QED
  BY <1>1, <1>2, <1>3, <1>4, <1>5, <1>6, <1>7
     DEF Next, ScheduleJobs, Terminated

(* Every verdict reaches failed_targets and tests_run_map unchanged.        *)
LEMMA NextResultsAgree == SchedulerInv /\ [Next]_vars => ResultsAgree'
<1> SUFFICES ASSUME SchedulerInv, [Next]_vars PROVE ResultsAgree'
  OBVIOUS
<1> USE ThreadsSplit, TestsAssumption, ConfigAssumption
    DEF ResultsAgree, TypeOK, EachTestInOnePlace, Holders, Runners, Queued,
        Holding, Verdicts, shared, locals, queues
<1>0. TypeOK /\ EachTestInOnePlace /\ Lifecycle /\ ResultsAgree /\ TypeOK'
  BY NextTypeOK DEF SchedulerInv
<1>1. CASE FillQueues
  BY <1>0, <1>1 DEF FillQueues
<1>2. CASE SpawnWorker
  BY <1>0, <1>2 DEF SpawnWorker
<1>3. CASE JoinWorkers
  BY <1>0, <1>3 DEF JoinWorkers
<1>4. CASE JoinExclusive
  BY <1>0, <1>4 DEF JoinExclusive
<1>5. CASE Interrupt
  BY <1>0, <1>5 DEF Interrupt
<1>6. ASSUME NEW w \in Threads, ProcessCommand(w) PROVE ResultsAgree'
  <2>1. CASE CheckQueue(w)
    BY <1>0, <2>1 DEF CheckQueue, QueueOf
  <2>2. CASE GetJob(w)
    BY <1>0, <2>2 DEF GetJob, QueueOf
  <2>3. CASE RunJob(w)
    BY <1>0, <2>3 DEF RunJob
  <2>4. CASE CreateProcessError(w)
    BY <1>0, <2>4 DEF CreateProcessError
  <2>5. CASE JobException(w)
    BY <1>0, <2>5 DEF JobException
  <2>6. CASE JudgeJob(w)
    BY <1>0, <2>6 DEF JudgeJob
  <2>7. CASE RecordResult(w)
    BY <1>0, <2>7 DEF RecordResult, Result
  <2>8. CASE CountLoad(w)
    BY <1>0, <2>8 DEF CountLoad
  <2>9. CASE CountStore(w)
    BY <1>0, <2>9 DEF CountStore
  <2>10. QED
    BY <1>6, <2>1, <2>2, <2>3, <2>4, <2>5, <2>6, <2>7, <2>8, <2>9
       DEF ProcessCommand
<1>7. CASE UNCHANGED vars
  BY <1>0, <1>7 DEF vars
<1>8. QED
  BY <1>1, <1>2, <1>3, <1>4, <1>5, <1>6, <1>7
     DEF Next, ScheduleJobs, Terminated

(* The count follows the tests that workers are through with: only         *)
(* CountStore adds one, and it stores one more than the current count      *)
(* because it has held num_of_run_tests_lock since it loaded it.           *)
LEMMA NextCountAgrees == SchedulerInv /\ [Next]_vars => CountAgrees'
<1> SUFFICES ASSUME SchedulerInv, [Next]_vars PROVE CountAgrees'
  OBVIOUS
<1> USE ThreadsSplit, TestsAssumption, ConfigAssumption
    DEF TypeOK, Holding, Verdicts, shared, locals, queues
<1>0. /\ TypeOK /\ EachTestInOnePlace /\ Lifecycle /\ ResultsAgree /\ CountAgrees
      /\ TypeOK'
  BY NextTypeOK DEF SchedulerInv
<1> DEFINE LockAgrees ==
      /\ \A v \in Threads : pc[v] = "store" <=> count_lock = v
      /\ \A v \in Threads : pc[v] = "store" => seen[v] = num_of_run_tests
<1>A. SUFFICES num_of_run_tests' = Cardinality(Settled') /\ LockAgrees'
  BY DEF CountAgrees
<1>B. num_of_run_tests = Cardinality(Settled) /\ LockAgrees
  BY <1>0 DEF CountAgrees
<1> HIDE DEF LockAgrees
<1>1. ASSUME ScheduleJobs \/ Interrupt \/ UNCHANGED vars
      PROVE  num_of_run_tests' = Cardinality(Settled') /\ LockAgrees'
  <2>1. /\ UNCHANGED <<locals, shared>>
        /\ \A v \in Threads : pc[v] = pc'[v] \/ (pc[v] = "unborn" /\ pc'[v] = "check")
    BY <1>0, <1>1 DEF ScheduleJobs, FillQueues, SpawnWorker, JoinWorkers,
       JoinExclusive, Interrupt, vars, Lifecycle
  <2>2. Settled' = Settled
    BY <2>1, <1>0 DEF Settled, Holders
  <2>3. LockAgrees'
    BY <2>1, <1>B, <1>0 DEF LockAgrees
  <2>4. QED
    BY <2>1, <2>2, <2>3, <1>B
<1>2. ASSUME NEW w \in Threads, ProcessCommand(w)
      PROVE  num_of_run_tests' = Cardinality(Settled') /\ LockAgrees'
  <2>1. CASE CountStore(w)
    <3>1. Settled' = Settled \cup {job[w]} /\ job[w] \notin Settled
      BY <1>0, <2>1 DEF CountStore, Settled, Holders, Runners,
         EachTestInOnePlace, ResultsAgree
    <3>2. IsFiniteSet(Settled)
      BY FS_Subset DEF Settled
    <3>3. Cardinality(Settled') = Cardinality(Settled) + 1
      BY <3>1, <3>2, FS_AddElement
    <3>4. num_of_run_tests' = num_of_run_tests + 1
      BY <2>1, <1>B DEF CountStore, LockAgrees
    <3>5. LockAgrees'
      BY <2>1, <1>B, <1>0 DEF CountStore, LockAgrees
    <3>6. QED
      BY <3>3, <3>4, <3>5, <1>B
  <2>2. CASE CountLoad(w)
    <3>1. Settled' = Settled
      BY <1>0, <2>2 DEF CountLoad, Settled, Holders
    <3>2. LockAgrees'
      BY <2>2, <1>B, <1>0 DEF CountLoad, LockAgrees
    <3>3. QED
      BY <3>1, <3>2, <1>B, <2>2 DEF CountLoad
  <2>3. CASE \/ CheckQueue(w) \/ GetJob(w) \/ RunJob(w) \/ CreateProcessError(w)
             \/ JobException(w) \/ JudgeJob(w) \/ RecordResult(w)
    <3>1. /\ UNCHANGED <<num_of_run_tests, count_lock, seen>>
          /\ pc[w] # "store" /\ pc'[w] # "store"
          /\ \A v \in Threads : v # w => pc'[v] = pc[v] /\ job'[v] = job[v]
      BY <1>0, <2>3 DEF CheckQueue, GetJob, RunJob, CreateProcessError,
         JobException, JudgeJob, RecordResult
    <3>2. LockAgrees'
      BY <3>1, <1>B, <1>0 DEF LockAgrees
    <3>3. Settled' = Settled
      <4>1. CASE CheckQueue(w)
        BY <4>1, <1>0 DEF CheckQueue, Settled, Holders
      <4>2. CASE GetJob(w)
        BY <4>2, <1>0 DEF GetJob, QueueOf, Settled, Holders, EachTestInOnePlace, Queued
      <4>3. CASE RunJob(w)
        BY <4>3, <1>0 DEF RunJob, Settled, Holders
      <4>4. CASE CreateProcessError(w)
        BY <4>4, <1>0 DEF CreateProcessError, Settled, Holders
      <4>5. CASE JobException(w)
        BY <4>5, <1>0 DEF JobException, Settled, Holders, Runners, EachTestInOnePlace
      <4>6. CASE JudgeJob(w)
        BY <4>6, <1>0 DEF JudgeJob, Settled, Holders
      <4>7. CASE RecordResult(w)
        BY <4>7, <1>0 DEF RecordResult, Settled, Holders
      <4>8. QED
        BY <2>3, <4>1, <4>2, <4>3, <4>4, <4>5, <4>6, <4>7
    <3>4. QED
      BY <3>1, <3>2, <3>3, <1>B
  <2>4. QED
    BY <1>2, <2>1, <2>2, <2>3 DEF ProcessCommand
<1>3. QED
  BY <1>1, <1>2 DEF Next, Terminated

(* The inductive invariant holds in every reachable state.                 *)
THEOREM Invariance == Spec => []SchedulerInv
<1>1. SchedulerInv /\ [Next]_vars => SchedulerInv'
  BY NextTypeOK, NextOnePlace, NextLifecycle, NextResultsAgree, NextCountAgrees
     DEF SchedulerInv
<1>2. QED
  BY InitEstablishes, <1>1, PTL DEF Spec

(* schedule_jobs keeps every attribute in its type, for every batch of     *)
(* tests and every number of workers.                                      *)
THEOREM TypeCorrect == Spec => []TypeOK
  BY Invariance, PTL DEF SchedulerInv

(* No test is run twice and none is lost between its queue and its result, *)
(* however the workers interleave.                                         *)
THEOREM OnePlace == Spec => []EachTestInOnePlace
  BY Invariance, PTL DEF SchedulerInv

(* An exclusive test is alone: the thread that runs it is the last worker, *)
(* which exists only when all others have ended.                           *)
THEOREM ExclusiveTestsRunAlone == Spec => []ExclusiveAlone
<1>1. SchedulerInv => ExclusiveAlone
  BY ThreadsSplit DEF SchedulerInv, ExclusiveAlone, Lifecycle, Runners, Holders,
     Holding, Alive
<1>2. QED
  BY Invariance, <1>1, PTL

(* The summary that schedule_jobs leaves behind is exact.                  *)
THEOREM SummaryIsExact == Spec => []SummaryAgrees
<1>1. SchedulerInv => SummaryAgrees
  <2> SUFFICES ASSUME SchedulerInv, main = "returned"
               PROVE  SummaryAgrees
    BY DEF SummaryAgrees
  <2> USE DEF SchedulerInv, Holding
  <2>1. Holders = {} /\ \A w \in Threads : pc[w] \notin {"judge", "record"}
    BY DEF Lifecycle, Alive, Holders
  <2>2. failed_targets = {t \in Tests : fate[t] = "fail"}
    BY <2>1 DEF ResultsAgree, TypeOK
  <2>3. num_of_run_tests = Cardinality({t \in Tests : fate[t] \in Verdicts})
    <3>1. Settled = {t \in Tests : fate[t] \in Verdicts}
      BY <2>1 DEF Settled
    <3>2. QED
      BY <3>1 DEF CountAgrees
  <2>4. \A t \in Tracked :
             tests_run_map[t] = CASE fate[t] = "pass" -> "SUCCESS"
                                  [] fate[t] = "fail" -> "FAILED"
                                  [] OTHER -> "-"
    BY <2>1 DEF ResultsAgree
  <2>5. QED
    BY <2>2, <2>3, <2>4 DEF SummaryAgrees
<1>2. QED
  BY Invariance, <1>1, PTL

(* Only an exception ends a worker whose queue is not empty, and it takes  *)
(* exactly one test with it.                                               *)
LEMMA NextLosses ==
    SchedulerInv /\ SchedulerInv' /\ LossesCounted /\ [Next]_vars => LossesCounted'
<1> SUFFICES ASSUME SchedulerInv, SchedulerInv', LossesCounted, [Next]_vars
             PROVE  LossesCounted'
  OBVIOUS
<1> DEFINE Lost == {t \in Tests : fate[t] = "lost"}
           Dead == {w \in Workers : pc[w] = "exit"}
           Ordinary == job_queue # {} => Cardinality(Lost \ Exclusive) = Cardinality(Dead)
           Last == exclusive_job_queue # {} =>
                      Cardinality(Lost \cap Exclusive) = IF pc[LastWorker] = "exit" THEN 1 ELSE 0
           Born == \A w \in Workers : w < spawned => pc[w] # "unborn"
           Left == main = "returned" =>
                      /\ job_queue # {} => spawned = NumWorkers
                      /\ exclusive_job_queue # {} => pc[LastWorker] # "unborn"
<1> USE ThreadsSplit, NumWorkersNat, TestsAssumption, ConfigAssumption
    DEF shared, locals, queues
<1>0. /\ TypeOK /\ EachTestInOnePlace /\ Lifecycle /\ TypeOK' /\ Lifecycle'
      /\ Ordinary /\ Last /\ Born /\ Left
  BY DEF SchedulerInv, LossesCounted
<1>S. SUFFICES Ordinary' /\ Last' /\ Born' /\ Left'
  BY DEF LossesCounted
<1>1. CASE FillQueues
  <2>1. Lost' = {} /\ Dead' = {} /\ pc'[LastWorker] # "exit"
    BY <1>0, <1>1 DEF FillQueues, Lifecycle, TypeOK
  <2>2. Ordinary' /\ Last'
    BY <2>1, FS_EmptySet
  <2>3. Born' /\ Left'
    BY <1>0, <1>1 DEF FillQueues, TypeOK
  <2>4. QED
    BY <2>2, <2>3
<1>2. CASE SpawnWorker \/ JoinWorkers \/ JoinExclusive \/ Interrupt \/ UNCHANGED vars
  <2>1. /\ UNCHANGED <<job_queue, exclusive_job_queue, fate>>
        /\ \A w \in Threads : pc'[w] = "exit" <=> pc[w] = "exit"
    BY <1>0, <1>2 DEF SpawnWorker, JoinWorkers, JoinExclusive, Interrupt, vars,
       TypeOK, Lifecycle
  <2>2. Lost' = Lost /\ Dead' = Dead
    BY <2>1
  <2>3. Ordinary' /\ Last'
    BY <2>1, <2>2, <1>0
  <2>4. Born'
    BY <1>0, <1>2 DEF SpawnWorker, JoinWorkers, JoinExclusive, Interrupt, vars, TypeOK
  <2>5. Left'
    BY <1>0, <1>2 DEF SpawnWorker, JoinWorkers, JoinExclusive, Interrupt, vars,
       TypeOK, Lifecycle
  <2>6. QED
    BY <2>3, <2>4, <2>5
<1>3. ASSUME NEW w \in Threads, ProcessCommand(w)
      PROVE  Ordinary' /\ Last' /\ Born' /\ Left'
  <2>1. /\ UNCHANGED <<main, spawned>>
        /\ pc[w] # "unborn" /\ pc[w] # "exit" /\ pc'[w] # "unborn"
        /\ \A v \in Threads : v # w => pc'[v] = pc[v]
        /\ job_queue' \subseteq job_queue
        /\ exclusive_job_queue' \subseteq exclusive_job_queue
    BY <1>0, <1>3 DEF ProcessCommand, CheckQueue, GetJob, RunJob,
       CreateProcessError, JobException, JudgeJob, RecordResult, CountLoad,
       CountStore, TypeOK
  <2>2. Born'
    BY <2>1, <1>0
  <2>3. Left'
    BY <2>1, <1>0
  <2>4. CASE JobException(w)
    <3>1. /\ job[w] \in Tests /\ job[w] \notin Lost
          /\ Lost' = Lost \cup {job[w]}
          /\ pc'[w] = "exit"
          /\ UNCHANGED <<job_queue, exclusive_job_queue>>
          /\ job[w] \in Exclusive <=> w = LastWorker
      BY <2>4, <1>0 DEF JobException, TypeOK, EachTestInOnePlace, Lifecycle,
         Holders, Runners, Holding
    <3>2. IsFiniteSet(Lost \ Exclusive) /\ IsFiniteSet(Lost \cap Exclusive)
      BY FS_Subset
    <3>3. IsFiniteSet(Dead)
      BY WorkersFinite, FS_Subset
    <3>4. CASE w = LastWorker
      <4>1. Dead' = Dead /\ Lost' \ Exclusive = Lost \ Exclusive
        BY <3>1, <3>4, <2>1
      <4>2. /\ Lost' \cap Exclusive = (Lost \cap Exclusive) \cup {job[w]}
            /\ job[w] \notin Lost \cap Exclusive
        BY <3>1, <3>4
      <4>3. Cardinality(Lost' \cap Exclusive) = Cardinality(Lost \cap Exclusive) + 1
        BY <4>2, <3>2, FS_AddElement
      <4>4. pc[LastWorker] # "exit" /\ pc'[LastWorker] = "exit"
        BY <3>1, <3>4, <2>1
      <4>5. Ordinary'
        BY <4>1, <3>1, <1>0
      <4>6. Last'
        BY <4>3, <4>4, <3>1, <1>0
      <4>7. QED
        BY <4>5, <4>6, <2>2, <2>3
    <3>5. CASE w # LastWorker
      <4>1. /\ Dead' = Dead \cup {w} /\ w \notin Dead
            /\ Lost' \cap Exclusive = Lost \cap Exclusive
            /\ pc'[LastWorker] = pc[LastWorker]
        BY <3>1, <3>5, <2>1
      <4>2. /\ Lost' \ Exclusive = (Lost \ Exclusive) \cup {job[w]}
            /\ job[w] \notin Lost \ Exclusive
        BY <3>1, <3>5
      <4>3. Cardinality(Lost' \ Exclusive) = Cardinality(Lost \ Exclusive) + 1
        BY <4>2, <3>2, FS_AddElement
      <4>4. Cardinality(Dead') = Cardinality(Dead) + 1
        BY <4>1, <3>3, FS_AddElement
      <4>5. QED
        BY <4>1, <4>3, <4>4, <3>1, <2>2, <2>3, <1>0
    <3>6. QED
      BY <3>4, <3>5
  <2>5. CASE ~JobException(w)
    <3>1. Lost' = Lost
      <4>1. CASE RunJob(w) \/ CreateProcessError(w)
        BY <4>1, <1>0 DEF RunJob, CreateProcessError, TypeOK,
           EachTestInOnePlace, Holders, Runners, Holding
      <4>2. CASE ~(RunJob(w) \/ CreateProcessError(w))
        BY <4>2, <2>5, <1>3 DEF ProcessCommand, CheckQueue, GetJob, JudgeJob,
           RecordResult, CountLoad, CountStore
      <4>3. QED
        BY <4>1, <4>2
    <3>2. pc'[w] = "exit" => QueueOf(w) = {} /\ UNCHANGED queues
      BY <2>5, <1>3, <1>0 DEF ProcessCommand, CheckQueue, GetJob, RunJob,
         CreateProcessError, JudgeJob, RecordResult, CountLoad, CountStore, TypeOK
    <3>3. Ordinary'
      <4>1. job_queue' # {} => Dead' = Dead
        BY <2>1, <3>2 DEF QueueOf
      <4>2. QED
        BY <4>1, <3>1, <2>1, <1>0
    <3>4. Last'
      <4>1. exclusive_job_queue' # {} =>
               (pc'[LastWorker] = "exit" <=> pc[LastWorker] = "exit")
        BY <2>1, <3>2 DEF QueueOf
      <4>2. QED
        BY <4>1, <3>1, <2>1, <1>0
    <3>5. QED
      BY <2>2, <2>3, <3>3, <3>4
  <2>6. QED
    BY <2>4, <2>5
<1>4. QED
  BY <1>1, <1>2, <1>3 DEF Next, ScheduleJobs, Terminated

(* Tests are left unrun by a schedule_jobs that returns only if all the    *)
(* workers of their queue have died of an exception, each with a test.     *)
THEOREM UnrunTestsAreExplained == Spec => []UnrunOnlyAfterLosses
<1>1. Init => LossesCounted
  BY ThreadsSplit DEF Init, LossesCounted
<1>2. SchedulerInv /\ LossesCounted => UnrunOnlyAfterLosses
  <2> SUFFICES ASSUME SchedulerInv, LossesCounted, main = "returned"
               PROVE  UnrunOnlyAfterLosses
    BY DEF UnrunOnlyAfterLosses
  <2> DEFINE Lost == {t \in Tests : fate[t] = "lost"}
             Dead == {w \in Workers : pc[w] = "exit"}
  <2>1. \A w \in Threads : pc[w] \in {"unborn", "exit"}
    BY DEF SchedulerInv, Lifecycle, Alive
  <2>2. job_queue # {} => Cardinality(Lost \ Exclusive) = NumWorkers
    <3>1. SUFFICES ASSUME job_queue # {} PROVE Cardinality(Dead) = NumWorkers
      BY DEF LossesCounted
    <3>2. Dead = Workers
      BY <2>1, <3>1, ThreadsSplit DEF LossesCounted
    <3>3. QED
      BY <3>2, WorkersFinite
  <2>3. exclusive_job_queue # {} => Cardinality(Lost \cap Exclusive) = 1
    BY <2>1, ThreadsSplit DEF LossesCounted
  <2>4. QED
    BY <2>2, <2>3 DEF UnrunOnlyAfterLosses
<1>3. QED
  BY <1>1, <1>2, NextLosses, Invariance, PTL DEF Spec

(* A step of the scheduler is a step of TestBatch or changes nothing that  *)
(* TestBatch sees: get() begins a test, the end of its process finishes    *)
(* it, the last join closes the batch and Ctrl-C aborts it.                *)
LEMMA StepSimulates ==
    SchedulerInv /\ SchedulerInv' /\ [Next]_vars
        => [Batch!BatchNext]_(Batch!batchVars)
<1> SUFFICES ASSUME SchedulerInv, SchedulerInv', [Next]_vars
             PROVE  [Batch!BatchNext]_(Batch!batchVars)
  OBVIOUS
<1> DEFINE Phase == CASE main = "returned" -> "closed"
                      [] main = "interrupted" -> "aborted"
                      [] OTHER -> "open"
<1> USE ThreadsSplit, TestsAssumption DEF shared, locals, queues
<1>0. TypeOK /\ EachTestInOnePlace /\ Lifecycle /\ TypeOK' /\ Lifecycle'
  BY DEF SchedulerInv
<1>1. ASSUME Running' = Running, fate' = fate, Phase' = Phase
      PROVE  [Batch!BatchNext]_(Batch!batchVars)
  BY <1>1 DEF Batch!batchVars
<1>2. ASSUME Running' = Running, fate' = fate, Phase = "open",
             Phase' = "closed" => Running = {}, Phase' \in {"closed", "aborted"}
      PROVE  [Batch!BatchNext]_(Batch!batchVars)
  BY <1>2 DEF Batch!BatchNext, Batch!Close, Batch!Abort
<1>3. main' = "returned" => Running' = {}
  BY <1>0 DEF Lifecycle, Alive, Running, Runners
<1>4. ASSUME ScheduleJobs \/ Interrupt \/ UNCHANGED vars
      PROVE  [Batch!BatchNext]_(Batch!batchVars)
  <2>1. fate' = fate
    BY <1>4 DEF ScheduleJobs, FillQueues, SpawnWorker, JoinWorkers,
       JoinExclusive, Interrupt, vars
  <2>2. Running' = Running
    <3>1. job' = job /\ \A v \in Threads : pc'[v] = "run" <=> pc[v] = "run"
      BY <1>4, <1>0 DEF ScheduleJobs, FillQueues, SpawnWorker, JoinWorkers,
         JoinExclusive, Interrupt, vars, TypeOK, Lifecycle
    <3>2. QED
      BY <3>1 DEF Running, Runners
  <2>3. main' = main \/ main \notin {"returned", "interrupted"}
    BY <1>4 DEF ScheduleJobs, FillQueues, SpawnWorker, JoinWorkers,
       JoinExclusive, Interrupt, vars
  <2>4. QED
    BY <2>1, <2>2, <2>3, <1>1, <1>2, <1>3
<1>5. ASSUME NEW w \in Threads, ProcessCommand(w)
      PROVE  [Batch!BatchNext]_(Batch!batchVars)
  <2>0. main' = main /\ Phase' = Phase
    BY <1>5 DEF ProcessCommand, CheckQueue, GetJob, RunJob, CreateProcessError,
       JobException, JudgeJob, RecordResult, CountLoad, CountStore
  <2>1. CASE GetJob(w)
    <3>1. PICK t \in QueueOf(w) :
             /\ job' = [job EXCEPT ![w] = t]
             /\ pc' = [pc EXCEPT ![w] = "run"]
      BY <2>1 DEF GetJob
    <3>2. t \in Tests /\ t \in Queued /\ fate[t] = "none" /\ fate' = fate
      BY <2>1, <3>1, <1>0 DEF GetJob, QueueOf, Queued, TypeOK, EachTestInOnePlace
    <3>3. pc[w] = "get" /\ main # "returned"
      BY <2>1, <1>0 DEF GetJob, Lifecycle, Alive
    <3>4. t \notin Running
      BY <3>2, <1>0 DEF EachTestInOnePlace, Running, Runners, Holders, Holding
    <3>5. Running' = Running \cup {t}
      BY <3>1, <3>3, <1>0 DEF Running, Runners, TypeOK
    <3>6. t \in Exclusive => Running = {}
      <4>1. t \in Exclusive => w = LastWorker
        BY <1>0 DEF QueueOf, TypeOK
      <4>2. w = LastWorker => \A v \in Threads : pc[v] # "run"
        BY <3>3, <1>0 DEF Lifecycle, Alive
      <4>3. QED
        BY <4>1, <4>2 DEF Running, Runners
    <3>7. Running \cap Exclusive = {}
      <4>1. SUFFICES ASSUME NEW v \in Runners, job[v] \in Exclusive PROVE FALSE
        BY DEF Running
      <4>2. v = LastWorker /\ v # w /\ v \in Threads /\ pc[v] = "run"
        BY <4>1, <3>3, <1>0 DEF Lifecycle, Holders, Holding, Runners
      <4>3. QED
        BY <4>2, <3>3, <1>0 DEF Lifecycle, Alive
    <3>8. Batch!Begin(t)
      BY <2>0, <3>2, <3>3, <3>4, <3>5, <3>6, <3>7 DEF Batch!Begin
    <3>9. QED
      BY <3>2, <3>8 DEF Batch!BatchNext
  <2>2. CASE RunJob(w) \/ CreateProcessError(w) \/ JobException(w)
    <3>1. /\ pc[w] = "run" /\ pc'[w] # "run"
          /\ \A v \in Threads : v # w => pc'[v] = pc[v] /\ job'[v] = job[v]
          /\ \E f \in {"pass", "fail", "lost"} : fate' = [fate EXCEPT ![job[w]] = f]
      BY <2>2, <1>0 DEF RunJob, CreateProcessError, JobException, TypeOK
    <3>2. job[w] \in Running /\ job[w] \in Tests
      BY <3>1, <1>0 DEF Running, Runners, TypeOK, Holding
    <3>3. \A v \in Runners : job[v] = job[w] => v = w
      BY <3>1, <1>0 DEF EachTestInOnePlace, Runners, Holders, Holding
    <3>4. Running' = Running \ {job[w]}
      BY <3>1, <3>3 DEF Running, Runners
    <3>5. Batch!Finish(job[w])
      BY <2>0, <3>1, <3>2, <3>4 DEF Batch!Finish, Batch!Fates
    <3>6. QED
      BY <3>2, <3>5 DEF Batch!BatchNext
  <2>3. CASE \/ CheckQueue(w) \/ JudgeJob(w) \/ RecordResult(w)
             \/ CountLoad(w) \/ CountStore(w)
    <3>1. /\ fate' = fate
          /\ \A v \in Threads : pc'[v] = "run" <=> pc[v] = "run"
          /\ \A v \in Threads : pc[v] = "run" => job'[v] = job[v]
      BY <2>3, <1>0 DEF CheckQueue, JudgeJob, RecordResult, CountLoad, CountStore,
         TypeOK
    <3>2. Running' = Running
      BY <3>1 DEF Running, Runners
    <3>3. QED
      BY <2>0, <3>1, <3>2, <1>1
  <2>4. QED
    BY <1>5, <2>1, <2>2, <2>3 DEF ProcessCommand
<1>6. QED
  BY <1>4, <1>5 DEF Next, Terminated

(* The threads, queues and locks of schedule_jobs implement the batch that *)
(* TestRunner relies on.                                                   *)
THEOREM SchedulerImplementsBatch == Spec => ImplementsBatch
<1>1. Init => Batch!BatchInit
  BY ThreadsSplit DEF Init, Batch!BatchInit, Running, Runners
<1>2. QED
  BY <1>1, StepSimulates, Invariance, PTL
     DEF Spec, ImplementsBatch, Batch!BatchSpec
=============================================================================
