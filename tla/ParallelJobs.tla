---------------------------- MODULE ParallelJobs ----------------------------
(***************************************************************************)
(* SCons.Job.Parallel, the build that blade starts with "scons -j N": the  *)
(* main thread asks the Taskmaster for tasks and hands them to N worker    *)
(* threads over one queue, and takes their results from another.  A worker *)
(* first looks for the targets of its task in the cache, which the main    *)
(* thread fills and, through ScacheManager, purges.                        *)
(***************************************************************************)
EXTENDS Taskmaster, ScacheManager

CONSTANTS Worker

ASSUME WorkerAssumption ==
    /\ IsFiniteSet(Worker) /\ Worker # {}
    /\ \A b \in Builds : b.cached \subseteq Node /\ b.shared \in BOOLEAN

VARIABLES main,           \* what the main thread does next, see Steps
          node,           \* the candidate it is looking at
          children_not_ready,
          jobs,
          requestQueue,   \* the targets of tasks, or None
          resultsQueue,
          worker,         \* what each worker is doing
          interrupted,
          exit_status,    \* of BuildTask, 0 or 2
          cleanup_error,  \* that Taskmaster.cleanup has raised a UserError
          cache,          \* the nodes whose files are in the cache
          count,          \* of Progressor, modulo Interval
          starts,         \* history: how often a node has been dispatched
          retrieved       \* history: the nodes that were got from the cache

walk == <<node, children_not_ready>>
queues == <<jobs, requestQueue, resultsQueue>>
status == <<interrupted, exit_status, cleanup_error>>
store == <<cache, count>>
history == <<starts, retrieved>>

vars == <<build, tm, main, walk, queues, worker, status, store, history>>

Steps == {"fill", "look", "wait", "collect", "cleanup", "join", "done"}

(* The sentinel on the queue, which is not the targets of any task.        *)
None == <<>>

maxjobs == Cardinality(Worker)

Idle == [phase |-> "get", task |-> None, pos |-> 0, parents |-> {}]

Init ==
    /\ TaskmasterInit
    /\ main = "fill"
    /\ node = NoNode
    /\ children_not_ready = {}
    /\ jobs = 0
    /\ requestQueue = <<>>
    /\ resultsQueue = <<>>
    /\ worker = [w \in Worker |-> Idle]
    /\ interrupted = FALSE
    /\ exit_status = 0
    /\ cleanup_error = FALSE
    /\ cache = build.cached
    /\ count = 0
    /\ starts = [n \in Node |-> 0]
    /\ retrieved = {}

(* Mutant: a candidate that has been handled is not skipped.               *)
ConsiderAgain ==
    /\ main = "fill"
    /\ tm.next_candidate = "find"
    /\ HasCandidate(tm)
    /\ LET n == Candidate(tm)
           s == FindNextCandidate(tm)
       IN  /\ tm' = Scan([s EXCEPT !.state[n] = PENDING], n)
           /\ main' = "look"
           /\ node' = n
    /\ UNCHANGED <<build, children_not_ready, queues, worker, status, store,
                   history>>

(* The main thread: _find_next_ready_node takes a candidate and asks for   *)
(* its children, which scans it, and may raise: see TaskFor.               *)
Consider ==
    /\ main = "fill"
    /\ tm.next_candidate = "find"
    /\ HasCandidate(tm)
    /\ LET n == Candidate(tm)
           s == FindNextCandidate(tm)
       IN  IF s.state[n] > PENDING
           THEN tm' = s /\ UNCHANGED <<main, node>>
           ELSE /\ tm' = Scan([s EXCEPT !.state[n] = PENDING], n)
                /\ main' = "look"
                /\ node' = n
    /\ UNCHANGED <<build, children_not_ready, queues, worker, status, store,
                   history>>

(* It looks at the states of the children: one has failed, ...             *)
SkipFailed ==
    /\ main = "look"
    /\ ChildrenIn(tm, node, {FAILED}) # {}
    /\ \E new \in NotVisited(tm, node) : tm' = ChildrenFailed(tm, node, new)
    /\ main' = "fill"
    /\ node' = NoNode
    /\ UNCHANGED <<build, children_not_ready, queues, worker, status, store,
                   history>>

(* ... or some are not ready, ...                                          *)
SomeNotReady ==
    /\ main = "look"
    /\ ChildrenIn(tm, node, {FAILED}) = {}
    /\ NotReady(tm, node) # {}
    /\ children_not_ready' = NotReady(tm, node)
    /\ \E new \in NotVisited(tm, node) : tm' = AddNotVisited(tm, new)
    /\ main' = "wait"
    /\ UNCHANGED <<build, node, queues, worker, status, store, history>>

(* ... and the node waits for them, though a worker may have finished one  *)
(* in the meantime, ...                                                    *)
WaitForThem ==
    /\ main = "wait"
    /\ tm' = WaitForChildren(tm, node, children_not_ready)
    /\ main' = "fill"
    /\ node' = NoNode
    /\ children_not_ready' = {}
    /\ UNCHANGED <<build, queues, worker, status, store, history>>

(* ... or there is a task for the node: next_task makes it ready and       *)
(* start() prepares it.  A node whose children could not be found has a    *)
(* task too, whatever their states.                                        *)
ChildrenReady(n) == ChildrenIn(tm, n, {FAILED}) = {} /\ NotReady(tm, n) = {}

TaskFor(n) ==
    /\ main = "look"
    /\ n = node
    /\ ChildrenReady(n) \/ n \in build.raising
    /\ node' = NoNode
    /\ count' = (count + 1) % Interval
    /\ UNCHANGED <<build, children_not_ready, resultsQueue, worker,
                   interrupted, cleanup_error, retrieved>>

(* Progressor.__call__, at the start of BuildTask.prepare.                 *)
Progress == IF count' = 0 THEN cache' \in Purged(cache) ELSE cache' = cache

(* task.failed() and task.postprocess().                                   *)
FailTask(s, ts) ==
    LET f == Failed(s, ts)
        top == FailedTargets(s, ts)
    IN  /\ exit_status' = 2
        /\ \E order \in SetToSeqs(Released(f, top)) :
              tm' = Postprocess(f, top, order)

(* task.executed() and task.postprocess().                                 *)
FinishTask(s, ts) ==
    LET e == Executed(s, ts)
    IN  /\ exit_status' = exit_status
        /\ \E order \in SetToSeqs(Released(e, ts)) :
              tm' = Postprocess(e, ts, order)

(* Executor.prepare finds that a source of the targets is missing.         *)
SourceMissing(n) ==
    n \in build.derived /\ Range(build.kids[n]) \cap build.missing # {}

(* BuildTask.executed does not know how to make a target asked for.        *)
TopMissing(n) == n \in build.missing \cap Range(build.tops)

(* prepare() raises: what next_task has caught in get_all_children or      *)
(* make_ready, a missing source, or the purge, when the build of somebody  *)
(* else has removed a file of the cache after glob() has listed it.  What  *)
(* make_ready had done does not matter, since the targets fail.            *)
PreparationFails(n) ==
    /\ TaskFor(n)
    /\ \/ (n \in build.raising \/ SourceMissing(n)) /\ Progress
       \/ count' = 0 /\ build.shared /\ cache' \in PurgeStopped(cache)
    /\ FailTask(MakeReady(tm, n), TargetsOf(n))
    /\ main' = "fill"
    /\ UNCHANGED <<jobs, requestQueue, starts>>

Dispatch(n) ==
    /\ TaskFor(n)
    /\ ChildrenReady(n)
    /\ ~SourceMissing(n)
    /\ OutOfDate(n)
    /\ Progress
    /\ tm' = MakeReady(tm, n)
    /\ requestQueue' = Append(requestQueue, TargetsOf(n))
    /\ jobs' = jobs + 1
    /\ starts' = [m \in Node |-> IF m \in Range(TargetsOf(n))
                                 THEN starts[m] + 1 ELSE starts[m]]
    /\ main' = IF jobs + 1 < maxjobs THEN "fill" ELSE "collect"
    /\ UNCHANGED exit_status

NothingToDo(n) ==
    /\ TaskFor(n)
    /\ ChildrenReady(n)
    /\ ~SourceMissing(n)
    /\ ~OutOfDate(n)
    /\ Progress
    /\ IF TopMissing(n) THEN FailTask(MakeReady(tm, n), TargetsOf(n))
       ELSE FinishTask(MakeReady(tm, n), TargetsOf(n))
    /\ main' = "fill"
    /\ UNCHANGED <<jobs, requestQueue, starts>>

(* next_task returns None.                                                 *)
NoTask ==
    /\ main = "fill"
    /\ \/ tm.next_candidate = "no" /\ tm' = NoNextCandidate(tm)
       \/ tm.next_candidate = "find" /\ ~HasCandidate(tm) /\ tm' = tm
    /\ main' = IF jobs = 0 THEN "cleanup" ELSE "collect"
    /\ UNCHANGED <<build, walk, queues, worker, status, store, history>>

(* The main thread takes one result; it goes back to the Taskmaster when   *)
(* there are no more.  What was built is pushed to the cache.              *)
Collect ==
    /\ main = "collect"
    /\ resultsQueue # <<>>
    /\ jobs' = jobs - 1
    /\ resultsQueue' = Tail(resultsQueue)
    /\ LET r == Head(resultsQueue)
       IN  IF r.ok = "ok"
           THEN /\ FinishTask(tm, r.task)
                /\ cache' = cache \cup
                      {t \in Range(r.task) : tm.state[t] = EXECUTING}
           ELSE FailTask(tm, r.task) /\ cache' = cache
    /\ main' = IF Len(resultsQueue) = 1 THEN "fill" ELSE "collect"
    /\ UNCHANGED <<build, walk, requestQueue, worker, interrupted,
                   cleanup_error, count, history>>

(* ThreadPool.cleanup waits a second for each worker, so not for ever.     *)
CleanupPool ==
    /\ main = "cleanup"
    /\ requestQueue' = requestQueue \o [i \in 1 .. maxjobs |-> None]
    /\ main' = "join"
    /\ UNCHANGED <<build, tm, walk, jobs, resultsQueue, worker, status,
                   store, history>>

CleanupTaskmaster ==
    /\ main = "join"
    /\ cleanup_error' = CleanupError(tm)
    /\ main' = "done"
    /\ UNCHANGED <<build, tm, walk, queues, worker, interrupted, exit_status,
                   store, history>>

(* The handler of SIGINT, SIGTERM and SIGHUP.                              *)
Interrupt ==
    /\ main # "done"
    /\ ~interrupted
    /\ interrupted' = TRUE
    /\ tm' = Stop(tm)
    /\ UNCHANGED <<build, main, walk, queues, worker, exit_status,
                   cleanup_error, store, history>>

(* A worker.                                                               *)
Result(task, ok) == [task |-> task, ok |-> ok]

PutResult(w, ok) ==
    /\ resultsQueue' = Append(resultsQueue, Result(worker[w].task, ok))
    /\ worker' = [worker EXCEPT ![w] = Idle]

(* Mutant: an interrupted worker exits with its task.                      *)
GetAndExit(w) ==
    /\ worker[w].phase = "get"
    /\ requestQueue # <<>>
    /\ requestQueue' = Tail(requestQueue)
    /\ LET task == Head(requestQueue)
       IN  IF task = None \/ interrupted
           THEN worker' = [worker EXCEPT ![w].phase = "exited"]
           ELSE worker' = [worker EXCEPT ![w].phase = "retrieve",
                                         ![w].task = task, ![w].pos = 1]
    /\ UNCHANGED <<build, tm, main, walk, jobs, resultsQueue, status, store,
                   history>>

Get(w) ==
    /\ worker[w].phase = "get"
    /\ requestQueue # <<>>
    /\ requestQueue' = Tail(requestQueue)
    /\ LET task == Head(requestQueue)
       IN  \/ /\ task = None
              /\ worker' = [worker EXCEPT ![w].phase = "exited"]
              /\ UNCHANGED resultsQueue
           \/ /\ task # None
              /\ interrupted
              /\ resultsQueue' = Append(resultsQueue, Result(task, "failed"))
              /\ UNCHANGED worker
           \/ /\ task # None
              /\ ~interrupted
              /\ worker' = [worker EXCEPT ![w].phase = "retrieve",
                                          ![w].task = task, ![w].pos = 1]
              /\ UNCHANGED resultsQueue
    /\ UNCHANGED <<build, tm, main, walk, jobs, status, store, history>>

(* Task.execute: the next target is in the cache, and executed at once, or *)
(* all of them must be built.  built() starts to go through the parents    *)
(* that wait for the target.  A copy that fails, as when the file is       *)
(* purged meanwhile, is an error returned and not raised, so that a target *)
(* that is in the cache may have to be built as well.                      *)
Target(w) == worker[w].task[worker[w].pos]

Retrieve(w) ==
    /\ worker[w].phase = "retrieve"
    /\ \/ /\ Target(w) \in cache
          /\ tm' = [tm EXCEPT !.state[Target(w)] = EXECUTED]
          /\ worker' = [worker EXCEPT
                ![w].phase = "built",
                ![w].parents = tm.waiting_parents[Target(w)]]
          /\ retrieved' = retrieved \cup {Target(w)}
       \/ /\ worker' = [worker EXCEPT ![w].phase = "build"]
          /\ UNCHANGED <<tm, retrieved>>
    /\ UNCHANGED <<build, main, walk, queues, status, store, starts>>

(* Python raises an error in a loop over a set that has grown.             *)
SetChanged(w) ==
    /\ worker[w].parents # {}
    /\ ~(tm.waiting_parents[Target(w)] \subseteq worker[w].parents)

RetrievalDone(w) ==
    /\ worker[w].phase = "built"
    /\ \/ /\ SetChanged(w)
          /\ \E seen \in SUBSET worker[w].parents : tm' = Built(tm, seen)
          /\ PutResult(w, "failed")
       \/ /\ ~SetChanged(w)
          /\ tm' = Built(tm, worker[w].parents)
          /\ IF worker[w].pos = Len(worker[w].task) THEN PutResult(w, "ok")
             ELSE /\ worker' = [worker EXCEPT ![w].phase = "retrieve",
                                              ![w].pos = @ + 1,
                                              ![w].parents = {}]
                  /\ UNCHANGED resultsQueue
    /\ UNCHANGED <<build, main, walk, jobs, requestQueue, status, store, history>>

BuildTargets(w) ==
    /\ worker[w].phase = "build"
    /\ \E ok \in {"ok", "failed"} : PutResult(w, ok)
    /\ UNCHANGED <<build, tm, main, walk, jobs, requestQueue, status, store,
                   history>>

Main ==
    \/ Consider \/ SkipFailed \/ SomeNotReady \/ WaitForThem
    \/ \E n \in Node : PreparationFails(n) \/ Dispatch(n) \/ NothingToDo(n)
    \/ NoTask \/ Collect \/ CleanupPool \/ CleanupTaskmaster

Work(w) == Get(w) \/ Retrieve(w) \/ RetrievalDone(w) \/ BuildTargets(w)

Next == Main \/ Interrupt \/ \E w \in Worker : Work(w)

(* Every command ends, and the threads of a process all run.               *)
Spec ==
    /\ Init /\ [][Next]_vars
    /\ WF_vars(Main)
    /\ \A w \in Worker : WF_vars(Work(w))

-----------------------------------------------------------------------------

TypeOK ==
    /\ build \in Builds
    /\ tm \in Attributes
    /\ main \in Steps
    /\ node \in Node \cup {NoNode}
    /\ jobs \in 0 .. maxjobs
    /\ \A w \in Worker : worker[w].phase \in
          {"get", "retrieve", "built", "build", "exited"}
    /\ cache \cup retrieved \subseteq Node
    /\ count \in 0 .. Interval - 1
    /\ starts \in [Node -> Nat]

RefCountsAgree ==
    \A p \in Node :
        tm.ref_count[p] = Cardinality({n \in Node : p \in tm.waiting_parents[n]})

JobsAgree ==
    jobs = Cardinality({i \in DOMAIN requestQueue : requestQueue[i] # None})
           + Cardinality({w \in Worker : worker[w].task # None})
           + Len(resultsQueue)

(* The books of the build are exact whatever fails and whoever interrupts: *)
(* ref_count counts the children a node is registered with, also after     *)
(* will_not_build() and the postprocess() of current_top that follows a    *)
(* failure, and jobs counts the tasks in the queues and with the workers.  *)
EngineInv == TypeOK /\ RefCountsAgree /\ JobsAgree

(* Candidates are put on the stack again and again, by every parent and by *)
(* every postprocess(), yet no node is dispatched twice.                   *)
OncePerBuild == \A n \in Node : starts[n] <= 1

(* The nodes that can be reached from some: the least set that has them    *)
(* and what its members need.                                              *)
Closure(ns, kids(_)) ==
    LET closed == {D \in SUBSET Node :
                     ns \subseteq D /\ \A n \in D : kids(n) \subseteq D}
    IN  {n \in Node : \A D \in closed : n \in D}

Sources(n) == Range(build.kids[n]) \cup Range(build.late[n])

(* Something that a node needs, in the end, was got from the cache.        *)
Tainted(n) == Closure(Sources(n), Sources) \cap retrieved # {}

(* will_not_build() fails every node that waits for a failed one: also one *)
(* that was built in the meantime, since its source came from the cache.   *)
Condemned(n) == tm.state[n] = FAILED /\ Tainted(n)

Building(w) == IF worker[w].phase = "build" THEN Range(worker[w].task) ELSE {}

Settled(n) ==
    /\ tm.state[n] \in Finished \/ Condemned(n)
    /\ \A w \in Worker : n \notin Building(w)

(* While a worker builds a target, its sources are finished and nobody is  *)
(* writing them, and so are the files these include.  execute() marks what *)
(* it has got from the cache from a worker thread, before it knows whether *)
(* the other targets are there too, and before the parents are scanned     *)
(* again: only a source that was got from the cache may still be written,  *)
(* and only what was made from such a source may include a file that is    *)
(* not finished.                                                           *)
ChildrenSettled ==
    \A w \in Worker : \A t \in Building(w) :
        /\ \A k \in Range(build.kids[t]) : Settled(k) \/ k \in retrieved
        /\ \A k \in Range(build.late[t]) : Settled(k) \/ Tainted(t)

KnownKids(n) == Range(Children(tm, n))

(* When scons returns 0 to blade, every node that the targets need is up   *)
(* to date or executed: nothing waits, nothing was skipped for a failed    *)
(* child, and a cycle cannot end in silence.                               *)
SuccessMeansBuilt ==
    (main = "done" /\ exit_status = 0 /\ ~interrupted /\ ~cleanup_error) =>
        \A n \in Closure(Range(build.tops), KnownKids) : tm.state[n] \in Finished

(* Taskmaster.cleanup takes what is left in pending_children for a cycle.  *)
(* It is one, unless a child that failed earlier has failed a node whose   *)
(* parents already waited: _find_next_ready_node does not tell them, so    *)
(* that with --keep-going they are pending to the end.                     *)
CyclesAreReal ==
    cleanup_error =>
        \/ \E n \in Node : n \in Closure(Sources(n), Sources)
        \/ /\ build.failing = "keep_going"
           /\ \E n \in tm.pending_children :
                 \E k \in Closure(Sources(n), Sources) : tm.state[k] = FAILED

(* ScacheManager has been called and has not raised.                       *)
CacheChecked == count' = 0 /\ \E n \in Node : Dispatch(n) \/ NothingToDo(n)

(* Whatever the weights of the files and however much was pushed since the *)
(* last time, ScacheManager leaves less than the limit in the cache and    *)
(* does not empty it, if no file is as large as the limit alone.           *)
PurgeKeepsLimit ==
    [][(CacheChecked /\ \A n \in cache : CacheSize[n] < CacheLimit) =>
          /\ TotalSize(cache') < CacheLimit
          /\ cache # {} => cache' # {}]_vars

(* The user's manual, doc/user_manual_zh_CN.md line 427: when the cache is *)
(* larger than the user has said blade purges it, which limits its size to *)
(* that.  ScacheManager takes the index 0 of a heaviest file that reaches  *)
(* the limit alone for nothing to purge.                                   *)
CacheLimited == [][CacheChecked => TotalSize(cache') <= CacheLimit]_vars

(* The build ends, with cycles, failures and signals: the main thread      *)
(* never waits for a result that no worker will put.                       *)
BuildEnds == <>(main = "done")
=============================================================================
