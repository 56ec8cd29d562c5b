# Blade and base: TLA+ models, model checking and proofs

The repository holds a C++ code base (`base/`, `file/`, `util/`, `web_util/`,
and third-party code) and, in `devel/typhoon-blade/`, the build system that
builds and tests it: Blade, a Python program that reads `BUILD` files, works
out the dependencies, generates an `SConstruct` for scons, and runs the tests.
The repository also carries the scons that Blade drives, in `devel/scons/`.
Blade, the build engine under it and the threads and singletons of `base/` are
where the logic is that is concurrent, persistent and hard to test, and they are
what the project models. Paths below are relative to
`src/devel/typhoon-blade/src/blade/` unless they start with `base/` or `SCons/`
(`src/devel/scons/lib/scons-2.0.1/SCons/`).

## 1. Inventory

| Component | State | Operations | Hard behaviour | What makes it correct |
|---|---|---|---|---|
| Main, build lock (`blade_main.py`) | `.Building.lock`, `SConstruct`, children of the process | take the lock, generate, start scons, wait, test, clean up | several processes in one tree, Ctrl-C, SIGKILL, two-step clean-up | one build at a time, scons reads the right file, lock and file do not stay behind |
| BUILD loader (`load_build_files.py`, `target.py`, `blade.py`) | target database, work lists | load a directory, visit a target, collect | any order of sets, loops, missing and broken files | exactly the targets needed, errors only when real, termination |
| Dependency analyzer (`dependency_analyzer.py`) | expansions, cache, call stack, counts | expand, de-duplicate, detect loops, set options, sort | recursion with a shared cache and a shared set, any order of dictionaries, list growing while iterated | closures, link order, loops found, options complete, order of rules |
| Test runner (`test_runner.py`) | `.blade.test.stamp`, check sums, lists of a run | select, run, mark failures, write the stamp | state handed from run to run, edits and interruptions at any time, clock set back | nothing is skipped that has not passed, failures are run again, a green summary is true |
| Test scheduler (`test_scheduler.py`) | two queues, worker threads, shared counters and maps | fill, start, join, take, run, record, count | threads, blocking `get`, exceptions in workers, Ctrl-C | each test once, exclusive tests alone, exact summary, termination |
| Build manager (`blade.py`) | databases and lists handed between the parts | load, analyze, generate, query | order of the phases | partly, within the modules above |
| Binary runner (`binary_runner.py`) | runfiles directory of one program | prepare, run, clean | none: one process, sequential | not modelled |
| Scons cache manager (`build_environment.py`) | files of the cache | weigh, purge | limit and boundary of the index, files that vanish | the cache is brought below its limit and is not emptied |
| scons build engine (`SCons/Taskmaster.py`, `SCons/Job.py`, parts of `SCons/Node`, `SCons/Executor.py`, `SCons/Script/Main.py`) | node states, reference counts, waiting parents, candidates, two queues, worker threads | scan, dispatch, retrieve, build, postprocess, fail, stop, clean up | worker threads that change nodes, failures with and without `-k`, cycles, signals, generated files | nothing built twice or too early, a success is one, the build ends |
| Target types, rules generator, command line, configuration, platform, console | text | formatting, parsing | none | not modelled |
| `base/`: thread pool, queues, mutexes | queues, threads, condition variables | put, get, wait, signal, count down, join | lost and stolen wake-ups, shutdown, closures that wait for closures | nothing lost or run twice, bounds kept, nobody sleeps through what it waits for |
| `base/`: singleton, lazy instance, at-exit | once-flags, callback stack | create, register, destroy, revive | creation races, publication before registration, callbacks under a lock | one instance, never seen unbuilt, destroyed once and after its users |
| `base/` strings, files, time, pickles; `file/`, `util/`, `web_util/` | data | conversions, I/O | sequential | not modelled |
| `devel/scons`, `thirdparty/`, `base/thirdparty/` | | | | third party; of scons only the build engine is modelled, the rest is not |

How they interact: `_main` takes the lock, then `Blade.generate` calls the
loader, the analyzer and the rules generator one after the other; the loader's
`related_targets` is the analyzer's input and the analyzer's `expanded_deps` the
input of the sort and of the test runner's check sums. `blade test` then starts
scons as a process, and the test runner in the same process; the runner hands a
list of tests to the scheduler and reads `failed_targets`, `num_of_run_tests`
and `tests_run_map` when `schedule_jobs` returns. Successive runs communicate
through the stamp file only, concurrent ones through the lock and `SConstruct`.
In the scons process the main thread (`SCons.Job.Parallel.start`) asks the
`Taskmaster` for tasks and exchanges them with its workers over two queues; each
task it prepares calls `Progress()`, which is Blade's `ScacheManager`. In `base/`
a closure of the thread pool may use the queues and counters that other closures
wait for, and lazily created objects register their destruction with the one
`AtExitManager`.

## 2. Plan

In the order of importance; all are written and proved about.

1. `TestBatch`, `TestScheduler`: the abstract batch, the threads that implement it.
2. `TestRunner`: successive incremental test runs, with the batch of 1 as one step per test.
3. `BuildLock`: several blade processes in one tree.
4. `LoadTargets`: the search through the BUILD files.
5. `DependencyAnalyzer`, `TopologicalSort` and, the one after the other,
   `AnalyzeDeps`: expansion and order of the targets.
6. `Taskmaster`, `ScacheManager` and, on top of both, `ParallelJobs`: the build.
7. `ThreadPool`: the pool, the queues and the counter of `base/`.
8. `LazyInstance`: lazy instances, singletons and exit callbacks.

Every invariant and action property that a run checks is now stated by a theorem,
except `PurgeKeepsLimit`. Next: what a purge of the cache keeps, as far as it can be
said without a sum.

Each module has its parameters as CONSTANTS with a named assumption, one action
per operation and an inductive invariant made of named parts, so that it can be
checked and proved.

## 3. Modules

`M.tla` is a model, `MCM.tla` its instances for TLC, `MProofs.tla` its theorems.

**TestScheduler** (`test_scheduler.py`). One step is one access to state that
threads share: `empty()` (`CheckQueue`) and `get()` (`GetJob`) are two, and so
are the load and the store of `num_of_run_tests += 1` (`CountLoad`,
`CountStore`) under their lock. The main thread is `FillQueues`, `SpawnWorker`,
`JoinWorkers`, `JoinExclusive`. A worker may meet an `OSError` (the test counts as
failed) or any other exception (`JobException`: the thread ends, the test is
neither counted nor failed). `Interrupt` is Ctrl-C in `join`. **TestBatch** is
what the caller relies on: each test at most once, exclusive ones alone, none
executing after the return; `ImplementsBatch` is the refinement.

**TestRunner** (`test_runner.py`). `rev` is what a test and its data really are,
`sum` what the time stamps tell of it; an edit raises both (`Touch`), except
inside a testdata directory (`TouchInside`). `StartRun` is the constructor, the
selection and the skipping; `Execute` one test, with the contents it has at that
moment; `OpenStamp` the marking of failures, the summary and the `open(..., 'w')`
that empties the stamp; `WriteStamp` the rest, including the removal of an
oversized file; `AbortRun` is possible anywhere. A stamp that is missing, empty
or cut off is `NoHistory`. The histories `passed`, `recorded` and `left_out` are
not part of the code; they say what really happened. What is skipped is judged for
the tests in `Visible`, those of which every edit shows.

**BuildLock** (`blade_main.py`, `blade_util.py`). The labels of `pc` are the
stretches of `_main`. `RemoveScript` and `Unlock` are two steps of the `finally`
clause; when `os.remove` raises, `unlock_file` is skipped and the lock goes with
the process. The lock file is closed on exec, so scons and tests run on without
it. scons is external: it reads `SConstruct` some time after it was started.
`run` behaves like `test`, `clean` like `build`. With `--scons-only` scons is not
started and the `finally` clause does nothing; `test` then runs the programs of an
earlier build (`"testSconsOnly"`). The test scheduler may hang, as `scheduler_hang`
shows (`TestsHang`): the process then stays in its tests or, after a Ctrl-C, in its
exit, until it is killed. A Ctrl-C inside the `finally` clause is, for the shared
state, a `Kill` at that label.

**LoadTargets** (`load_build_files.py`; registration in `target.py`, `blade.py`).
A source tree is a constant of the behaviour: which BUILD files execute, fail,
are missing, what they declare and on what it depends. `LoadSourceDir`,
`CiteDatabase` and `Visit` are the three parts of `load_targets`; sets are
popped in any order. Remarks from the modelling: the `continue` for a target
that is already related is never reached (`cited_targets \cap related_targets = {}`
is part of the invariant); `WARN_IF_FAIL` is treated as `IGNORE_IF_FAIL`; a
directory without BUILD file that is named both as `dir` and within `dir/...` is
an error or not depending on the order, which is why `ErrorsAreReal` says only
that an error has a reason.

**DependencyAnalyzer** (`_expand_deps`, `_find_all_deps`). The recursion is a
stack, `root_targets`, in which the last entry is the innermost call; the locals
of a call are kept under its target, of which there is at most one call.
`FindAllDeps` is a call that is not answered from the cache, `TakePiece` the use
of its result, `AppendPiece` one round of the de-duplication, `ReturnList` the
return, `ExpandTarget` the rest of the loop body with the options. The loader
delivers closed sets of targets, so the branch for missing targets is a second
line of defence; it is modelled and exercised nevertheless.

**TopologicalSort** (`_topological_sort`). `SortInit` is the counting loop, `Filter`
the collection of the free targets in any order, `Take` and `Knock` the loop
over the growing list.

**AnalyzeDeps** (`analyze_deps`) composes the two: the steps of the expansion, then
`StartSort`, which hands `expanded_deps` to the sort, then the steps of the sort.

**Taskmaster** (`SCons/Taskmaster.py`, with the methods of nodes and executors it
calls). The attributes of the Taskmaster and of all nodes are one record, `tm`,
and the methods are operators on it: `FindNextCandidate`, `Scan`,
`AddNotVisited`, `WaitForChildren`, `MakeReady`, `Postprocess`, `WillNotBuild`,
`FailContinue`, `Stop`, `CleanupError`. A build is a constant of the behaviour:
what is asked for, which file is made from which, which commands make several
files, what a generated file turns out to include (`late`), what is current, in
the cache or missing, and for which nodes `get_all_children` or `make_ready` may
raise (`raising`).

**ScacheManager** (`build_environment.py`) is the purge of the cache. The weight
of a file mixes size and age, so the files come in any order. `PurgeStopped` is
what is left when another build that shares the cache has removed a file first:
`os.stat` raises and nothing is purged, or `os.remove` raises in the middle of the
list.

**ParallelJobs** (`SCons/Job.py`) composes the two: the main thread, which
considers one candidate at a time and then dispatches, waits or collects, and
the workers, which look for the targets of a task in the cache one by one
(`Retrieve`) before they run the command. A copy that fails, for instance because the
file is purged after `exists()`, is an `EnvironmentError`, which scons returns as a
value and takes for "not in the cache", so that the command is run. What
`next_task` catches in `get_all_children` or `make_ready` is raised by `prepare()`
and fails the task, whatever the states of its children (`TaskFor`,
`PreparationFails`). `execute()` calls `built()` for what it
has got from the cache in the worker, while the main thread walks the same nodes;
the steps of both are interleaved as the interpreter may switch between them. A
signal may come at any moment, which is more than the interpreter allows: it
defers one that arrives while the main thread is blocked in `get()`.

**ThreadPool** (`base/thread_pool.*`, `base/concurrent_queue.h`, `base/mutex.h`).
Critical sections are steps; a thread that waits for a condition is in `waiting`
until a signal, or nothing at all (`SpuriousWakeup`), removes it, and then tests
its condition again. `Unlock` signals when `signal_at_unlock_` is set, as `LockWhen`
does. What the closures do is a constant of the behaviour: push, pop, count down,
add another closure. The owner starts the workers before or after it adds, may
wait for the counter, and deletes the pool. `late` is a history: what was added
after the first NULL.

**LazyInstance** (`base/lazy_instance.*`, `base/singleton.h`, `base/at_exit.*`). The
two templates differ in how a thread that lost the race spins, in whether the
instance is taken away before or after its destructor, and in their traits; the
rest is one set of actions. `frames` is the stack of calls of a thread, since a
constructor or a destructor may ask for other instances. `overtaken` is a
history: an object that was published, but not yet registered, when an object
whose constructor used it was registered. A destructor may ask for any object,
also for the one it destroys: a LazyInstance is then still there, a singleton is
created once more, and a static-memory singleton is NULL. No constructor uses a
static-memory singleton (an assumption on `Programs`): it may be NULL, and a
constructor that does not mind has not used it. Accesses happen in the order of the
program, as on x86; on a weaker machine `NoBarrier_Load` of `state_` would not
order the load of `instance_` after it. `ProcessCallbacksNow` is called when no
other thread uses the instances, as the comment on `OnExit` demands. In a debug
build the lock reports that it is taken twice instead of waiting.

## 4. Runs

Each run takes between some seconds and three minutes.

| Run | Shows | Bounds |
|---|---|---|
| `scheduler` | conservation of tests, exclusiveness, exact books; the threads implement `TestBatch`; `schedule_jobs` returns or a worker hangs in `get()`; ordinary tests all run | 2 workers and the exclusive one, 3 ordinary and 2 exclusive tests, one untracked; exceptions, Ctrl-C |
| `scheduler_hang` | **violation**: with two workers `schedule_jobs` may never return | 3 tests |
| `runner_history` | nothing is skipped that has not passed as it is, and in the environment of the run unless another run has left it out; recorded failures are run again; green is true | 2 tests, one with a testdata directory, 2 revisions, 2 clock readings, 2 environments (symmetric), runs of both tests or of one, aborts |
| `runner_lost` | **violation**: a test lost by the scheduler counts as passed | 2 tests |
| `lock` | scons reads its own script, which is gone when the lock is given back; every process ends unless its test scheduler hangs, and gives the lock back unless it hangs before the `finally` clause or has `--scons-only` | 3 processes, all commands, Ctrl-C, SIGKILL |
| `lock_interrupted` | **violation**: after Ctrl-C two builds may run side by side | 2 processes |
| `load_search` | exactly what is needed, real errors, termination | 3 directories, 4 targets, 1 system library, trees with every kind of damage, 5 command lines |
| `analyze_deps` | closures, link order, loops, options; then dependencies first, the assertion, and no target left out | 4 targets and a missing one; graphs with up to 2 dependencies each, and all layered graphs, whose expansions are, up to names, all strict partial orders on 4 targets |
| `scons` | reference counts and job count are exact; no node is dispatched twice, or while its sources are unfinished unless one came from the cache; exit status 0 means built; cycles are real, except with `-k` after a failure; ScacheManager leaves less than the limit, if no file reaches it alone; the build ends | 2 workers, 6 nodes in 8 shapes of graphs, each with several sets of current and cached files, with and without `-k`; failures, exceptions, signals |
| `scons_purge` | **violation**: with a file that reaches the limit alone nothing is purged | one graph, a cache of two files |
| `queues` | closures are conserved; the destructor waits for all that was added before its first NULL; a fixed-size queue keeps its bound; the pool ends unless its closures wait for what none of them does, or all sleep in a tight queue (section 5) | 3 threads, 4 closures that push and pop (all 16 choices, unbounded queue and sizes 1 and 2), or 3 that add and count (all 8, with and without a waiting owner) |
| `lazy` | what a thread gets is built and not gone; every callback is registered once; what an object uses outlives it unless overtaken; an exit hangs only on a new or overtaken use, and ends otherwise | 2 threads, 3 calls before each of 2 exits, 3 objects of all kinds in 12 combinations, with destructors that ask for what was used, for something else, or for their own object |

*Why the bounds are enough.* Two workers and one exclusive worker are the least
with all races between two threads and the hand-over to the exclusive one; three
ordinary tests let a worker take a second job while the other is between two
steps. Two tests are needed for a run that names one of them, two revisions for an
edit, and the interval of one clock unit for a stamp that has become stale; each
run starts from what the last one left, so the number of runs is not bounded.
Three processes give one that works, one that leaves and one that starts. Two
scons workers suffice for a worker that changes nodes while the main thread and
another worker use them; the shapes are those of a command with two targets, a
generated header that includes another, a shared target, a chain that is longer
than there are workers, a loop, and missing sources. Three threads on a queue with
one place are the least with which its signal goes astray, and with two places
they show that it then does not. Two threads and an object that uses another are
what an overtaken registration takes. Four targets give diamonds, loops of any
length up to four, and a target reached over a short and a long path, which is
what link order is about. What the bounds leave open is the subject of the proofs.

*Fairness.* `TestScheduler`: every thread that can run does, and every test
program ends; there is none on Ctrl-C. `BuildLock`: a process that can go on
does, scons and the test programs end, but the scheduler may hang instead of
returning, which no fairness excludes; there is none on starting, interrupting and
killing. `LoadTargets`: sequential code that goes on while it can. `ParallelJobs`:
the main thread and each worker go on while they can, commands end; none on
signals. `ThreadPool` and `LazyInstance`: the scheduler runs every thread that does
not wait, which lets a spinning or woken thread go on in the end; none on
spurious wake-ups, and none on calling for an object. Deadlock is
not checked in the runs of the scheduler with two workers, in which a worker may
really wait for ever, nor in `scons`, `queues` and `lazy`, which end, or in which
the threads may really wait for each other.

## 5. Where code and documents disagree

* `test_scheduler.py:166`: `empty()` and the blocking `get()` are not one step.
  With two or more workers one may wait for ever on a queue the other has
  emptied; then `schedule_jobs` never returns and no summary is printed
  (`scheduler_hang`). `ReturnsOrHangs` shows that nothing else keeps it from
  returning, and `OrdinaryTestsRun` that all ordinary tests are run even then.
* `test_runner.py:356`: `failed_targets` does not hold lost tests (`runner_lost`).
* `blade_main.py:316`: after Ctrl-C scons is not awaited (`lock_interrupted`).
* `build_environment.py:191`: when the heaviest file alone reaches the limit, its
  index 0 is taken for none, and nothing is purged, although the manual
  (`doc/user_manual_zh_CN.md:427`) says that the cache is kept to the size the user
  has given (`scons_purge`). `PurgeKeepsLimit` shows that it is kept below that size
  when no file is as large.

Each is quoted with the line it contradicts in `PROJECT.json`. Further remarks,
which are exceptions that the properties have to make.

On `test_runner.py`. Line 225: check sums of tests outside the targets are stored
under the new environment and arguments, so that a run of some tests revalidates
the others for an environment in which they never ran (the manual,
`doc/user_manual_zh_CN.md:437`, says that a change of the environment makes tests
run again); hence `left_out` in `SkippedTestHasPassed`. Line 172: the time stamps
of a testdata directory do not change when a file in it is edited, so the test may
be skipped although its data changed (the manual, `doc/user_manual_zh_CN.md:436`,
promises a rerun); hence `Visible`. Line 353: the stamp is written at the end
only, so a failure of a run that is interrupted is forgotten, and the test is
skipped if the run before had passed it (the manual, line 439, says that failed
tests are always run again); hence `RecordedFailureIsRerun` speaks of recorded
failures. Line 94: `inctest_time` is renewed by every run, also by one that skips
a test, so the limit of a day after which passed tests become invalid never
applies in a tree that is tested daily; no document says which of the two is
meant.

On scons. `SCons/Taskmaster.py:229`: `execute()` marks targets from the cache as
executed and calls `built()` in a worker thread, although its docstring asks for
"thread safe stuff" only. A dependent can then be dispatched while the other
targets of the same command are being made again, or after a scan that does not
yet know what a generated file includes, or the loop over `waiting_parents` meets
an addition of the main thread and fails the task; hence the exceptions in
`ChildrenSettled` for what was `retrieved`, and for what is `Tainted`, that is,
made from something that was. If that command then fails, `will_not_build()` fails
every node that still waits for one of its targets, also one that was built in the
meantime, while what is made from it may already be under way (`Condemned`, which
the attempt to prove `ChildrenSettled` has found); and `SuccessMeansBuilt` speaks
of what the last scan knows. `SCons/Taskmaster.py:843`: a node that is failed
because a child had failed before does not tell the parents that wait for it; with
`-k` they stay pending and `cleanup()` may report a cycle that does not exist;
hence the second case of `CyclesAreReal`. The docstring of
`_validate_pending_children` (`SCons/Taskmaster.py:683-688`) claims the opposite:
at the end of the build the pending children of a diamond "will have been properly
built (or will have failed to build). But, the pending children involved in a
cycle will still be in the pending state". `build_environment.py:172`, `159`: a
file that another build purges between `glob()` and `os.stat()`, or between
`exists()` and `os.remove()`, fails a task.

On `base/`. `concurrent_queue.h:74`: with a queue of n places that more than 2n
threads use, the one signal of a `Pop` can wake another consumer instead of the
producer that waits for room, and all of them sleep although the queue is empty
and a producer has something to push. `EndsOrStarves` allows this end (`Astray`) only
where it can happen (`Tight`), as it does with three threads on a queue of one place.
`FixedSizeConQueue` has a queue and a mutex of its own beside those it inherits:
`Empty`, `Size` and `TryPop`, which it inherits too, look at the other one, which
is always empty. `thread_pool.cc:18`: a closure that is added while the pool is
deleted may be lost, and then the queue's `CHECK` aborts the program.
`lazy_instance.cc:37`, `singleton.h:203`: an instance is published before it is
registered, so that a user of it can be registered first and is then destroyed
last; `at_exit.cc:57`: a destructor that asks for an instance that is not there,
for instance such a one, waits for the lock its own thread holds.

## 6. Proofs

All theorems hold for every value of the constants that satisfies the module's
named assumption (finite sets where something is counted, types of the
constants). Where more is needed the theorem assumes it: `"lost" \notin Outcomes`
(no worker dies of an exception) in `TestRunnerProofs`, `~MayInterrupt` and `~MayKill` for
`BuildsAreAlone`. The violations of section 4 show that they are needed.

* **TestSchedulerProofs.** `SchedulerInv` is inductive: types, place of each test,
  life of the threads (without which a worker could still be between two books
  when `schedule_jobs` returns), agreement of the results up to what a worker
  still has to write, and exactness of the count with the lock's holder having
  loaded the current value. From it: `OnePlace`, `ExclusiveTestsRunAlone`,
  `SummaryIsExact` and the refinement `SchedulerImplementsBatch`.
  `LossesCounted` is inductive on top of it: as long as a queue holds a test its
  workers end only by an exception, so the tests lost are as many as the workers
  that have ended, and no worker was forgotten. When `schedule_jobs` returns, all
  have ended, hence `UnrunTestsAreExplained`.
* **TestRunnerProofs.** A check sum is worth something only if it is that of the
  test as it is now: `Vouches(m, t)` says that then the test has passed as it is.
  `CheckSumsVouch` carries this through the stamp file and through the run that
  will write the next one, for every test in `Visible`, with the exception of
  tests not yet executed; `CheckSumsVouchHere` adds the environment and the
  arguments that stand beside the check sums, for the tests that no run has left
  out: a run that does not run everything has those of the stamp file, so what it
  skips has passed in them. `FailuresMarked` does the same for recorded failures.
* **BuildLockProofs.** `LockInv` adds to the properties who may hold the lock (a
  process that has not left yet), who will remove an `SConstruct`, and which
  children are waited for. `BuildsAreAlone` proves `OneBuild` for processes that
  are neither interrupted nor killed; the run `lock_interrupted` shows what
  happens otherwise.
* **LoadTargetsProofs.** `Needed(k)`: every set that suffices holds k. Everything
  cited or related is needed, and what is wanted is cited or related, with the
  dependencies of what is related; at the end nothing is cited, hence
  `RelatedIsLeast`. The database is what the processed directories register,
  hence no duplicates and no spurious errors.
* **DependencyAnalyzerProofs.** `CallsInv`: the calls are a path of the graph, so
  a dependency among them closes a loop. `ListsInv`: a list in the making holds
  whole expansions up to what is coming. `CacheInv`: what is cached is complete,
  linkable and refers to what is cached; every set of cached targets has one
  that depends on none of the set, which is what makes loops impossible.
  `ResultInv` ties expansions and options to the cache. The lemmas on
  `MoveToEnd` say that moving an entry to the end keeps the others in order.
  The same module proves `TopologicalSort`: each count is the number of
  dependencies not yet taken or with their knock pending; from this the
  assertion, the order and, with `Acyclic`, that nothing is left out. For
  `AnalyzeDeps`, `AnalysisInv` carries both invariants: the call of the sort
  establishes the second from the first, and what `CacheInv` says of every set of
  cached targets is `Acyclic`, hence `AnalysisIsComplete`.
* **ThreadPoolProofs.** `PoolInv`: a worker has a closure in hand exactly while it
  executes it; the additions of the owner and of executed closures are as many as
  there are places in the queue, hands and executions (`Conserved`, which needs
  the first part to see what `Get` and `Execute` move, and the finiteness of what
  was added to count it); the destructor has added as many NULLs as are in the
  queue or have sent a worker home; and behind a NULL, or once a worker has left,
  there is only what was added late. When the destructor has joined all workers
  they have taken all NULLs, so what is left is late: `DestructorWaitsForAll`. The
  workers, the closures and what they do, the queue and its size are arbitrary.
* **LazyInstanceProofs.** `LazyInv` relates every call of every thread, not only
  the innermost, to the shared state. Who swapped EMPTY for CREATING is the only
  creator (`OneCreator`, `HasCreator`, `CallsKnowState`), and so the only one who
  knows and changes what the memory holds (`CallsKnowMemory`, `StateOfMemory`):
  `CallersGetLiveObjects`. At exit only the main thread has calls, and the first
  of them is a destructor (`ExitIsAlone`, `Nested`); what is being destroyed is dying
  unless that destructor revives it (`DyingOrRevived`, without which
  `Destructed` could clear an object in use). NULL needs a history of the
  static-memory objects (`NullOnlyDestroyed`, `DeadIsDestroyed`). The stack holds
  what is live and registered, once, each object above what it uses unless that
  was overtaken (`StackHoldsOnce`, `StackHoldsLive`, `StackInOrder`), from which
  `CallbacksRegisteredOnce` and, with what a constructor knows of the objects it
  has used (`UsedIsLive`), `UsedObjectsOutliveUsers`. A destructor that asks for what
  was used finds it created (`AskedIsCreated`): `ExitHangsOnlyOnNewUse`. Objects,
  kinds, threads, exits and the calls of constructors and destructors are
  arbitrary.

* **ParallelJobsProofs.** Two inductive invariants, one on top of the other, for
  any graph (with loops too), any commands with several targets, any cache and any
  number of workers. `BooksInv`: types; `ref_count` against `waiting_parents`;
  `jobs` against the queues and the workers' hands; what the main thread knows
  (it looks at a PENDING node, and asks for a task only while a worker is free)
  and what a worker knows of its task; what is in a queue or in a hand was
  dispatched; and an executor that was dispatched is `Closed`: none of its targets
  is PENDING or unvisited, and no step of anybody takes it back. Hence
  `BooksAreExact` and `NoNodeIsDispatchedTwice`. `ClearedBooks` is the lemma on which the
  counts rest: `will_not_build()` and `postprocess()` lower the count of a parent by
  the number of the sets it is removed from.
  `WalkInv`, for `ChildrenSettled`: a dispatched task is in one place; a node that is
  made waits for nothing, unless it is tainted; the targets of an executor are made
  together; a finished node has released its parents, unless it was retrieved; and
  an incomplete scan of a node that can still be dispatched will be forgotten,
  because the node waits for a source it could not read (`ScansForgotten`, with
  `LookKnows` and `WaitKnows` for the time between the scan and the registration).
  That a node is dispatched with an incomplete scan is then possible only if a
  worker has made a source readable behind the main thread's back, which is what
  taints it (`IncompleteIsTainted`). `SourcesReady` says of what is in flight that
  its sources are done, not in flight themselves, and stay so:
  `WorkersBuildFromSettledSources`. The steps are not compared with each part of
  `WalkInv`: `StepMoves` shows first that each moves a node, registers and releases
  a parent or forgets a scan in one of few ways (`Moved`), and the parts are shown
  from that.
  `CycleInv`, for `CyclesAreReal`, says what the build still owes to each node that
  waits. A pending node is on the stack, in the main thread's hand or waits for
  another (`PendingOwed`); an unvisited node that is waited for is on the stack
  (`UnvisitedOwed`); what executes is in flight, and a finished node that is waited
  for is too (`ActiveOwed`); so are the children that the node in hand is about to
  wait for (`WaitOwed`). A node that failed has failed itself or needs one that did
  (`FailedForReason`), and without `--keep-going` the first failure stops the walk
  (`FailureStops`). At the end nothing is in flight and the stack is empty
  (`EndKnows`), so whatever is left in `pending_children` (`PendingAwaited`) needs a
  failed node, or another node that is left. Of the nodes left, one with a least
  set of needed nodes needs itself (`NeedsItself`): strict inclusion of finite sets
  is well founded, and this takes the place of an induction over paths.
  `SuccessInv`, for `SuccessMeansBuilt`: while scons would return 0, nothing has failed
  and only a signal stops the walk (`FailuresCount`); a target asked for is still to
  be taken or has been looked at (`TopsOwed`); what is made has its children made
  (`ChildrenDone`); and every circle of nodes that wait meets `pending_children`
  (`CirclesPend`), since the last of them to be registered found the next one
  pending: a cycle cannot be left over in silence. As for `WalkInv`, the steps are
  first reduced to what they do to the lists (`Shelves`, `Takes`, `Enters`, `Drops`)
  and to the state of a node (`Changes`).

The inductive invariants (`SchedulerInv`, `RunnerInv`, `LockInv`, `LoadInv`,
`AnalyzerInv`, `SortInv`, `AnalysisInv`, `PoolInv`, `LazyInv`, `BooksInv`,
`WalkInv`, `CycleInv`, `SuccessInv`) and the types they contain are proved and no
longer model-checked beside what follows from them.

Only model-checked: the liveness properties (`ReturnsOrHangs`,
`OrdinaryTestsRun`, `EveryBladeEnds`, `LoadingEnds`, `BuildEnds`, `EndsOrStarves`,
`EndsOrHangs`), which need fairness and are outside what the proof system does;
and `PurgeKeepsLimit` of `ParallelJobs`. What a purge keeps is a sum over a set, which
is a fold and needs induction over the set.

## 7. Not modelled

The text of the rules and of the reports, parsing of names, options and
configuration; what happens inside a compiler and the tests; `blade_tests_detail`,
which nothing reads back; `HEAPCHECK` and the other variables given to a test,
which are not part of the decision what to run. Of scons: side effects, `-i`, `-c`,
alternative targets and the serial job, which Blade does not use; an action or a
scanner that calls `sys.exit(0)`, which would fail its task with exit status 0, and
which no rule of Blade does; a push to the cache that fails, of which scons only
warns; and the nodes,
signatures, scanners, environments and tools around the engine. Of `base/`: waits
with a timeout, and what only converts data or calls the operating system. The
binary runner prepares a directory and runs one program.

By lines, most of the repository is third-party code: the Python of scons, gflags,
protobuf, gmock and argparse, generators of other projects, and the C++ libraries
in `thirdparty/`. The models stand for a small part of those lines. What is left
of the repository's own code is sequential: formatting of rules, parsing, string,
file and URL utilities, and tables.
