----------------------------- MODULE TestRunner -----------------------------
(***************************************************************************)
(* Incremental testing (test_runner.py): successive runs of blade test in  *)
(* one source tree, what each of them decides to run or to skip from the   *)
(* stamp file the one before has left, and what it writes back.  Between   *)
(* and during the runs tests are rebuilt, their data are edited, the clock *)
(* moves, and a run may be interrupted or killed at any point.             *)
(*                                                                         *)
(* Time stamps of files only grow, so a check sum of them is a number that *)
(* grows with every change it can see.  How the scheduler executes a batch *)
(* is TestBatch; here each test of the batch ends in any order.            *)
(***************************************************************************)
EXTENDS Integers, FiniteSets

CONSTANTS Tests,        \* the cc_test targets of the tree
          AlwaysRun,    \* those with always_run = True
          DirData,      \* those whose testdata names a directory
          TargetSets,   \* the sets of targets a command line may expand to
          Envs,         \* os.environ without env_ignore_set
          Args,         \* options.args
          Times,        \* readings of the clock
          Interval,     \* valid_inctest_time_interval (86400 in the code)
          MaxRev,       \* bound on the edits of a test
          Outcomes,     \* how a test may end: "lost" if its worker may die
          MayAbort      \* may a run be interrupted or killed?

ASSUME RunnerAssumption ==
    /\ IsFiniteSet(Tests)
    /\ AlwaysRun \subseteq Tests
    /\ DirData \subseteq Tests
    /\ TargetSets \subseteq SUBSET Tests
    /\ Times \subseteq Int
    /\ Interval \in Nat
    /\ MaxRev \in Nat
    /\ Outcomes \subseteq {"pass", "fail", "lost"}
    /\ MayAbort \in BOOLEAN

VARIABLES rev,         \* what a test and its data really are
          sum,         \* what _get_test_target_md5sum can tell of it
          now,         \* time.time()
          stamp,       \* .blade.test.stamp
          phase,       \* "idle", "testing" or "writing"
          test_stamp,  \* self.test_stamp: what this run will write
          skipped,     \* self.skipped_tests
          scheduled,   \* the tests of tests_run_list
          fate,        \* how each of them ended in this run
          seen,        \* history: rev of each test when it was selected
          passed,      \* history: with which rev, env and args a test passed
          recorded,    \* history: how a test last ended in a run that wrote its stamp
          left_out     \* history: tests that such a run has not looked at since

run == <<phase, test_stamp, skipped, scheduled, fate, seen>>
history == <<passed, recorded, left_out>>
world == <<rev, sum, now>>
vars == <<world, stamp, run, history>>

Revs == 0 .. MaxRev

(* Values of a test in the 'md5' dictionary that are no check sum: the     *)
(* pair (0, 0) of a failed test, and no entry.                             *)
Failed == -1
Absent == -2

(* The stamp file without a readable dictionary: it does not exist, or     *)
(* eval raises SyntaxError because it was cut off.                         *)
NoHistory == [form |-> "none", md5 |-> [t \in Tests |-> Absent]]

Init ==
    /\ rev = [t \in Tests |-> 0]
    /\ sum = [t \in Tests |-> 0]
    /\ now \in Times
    /\ stamp = NoHistory
    /\ phase = "idle"
    /\ test_stamp = NoHistory
    /\ skipped = {}
    /\ scheduled = {}
    /\ fate = [t \in Tests |-> "none"]
    /\ seen = [t \in Tests |-> 0]
    /\ passed = [t \in Tests |-> {}]
    /\ recorded = [t \in Tests |-> "none"]
    /\ left_out = {}
-----------------------------------------------------------------------------
(* The world around the runs.                                              *)

(* A rebuild or an edit of a testdata file gives a new time stamp.         *)
Touch(t) ==
    /\ rev[t] < MaxRev
    /\ rev' = [rev EXCEPT ![t] = @ + 1]
    /\ sum' = [sum EXCEPT ![t] = @ + 1]
    /\ UNCHANGED <<now, stamp, run, history>>

(* An edit of a file in a testdata directory leaves the time stamps of the *)
(* directory, the only ones that are looked at, as they are.               *)
TouchInside(t) ==
    /\ t \in DirData
    /\ rev[t] < MaxRev
    /\ rev' = [rev EXCEPT ![t] = @ + 1]
    /\ UNCHANGED <<sum, now, stamp, run, history>>

(* The clock moves, or is set.                                             *)
Tick ==
    /\ now' \in Times \ {now}
    /\ UNCHANGED <<rev, sum, stamp, run, history>>
-----------------------------------------------------------------------------
(* One run of blade test.                                                  *)

(* Mutant: a change of the environment is reported, but does not set       *)
(* run_all_reason.                                                         *)
RunAllButEnv(fulltest, env, arg) ==
    \/ fulltest
    \/ stamp.form # "dict"
    \/ stamp.arg # arg
    \/ now - stamp.time >= Interval
    \/ now - stamp.time < 0

(* run_all_reason: the last of FULLTEST, NO_HISTORY, ARGUMENT, ENVIRONMENT *)
(* and STALE that applies.  A stamp that is not loaded has no 'testarg',   *)
(* which differs from every md5sum.                                        *)
RunAll(fulltest, env, arg) ==
    \/ fulltest
    \/ stamp.form # "dict"
    \/ stamp.arg # arg
    \/ stamp.env # env
    \/ now - stamp.time >= Interval
    \/ now - stamp.time < 0

(* self.last_test_stamp['md5'], not loaded with --full-test                *)
LastMd5(fulltest) == IF fulltest THEN NoHistory.md5 ELSE stamp.md5

(* inctest_run_list or run_all_reason, and always_run: the tests to run.   *)
Chosen(targets, direct, fulltest, env, arg) ==
    IF RunAll(fulltest, env, arg) THEN targets
    ELSE {t \in targets : \/ t \in direct
                          \/ sum[t] # LastMd5(fulltest)[t]
                          \/ t \in AlwaysRun}

(* TestRunner.__init__, _generate_inctest_run_list and the first part of   *)
(* run: read the stamp, take the check sums of the targets, keep the old   *)
(* ones of all other tests, and choose what to run.                        *)
StartRun(targets, direct, fulltest, env, arg) ==
    /\ phase = "idle"
    /\ phase' = "testing"
    /\ test_stamp' =
          [form |-> "dict", env |-> env, arg |-> arg, time |-> now,
           md5 |-> [t \in Tests |-> IF t \in targets THEN sum[t]
                                                     ELSE LastMd5(fulltest)[t]]]
    /\ scheduled' = Chosen(targets, direct, fulltest, env, arg)
    /\ skipped' = targets \ Chosen(targets, direct, fulltest, env, arg)
    /\ fate' = [t \in Tests |-> "none"]
    /\ seen' = rev
    /\ UNCHANGED <<world, stamp, history>>

(* A scheduled test is executed, with the contents it has now; or it is    *)
(* lost, because its worker died of an exception.                          *)
Execute(t) ==
    /\ phase = "testing"
    /\ t \in scheduled
    /\ fate[t] = "none"
    /\ \E v \in Outcomes :
          /\ fate' = [fate EXCEPT ![t] = v]
          /\ passed' = IF v = "pass"
                         THEN [passed EXCEPT ![t] =
                                 @ \cup {<<rev[t], test_stamp.env, test_stamp.arg>>}]
                         ELSE passed
    /\ UNCHANGED <<world, stamp, phase, test_stamp, skipped, scheduled, seen,
                   recorded, left_out>>

(* scheduler.failed_targets *)
FailedTargets == {t \in Tests : fate[t] = "fail"}

(* Mutant: failed tests keep their check sum.                              *)
OpenStampUnmarked ==
    /\ phase = "testing"
    /\ (\E t \in scheduled : fate[t] = "none") => (\E t \in scheduled : fate[t] = "lost")
    /\ stamp' = NoHistory
    /\ phase' = "writing"
    /\ UNCHANGED <<world, test_stamp, skipped, scheduled, fate, seen, history>>

(* Mutant: the stamp is opened while tests are still running.              *)
OpenStampEarly ==
    /\ phase = "testing"
    /\ test_stamp' = [test_stamp EXCEPT !.md5 =
                        [t \in Tests |-> IF t \in FailedTargets THEN Failed
                                                                ELSE @[t]]]
    /\ stamp' = NoHistory
    /\ phase' = "writing"
    /\ UNCHANGED <<world, skipped, scheduled, fate, seen, history>>

(* schedule_jobs has returned, with every test run unless one was lost:    *)
(* mark the failed tests, print the summary, and open the stamp file,      *)
(* which empties it.                                                       *)
OpenStamp ==
    /\ phase = "testing"
    /\ (\E t \in scheduled : fate[t] = "none") => (\E t \in scheduled : fate[t] = "lost")
    /\ test_stamp' = [test_stamp EXCEPT !.md5 =
                        [t \in Tests |-> IF t \in FailedTargets THEN Failed
                                                                ELSE @[t]]]
    /\ stamp' = NoHistory
    /\ phase' = "writing"
    /\ UNCHANGED <<world, skipped, scheduled, fate, seen, history>>

(* The attributes of the TestRunner are gone with the process.             *)
EndOfRun ==
    /\ phase' = "idle"
    /\ test_stamp' = NoHistory
    /\ skipped' = {}
    /\ scheduled' = {}
    /\ fate' = [t \in Tests |-> "none"]
    /\ seen' = [t \in Tests |-> 0]

(* The rest of _finish_tests: write the stamp, and remove it when it is    *)
(* oversized.                                                              *)
WriteStamp ==
    /\ phase = "writing"
    /\ \E oversized \in BOOLEAN : stamp' = IF oversized THEN NoHistory ELSE test_stamp
    /\ recorded' = [t \in Tests |-> IF fate[t] \in {"pass", "fail"} THEN fate[t]
                                                                  ELSE recorded[t]]
    /\ left_out' = (left_out \cup (Tests \ skipped)) \ scheduled
    /\ EndOfRun
    /\ UNCHANGED <<world, passed>>

(* Ctrl-C, an error exit of _prepare_test_data, SIGKILL or a power cut:    *)
(* nothing more is written.                                                *)
AbortRun ==
    /\ MayAbort
    /\ phase # "idle"
    /\ EndOfRun
    /\ UNCHANGED <<world, stamp, history>>

Next ==
    \/ \E t \in Tests : Touch(t) \/ TouchInside(t)
    \/ Tick
    \/ \E targets \in TargetSets, fulltest \in BOOLEAN, env \in Envs, arg \in Args :
          \E direct \in SUBSET targets : StartRun(targets, direct, fulltest, env, arg)
    \/ \E t \in Tests : Execute(t)
    \/ OpenStamp
    \/ WriteStamp
    \/ AbortRun

Spec == Init /\ [][Next]_vars
-----------------------------------------------------------------------------
(* Properties.                                                             *)

Stamps ==
    [form : {"dict"}, env : Envs, arg : Args, time : Times,
     md5 : [Tests -> Revs \cup {Failed, Absent}]] \cup {NoHistory}

(* The attributes of a run, the stamp file and the histories.              *)
TypeOK ==
    /\ rev \in [Tests -> Revs]
    /\ sum \in [Tests -> Revs]
    /\ now \in Times
    /\ stamp \in Stamps
    /\ phase \in {"idle", "testing", "writing"}
    /\ test_stamp \in Stamps
    /\ skipped \subseteq Tests
    /\ scheduled \subseteq Tests
    /\ fate \in [Tests -> {"none", "pass", "fail", "lost"}]
    /\ seen \in [Tests -> Revs]
    /\ passed \in [Tests -> SUBSET (Revs \X Envs \X Args)]
    /\ recorded \in [Tests -> {"none", "pass", "fail"}]
    /\ left_out \subseteq Tests

(* The revisions with which a test has passed, in whatever environment.    *)
PassedRevs(t) == {p[1] : p \in passed[t]}

(* The tests of which every edit shows in a time stamp.                    *)
Visible == Tests \ DirData

(* A test that is skipped has passed exactly as it is now, ...             *)
SkippedRevPassed ==
    \A t \in skipped \cap Visible : seen[t] \in PassedRevs(t)

(* ... in the environment and with the arguments of this run, if no run    *)
(* has left it out of its targets since.                                   *)
SkippedPassedHere ==
    \A t \in (skipped \cap Visible) \ left_out :
        <<seen[t], test_stamp.env, test_stamp.arg>> \in passed[t]

(* A test is skipped only if it has passed exactly as it is now, and here: *)
(* whatever was edited before, during and after the earlier runs,          *)
(* whichever of them failed, were interrupted or died while they wrote the *)
(* stamp, and however the environment changed between them; but a run that *)
(* leaves a test out passes its check sum on under an environment in which *)
(* the test may never have run.                                            *)
SkippedTestHasPassed == SkippedRevPassed /\ SkippedPassedHere

(* A test that failed in a run that came to its end is not skipped by the  *)
(* next one that has it as a target.                                       *)
RecordedFailureIsRerun ==
    \A t \in skipped : recorded[t] # "fail"

(* When "All tests passed!" is printed, every test among the targets,      *)
(* skipped or not, has passed as it was when the run looked at it, unless  *)
(* it was edited meanwhile or has edits that do not show.                  *)
GreenMeansPassed ==
    phase = "writing" /\ FailedTargets = {} =>
        \A t \in (skipped \cup scheduled) \cap Visible :
            rev[t] = seen[t] => seen[t] \in PassedRevs(t)
-----------------------------------------------------------------------------
(* The inductive invariant of the proofs.                                  *)

(* What a check sum m of t is worth when it is that of t as it is now.     *)
Vouches(m, t) == m <= rev[t] /\ (m = rev[t] => rev[t] \in PassedRevs(t))

(* A check sum in the stamp file vouches for its test, if edits of it      *)
(* show, and so does one this run will write, except for the tests it      *)
(* still has to execute or that failed.                                    *)
CheckSumsVouch ==
    /\ \A t \in Visible :
          /\ sum[t] = rev[t]
          /\ Vouches(stamp.md5[t], t)
          /\ phase # "idle" => seen[t] <= rev[t] /\ test_stamp.md5[t] <= rev[t]
          /\ phase # "idle" /\ t \notin scheduled => Vouches(test_stamp.md5[t], t)
          /\ t \in scheduled /\ fate[t] = "pass" =>
                /\ Vouches(test_stamp.md5[t], t)
                /\ Vouches(seen[t], t)
    /\ SkippedRevPassed

(* A check sum in the stamp file is not that of a test that failed when it *)
(* was last recorded, nor is one this run has copied from there.           *)
FailuresMarked ==
    /\ \A t \in Tests :
          /\ stamp.md5[t] >= 0 => recorded[t] # "fail"
          /\ phase # "idle" /\ t \notin scheduled /\ test_stamp.md5[t] >= 0
                => recorded[t] # "fail"
    /\ RecordedFailureIsRerun

(* The books of a run.                                                     *)
RunBooks ==
    /\ \A t \in Tests : sum[t] <= rev[t]
    /\ skipped \cap scheduled = {}
    /\ phase = "idle" => skipped = {} /\ scheduled = {}
    /\ phase # "idle" => test_stamp.form = "dict"
    /\ \A t \in Tests : fate[t] # "none" => t \in scheduled
    /\ \A t \in Tests : fate[t] # "lost"
    /\ phase = "writing" =>
          \A t \in scheduled : /\ fate[t] # "none"
                               /\ fate[t] = "fail" => test_stamp.md5[t] = Failed

(* What a check sum is worth in an environment and with arguments.         *)
VouchesHere(m, t, s) == m = rev[t] => <<rev[t], s.env, s.arg>> \in passed[t]

(* A check sum in the stamp file vouches for its test in the environment   *)
(* and with the arguments that are written beside it, unless a run has     *)
(* left the test out.                                                      *)
CheckSumsVouchHere ==
    /\ stamp.form = "dict" =>
          \A t \in Visible \ left_out : VouchesHere(stamp.md5[t], t, stamp)
    /\ \A t \in Visible :
          (t \in skipped \ left_out) \/ (t \in scheduled /\ fate[t] = "pass")
              => VouchesHere(test_stamp.md5[t], t, test_stamp)
    /\ SkippedPassedHere

(* The books of a run, the marks of failures and, where every edit shows,  *)
(* the worth of the check sums.                                            *)
RunnerInv ==
    /\ TypeOK
    /\ RunBooks
    /\ FailuresMarked
    /\ CheckSumsVouch
    /\ CheckSumsVouchHere
=============================================================================
