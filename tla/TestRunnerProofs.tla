-------------------------- MODULE TestRunnerProofs --------------------------
(***************************************************************************)
(* Proofs about TestRunner, for every set of tests, every choice of        *)
(* targets, environments, arguments and clock readings, and any number of  *)
(* edits.                                                                  *)
(***************************************************************************)
EXTENDS TestRunner, TLAPS

(* A stamp that is not readable has no entry.                              *)
LEMMA StampForms ==
    ASSUME NEW s \in Stamps
    PROVE  /\ s.md5 \in [Tests -> Revs \cup {Failed, Absent}]
           /\ s.form \in {"dict", "none"}
           /\ s.form = "dict" => s.env \in Envs /\ s.arg \in Args /\ s.time \in Times
           /\ s.form = "none" => s = NoHistory
  BY DEF Stamps, NoHistory

(* An unreadable stamp file is a stamp without check sums.                 *)
LEMMA NoHistoryStamp == NoHistory \in Stamps
  BY DEF Stamps

(* The types hold before the first run.                                    *)
LEMMA InitTypeOK == Init => TypeOK
<1>1. 0 \in Revs
  BY RunnerAssumption DEF Revs
<1>2. QED
  BY <1>1, NoHistoryStamp DEF Init, TypeOK

(* The attributes of a run are reset within their types.                   *)
LEMMA EndOfRunType ==
    ASSUME EndOfRun
    PROVE  /\ phase' = "idle" /\ test_stamp' \in Stamps
           /\ skipped' = {} /\ scheduled' = {}
           /\ fate' \in [Tests -> {"none", "pass", "fail", "lost"}]
           /\ seen' \in [Tests -> Revs]
<1>1. 0 \in Revs
  BY RunnerAssumption DEF Revs
<1>2. QED
  BY <1>1, NoHistoryStamp DEF EndOfRun

(* Every step keeps the types.                                             *)
LEMMA NextTypeOK == TypeOK /\ RunBooks /\ [Next]_vars => TypeOK'
<1> SUFFICES ASSUME TypeOK, RunBooks, [Next]_vars PROVE TypeOK'
  OBVIOUS
<1> USE DEF world, run, history
<1>1. ASSUME NEW t \in Tests, Touch(t) PROVE TypeOK'
  <2>1. rev' \in [Tests -> Revs] /\ sum' \in [Tests -> Revs]
    BY <1>1, RunnerAssumption DEF Touch, TypeOK, Revs, RunBooks
  <2>2. QED
    BY <1>1, <2>1 DEF Touch, TypeOK
<1>2. ASSUME NEW t \in Tests, TouchInside(t) PROVE TypeOK'
  <2>1. rev' \in [Tests -> Revs]
    BY <1>2, RunnerAssumption DEF TouchInside, TypeOK, Revs
  <2>2. QED
    BY <1>2, <2>1 DEF TouchInside, TypeOK
<1>3. CASE Tick
  BY <1>3 DEF Tick, TypeOK
<1>4. ASSUME NEW targets \in TargetSets, NEW fulltest \in BOOLEAN, NEW env \in Envs,
             NEW arg \in Args, NEW direct \in SUBSET targets,
             StartRun(targets, direct, fulltest, env, arg)
      PROVE  TypeOK'
  <2>1. targets \subseteq Tests
    BY RunnerAssumption
  <2>2. LastMd5(fulltest) \in [Tests -> Revs \cup {Failed, Absent}]
    BY StampForms DEF LastMd5, NoHistory, TypeOK
  <2>3. test_stamp' \in Stamps
    BY <1>4, <2>2 DEF StartRun, Stamps, TypeOK
  <2>4. Chosen(targets, direct, fulltest, env, arg) \subseteq targets
    BY DEF Chosen
  <2>5. QED
    BY <1>4, <2>1, <2>3, <2>4 DEF StartRun, TypeOK
<1>5. ASSUME NEW t \in Tests, Execute(t) PROVE TypeOK'
  <2>1. PICK v \in Outcomes :
          /\ fate' = [fate EXCEPT ![t] = v]
          /\ passed' = IF v = "pass"
                         THEN [passed EXCEPT ![t] =
                                 @ \cup {<<rev[t], test_stamp.env, test_stamp.arg>>}]
                         ELSE passed
    BY <1>5 DEF Execute
  <2>2. v \in {"pass", "fail", "lost"}
    BY RunnerAssumption
  <2>3. test_stamp.env \in Envs /\ test_stamp.arg \in Args
    BY <1>5, StampForms DEF Execute, TypeOK, RunBooks
  <2>4. passed' \in [Tests -> SUBSET (Revs \X Envs \X Args)]
    BY <2>1, <2>3 DEF TypeOK
  <2>5. QED
    BY <1>5, <2>1, <2>2, <2>4 DEF Execute, TypeOK
<1>6. CASE OpenStamp
  <2>1. test_stamp' \in Stamps
    BY <1>6 DEF OpenStamp, TypeOK, RunBooks, Stamps, NoHistory
  <2>2. QED
    BY <1>6, <2>1, NoHistoryStamp DEF OpenStamp, TypeOK
<1>7. CASE WriteStamp
  <2>1. stamp' \in Stamps
    BY <1>7, NoHistoryStamp DEF WriteStamp, TypeOK
  <2>2. recorded' \in [Tests -> {"none", "pass", "fail"}]
    BY <1>7 DEF WriteStamp, TypeOK
  <2>3. left_out' \subseteq Tests
    BY <1>7 DEF WriteStamp, TypeOK
  <2>4. QED
    BY <1>7, <2>1, <2>2, <2>3, EndOfRunType DEF WriteStamp, TypeOK
<1>8. CASE AbortRun
  BY <1>8, EndOfRunType DEF AbortRun, TypeOK
<1>9. CASE UNCHANGED vars
  BY <1>9 DEF vars, TypeOK
<1>10. QED
  BY <1>1, <1>2, <1>3, <1>4, <1>5, <1>6, <1>7, <1>8, <1>9 DEF Next

(* The choice of a run is a set of targets.                                *)
LEMMA ChosenTargets ==
    ASSUME NEW targets \in TargetSets, NEW direct, NEW fulltest, NEW env, NEW arg
    PROVE  /\ targets \subseteq Tests
           /\ Chosen(targets, direct, fulltest, env, arg) \subseteq targets
  BY RunnerAssumption DEF Chosen

(* Every step keeps the books of a run: what is skipped, scheduled, ended  *)
(* and marked as failed.                                                   *)
LEMMA NextRunBooks ==
    ASSUME "lost" \notin Outcomes, TypeOK, RunBooks, [Next]_vars
    PROVE  RunBooks'
<1> USE DEF world, run, history
<1>1. ASSUME NEW t \in Tests, Touch(t) PROVE RunBooks'
  BY <1>1, RunnerAssumption DEF Touch, TypeOK, RunBooks, Revs
<1>2. ASSUME NEW t \in Tests, TouchInside(t) PROVE RunBooks'
  BY <1>2, RunnerAssumption DEF TouchInside, TypeOK, RunBooks, Revs
<1>3. CASE Tick
  BY <1>3 DEF Tick, RunBooks
<1>4. ASSUME NEW targets \in TargetSets, NEW fulltest \in BOOLEAN, NEW env \in Envs,
             NEW arg \in Args, NEW direct \in SUBSET targets,
             StartRun(targets, direct, fulltest, env, arg)
      PROVE  RunBooks'
  BY <1>4, ChosenTargets DEF StartRun, RunBooks
<1>5. ASSUME NEW t \in Tests, Execute(t) PROVE RunBooks'
  BY <1>5, RunnerAssumption DEF Execute, TypeOK, RunBooks
<1>6. CASE OpenStamp
  <2>1. \A t \in scheduled : fate[t] # "none"
    BY <1>6 DEF OpenStamp, RunBooks, TypeOK
  <2>2. \A t \in Tests : fate[t] = "fail" => test_stamp'.md5[t] = Failed
    BY <1>6 DEF OpenStamp, FailedTargets, RunBooks, TypeOK, Stamps
  <2>3. test_stamp'.form = test_stamp.form
    BY <1>6 DEF OpenStamp, RunBooks, TypeOK, Stamps
  <2>4. QED
    BY <1>6, <2>1, <2>2, <2>3 DEF OpenStamp, RunBooks, TypeOK
<1>7. CASE WriteStamp
  BY <1>7 DEF WriteStamp, EndOfRun, RunBooks, TypeOK
<1>8. CASE AbortRun
  BY <1>8 DEF AbortRun, EndOfRun, RunBooks, TypeOK
<1>9. CASE UNCHANGED vars
  BY <1>9 DEF vars, RunBooks
<1>10. QED
  BY <1>1, <1>2, <1>3, <1>4, <1>5, <1>6, <1>7, <1>8, <1>9 DEF Next

(* Failures reach the stamp file as (0, 0), which no later run takes for   *)
(* the check sum of a test.                                                *)
LEMMA NextFailuresMarked ==
    ASSUME "lost" \notin Outcomes, TypeOK, RunBooks, FailuresMarked, [Next]_vars
    PROVE  FailuresMarked'
<1> USE DEF world, run, history, FailuresMarked, RecordedFailureIsRerun
<1>0. stamp.md5 \in [Tests -> Revs \cup {Failed, Absent}]
  BY StampForms DEF TypeOK
<1>A. NoHistory.md5 = [t \in Tests |-> Absent] /\ ~(Absent >= 0) /\ ~(Failed >= 0)
  BY DEF NoHistory, Absent, Failed
<1>1. ASSUME NEW t \in Tests, Touch(t) PROVE FailuresMarked'
  BY <1>1 DEF Touch
<1>2. ASSUME NEW t \in Tests, TouchInside(t) PROVE FailuresMarked'
  BY <1>2 DEF TouchInside
<1>3. CASE Tick
  BY <1>3 DEF Tick
<1>4. ASSUME NEW targets \in TargetSets, NEW fulltest \in BOOLEAN, NEW env \in Envs,
             NEW arg \in Args, NEW direct \in SUBSET targets,
             StartRun(targets, direct, fulltest, env, arg)
      PROVE  FailuresMarked'
  <2>1. \A t \in Tests : LastMd5(fulltest)[t] >= 0 => recorded[t] # "fail"
    BY <1>A DEF LastMd5
  <2>2. \A t \in Tests : t \in targets \ Chosen(targets, direct, fulltest, env, arg)
                          => LastMd5(fulltest)[t] = sum[t]
    BY DEF Chosen
  <2>3. \A t \in Tests : sum[t] >= 0
    BY RunnerAssumption DEF TypeOK, Revs
  <2>4. \A t \in Tests : test_stamp'.md5[t] = IF t \in targets THEN sum[t]
                                               ELSE LastMd5(fulltest)[t]
    BY <1>4 DEF StartRun
  <2>5. QED
    BY <1>4, <2>1, <2>2, <2>3, <2>4, ChosenTargets DEF StartRun
<1>5. ASSUME NEW t \in Tests, Execute(t) PROVE FailuresMarked'
  BY <1>5 DEF Execute
<1>6. CASE OpenStamp
  <2>1. \A t \in Tests : test_stamp'.md5[t] = Failed \/ test_stamp'.md5[t] = test_stamp.md5[t]
    BY <1>6 DEF OpenStamp, RunBooks, TypeOK, Stamps
  <2>2. QED
    BY <1>6, <1>A, <2>1 DEF OpenStamp
<1>7. CASE WriteStamp
  <2>1. \A t \in Tests : test_stamp.md5[t] >= 0 => recorded'[t] # "fail"
    BY <1>7, <1>A DEF WriteStamp, RunBooks, TypeOK
  <2>2. \A t \in Tests : stamp'.md5[t] >= 0 => recorded'[t] # "fail"
    BY <1>7, <1>A, <2>1 DEF WriteStamp
  <2>3. phase' = "idle" /\ skipped' = {}
    BY <1>7 DEF WriteStamp, EndOfRun
  <2>4. QED
    BY <2>2, <2>3
<1>8. CASE AbortRun
  BY <1>8 DEF AbortRun, EndOfRun
<1>9. CASE UNCHANGED vars
  BY <1>9 DEF vars
<1>10. QED
  BY <1>1, <1>2, <1>3, <1>4, <1>5, <1>6, <1>7, <1>8, <1>9 DEF Next

(* What passed in some environment stays passed in it.                     *)
LEMMA PassedStays ==
    ASSUME TypeOK, [Next]_vars, NEW t \in Tests
    PROVE  passed[t] \subseteq passed'[t]
<1> USE DEF world, run, history
<1>1. ASSUME NEW u \in Tests, Execute(u)
      PROVE  passed[t] \subseteq passed'[t]
  BY <1>1 DEF Execute, TypeOK
<1>2. ASSUME UNCHANGED passed PROVE passed[t] \subseteq passed'[t]
  BY <1>2
<1>3. QED
  BY <1>1, <1>2 DEF Next, Touch, TouchInside, Tick, StartRun, OpenStamp,
     WriteStamp, AbortRun, vars

(* So do the revisions that passed.                                        *)
LEMMA PassedGrows ==
    ASSUME TypeOK, RunBooks, [Next]_vars, NEW t \in Tests
    PROVE  PassedRevs(t) \subseteq PassedRevs(t)'
  BY PassedStays DEF PassedRevs

(* A test that ends well has passed as it was at that moment.              *)
LEMMA ExecutionPasses ==
    ASSUME TypeOK, RunBooks, NEW t \in Tests, Execute(t), fate'[t] = "pass"
    PROVE  rev[t] \in PassedRevs(t)'
<1>1. passed'[t] = passed[t] \cup {<<rev[t], test_stamp.env, test_stamp.arg>>}
  BY DEF Execute, TypeOK
<1>2. <<rev[t], test_stamp.env, test_stamp.arg>>[1] = rev[t]
  OBVIOUS
<1>3. QED
  BY <1>1, <1>2 DEF PassedRevs

(* Edits only take the worth of older check sums; a run takes check sums   *)
(* before it executes tests, so a test edited in between is not vouched    *)
(* for by what the run writes.                                             *)
LEMMA NextCheckSumsVouch ==
    ASSUME "lost" \notin Outcomes, TypeOK, RunBooks, CheckSumsVouch,
           [Next]_vars
    PROVE  CheckSumsVouch'
<1> USE DEF world, run, history
<1>0. /\ \A u \in Tests : rev[u] \in Int /\ rev[u] >= 0 /\ seen[u] \in Int
      /\ \A u \in Tests : stamp.md5[u] \in Int /\ test_stamp.md5[u] \in Int
  <2>1. Revs \cup {Failed, Absent} \subseteq Int
    BY DEF Revs, Failed, Absent
  <2>2. QED
    BY <2>1, StampForms, RunnerAssumption DEF TypeOK, Revs
<1>A. \A u \in Tests : \A r : r \in PassedRevs(u) => r \in PassedRevs(u)'
  BY PassedGrows
<1>B. NoHistory.md5 = [u \in Tests |-> Absent] /\ Absent \in Int /\ Failed \in Int
      /\ Absent < 0 /\ Failed < 0
  BY DEF NoHistory, Absent, Failed
<1>C. ASSUME UNCHANGED <<rev, sum, skipped, seen, stamp, phase, test_stamp, scheduled, fate>>
      PROVE  CheckSumsVouch'
  BY <1>C, <1>A DEF CheckSumsVouch, Vouches, SkippedRevPassed, TypeOK, Visible
<1>1. ASSUME NEW t \in Tests, Touch(t) PROVE CheckSumsVouch'
  <2>1. rev' = [rev EXCEPT ![t] = rev[t] + 1] /\ sum' = [sum EXCEPT ![t] = sum[t] + 1]
    BY <1>1 DEF Touch
  <2>2. \A u \in Tests : rev'[u] >= rev[u] /\ rev'[u] \in Int /\ (u # t => rev'[u] = rev[u])
    BY <2>1, <1>0 DEF TypeOK
  <2>3. rev'[t] > rev[t]
    BY <2>1, <1>0 DEF TypeOK
  <2>4. \A u \in Tests : PassedRevs(u)' = PassedRevs(u)
    BY <1>1 DEF Touch, PassedRevs
  <2>5. \A u \in Tests : \A m \in Int : Vouches(m, u) => Vouches(m, u)'
    BY <2>2, <2>3, <2>4, <1>0 DEF Vouches
  <2>6. \A u \in Tests : \A m \in Int : m <= rev[u] => m <= rev'[u]
    BY <2>2, <1>0
  <2>7. UNCHANGED <<skipped, seen, stamp, phase, test_stamp, scheduled, fate>>
    BY <1>1 DEF Touch
  <2>8. SkippedRevPassed'
    BY <2>4, <2>7 DEF CheckSumsVouch, SkippedRevPassed, TypeOK, Visible
  <2>9. \A u \in Visible : sum'[u] = rev'[u]
    BY <2>1 DEF CheckSumsVouch, TypeOK, Visible
  <2>10. QED
    BY <2>5, <2>6, <2>7, <2>8, <2>9, <1>0 DEF CheckSumsVouch, Vouches, Visible
<1>2. ASSUME NEW t \in Tests, TouchInside(t) PROVE CheckSumsVouch'
  <2>1. \A u \in Visible : u \in Tests /\ rev'[u] = rev[u] /\ PassedRevs(u)' = PassedRevs(u)
    BY <1>2 DEF TouchInside, Visible, TypeOK, PassedRevs
  <2>2. UNCHANGED <<sum, skipped, seen, stamp, phase, test_stamp, scheduled, fate>>
    BY <1>2 DEF TouchInside
  <2>3. \A u \in Visible : \A m : Vouches(m, u)' <=> Vouches(m, u)
    BY <2>1 DEF Vouches
  <2>4. SkippedRevPassed'
    BY <2>1, <2>2 DEF CheckSumsVouch, SkippedRevPassed
  <2>5. QED
    BY <2>1, <2>2, <2>3, <2>4 DEF CheckSumsVouch
<1>3. CASE Tick
  BY <1>3, <1>C DEF Tick
<1>4. ASSUME NEW targets \in TargetSets, NEW fulltest \in BOOLEAN, NEW env \in Envs,
             NEW arg \in Args, NEW direct \in SUBSET targets,
             StartRun(targets, direct, fulltest, env, arg)
      PROVE  CheckSumsVouch'
  <2>0. \A u \in Visible : u \in Tests /\ sum[u] = rev[u] /\ Vouches(stamp.md5[u], u)
    BY DEF CheckSumsVouch, Visible
  <2>1. \A u \in Visible : Vouches(LastMd5(fulltest)[u], u)
    BY <2>0, <1>B, <1>0 DEF LastMd5, Vouches
  <2>2. \A u \in Visible \cap (targets \ Chosen(targets, direct, fulltest, env, arg)) :
             rev[u] = LastMd5(fulltest)[u]
    BY <2>0 DEF Chosen
  <2>3. \A u \in Visible : test_stamp'.md5[u] = IF u \in targets THEN rev[u]
                                               ELSE LastMd5(fulltest)[u]
    BY <1>4, <2>0 DEF StartRun
  <2>4. \A u \in Tests : PassedRevs(u)' = PassedRevs(u)
    BY <1>4 DEF StartRun, PassedRevs
  <2>5. UNCHANGED <<rev, sum, stamp>> /\ seen' = rev
        /\ \A u \in Tests : fate'[u] = "none"
    BY <1>4 DEF StartRun
  <2>6. SkippedRevPassed'
    BY <1>4, <2>1, <2>2, <2>4, <2>5, ChosenTargets
       DEF StartRun, SkippedRevPassed, Vouches
  <2>7. \A u \in Visible : u \notin scheduled' => Vouches(test_stamp.md5[u], u)'
    BY <1>4, <2>1, <2>2, <2>3, <2>4, <2>5 DEF StartRun, Vouches, Visible
  <2>8. \A u \in Visible : test_stamp'.md5[u] <= rev'[u] /\ seen'[u] <= rev'[u]
    BY <2>1, <2>3, <2>5, <1>0 DEF Vouches, Visible
  <2>9. \A u \in Visible : Vouches(stamp.md5[u], u)'
    BY <2>0, <2>4, <2>5 DEF Vouches
  <2>10. QED
    BY <2>0, <2>5, <2>6, <2>7, <2>8, <2>9 DEF CheckSumsVouch
<1>5. ASSUME NEW t \in Tests, Execute(t) PROVE CheckSumsVouch'
  <2>1. UNCHANGED <<rev, sum, skipped, seen, stamp, phase, test_stamp, scheduled>>
    BY <1>5 DEF Execute
  <2>2. \A u \in Tests : u # t => fate'[u] = fate[u]
    BY <1>5 DEF Execute, TypeOK
  <2>3. fate'[t] = "pass" => rev[t] \in PassedRevs(t)'
    BY <1>5, ExecutionPasses
  <2>4. phase # "idle"
    BY <1>5 DEF Execute
  <2>5. \A u \in Tests : \A m : Vouches(m, u) => Vouches(m, u)'
    BY <2>1, <1>A DEF Vouches
  <2>6. SkippedRevPassed'
    BY <2>1, <1>A DEF CheckSumsVouch, SkippedRevPassed, TypeOK, Visible
  <2>7. t \in Visible /\ fate'[t] = "pass" =>
           Vouches(test_stamp.md5[t], t)' /\ Vouches(seen[t], t)'
    BY <2>1, <2>3, <2>4 DEF CheckSumsVouch, Vouches, Visible
  <2>8. QED
    BY <2>1, <2>2, <2>5, <2>6, <2>7 DEF CheckSumsVouch, Visible
<1>6. CASE OpenStamp
  <2>1. UNCHANGED <<rev, sum, skipped, seen, scheduled, fate>> /\ phase # "idle"
        /\ \A u \in Tests : PassedRevs(u)' = PassedRevs(u)
    BY <1>6 DEF OpenStamp, PassedRevs
  <2>2. \A u \in Tests : test_stamp'.md5[u] = IF u \in FailedTargets THEN Failed
                                               ELSE test_stamp.md5[u]
    BY <1>6 DEF OpenStamp, RunBooks, TypeOK, Stamps
  <2>3. \A u \in Visible : Vouches(stamp.md5[u], u)'
    BY <1>6, <2>1, <1>B, <1>0 DEF OpenStamp, Vouches, Visible
  <2>4. \A u \in Tests : \A m : Vouches(m, u) => Vouches(m, u)'
    BY <2>1 DEF Vouches
  <2>5. \A u \in Tests : Vouches(Failed, u)'
    BY <2>1, <1>B, <1>0 DEF Vouches
  <2>6. SkippedRevPassed'
    BY <2>1 DEF CheckSumsVouch, SkippedRevPassed, TypeOK, Visible
  <2>7. \A u \in Visible :
           /\ seen'[u] <= rev'[u] /\ test_stamp'.md5[u] <= rev'[u]
           /\ u \notin scheduled' => Vouches(test_stamp.md5[u], u)'
           /\ u \in scheduled' /\ fate'[u] = "pass" =>
                Vouches(test_stamp.md5[u], u)' /\ Vouches(seen[u], u)'
    <3> SUFFICES ASSUME NEW u \in Visible
                 PROVE  /\ seen'[u] <= rev'[u] /\ test_stamp'.md5[u] <= rev'[u]
                        /\ u \notin scheduled' => Vouches(test_stamp.md5[u], u)'
                        /\ u \in scheduled' /\ fate'[u] = "pass" =>
                             Vouches(test_stamp.md5[u], u)' /\ Vouches(seen[u], u)'
      OBVIOUS
    <3>1. CASE u \in FailedTargets
      BY <3>1, <2>1, <2>2, <2>5, <1>B, <1>0 DEF CheckSumsVouch, FailedTargets, Vouches
    <3>2. CASE u \notin FailedTargets
      BY <3>2, <2>1, <2>2, <1>0 DEF CheckSumsVouch, Vouches, Visible
    <3>3. QED
      BY <3>1, <3>2
  <2>8. QED
    BY <2>1, <2>3, <2>6, <2>7 DEF CheckSumsVouch
<1>7. CASE WriteStamp
  <2>1. phase' = "idle" /\ skipped' = {} /\ scheduled' = {} /\ UNCHANGED <<rev, sum, passed>>
    BY <1>7 DEF WriteStamp, EndOfRun
  <2>2. \A u \in Visible : Vouches(test_stamp.md5[u], u)
    BY <1>7, <1>B, <1>0 DEF WriteStamp, CheckSumsVouch, RunBooks, TypeOK, Vouches
  <2>3. \A u \in Tests : Vouches(NoHistory.md5[u], u)
    BY <1>B, <1>0 DEF Vouches
  <2>4. \A u \in Visible : Vouches(stamp'.md5[u], u)
    BY <1>7, <2>2, <2>3 DEF WriteStamp, Visible
  <2>5. \A u \in Visible : Vouches(stamp.md5[u], u)'
    BY <2>1, <2>4 DEF Vouches, PassedRevs
  <2>6. SkippedRevPassed'
    BY <2>1 DEF SkippedRevPassed
  <2>7. QED
    BY <2>1, <2>5, <2>6 DEF CheckSumsVouch
<1>8. CASE AbortRun
  <2>1. /\ phase' = "idle" /\ skipped' = {} /\ scheduled' = {}
        /\ UNCHANGED <<rev, sum, passed, stamp>>
    BY <1>8 DEF AbortRun, EndOfRun
  <2>2. \A u \in Visible : Vouches(stamp.md5[u], u)'
    BY <2>1 DEF CheckSumsVouch, Vouches, PassedRevs
  <2>3. SkippedRevPassed'
    BY <2>1 DEF SkippedRevPassed
  <2>4. QED
    BY <2>1, <2>2, <2>3 DEF CheckSumsVouch
<1>9. CASE UNCHANGED vars
  BY <1>9, <1>C DEF vars
<1>10. QED
  BY <1>1, <1>2, <1>3, <1>4, <1>5, <1>6, <1>7, <1>8, <1>9 DEF Next

(* A run without a reason to run everything has the environment and the    *)
(* arguments of the stamp file, so what that vouches for holds for what    *)
(* the run skips; only the tests that are left out get a check sum beside  *)
(* an environment that is not theirs.                                      *)
LEMMA NextCheckSumsVouchHere ==
    ASSUME "lost" \notin Outcomes, TypeOK, RunBooks, CheckSumsVouch,
           CheckSumsVouchHere, [Next]_vars
    PROVE  CheckSumsVouchHere'
<1> USE DEF world, run, history
<1>0. /\ \A u \in Tests : rev[u] \in Int /\ rev[u] >= 0 /\ seen[u] \in Int
      /\ \A u \in Tests : stamp.md5[u] \in Int /\ test_stamp.md5[u] \in Int
  <2>1. Revs \cup {Failed, Absent} \subseteq Int
    BY DEF Revs, Failed, Absent
  <2>2. QED
    BY <2>1, StampForms, RunnerAssumption DEF TypeOK, Revs
<1>A. \A u \in Tests : \A p : p \in passed[u] => p \in passed'[u]
  BY PassedStays
<1>B. Failed < 0 /\ Failed \in Int /\ NoHistory.form # "dict"
  BY DEF NoHistory, Failed
<1>C. ASSUME UNCHANGED <<rev, skipped, seen, stamp, phase, test_stamp, scheduled,
                         fate, left_out>>
      PROVE  CheckSumsVouchHere'
  BY <1>C, <1>A DEF CheckSumsVouchHere, VouchesHere, SkippedPassedHere, Visible
<1>1. ASSUME NEW t \in Tests, Touch(t) PROVE CheckSumsVouchHere'
  <2>1. rev' = [rev EXCEPT ![t] = rev[t] + 1]
        /\ UNCHANGED <<skipped, seen, stamp, phase, test_stamp, scheduled, fate,
                        left_out, passed>>
    BY <1>1 DEF Touch
  <2>2. rev'[t] > rev[t] /\ \A u \in Tests : u # t => rev'[u] = rev[u]
    BY <2>1, <1>0 DEF TypeOK
  <2>3. t \in Visible => stamp.md5[t] <= rev[t]
    BY DEF CheckSumsVouch, Vouches
  <2>4. t \in Visible /\ phase # "idle" => test_stamp.md5[t] <= rev[t]
    BY DEF CheckSumsVouch
  <2>5. t \in skipped \cup scheduled => phase # "idle"
    BY DEF RunBooks
  <2>6. rev'[t] \in Int
    BY <2>1, <1>0 DEF TypeOK
  <2>7. t \in Visible => ~(stamp.md5[t] = rev'[t])
    BY <2>2, <2>3, <2>6, <1>0
  <2>8. t \in Visible /\ phase # "idle" => ~(test_stamp.md5[t] = rev'[t])
    BY <2>2, <2>4, <2>6, <1>0
  <2>9. stamp.form = "dict" =>
           \A u \in Visible \ left_out : VouchesHere(stamp.md5[u], u, stamp)'
    BY <2>1, <2>2, <2>7 DEF CheckSumsVouchHere, VouchesHere, Visible
  <2>10. \A u \in Visible :
           (u \in skipped \ left_out) \/ (u \in scheduled /\ fate[u] = "pass")
               => VouchesHere(test_stamp.md5[u], u, test_stamp)'
    BY <2>1, <2>2, <2>5, <2>8 DEF CheckSumsVouchHere, VouchesHere, Visible
  <2>11. SkippedPassedHere'
    BY <2>1 DEF CheckSumsVouchHere, SkippedPassedHere
  <2>12. QED
    BY <2>1, <2>9, <2>10, <2>11 DEF CheckSumsVouchHere
<1>2. ASSUME NEW t \in Tests, TouchInside(t) PROVE CheckSumsVouchHere'
  <2>1. \A u \in Visible : rev'[u] = rev[u]
    BY <1>2 DEF TouchInside, Visible, TypeOK
  <2>2. UNCHANGED <<skipped, seen, stamp, phase, test_stamp, scheduled, fate,
                    left_out, passed>>
    BY <1>2 DEF TouchInside
  <2>3. \A u \in Visible : \A m, s : VouchesHere(m, u, s) =>
           (m = rev'[u] => <<rev'[u], s.env, s.arg>> \in passed'[u])
    BY <2>1, <2>2 DEF VouchesHere
  <2>4. QED
    BY <2>1, <2>2, <2>3 DEF CheckSumsVouchHere, VouchesHere, SkippedPassedHere
<1>3. CASE Tick
  BY <1>3, <1>C DEF Tick
<1>4. ASSUME NEW targets \in TargetSets, NEW fulltest \in BOOLEAN, NEW env \in Envs,
             NEW arg \in Args, NEW direct \in SUBSET targets,
             StartRun(targets, direct, fulltest, env, arg)
      PROVE  CheckSumsVouchHere'
  <2>1. UNCHANGED <<rev, stamp, passed, left_out>> /\ seen' = rev
        /\ skipped' = targets \ Chosen(targets, direct, fulltest, env, arg)
        /\ test_stamp'.env = env /\ test_stamp'.arg = arg
        /\ \A u \in Tests : fate'[u] = "none"
    BY <1>4 DEF StartRun
  <2>2. \A u \in Visible : u \in Tests /\ sum[u] = rev[u]
    BY DEF CheckSumsVouch, Visible
  <2>3. ASSUME NEW u \in (skipped' \cap Visible) \ left_out
        PROVE  <<rev[u], env, arg>> \in passed[u]
    <3>1. ~RunAll(fulltest, env, arg) /\ u \in targets /\ sum[u] = LastMd5(fulltest)[u]
      BY <2>1, <2>3 DEF Chosen
    <3>2. ~fulltest /\ stamp.form = "dict" /\ stamp.env = env /\ stamp.arg = arg
      BY <3>1 DEF RunAll
    <3>3. stamp.md5[u] = rev[u]
      BY <3>1, <3>2, <2>2 DEF LastMd5
    <3>4. VouchesHere(stamp.md5[u], u, stamp)
      BY <3>2 DEF CheckSumsVouchHere
    <3>5. QED
      BY <3>2, <3>3, <3>4 DEF VouchesHere
  <2>4. stamp'.form = "dict" =>
           \A u \in Visible \ left_out' : VouchesHere(stamp.md5[u], u, stamp)'
    BY <2>1 DEF CheckSumsVouchHere, VouchesHere
  <2>5. SkippedPassedHere'
    BY <2>1, <2>3, <2>2 DEF SkippedPassedHere
  <2>6. \A u \in Visible : u \in skipped' \ left_out' =>
           VouchesHere(test_stamp.md5[u], u, test_stamp)'
    BY <2>1, <2>3 DEF VouchesHere
  <2>7. QED
    BY <2>1, <2>2, <2>4, <2>5, <2>6 DEF CheckSumsVouchHere
<1>5. ASSUME NEW t \in Tests, Execute(t) PROVE CheckSumsVouchHere'
  <2>1. UNCHANGED <<rev, skipped, seen, stamp, test_stamp, scheduled, left_out>>
    BY <1>5 DEF Execute
  <2>2. \A u \in Tests : u # t => fate'[u] = fate[u]
    BY <1>5 DEF Execute, TypeOK
  <2>3. fate'[t] = "pass" => <<rev[t], test_stamp.env, test_stamp.arg>> \in passed'[t]
    BY <1>5 DEF Execute, TypeOK
  <2>4. \A u \in Tests : \A m, s : VouchesHere(m, u, s) =>
           (m = rev'[u] => <<rev'[u], s.env, s.arg>> \in passed'[u])
    BY <2>1, <1>A DEF VouchesHere
  <2>5. stamp'.form = "dict" =>
           \A u \in Visible \ left_out' : VouchesHere(stamp.md5[u], u, stamp)'
    BY <2>1, <2>4 DEF CheckSumsVouchHere, VouchesHere, Visible
  <2>6. SkippedPassedHere'
    BY <2>1, <1>A DEF CheckSumsVouchHere, SkippedPassedHere, Visible
  <2>7. ASSUME NEW u \in Visible,
               (u \in skipped' \ left_out') \/ (u \in scheduled' /\ fate'[u] = "pass")
        PROVE  VouchesHere(test_stamp.md5[u], u, test_stamp)'
    <3>1. CASE u = t /\ fate'[t] = "pass"
      BY <3>1, <2>1, <2>3 DEF VouchesHere
    <3>2. CASE ~(u = t /\ fate'[t] = "pass")
      <4>1. VouchesHere(test_stamp.md5[u], u, test_stamp)
        BY <3>2, <2>1, <2>2, <2>7 DEF CheckSumsVouchHere, Visible
      <4>2. QED
        BY <4>1, <2>1, <2>4 DEF VouchesHere, Visible
    <3>3. QED
      BY <3>1, <3>2
  <2>8. QED
    BY <2>5, <2>6, <2>7 DEF CheckSumsVouchHere
<1>6. CASE OpenStamp
  <2>1. UNCHANGED <<rev, skipped, seen, scheduled, fate, left_out, passed>>
        /\ stamp' = NoHistory
    BY <1>6 DEF OpenStamp
  <2>2. \A u \in Tests : test_stamp'.md5[u] = IF u \in FailedTargets THEN Failed
                                               ELSE test_stamp.md5[u]
    BY <1>6 DEF OpenStamp, RunBooks, TypeOK, Stamps
  <2>3. test_stamp'.env = test_stamp.env /\ test_stamp'.arg = test_stamp.arg
    BY <1>6 DEF OpenStamp, RunBooks, TypeOK, Stamps
  <2>4. \A u \in Visible : u \in Tests /\ ~(Failed = rev[u])
    BY <1>0, <1>B DEF Visible
  <2>5. \A u \in Visible :
           (u \in skipped' \ left_out') \/ (u \in scheduled' /\ fate'[u] = "pass")
               => VouchesHere(test_stamp.md5[u], u, test_stamp)'
    BY <2>1, <2>2, <2>3, <2>4 DEF CheckSumsVouchHere, VouchesHere
  <2>6. SkippedPassedHere'
    BY <2>1, <2>3 DEF CheckSumsVouchHere, SkippedPassedHere
  <2>7. QED
    BY <2>1, <2>5, <2>6, <1>B DEF CheckSumsVouchHere
<1>7. CASE WriteStamp
  <2>1. skipped' = {} /\ scheduled' = {} /\ UNCHANGED <<rev, passed>>
        /\ left_out' = (left_out \cup (Tests \ skipped)) \ scheduled
        /\ (stamp' = NoHistory \/ stamp' = test_stamp)
    BY <1>7 DEF WriteStamp, EndOfRun
  <2>2. ASSUME NEW u \in Visible \ left_out'
        PROVE  VouchesHere(test_stamp.md5[u], u, test_stamp)
    <3>1. u \in Tests /\ (u \in skipped \ left_out \/ u \in scheduled)
      BY <2>1, <2>2 DEF Visible
    <3>2. CASE u \in skipped \ left_out
      BY <3>2, <2>2 DEF CheckSumsVouchHere
    <3>3. CASE u \in scheduled
      <4>1. fate[u] \in {"pass", "fail"} /\ (fate[u] = "fail" => test_stamp.md5[u] = Failed)
        BY <1>7, <3>1, <3>3 DEF WriteStamp, RunBooks, TypeOK
      <4>2. CASE fate[u] = "pass"
        BY <4>2, <3>3, <2>2 DEF CheckSumsVouchHere
      <4>3. CASE fate[u] = "fail"
        BY <4>1, <4>3, <3>1, <1>0, <1>B DEF VouchesHere
      <4>4. QED
        BY <4>1, <4>2, <4>3
    <3>4. QED
      BY <3>1, <3>2, <3>3
  <2>3. stamp'.form = "dict" =>
           \A u \in Visible \ left_out' : VouchesHere(stamp.md5[u], u, stamp)'
    BY <2>1, <2>2, <1>B DEF VouchesHere
  <2>4. QED
    BY <2>1, <2>3 DEF CheckSumsVouchHere, SkippedPassedHere
<1>8. CASE AbortRun
  <2>1. skipped' = {} /\ scheduled' = {} /\ UNCHANGED <<rev, passed, stamp, left_out>>
    BY <1>8 DEF AbortRun, EndOfRun
  <2>2. QED
    BY <2>1 DEF CheckSumsVouchHere, VouchesHere, SkippedPassedHere
<1>9. CASE UNCHANGED vars
  BY <1>9, <1>C DEF vars
<1>10. QED
  BY <1>1, <1>2, <1>3, <1>4, <1>5, <1>6, <1>7, <1>8, <1>9 DEF Next

(* Before the first run there is no check sum that could vouch for         *)
(* anything.                                                               *)
LEMMA InitRunnerInv == Init => RunnerInv
<1> SUFFICES ASSUME Init PROVE RunnerInv
  OBVIOUS
<1>1. NoHistory.md5 = [t \in Tests |-> Absent] /\ Absent \in Int /\ Absent < 0
  BY DEF NoHistory, Absent
<1>2. TypeOK
  BY InitTypeOK
<1>3. RunBooks
  BY DEF Init, RunBooks
<1>4. FailuresMarked
  BY DEF Init, FailuresMarked, RecordedFailureIsRerun
<1>5. CheckSumsVouch
  BY <1>1 DEF Init, CheckSumsVouch, Vouches, SkippedRevPassed, Visible
<1>6. CheckSumsVouchHere
  BY DEF Init, CheckSumsVouchHere, SkippedPassedHere, NoHistory
<1>7. QED
  BY <1>2, <1>3, <1>4, <1>5, <1>6 DEF RunnerInv

(* While no test is lost by the scheduler, the inductive invariant holds   *)
(* in every reachable state.                                               *)
THEOREM Invariance ==
    ASSUME "lost" \notin Outcomes
    PROVE  Spec => []RunnerInv
<1>1. RunnerInv /\ [Next]_vars => RunnerInv'
  BY NextTypeOK, NextRunBooks, NextFailuresMarked, NextCheckSumsVouch,
     NextCheckSumsVouchHere DEF RunnerInv
<1>2. QED
  BY InitRunnerInv, <1>1, PTL DEF Spec

(* While no test is lost, a test that failed in a run that wrote its stamp *)
(* is run again, whatever was edited, interrupted or left out since.       *)
THEOREM RecordedFailuresAreRerun ==
    ASSUME "lost" \notin Outcomes
    PROVE  Spec => []RecordedFailureIsRerun
<1>1. RunnerInv => RecordedFailureIsRerun
  BY DEF RunnerInv, FailuresMarked
<1>2. QED
  BY Invariance, <1>1, PTL

(* While no test is lost, a test of which every edit shows in a time stamp *)
(* is skipped only if it has passed exactly as it is, and in the           *)
(* environment and with the arguments of the run if none has left it out.  *)
THEOREM SkippedTestsHavePassed ==
    ASSUME "lost" \notin Outcomes
    PROVE  Spec => []SkippedTestHasPassed
<1>1. RunnerInv => SkippedTestHasPassed
  BY DEF RunnerInv, CheckSumsVouch, CheckSumsVouchHere, SkippedTestHasPassed
<1>2. QED
  BY Invariance, <1>1, PTL

(* Under the same assumptions "All tests passed!" means that every target  *)
(* has passed as it was when the run looked at it.                         *)
THEOREM GreenIsTrue ==
    ASSUME "lost" \notin Outcomes
    PROVE  Spec => []GreenMeansPassed
<1>1. RunnerInv => GreenMeansPassed
  <2> SUFFICES ASSUME RunnerInv, phase = "writing", FailedTargets = {},
                      NEW t \in (skipped \cup scheduled) \cap Visible, rev[t] = seen[t]
               PROVE  seen[t] \in PassedRevs(t)
    BY DEF GreenMeansPassed
  <2>1. CASE t \in skipped
    BY <2>1 DEF RunnerInv, CheckSumsVouch, SkippedRevPassed
  <2>2. CASE t \in scheduled
    <3>1. t \in Tests /\ fate[t] = "pass"
      BY <2>2 DEF RunnerInv, TypeOK, RunBooks, FailedTargets
    <3>2. QED
      BY <2>2, <3>1 DEF RunnerInv, CheckSumsVouch, Vouches
  <2>3. QED
    BY <2>1, <2>2
<1>2. QED
  BY Invariance, <1>1, PTL
=============================================================================
