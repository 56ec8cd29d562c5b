------------------------- MODULE LoadTargetsProofs -------------------------
(***************************************************************************)
(* Proofs about LoadTargets, for any source tree and any command line.     *)
(***************************************************************************)
EXTENDS LoadTargets, TLAPS

(* The source tree and the command line do not change, nor what is defined *)
(* from them.                                                              *)
LEMMA SameWorld ==
    ASSUME world' = world, command' = command
    PROVE  /\ CommandDirs' = CommandDirs
           /\ \A d : Registered(d)' = Registered(d)
           /\ Wanted' = Wanted
           /\ \A S : Suffices(S)' <=> Suffices(S)
           /\ \A k : Needed(k)' <=> Needed(k)
           /\ \A S : Buildable(S)' <=> Buildable(S)
<1>1. CommandDirs' = CommandDirs
  BY DEF CommandDirs
<1>2. \A d : Registered(d)' = Registered(d)
  BY DEF Registered, Declared
<1>3. Wanted' = Wanted
  BY <1>1, <1>2 DEF Wanted
<1>4. \A S : Suffices(S)' <=> Suffices(S)
  BY <1>3 DEF Suffices
<1>5. \A k : Needed(k)' <=> Needed(k)
  BY <1>4 DEF Needed
<1>6. \A S : Buildable(S)' <=> Buildable(S)
  BY <1>4 DEF Buildable, Declarable
<1>7. QED
  BY <1>1, <1>2, <1>3, <1>4, <1>5, <1>6

(* A target is registered by the BUILD file of its directory.              *)
LEMMA RegisteredTarget ==
    ASSUME LoadInv, NEW d, NEW t \in Targets
    PROVE  t \in Registered(d) <=> t \in world.declares /\ DirOf[t] = d
  BY LoadAssumption DEF Registered, Declared

(* A BUILD file is executed only while nothing of it is registered, so     *)
(* loading fails for the reasons that the source tree gives.               *)
LEMMA VerdictReasons ==
    ASSUME LoadInv, NEW d \in Dirs, NEW a \in OnFail
    PROVE  /\ Verdict(d, a) \in {"running", "not_exist", "parse_error"}
           /\ Verdict(d, a) # "running" =>
                 /\ world.build[d] # "BUILD"
                 /\ world.build[d] = "none" => a = "abort"
<1>1. d \notin processed_source_dirs => Declared(d) \cap target_database = {}
  <2> SUFFICES ASSUME d \notin processed_source_dirs,
                      NEW t \in Declared(d) \cap target_database
               PROVE  FALSE
    OBVIOUS
  <2>1. t \in Targets /\ DirOf[t] = d
    BY DEF Declared, LoadInv, TypeOK
  <2>2. PICK e \in processed_source_dirs : t \in Registered(e)
    BY DEF LoadInv, DatabaseInv
  <2>3. DirOf[t] = e
    BY <2>1, <2>2, RegisteredTarget
  <2>4. QED
    BY <2>1, <2>2, <2>3
<1>2. world.build[d] \in BuildFiles
  BY DEF LoadInv, TypeOK
<1>3. QED
  BY <1>1, <1>2 DEF Verdict, BuildFiles

(* Executing a BUILD file, or skipping it, keeps the database what the     *)
(* processed directories declare.                                          *)
LEMMA LoadKeepsDatabase ==
    ASSUME LoadInv, NEW d \in Dirs, LoadBuildFile(d), world' = world, command' = command
    PROVE  /\ processed_source_dirs' = processed_source_dirs \cup {d}
           /\ target_database \subseteq target_database'
           /\ target_database' \subseteq Keys
           /\ \A k \in target_database' : \E e \in processed_source_dirs' :
                 world.build[e] = "BUILD" /\ k \in Registered(e)
           /\ \A e \in processed_source_dirs' :
                 world.build[e] = "BUILD" => Registered(e) \subseteq target_database'
<1>1. Registered(d) \subseteq Keys
  BY DEF Registered, Declared, Keys, LoadInv, TypeOK
<1>2. QED
  BY <1>1 DEF LoadBuildFile, LoadInv, DatabaseInv, TypeOK

(* Before the first BUILD file nothing is loaded, and what is cited was    *)
(* named by the user.                                                      *)
LEMMA InitLoadInv == Init => LoadInv
<1> SUFFICES ASSUME Init PROVE LoadInv
  OBVIOUS
<1> USE DEF Init
<1>1. TypeOK
  BY LoadAssumption DEF TypeOK, Outcomes, Keys
<1>2. DatabaseInv
  BY <1>1, LoadAssumption DEF DatabaseInv, TypeOK
<1>3. SearchInv
  <2>1. \A d \in CommandDirs : \E p \in source_dirs : p[1] = d
    BY DEF CommandDirs
  <2>2. \A k \in cited_targets : Needed(k)
    BY DEF Needed, Suffices, Wanted
  <2>3. QED
    BY <2>1, <2>2 DEF SearchInv
<1>4. QED
  BY <1>1, <1>2, <1>3 DEF LoadInv, ErrorsAreReal

(* A directory of the command line is loaded.                              *)
LEMMA LoadSourceDirInv ==
    ASSUME LoadInv, NEW d \in Dirs, NEW a \in OnFail, LoadSourceDir(d, a)
    PROVE  LoadInv'
<1> USE DEF LoadSourceDir
<1>1. <<d, a>> \in command.dirs /\ d \in CommandDirs
  BY DEF LoadInv, TypeOK, CommandDirs
<1>2. TypeOK'
  BY VerdictReasons, LoadKeepsDatabase DEF LoadInv, TypeOK, Outcomes
<1>3. DatabaseInv'
  <2>1. cited_targets \cap SystemLibs = {} /\ related_targets = {}
    BY LoadAssumption DEF LoadInv, SearchInv, TypeOK
  <2>2. QED
    BY <2>1, LoadKeepsDatabase, SameWorld DEF DatabaseInv
<1>4. SearchInv'
  <2>1. \A e \in CommandDirs : \/ e \in processed_source_dirs'
                               \/ \E p \in source_dirs' : p[1] = e
    <3> SUFFICES ASSUME NEW e \in CommandDirs, e \notin processed_source_dirs'
                 PROVE  \E p \in source_dirs' : p[1] = e
      OBVIOUS
    <3>1. e # d /\ e \notin processed_source_dirs
      BY LoadKeepsDatabase
    <3>2. PICK p \in source_dirs : p[1] = e
      BY <3>1 DEF LoadInv, SearchInv
    <3>3. p # <<d, a>>
      BY <3>1, <3>2
    <3>4. QED
      BY <3>2, <3>3
  <2>2. processed_source_dirs' \subseteq CommandDirs
    BY <1>1, LoadKeepsDatabase DEF LoadInv, SearchInv
  <2>3. Verdict(d, a) # "done"
    BY VerdictReasons
  <2>4. QED
    BY <2>1, <2>2, <2>3, SameWorld DEF LoadInv, SearchInv
<1>5. ErrorsAreReal'
  <2> SUFFICES ASSUME Verdict(d, a) # "running", NEW S \in SUBSET Keys, Buildable(S)
               PROVE  FALSE
    BY SameWorld DEF ErrorsAreReal
  <2>1. world.build[d] = "BUILD" \/ (world.build[d] = "none" /\ a # "abort")
    BY <1>1 DEF Buildable
  <2>2. QED
    BY <2>1, VerdictReasons
<1>6. outcome' # "duplicate"
  BY VerdictReasons
<1>7. QED
  BY <1>2, <1>3, <1>4, <1>5, <1>6 DEF LoadInv

(* What these directories declare is what the user wants.                  *)
LEMMA CiteDatabaseInv ==
    ASSUME LoadInv, CiteDatabase
    PROVE  LoadInv'
<1> USE DEF CiteDatabase
<1>1. TypeOK'
  BY DEF LoadInv, TypeOK
<1>2. CommandDirs \subseteq processed_source_dirs /\ processed_source_dirs \subseteq CommandDirs
  BY DEF LoadInv, SearchInv
<1>3. target_database \subseteq Wanted
  BY <1>2 DEF LoadInv, DatabaseInv, Wanted
<1>4. Wanted \subseteq cited_targets'
  BY <1>2 DEF LoadInv, SearchInv, DatabaseInv, Wanted
<1>5. \A k \in cited_targets' : Needed(k)
  BY <1>3 DEF LoadInv, SearchInv, Needed, Suffices
<1>6. DatabaseInv'
  BY SameWorld DEF LoadInv, DatabaseInv, SearchInv
<1>7. SearchInv'
  BY <1>4, <1>5, SameWorld DEF LoadInv, SearchInv
<1>8. QED
  BY <1>1, <1>6, <1>7 DEF LoadInv, ErrorsAreReal

(* A cited target is loaded, looked up and collected.                      *)
LEMMA VisitInv ==
    ASSUME LoadInv, NEW t \in Keys, Visit(t)
    PROVE  LoadInv'
<1> USE DEF Visit
<1>1. t \notin related_targets /\ Needed(t)
  BY DEF LoadInv, SearchInv
<1>2. CASE t \in SystemLibs
  <2>1. t \in target_database /\ CollectSystemLib(t)
    BY <1>1, <1>2 DEF LoadInv, DatabaseInv
  <2> USE <2>1 DEF CollectSystemLib
  <2>2. outcome' = "running" /\ related_targets' = related_targets \cup {t}
    OBVIOUS
  <2>3. t \notin Targets
    BY <1>2, LoadAssumption
  <2>4. TypeOK' /\ DatabaseInv'
    BY <2>2, SameWorld DEF LoadInv, TypeOK, DatabaseInv
  <2>5. SearchInv'
    BY <1>1, <2>2, <2>3, SameWorld DEF LoadInv, SearchInv
  <2>6. QED
    BY <2>2, <2>4, <2>5 DEF LoadInv, ErrorsAreReal
<1>3. CASE t \notin SystemLibs
  <2>1. t \in Targets /\ DirOf[t] \in Dirs /\ CollectTarget(t) /\ "abort" \in OnFail
    BY <1>1, <1>3, LoadAssumption DEF Keys, OnFail
  <2> DEFINE d == DirOf[t]
             v == Verdict(d, "abort")
  <2>2. /\ LoadBuildFile(d)
        /\ outcome' = IF v # "running" THEN v
                      ELSE IF t \in target_database' THEN "running" ELSE "no_target"
        /\ related_targets' = related_targets \cup (IF outcome' = "running" THEN {t} ELSE {})
        /\ cited_targets' = (cited_targets \ {t}) \cup
               (IF outcome' = "running" THEN world.deps[t] \ related_targets' ELSE {})
    BY <2>1 DEF CollectTarget
  <2>3. /\ v \in {"running", "not_exist", "parse_error"}
        /\ v # "running" => world.build[d] # "BUILD"
    BY <2>1, VerdictReasons
  <2> HIDE DEF v, d
  <2>4. /\ processed_source_dirs' = processed_source_dirs \cup {d}
        /\ target_database \subseteq target_database'
        /\ target_database' \subseteq Keys
        /\ \A k \in target_database' : \E e \in processed_source_dirs' :
              world.build[e] = "BUILD" /\ k \in Registered(e)
        /\ \A e \in processed_source_dirs' :
              world.build[e] = "BUILD" => Registered(e) \subseteq target_database'
    BY <2>1, <2>2, LoadKeepsDatabase DEF d
  <2>5. outcome' # "duplicate" /\ outcome' # "done" /\ outcome' \in Outcomes
    BY <2>2, <2>3 DEF Outcomes
  <2>6. world.deps[t] \subseteq Keys
    BY <2>1 DEF LoadInv, TypeOK
  <2>7. TypeOK'
    BY <2>1, <2>2, <2>4, <2>5, <2>6 DEF LoadInv, TypeOK, d
  <2>8. ErrorsAreReal'
    <3> SUFFICES ASSUME outcome' # "running", NEW S \in SUBSET Keys, Buildable(S)
                 PROVE  FALSE
      BY SameWorld DEF ErrorsAreReal
    <3>1. t \in S
      BY <1>1 DEF Needed, Buildable
    <3>2. t \in world.declares /\ world.build[d] = "BUILD"
      BY <2>1, <3>1 DEF Buildable, Declarable, d
    <3>3. t \in Registered(d)
      BY <2>1, <3>2, RegisteredTarget DEF d
    <3>4. t \in target_database'
      BY <2>4, <3>2, <3>3
    <3>5. QED
      BY <2>2, <2>3, <3>2, <3>4
  <2>9. ASSUME outcome' = "running"
        PROVE  /\ t \in target_database'
               /\ world.deps[t] \cap SystemLibs \subseteq target_database'
               /\ \A k \in world.deps[t] : Needed(k)
    <3>1. t \in target_database'
      BY <2>2, <2>9
    <3>2. PICK e \in processed_source_dirs' : world.build[e] = "BUILD" /\ t \in Registered(e)
      BY <2>4, <3>1
    <3>3. t \in Declared(e)
      BY <2>1, <3>2, RegisteredTarget DEF Declared
    <3>4. world.deps[t] \cap SystemLibs \subseteq Registered(e)
      BY <3>3 DEF Registered
    <3>5. \A k \in world.deps[t] : Needed(k)
      BY <1>1, <2>1 DEF Needed, Suffices
    <3>6. QED
      BY <2>4, <3>1, <3>2, <3>4, <3>5
  <2>10. DatabaseInv'
    <3>1. (cited_targets' \cup related_targets') \cap SystemLibs \subseteq target_database'
      <4>1. (cited_targets \cup related_targets) \cap SystemLibs \subseteq target_database
        BY DEF LoadInv, DatabaseInv
      <4>2. QED
        BY <2>2, <2>4, <2>9, <4>1
    <3>2. QED
      BY <2>4, <3>1, SameWorld DEF DatabaseInv
  <2>11. SearchInv'
    <3>1. phase' = "visit" /\ source_dirs' = {}
      BY DEF LoadInv, SearchInv
    <3>2. \A e \in CommandDirs : e \in processed_source_dirs'
      BY <2>4, <3>1 DEF LoadInv, SearchInv
    <3>3. \A e \in processed_source_dirs' :
             e \in CommandDirs \/ \E u \in Targets : DirOf[u] = e /\ Needed(u)
      BY <1>1, <2>1, <2>4 DEF LoadInv, SearchInv, d
    <3>4. \A k \in cited_targets' \cup related_targets' : Needed(k)
      BY <1>1, <2>2, <2>9 DEF LoadInv, SearchInv
    <3>5. outcome' = "running" => Wanted \subseteq cited_targets' \cup related_targets'
      BY <2>2 DEF LoadInv, SearchInv
    <3>6. ASSUME outcome' = "running", NEW u \in related_targets' \cap Targets
          PROVE  world.deps[u] \subseteq cited_targets' \cup related_targets'
      <4>1. CASE u = t
        BY <2>2, <3>6, <4>1
      <4>2. CASE u # t
        <5>1. world.deps[u] \subseteq cited_targets \cup related_targets
          BY <2>2, <3>6, <4>2 DEF LoadInv, SearchInv
        <5>2. QED
          BY <2>2, <3>6, <5>1
      <4>3. QED
        BY <4>1, <4>2
    <3>7. related_targets' \subseteq target_database'
      BY <2>2, <2>4, <2>9 DEF LoadInv, SearchInv
    <3>8. cited_targets' \cap related_targets' = {}
      BY <2>2 DEF LoadInv, SearchInv
    <3>9. QED
      BY <2>5, <3>1, <3>2, <3>3, <3>4, <3>5, <3>6, <3>7, <3>8, SameWorld DEF SearchInv
  <2>12. QED
    BY <2>5, <2>7, <2>8, <2>10, <2>11 DEF LoadInv
<1>4. QED
  BY <1>2, <1>3

(* Every step of load_targets keeps the invariant.                         *)
LEMMA NextLoadInv == LoadInv /\ [Next]_vars => LoadInv'
<1> SUFFICES ASSUME LoadInv, [Next]_vars PROVE LoadInv'
  OBVIOUS
<1>1. CASE Loaded
  <2> USE <1>1 DEF Loaded
  <2>1. TypeOK' /\ DatabaseInv'
    BY SameWorld DEF LoadInv, TypeOK, DatabaseInv, Outcomes
  <2>2. SearchInv'
    BY SameWorld DEF LoadInv, SearchInv
  <2>3. QED
    BY <2>1, <2>2 DEF LoadInv, ErrorsAreReal
<1>2. CASE Terminated \/ UNCHANGED vars
  <2>1. UNCHANGED vars
    BY <1>2 DEF Terminated
  <2> USE <2>1 DEF vars
  <2>2. TypeOK' /\ DatabaseInv'
    BY SameWorld DEF LoadInv, TypeOK, DatabaseInv
  <2>3. SearchInv'
    BY SameWorld DEF LoadInv, SearchInv
  <2>4. ErrorsAreReal'
    BY SameWorld DEF LoadInv, ErrorsAreReal
  <2>5. QED
    BY <2>2, <2>3, <2>4 DEF LoadInv
<1>3. QED
  BY <1>1, <1>2, LoadSourceDirInv, CiteDatabaseInv, VisitInv DEF Next

(* The search keeps to what is needed and loses none of it.                *)
THEOREM Invariance == Spec => []LoadInv
  BY InitLoadInv, NextLoadInv, PTL DEF Spec

(* load_targets returns the least set of targets that the command line and *)
(* the dependencies require, whatever the order of its pops.               *)
THEOREM LoadsWhatIsNeeded == Spec => []RelatedIsLeast
<1>1. LoadInv => RelatedIsLeast
  <2> SUFFICES ASSUME LoadInv, outcome = "done" PROVE RelatedIsLeast
    BY DEF RelatedIsLeast
  <2>1. Suffices(related_targets)
    BY DEF LoadInv, SearchInv, Suffices
  <2>2. \A S \in SUBSET Keys : Suffices(S) => related_targets \subseteq S
    BY DEF LoadInv, SearchInv, Needed
  <2>3. QED
    BY <2>1, <2>2 DEF LoadInv, SearchInv, RelatedIsLeast
<1>2. QED
  BY Invariance, <1>1, PTL

(* error_exit is called only for a command line that cannot be satisfied.  *)
THEOREM NoSpuriousErrors == Spec => []ErrorsAreReal
  BY Invariance, PTL DEF LoadInv

(* No BUILD file is executed twice, nor one that is not needed.            *)
THEOREM BuildFilesOnce == Spec => []OnlyNeededBuildFiles
<1>1. LoadInv => OnlyNeededBuildFiles
  BY DEF LoadInv, SearchInv, Needed, OnlyNeededBuildFiles
<1>2. QED
  BY Invariance, <1>1, PTL
=============================================================================
