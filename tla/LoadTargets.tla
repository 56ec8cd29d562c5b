---------------------------- MODULE LoadTargets ----------------------------
(***************************************************************************)
(* load_build_files.load_targets: starting from what the command line      *)
(* names, execute the BUILD files in which the wanted targets and all they *)
(* depend on are declared, and collect those targets.  A BUILD file is a   *)
(* Python script that registers its targets in the database of the blade   *)
(* manager; sets and dictionaries are walked in any order.                 *)
(***************************************************************************)
EXTENDS Integers

CONSTANTS Dirs,          \* source directories
          Targets,       \* keys (path, name) with a source directory
          SystemLibs,    \* keys ('#', name)
          DirOf,         \* the path of a target
          Worlds,        \* source trees: [build, declares, deps]
          CommandLines   \* what is asked for: [cited, dirs]

Keys == Targets \cup SystemLibs

(* "BUILD": a file that executes; "broken": one that raises or exits;      *)
(* "none": no such file; "absent": no such directory.                      *)
BuildFiles == {"BUILD", "broken", "none", "absent"}

OnFail == {"abort", "warn", "ignore"}

ASSUME LoadAssumption ==
    /\ DirOf \in [Targets -> Dirs]
    /\ Targets \cap SystemLibs = {}
    /\ Worlds \subseteq [build : [Dirs -> BuildFiles],
                         declares : SUBSET Targets,
                         deps : [Targets -> SUBSET Keys]]
    /\ CommandLines \subseteq [cited : SUBSET Targets, dirs : SUBSET (Dirs \X OnFail)]

VARIABLES world, command,
          phase,                  \* "dirs" or "visit"
          source_dirs,            \* those of the command line still to load
          processed_source_dirs,
          target_database,        \* the keys registered
          cited_targets,
          related_targets,
          outcome   \* "running", "done", or the reason of error_exit

vars == <<world, command, phase, source_dirs, processed_source_dirs,
          target_database, cited_targets, related_targets, outcome>>

Declared(d) == {t \in world.declares : DirOf[t] = d}

(* A target registers the system libraries it names along with itself.     *)
Registered(d) == Declared(d) \cup UNION {world.deps[t] \cap SystemLibs : t \in Declared(d)}

Init ==
    /\ world \in Worlds
    /\ command \in CommandLines
    /\ phase = "dirs"
    /\ source_dirs = command.dirs
    /\ processed_source_dirs = {}
    /\ target_database = {}
    /\ cited_targets = command.cited
    /\ related_targets = {}
    /\ outcome = "running"

(* Mutant: every target that is visited has its BUILD file executed.       *)
VerdictUnprocessed(d, action_if_fail) ==
    CASE world.build[d] = "absent" -> "not_exist"
      [] world.build[d] = "broken" -> "parse_error"
      [] world.build[d] = "none" /\ action_if_fail = "abort" -> "not_exist"
      [] world.build[d] = "BUILD" /\ Declared(d) \cap target_database # {} -> "duplicate"
      [] OTHER -> "running"

(* What _load_build_file comes to; register_target refuses a key that is   *)
(* in the database.                                                        *)
Verdict(d, action_if_fail) ==
    IF d \in processed_source_dirs THEN "running" ELSE
    CASE world.build[d] = "absent" -> "not_exist"
      [] world.build[d] = "broken" -> "parse_error"
      [] world.build[d] = "none" /\ action_if_fail = "abort" -> "not_exist"
      [] world.build[d] = "BUILD" /\ Declared(d) \cap target_database # {} -> "duplicate"
      [] OTHER -> "running"

LoadBuildFile(d) ==
    /\ processed_source_dirs' = processed_source_dirs \cup {d}
    /\ target_database' = IF d \notin processed_source_dirs /\ world.build[d] = "BUILD"
                          THEN target_database \cup Registered(d) ELSE target_database

LoadSourceDir(d, action_if_fail) ==
    /\ outcome = "running"
    /\ phase = "dirs"
    /\ <<d, action_if_fail>> \in source_dirs
    /\ source_dirs' = source_dirs \ {<<d, action_if_fail>>}
    /\ LoadBuildFile(d)
    /\ outcome' = Verdict(d, action_if_fail)
    /\ UNCHANGED <<world, command, phase, cited_targets, related_targets>>

(* Everything in the directories of the command line is wanted.            *)
CiteDatabase ==
    /\ outcome = "running"
    /\ phase = "dirs"
    /\ source_dirs = {}
    /\ cited_targets' = cited_targets \cup target_database
    /\ phase' = "visit"
    /\ UNCHANGED <<world, command, source_dirs, processed_source_dirs,
                   target_database, related_targets, outcome>>

(* A system library has no BUILD file, and depends on nothing.             *)
CollectSystemLib(t) ==
    /\ outcome' = IF t \in target_database THEN "running" ELSE "no_target"
    /\ related_targets' = related_targets \cup (IF outcome' = "running" THEN {t} ELSE {})
    /\ cited_targets' = cited_targets \ {t}
    /\ UNCHANGED <<processed_source_dirs, target_database>>

(* Mutant: dependencies are taken along only if their BUILD file is loaded.*)
CollectLoaded(t) ==
    /\ LoadBuildFile(DirOf[t])
    /\ outcome' = IF Verdict(DirOf[t], "abort") # "running" THEN Verdict(DirOf[t], "abort")
                  ELSE IF t \in target_database' THEN "running" ELSE "no_target"
    /\ related_targets' = related_targets \cup (IF outcome' = "running" THEN {t} ELSE {})
    /\ cited_targets' = (cited_targets \ {t}) \cup
                           (IF outcome' = "running" THEN (world.deps[t] \cap target_database') \ related_targets' ELSE {})

(* Mutant: the target is looked up before its BUILD file is loaded.        *)
CollectUnloaded(t) ==
    /\ LoadBuildFile(DirOf[t])
    /\ outcome' = IF t \in target_database THEN "running" ELSE "no_target"
    /\ related_targets' = related_targets \cup (IF outcome' = "running" THEN {t} ELSE {})
    /\ cited_targets' = (cited_targets \ {t}) \cup
                           (IF outcome' = "running" THEN world.deps[t] \ related_targets' ELSE {})

(* Mutant: what was collected is cited again.                              *)
CollectAgain(t) ==
    /\ LoadBuildFile(DirOf[t])
    /\ outcome' = IF Verdict(DirOf[t], "abort") # "running" THEN Verdict(DirOf[t], "abort")
                  ELSE IF t \in target_database' THEN "running" ELSE "no_target"
    /\ related_targets' = related_targets \cup (IF outcome' = "running" THEN {t} ELSE {})
    /\ cited_targets' = (cited_targets \ {t}) \cup
                           (IF outcome' = "running" THEN world.deps[t] ELSE {})

(* Load the BUILD file of a target, look it up and cite its dependencies.  *)
CollectTarget(t) ==
    /\ LoadBuildFile(DirOf[t])
    /\ outcome' = IF Verdict(DirOf[t], "abort") # "running" THEN Verdict(DirOf[t], "abort")
                  ELSE IF t \in target_database' THEN "running" ELSE "no_target"
    /\ related_targets' = related_targets \cup (IF outcome' = "running" THEN {t} ELSE {})
    /\ cited_targets' = (cited_targets \ {t}) \cup
                           (IF outcome' = "running" THEN world.deps[t] \ related_targets' ELSE {})

(* Mutant: what was collected is collected again.                          *)
VisitAgain(t) ==
    /\ outcome = "running"
    /\ phase = "visit"
    /\ t \in cited_targets
    /\ IF t \in SystemLibs THEN CollectSystemLib(t) ELSE CollectAgain(t)
    /\ UNCHANGED <<world, command, phase, source_dirs>>

(* cited_targets.pop(): what has been collected is skipped.                *)
Visit(t) ==
    /\ outcome = "running"
    /\ phase = "visit"
    /\ t \in cited_targets
    /\ IF t \in related_targets
       THEN /\ cited_targets' = cited_targets \ {t}
            /\ UNCHANGED <<processed_source_dirs, target_database, related_targets, outcome>>
       ELSE IF t \in SystemLibs THEN CollectSystemLib(t) ELSE CollectTarget(t)
    /\ UNCHANGED <<world, command, phase, source_dirs>>

Loaded ==
    /\ outcome = "running"
    /\ phase = "visit"
    /\ cited_targets = {}
    /\ outcome' = "done"
    /\ UNCHANGED <<world, command, phase, source_dirs, processed_source_dirs,
                   target_database, cited_targets, related_targets>>

Terminated == outcome # "running" /\ UNCHANGED vars

Next ==
    \/ \E d \in Dirs, a \in OnFail : LoadSourceDir(d, a)
    \/ \E t \in Keys : Visit(t)
    \/ CiteDatabase \/ Loaded \/ Terminated

Spec == Init /\ [][Next]_vars

(* load_targets is sequential code: while it can go on it does.            *)
FairSpec == Spec /\ WF_vars(Next)
-----------------------------------------------------------------------------
(* Properties.                                                             *)

Outcomes == {"running", "done", "not_exist", "parse_error", "duplicate", "no_target"}

(* The sets and dictionaries of load_targets.                              *)
TypeOK ==
    /\ world \in [build : [Dirs -> BuildFiles], declares : SUBSET Targets,
                  deps : [Targets -> SUBSET Keys]]
    /\ command \in [cited : SUBSET Targets, dirs : SUBSET (Dirs \X OnFail)]
    /\ phase \in {"dirs", "visit"}
    /\ source_dirs \subseteq command.dirs
    /\ processed_source_dirs \subseteq Dirs
    /\ target_database \subseteq Keys
    /\ cited_targets \subseteq Keys
    /\ related_targets \subseteq Keys
    /\ outcome \in Outcomes

CommandDirs == {p[1] : p \in command.dirs}

(* What the user asked for.                                                *)
Wanted ==
    command.cited \cup UNION {Registered(d) : d \in {e \in CommandDirs : world.build[e] = "BUILD"}}

(* A set of targets that a build could consist of: what the user asked for *)
(* and, of each target, everything it depends on.                          *)
Suffices(S) ==
    /\ Wanted \subseteq S
    /\ \A t \in S \cap Targets : world.deps[t] \subseteq S

(* The targets of a build are exactly those it needs, and each of them was *)
(* declared: whatever the order in which cited_targets is popped, with     *)
(* loops in the dependencies or without.                                   *)
RelatedIsLeast ==
    outcome = "done" =>
        /\ Suffices(related_targets)
        /\ \A S \in SUBSET Keys : Suffices(S) => related_targets \subseteq S
        /\ related_targets \subseteq target_database

Declarable(t) == t \in world.declares /\ world.build[DirOf[t]] = "BUILD"

Buildable(S) ==
    /\ Suffices(S)
    /\ \A t \in S \cap Targets : Declarable(t)
    /\ \A p \in command.dirs :
          world.build[p[1]] = "BUILD" \/ (world.build[p[1]] = "none" /\ p[2] # "abort")

(* load_targets gives up only when no order would have let it succeed: a   *)
(* directory named in the command line cannot be loaded, or something that *)
(* is needed is declared nowhere.                                          *)
ErrorsAreReal ==
    outcome \notin {"running", "done"} => \A S \in SUBSET Keys : ~ Buildable(S)

(* No BUILD file is executed twice, so none of its targets is a duplicate, *)
(* and none is executed that the build does not need: blade works in a     *)
(* source tree with broken BUILD files elsewhere.                          *)
OnlyNeededBuildFiles ==
    /\ outcome # "duplicate"
    /\ \A S \in SUBSET Keys : Suffices(S) =>
          processed_source_dirs \subseteq CommandDirs \cup {DirOf[t] : t \in S \cap Targets}

(* The search ends, also when targets depend on each other in a loop.      *)
LoadingEnds == <>(outcome # "running")

(* The inductive invariant of the proofs.                                  *)
Needed(k) == \A S \in SUBSET Keys : Suffices(S) => k \in S

(* The search has collected only what is needed, and what is still needed  *)
(* is cited or will be reached from what is cited.                         *)
SearchInv ==
    /\ phase = "dirs" => cited_targets = command.cited /\ related_targets = {}
    /\ phase = "dirs" => processed_source_dirs \subseteq CommandDirs
    /\ \A d \in CommandDirs : d \in processed_source_dirs \/ \E p \in source_dirs : p[1] = d
    /\ phase = "visit" => source_dirs = {}
    /\ \A d \in processed_source_dirs : d \in CommandDirs \/
          \E t \in Targets : DirOf[t] = d /\ Needed(t)
    /\ \A k \in cited_targets \cup related_targets : Needed(k)
    /\ outcome \in {"running", "done"} /\ phase = "visit" =>
          Wanted \subseteq cited_targets \cup related_targets
    /\ outcome \in {"running", "done"} =>
          \A t \in related_targets \cap Targets :
              world.deps[t] \subseteq cited_targets \cup related_targets
    /\ related_targets \subseteq target_database
    /\ cited_targets \cap related_targets = {}
    /\ outcome = "done" => cited_targets = {} /\ phase = "visit"

(* The database holds what the BUILD files executed so far register.       *)
DatabaseInv ==
    /\ \A k \in target_database :
          \E d \in processed_source_dirs : world.build[d] = "BUILD" /\ k \in Registered(d)
    /\ \A d \in processed_source_dirs :
          world.build[d] = "BUILD" => Registered(d) \subseteq target_database
    /\ (cited_targets \cup related_targets) \cap SystemLibs \subseteq target_database

(* The search, the database and the errors of load_targets are in order at *)
(* every step.                                                             *)
LoadInv == TypeOK /\ SearchInv /\ DatabaseInv /\ ErrorsAreReal /\ outcome # "duplicate"
=============================================================================
