------------------------- MODULE DependencyAnalyzer -------------------------
(***************************************************************************)
(* dependency_analyzer._expand_deps: the dependencies of every target are  *)
(* replaced by all the targets it depends on, directly or not, in the      *)
(* order in which a linker wants them, and the options that a target       *)
(* imposes on its dependencies are set on them.  _find_all_deps recurses   *)
(* over the graph with a cache; the recursion is a stack of targets here,  *)
(* with the locals of each call kept under the target it is for.           *)
(***************************************************************************)
EXTENDS Integers, SequencesExt

CONSTANTS Targets,   \* the keys of related_targets
          Names,     \* what deps may name: targets, present or missing
          Graphs,    \* the deps of the targets, in the order they are written
          Type       \* the type of each target

Types == {"dynamic_cc_binary", "swig_library", "py_binary", "java_jar",
          "proto_library", "cc_library"}

Options == {"build_dynamic", "generate_php", "generate_python", "generate_java"}

ASSUME AnalyzerAssumption ==
    /\ Targets \subseteq Names
    /\ Graphs \subseteq [Targets -> Seq(Names)]
    /\ Type \in [Targets -> Types]

VARIABLES deps,            \* expanded_deps as load_targets left it
          expanded_deps,
          data,            \* the options set in the data of each target
          todo,            \* targets that the loop of _expand_deps has not reached
          target_id,       \* a set: the target it is at
          root_targets,    \* the targets of the calls that have not returned
          next,            \* of each call: the index of d,
          new_deps_list,   \* and its list
          new_deps_piece,  \* what is left to append to the list of the last call
          cached,          \* the keys of deps_map_cache
          deps_map_cache,
          outcome          \* "running", "loop", "missing" or "done"

vars == <<deps, expanded_deps, data, todo, target_id, root_targets, next,
          new_deps_list, new_deps_piece, cached, deps_map_cache, outcome>>

Init ==
    /\ deps \in Graphs
    /\ expanded_deps = deps
    /\ data = [t \in Targets |-> {}]
    /\ todo = Targets
    /\ target_id = {}
    /\ root_targets = <<>>
    /\ next = [t \in Targets |-> 1]
    /\ new_deps_list = [t \in Targets |-> <<>>]
    /\ new_deps_piece = <<>>
    /\ cached = {}
    /\ deps_map_cache = [t \in Targets |-> <<>>]
    /\ outcome = "running"

(* The loop of _expand_deps moves to some target.  If the cache knows it,  *)
(* _find_all_deps returns at once.                                         *)
NextTarget(t) ==
    /\ outcome = "running"
    /\ target_id = {}
    /\ t \in todo
    /\ todo' = todo \ {t}
    /\ target_id' = {t}
    /\ root_targets' = IF t \in cached THEN <<>> ELSE <<t>>
    /\ UNCHANGED <<deps, expanded_deps, data, next, new_deps_list,
                   new_deps_piece, cached, deps_map_cache, outcome>>

(* The innermost call is for c, whose list is complete up to dependency d. *)
At(c, d) ==
    /\ outcome = "running"
    /\ root_targets # <<>>
    /\ c = Last(root_targets)
    /\ new_deps_piece = <<>>
    /\ next[c] <= Len(expanded_deps[c])
    /\ d = expanded_deps[c][next[c]]

(* Mutant: a target stays in root_targets after its call has returned.     *)
LoopDependencyVisited(c, d) ==
    /\ At(c, d)
    /\ d \in Range(root_targets) \cup cached
    /\ outcome' = "loop"
    /\ UNCHANGED <<deps, expanded_deps, data, todo, target_id, root_targets, next,
                   new_deps_list, new_deps_piece, cached, deps_map_cache>>

LoopDependency(c, d) ==
    /\ At(c, d)
    /\ d \in Range(root_targets)
    /\ outcome' = "loop"
    /\ UNCHANGED <<deps, expanded_deps, data, todo, target_id, root_targets, next,
                   new_deps_list, new_deps_piece, cached, deps_map_cache>>

MissingTarget(c, d) ==
    /\ At(c, d)
    /\ d \notin Range(root_targets)
    /\ d \notin Targets
    /\ outcome' = "missing"
    /\ UNCHANGED <<deps, expanded_deps, data, todo, target_id, root_targets, next,
                   new_deps_list, new_deps_piece, cached, deps_map_cache>>

FindAllDeps(c, d) ==
    /\ At(c, d)
    /\ d \in Targets
    /\ d \notin Range(root_targets)
    /\ d \notin cached
    /\ root_targets' = Append(root_targets, d)
    /\ UNCHANGED <<deps, expanded_deps, data, todo, target_id, next, new_deps_list,
                   new_deps_piece, cached, deps_map_cache, outcome>>

(* Mutant: the dependencies of d are forgotten.                            *)
TakePieceAlone(c, d) ==
    /\ At(c, d)
    /\ d \in cached
    /\ new_deps_piece' = <<d>>
    /\ next' = [next EXCEPT ![c] = @ + 1]
    /\ UNCHANGED <<deps, expanded_deps, data, todo, target_id, root_targets,
                   new_deps_list, cached, deps_map_cache, outcome>>

(* The call for d has returned, now or earlier.                            *)
TakePiece(c, d) ==
    /\ At(c, d)
    /\ d \in cached
    /\ new_deps_piece' = <<d>> \o deps_map_cache[d]
    /\ next' = [next EXCEPT ![c] = @ + 1]
    /\ UNCHANGED <<deps, expanded_deps, data, todo, target_id, root_targets,
                   new_deps_list, cached, deps_map_cache, outcome>>

(* Mutant: what is listed already stays where it is.                       *)
AppendNew(list, nd) == IF nd \in Range(list) THEN list ELSE Append(list, nd)

(* De-duplication: the last occurrence is kept.                            *)
MoveToEnd(list, nd) == Append(RemoveFirst(list, nd), nd)

AppendPiece(c) ==
    /\ outcome = "running"
    /\ new_deps_piece # <<>>
    /\ c = Last(root_targets)
    /\ new_deps_list' = [new_deps_list EXCEPT ![c] = MoveToEnd(@, Head(new_deps_piece))]
    /\ new_deps_piece' = Tail(new_deps_piece)
    /\ UNCHANGED <<deps, expanded_deps, data, todo, target_id, root_targets, next,
                   cached, deps_map_cache, outcome>>

ReturnList(c) ==
    /\ outcome = "running"
    /\ root_targets # <<>>
    /\ c = Last(root_targets)
    /\ new_deps_piece = <<>>
    /\ next[c] > Len(expanded_deps[c])
    /\ cached' = cached \cup {c}
    /\ deps_map_cache' = [deps_map_cache EXCEPT ![c] = new_deps_list[c]]
    /\ root_targets' = Front(root_targets)
    /\ UNCHANGED <<deps, expanded_deps, data, todo, target_id, next, new_deps_list,
                   new_deps_piece, outcome>>

(* The options that a target sets on one it depends on.                    *)
Imposes(t, dep) ==
    CASE Type[t] = "dynamic_cc_binary" -> {"build_dynamic"}
      [] Type[t] = "swig_library" ->
            IF Type[dep] = "proto_library" THEN {"generate_php"} ELSE {}
      [] Type[t] = "py_binary" -> {"generate_python"}
      [] Type[t] = "java_jar" -> {"generate_java"}
      [] OTHER -> {}

(* Mutant: only the dependencies written in the BUILD file get options.    *)
ExpandTargetDirect(t) ==
    /\ outcome = "running"
    /\ target_id = {t}
    /\ root_targets = <<>>
    /\ target_id' = {}
    /\ expanded_deps' = [expanded_deps EXCEPT ![t] = deps_map_cache[t]]
    /\ data' = [dep \in Targets |->
                    IF dep \in Range(expanded_deps[t])
                    THEN data[dep] \cup Imposes(t, dep) ELSE data[dep]]
    /\ UNCHANGED <<deps, todo, root_targets, next, new_deps_list, new_deps_piece,
                   cached, deps_map_cache, outcome>>

(* _find_all_deps has returned to _expand_deps.                            *)
ExpandTarget(t) ==
    /\ outcome = "running"
    /\ target_id = {t}
    /\ root_targets = <<>>
    /\ target_id' = {}
    /\ expanded_deps' = [expanded_deps EXCEPT ![t] = deps_map_cache[t]]
    /\ data' = [dep \in Targets |->
                    IF dep \in Range(deps_map_cache[t])
                    THEN data[dep] \cup Imposes(t, dep) ELSE data[dep]]
    /\ UNCHANGED <<deps, todo, root_targets, next, new_deps_list, new_deps_piece,
                   cached, deps_map_cache, outcome>>

Expanded ==
    /\ outcome = "running"
    /\ target_id = {}
    /\ todo = {}
    /\ outcome' = "done"
    /\ UNCHANGED <<deps, expanded_deps, data, todo, target_id, root_targets, next,
                   new_deps_list, new_deps_piece, cached, deps_map_cache>>

Terminated == outcome # "running" /\ UNCHANGED vars

Next ==
    \/ \E t \in Targets :
          NextTarget(t) \/ AppendPiece(t) \/ ReturnList(t) \/ ExpandTarget(t)
    \/ \E c \in Targets, d \in Names :
          LoopDependency(c, d) \/ MissingTarget(c, d) \/ FindAllDeps(c, d) \/ TakePiece(c, d)
    \/ Expanded \/ Terminated

Spec == Init /\ [][Next]_vars
-----------------------------------------------------------------------------
(* Properties.                                                             *)

(* The lists, the cache and the stack of calls.                            *)
TypeOK ==
    /\ deps \in [Targets -> Seq(Names)]
    /\ expanded_deps \in [Targets -> Seq(Names)]
    /\ data \in [Targets -> SUBSET Options]
    /\ todo \subseteq Targets
    /\ target_id \subseteq Targets
    /\ root_targets \in Seq(Targets)
    /\ next \in [Targets -> Nat \ {0}]
    /\ new_deps_list \in [Targets -> Seq(Targets)]
    /\ new_deps_piece \in Seq(Targets)
    /\ cached \subseteq Targets
    /\ deps_map_cache \in [Targets -> Seq(Targets)]
    /\ outcome \in {"running", "loop", "missing", "done"}

Direct(t) == Range(deps[t])

ClosedUnderDeps(S) == \A t \in S \cap Targets : Direct(t) \subseteq S

(* What an expansion has to be: everything the target depends on directly  *)
(* or not, and nothing else.                                               *)
AllDepsOf(t, list) ==
    /\ Direct(t) \subseteq Range(list)
    /\ ClosedUnderDeps(Range(list))
    /\ \A S \in SUBSET Names :
          Direct(t) \subseteq S /\ ClosedUnderDeps(S) => Range(list) \subseteq S

(* The expansion of every target is the least set that holds its           *)
(* dependencies and theirs, whatever the order in which the dictionary is  *)
(* walked and whatever was already in the cache.                           *)
ExpansionIsClosure ==
    outcome = "done" => \A t \in Targets : AllDepsOf(t, expanded_deps[t])

Before(s, a, b) == \E i, j \in 1 .. Len(s) : i < j /\ s[i] = a /\ s[j] = b

Linkable(list) ==
    /\ IsInjective(list)
    /\ \A a \in Range(list) : \A d \in Direct(a) : Before(list, a, d)

(* In every expansion a target comes before all it depends on, and once: a *)
(* linker that reads the libraries from left to right resolves everything. *)
LinkOrder == outcome = "done" => \A t \in Targets : Linkable(expanded_deps[t])

LoopExists == \E S \in SUBSET Targets : S # {} /\ \A t \in S : Direct(t) \cap S # {}

(* A loop is reported only if there is one, and none is let through: the   *)
(* expanded dependencies can be sorted.                                    *)
LoopsFound ==
    /\ outcome = "loop" => LoopExists
    /\ outcome = "done" => \A S \in SUBSET Targets :
                              S # {} => \E t \in S : Range(expanded_deps[t]) \cap S = {}

(* The options set on a target are those that the targets above it, direct *)
(* or not, impose on it.                                                   *)
OptionsReachAll ==
    outcome = "done" =>
        \A d \in Targets : \A o \in Options :
            o \in data[d] <=>
                \E t \in Targets : d \in Range(expanded_deps[t]) /\ o \in Imposes(t, d)

(* The inductive invariant of the proofs.                                  *)

Unreached == todo \cup target_id

(* What is on its way to the list of t.                                    *)
Coming(t) ==
    IF root_targets # <<>> /\ t = Last(root_targets) THEN Range(new_deps_piece) ELSE {}

(* The calls form a path in the graph, from the target the loop is at.     *)
CallsInv ==
    /\ todo \cap target_id = {}
    /\ target_id = {} \/ \E t \in Targets : target_id = {t}
    /\ IF root_targets = <<>> THEN target_id \subseteq cached /\ new_deps_piece = <<>>
       ELSE target_id = {root_targets[1]}
    /\ IsInjective(root_targets)
    /\ Range(root_targets) \cap cached = {}
    /\ \A i \in 1 .. Len(root_targets) - 1 :
          /\ next[root_targets[i]] <= Len(deps[root_targets[i]])
          /\ deps[root_targets[i]][next[root_targets[i]]] = root_targets[i + 1]

(* A list in the making holds whole expansions, up to what is coming.      *)
ListsInv ==
    /\ Linkable(new_deps_piece)
    /\ Range(new_deps_piece) \subseteq cached
    /\ \A t \in Targets :
          /\ IsInjective(new_deps_list[t])
          /\ Range(new_deps_list[t]) \subseteq cached
          /\ \A a \in Range(new_deps_list[t]) : \A b \in Direct(a) :
                b \in Coming(t) \/ Before(new_deps_list[t], a, b)
          /\ \A j \in 1 .. Len(deps[t]) :
                j < next[t] => deps[t][j] \in Range(new_deps_list[t]) \cup Coming(t)
          /\ \A S \in SUBSET Names :
                Direct(t) \subseteq S /\ ClosedUnderDeps(S)
                    => Range(new_deps_list[t]) \cup Coming(t) \subseteq S

(* What the cache holds is complete and refers to what is cached only.     *)
CacheInv ==
    /\ \A t \in cached :
          /\ AllDepsOf(t, deps_map_cache[t])
          /\ Linkable(deps_map_cache[t])
          /\ Range(deps_map_cache[t]) \subseteq cached
    /\ \A S \in SUBSET cached :
          S # {} => \E t \in S : Range(deps_map_cache[t]) \cap S = {}

(* Targets the loop has left are expanded and have imposed their options;  *)
(* an error exit has its reason in the graph.                              *)
ResultInv ==
    /\ \A t \in Targets :
          IF t \in Unreached THEN expanded_deps[t] = deps[t]
          ELSE t \in cached /\ expanded_deps[t] = deps_map_cache[t]
    /\ \A d \in Targets : \A o \in Options :
          o \in data[d] <=>
              \E t \in Targets \ Unreached :
                  d \in Range(deps_map_cache[t]) /\ o \in Imposes(t, d)
    /\ outcome = "loop" => LoopExists
    /\ outcome = "missing" => \E t \in Targets : ~ (Direct(t) \subseteq Targets)
    /\ outcome = "done" => Unreached = {}

(* Calls, lists, cache and results of _expand_deps are in order at every   *)
(* step.                                                                   *)
AnalyzerInv == TypeOK /\ CallsInv /\ ListsInv /\ CacheInv /\ ResultInv
=============================================================================
