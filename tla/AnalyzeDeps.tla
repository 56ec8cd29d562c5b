----------------------------- MODULE AnalyzeDeps -----------------------------
(***************************************************************************)
(* dependency_analyzer.analyze_deps: _expand_deps, which may exit with an  *)
(* error, and then _topological_sort on what it has left in the targets.   *)
(***************************************************************************)
EXTENDS DependencyAnalyzer, TopologicalSort

ASSUME SameTargets == Keys = Targets /\ Pairlists = [Targets -> SUBSET Targets]

analysis == <<vars, sortVars>>

AnalysisInit ==
    /\ Init
    /\ pairlist = [t \in Targets |-> {}]
    /\ phase = "idle"
    /\ keys = Targets
    /\ numpreds = [t \in Targets |-> 0]
    /\ answer = <<>>
    /\ pos = 0
    /\ pending = {}

Expand == Next /\ UNCHANGED sortVars

(* The call of _topological_sort, with its counting loop.                  *)
StartSort ==
    /\ outcome = "done"
    /\ phase = "idle"
    /\ pairlist' = [t \in Targets |-> Range(expanded_deps[t])]
    /\ numpreds' = [t \in Targets |-> Cardinality(pairlist'[t])]
    /\ phase' = "filter"
    /\ UNCHANGED <<keys, answer, pos, pending, vars>>

Sort == SortNext /\ UNCHANGED vars

AnalysisNext == Expand \/ StartSort \/ Sort

AnalysisSpec == AnalysisInit /\ [][AnalysisNext]_analysis
-----------------------------------------------------------------------------
(* When analyze_deps returns to the build manager every target is in the   *)
(* list, after everything that its BUILD file names: the loops that would  *)
(* make _topological_sort leave targets out without a word are the ones    *)
(* that _find_all_deps has found.                                          *)
EveryTargetInOrder ==
    phase = "done" =>
        /\ Listed = Targets
        /\ \A i \in 1 .. Len(answer) : \A d \in Direct(answer[i]) :
              \E j \in 1 .. i - 1 : answer[j] = d
=============================================================================
