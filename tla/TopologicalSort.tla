-------------------------- MODULE TopologicalSort --------------------------
(***************************************************************************)
(* dependency_analyzer._topological_sort: count the predecessors of every  *)
(* target, collect those that have none, and for each target collected     *)
(* knock down the counts of its successors, collecting those that reach    *)
(* zero.  The list grows while it is iterated over.  Dictionaries are read *)
(* in any order.  Its input is what DependencyAnalyzer leaves behind.      *)
(***************************************************************************)
EXTENDS Integers, Sequences, FiniteSets

CONSTANTS Keys,      \* of pairlist: the targets
          Pairlists  \* what pairlist may hold: their expanded_deps

ASSUME PairlistsAssumption ==
    /\ IsFiniteSet(Keys)
    /\ Pairlists \subseteq [Keys -> SUBSET Keys]

VARIABLES pairlist,
          phase,      \* "filter", "loop", "knock" or "done"
          keys,       \* the keys of numpreds
          numpreds,
          answer,
          pos,        \* how many targets the loop has taken from answer
          pending     \* successors[x] still to be knocked down

sortVars == <<pairlist, phase, keys, numpreds, answer, pos, pending>>

Listed == {answer[i] : i \in 1 .. Len(answer)}
Taken == {answer[i] : i \in 1 .. pos}

Successors(x) == {y \in Keys : x \in pairlist[y]}

(* The counting loop: one predecessor for each dependency.                 *)
SortInit ==
    /\ pairlist \in Pairlists
    /\ phase = "filter"
    /\ keys = Keys
    /\ numpreds = [t \in Keys |-> Cardinality(pairlist[t])]
    /\ answer = <<>>
    /\ pos = 0
    /\ pending = {}

(* filter: suck up everything without a predecessor.                       *)
Filter(x) ==
    /\ phase = "filter"
    /\ numpreds[x] = 0
    /\ x \notin Listed
    /\ answer' = Append(answer, x)
    /\ UNCHANGED <<pairlist, phase, keys, numpreds, pos, pending>>

Filtered ==
    /\ phase = "filter"
    /\ \A x \in Keys : numpreds[x] = 0 => x \in Listed
    /\ phase' = "loop"
    /\ UNCHANGED <<pairlist, keys, numpreds, answer, pos, pending>>

(* for x in answer: del numpreds[x]                                        *)
Take ==
    /\ phase = "loop"
    /\ pos < Len(answer)
    /\ pos' = pos + 1
    /\ keys' = keys \ {answer[pos + 1]}
    /\ pending' = Successors(answer[pos + 1])
    /\ phase' = "knock"
    /\ UNCHANGED <<pairlist, numpreds, answer>>

(* Mutant: the count is tested before it is knocked down.                  *)
KnockLate(y) ==
    /\ phase = "knock"
    /\ y \in pending
    /\ pending' = pending \ {y}
    /\ numpreds' = [numpreds EXCEPT ![y] = @ - 1]
    /\ answer' = IF numpreds[y] = 0 THEN Append(answer, y) ELSE answer
    /\ UNCHANGED <<pairlist, phase, keys, pos>>

(* Mutant: a successor is collected whenever it is knocked down.           *)
KnockAndAppend(y) ==
    /\ phase = "knock"
    /\ y \in pending
    /\ pending' = pending \ {y}
    /\ numpreds' = [numpreds EXCEPT ![y] = @ - 1]
    /\ answer' = Append(answer, y)
    /\ UNCHANGED <<pairlist, phase, keys, pos>>

(* Mutant: a count of one is taken for the last one.                       *)
KnockEarly(y) ==
    /\ phase = "knock"
    /\ y \in pending
    /\ pending' = pending \ {y}
    /\ numpreds' = [numpreds EXCEPT ![y] = @ - 1]
    /\ answer' = IF numpreds[y] = 2 THEN Append(answer, y) ELSE answer
    /\ UNCHANGED <<pairlist, phase, keys, pos>>

(* for y in successors[x]: one predecessor less.                           *)
Knock(y) ==
    /\ phase = "knock"
    /\ y \in pending
    /\ pending' = pending \ {y}
    /\ numpreds' = [numpreds EXCEPT ![y] = @ - 1]
    /\ answer' = IF numpreds[y] - 1 = 0 THEN Append(answer, y) ELSE answer
    /\ UNCHANGED <<pairlist, phase, keys, pos>>

Knocked ==
    /\ phase = "knock"
    /\ pending = {}
    /\ phase' = "loop"
    /\ UNCHANGED <<pairlist, keys, numpreds, answer, pos, pending>>

Return ==
    /\ phase = "loop"
    /\ pos = Len(answer)
    /\ phase' = "done"
    /\ UNCHANGED <<pairlist, keys, numpreds, answer, pos, pending>>

Sorted == phase = "done" /\ UNCHANGED sortVars

SortNext ==
    \/ \E x \in Keys : Filter(x) \/ Knock(x)
    \/ Filtered \/ Take \/ Knocked \/ Return \/ Sorted

SortSpec == SortInit /\ [][SortNext]_sortVars
-----------------------------------------------------------------------------
(* Properties.                                                             *)

(* The counts, and the list that grows.                                    *)
SortTypeOK ==
    /\ pairlist \in [Keys -> SUBSET Keys]
    /\ phase \in {"filter", "loop", "knock", "done"}
    /\ keys \subseteq Keys
    /\ numpreds \in [Keys -> Int]
    /\ answer \in Seq(Keys)
    /\ pos \in 0 .. Len(answer)
    /\ pending \subseteq Keys

(* Every target comes after all it depends on, and only once: the rules    *)
(* that gen_targets_rules writes in this order use no scons variable that  *)
(* is defined further down.                                                *)
DependenciesFirst ==
    /\ \A i, j \in 1 .. Len(answer) : answer[i] = answer[j] => i = j
    /\ \A i \in 1 .. Len(answer) : \A d \in pairlist[answer[i]] :
          \E j \in 1 .. i - 1 : answer[j] = d

(* Dependencies without a loop: among any targets there is one that        *)
(* depends on none of the others, or on itself.                            *)
Acyclic ==
    \A S \in SUBSET Keys : S # {} => \E t \in S : pairlist[t] \cap S = {}

(* Without a loop no target is left out.                                   *)
NoneLeftOut == phase = "done" /\ Acyclic => Listed = Keys

(* assert numpreds[x] == 0, and the deletion finds its key: the counts     *)
(* never fall below zero and a target collected is never collected again.  *)
TakenAreFree ==
    /\ phase = "loop" /\ pos < Len(answer) =>
          numpreds[answer[pos + 1]] = 0 /\ answer[pos + 1] \in keys
    /\ \A t \in Keys : numpreds[t] >= 0

(* The inductive invariant of the proofs: a count is the number of         *)
(* dependencies that have not been taken, or whose knock is pending.       *)
Waiting(y) ==
    pairlist[y] \ (IF y \in pending THEN Taken \ {answer[pos]} ELSE Taken)

(* Keys, counts and list of _topological_sort agree at every step.         *)
SortInv ==
    /\ SortTypeOK
    /\ keys = Keys \ Taken
    /\ \A i, j \in 1 .. Len(answer) : answer[i] = answer[j] => i = j
    /\ phase = "filter" => pos = 0
    /\ phase # "knock" => pending = {}
    /\ phase = "knock" => pos > 0 /\ \A y \in pending : answer[pos] \in pairlist[y]
    /\ phase = "done" => pos = Len(answer)
    /\ \A y \in Keys : numpreds[y] = Cardinality(Waiting(y))
    /\ \A y \in Listed : numpreds[y] = 0
    /\ phase # "filter" => \A y \in Keys : numpreds[y] = 0 => y \in Listed
    /\ DependenciesFirst
=============================================================================
