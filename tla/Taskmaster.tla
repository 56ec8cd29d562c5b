----------------------------- MODULE Taskmaster -----------------------------
(***************************************************************************)
(* SCons.Taskmaster, the walk over the dependency graph with which scons   *)
(* decides what to build next when blade has written the SConstruct.  The  *)
(* attributes of the Taskmaster and of its nodes are one record, tm, and   *)
(* its methods are operators on that record; ParallelJobs calls them.      *)
(***************************************************************************)
EXTENDS Integers, FiniteSets, SequencesExt

CONSTANTS Node,     \* files and directories
          NoNode,   \* no current_top yet
          Builds    \* what may be asked for: see BuildAssumption

(* SCons.Node: the states in their order of priority.                      *)
NO_STATE == 0
PENDING == 1
EXECUTING == 2
UP_TO_DATE == 3
EXECUTED == 4
FAILED == 5

Finished == {UP_TO_DATE, EXECUTED}

(* A build: the targets asked for, of each node the targets of its         *)
(* executor (itself only for a source file), its sources and dependencies, *)
(* and the dependencies that a scan finds in them once they are there; the *)
(* nodes that have a builder, those of them whose file is current, the     *)
(* source files that do not exist, the nodes for which get_all_children or *)
(* make_ready may raise, and what scons does after a failure.  The targets *)
(* of an executor share it, with its sources, and get_all_children lists   *)
(* each of these once.                                                     *)
ASSUME BuildAssumption ==
    /\ NoNode \notin Node /\ IsFiniteSet(Node)
    /\ \A b \in Builds :
          /\ b.tops \in Seq(Node)
          /\ b.targets \in [Node -> Seq(Node)]
          /\ \A n \in Node : n \in Range(b.targets[n])
          /\ b.kids \in [Node -> Seq(Node)]
          /\ b.late \in [Node -> Seq(Node)]
          /\ \A n \in Node : IsInjective(b.kids[n] \o b.late[n])
          /\ \A n \in Node : \A t \in Range(b.targets[n]) :
                /\ b.targets[t] = b.targets[n]
                /\ b.kids[t] = b.kids[n] /\ b.late[t] = b.late[n]
          /\ b.derived \subseteq Node
          /\ b.current \subseteq b.derived
          /\ b.missing \subseteq Node \ b.derived
          /\ b.raising \subseteq Node
          /\ b.failing \in {"stop", "keep_going"}

VARIABLES build,   \* the build that was asked for
          tm

Attributes ==
    [state : [Node -> NO_STATE .. FAILED],
     ref_count : [Node -> Nat],
     waiting_parents : [Node -> SUBSET Node],
     implicit : [Node -> {"none", "partial", "full"}],
     candidates : Seq(Node),
     top_targets_left : Seq(Node),
     current_top : Node \cup {NoNode},
     pending_children : SUBSET Node,
     next_candidate : {"find", "no"}]

TaskmasterInit ==
    /\ build \in Builds
    /\ tm = [state |-> [n \in Node |-> NO_STATE],
             ref_count |-> [n \in Node |-> 0],
             waiting_parents |-> [n \in Node |-> {}],
             implicit |-> [n \in Node |-> "none"],
             candidates |-> <<>>,
             top_targets_left |-> Reverse(build.tops),
             current_top |-> NoNode,
             pending_children |-> {},
             next_candidate |-> "find"]

(* Executor.get_all_targets, the targets of the task for a node.           *)
TargetsOf(n) == build.targets[n]

(* Executor.get_all_children as the last scan left it: a scan for one of   *)
(* the targets of an executor is for all of them.                          *)
Children(s, n) ==
    build.kids[n] \o
    (IF \E t \in Range(TargetsOf(n)) : s.implicit[t] = "full"
     THEN build.late[n] ELSE <<>>)

(* The file of a node can be read: a source, the current file of an        *)
(* earlier build, or what this build has made.                             *)
Readable(s, n) ==
    \/ n \notin build.derived
    \/ n \in build.current
    \/ s.state[n] = EXECUTED

(* Node.scan: a node is scanned once, unless built() of a child forgets    *)
(* the result.  A child that is not there yet hides what it includes.      *)
Scan(s, n) ==
    IF \A t \in Range(TargetsOf(n)) : s.implicit[t] # "none" THEN s
    ELSE [s EXCEPT !.implicit =
            [m \in Node |->
                IF m \notin Range(TargetsOf(n)) \/ @[m] = "full" THEN @[m]
                ELSE IF \A k \in Range(build.kids[n]) : Readable(s, k) THEN "full"
                ELSE "partial"]]

(* find_next_candidate: the top of the stack of candidates, or else the    *)
(* next target asked for.                                                  *)
HasCandidate(s) == s.candidates # <<>> \/ s.top_targets_left # <<>>

Candidate(s) == IF s.candidates # <<>> THEN Last(s.candidates)
                ELSE Last(s.top_targets_left)

FindNextCandidate(s) ==
    IF s.candidates # <<>>
    THEN [s EXCEPT !.candidates = Front(@)]
    ELSE [s EXCEPT !.top_targets_left = Front(@),
                   !.current_top = Last(s.top_targets_left)]

(* _find_next_ready_node: the children of a candidate by their state.      *)
ChildrenIn(s, n, states) ==
    {k \in Range(Children(s, n)) : s.state[k] \in states}

(* Mutant: < instead of <= EXECUTING.                                      *)
NotVisitedOrPending(s, n) == ChildrenIn(s, n, {NO_STATE, PENDING})

NotReady(s, n) == ChildrenIn(s, n, {NO_STATE, PENDING, EXECUTING})

(* The children that have not been visited, in reverse.                    *)
Follows(list, a, b) ==
    \E i, j \in DOMAIN list : j < i /\ list[i] = a /\ list[j] = b

NotVisited(s, n) ==
    {new \in SetToSeqs(ChildrenIn(s, n, {NO_STATE})) :
        \A i, j \in DOMAIN new :
            i < j => Follows(Children(s, n), new[i], new[j])}

(* They become candidates, the first one on top.                           *)
AddNotVisited(s, new) == [s EXCEPT !.candidates = @ \o new]

(* A failed child fails the targets of the executor, and nobody else.      *)
ChildrenFailed(s, n, new) ==
    [AddNotVisited(s, new) EXCEPT !.state =
        [m \in Node |-> IF m \in Range(TargetsOf(n)) THEN FAILED ELSE @[m]]]

(* add_to_waiting_parents for every child that was not ready; the pending  *)
(* ones are still those that were pending then, since only the main thread *)
(* sets a node to PENDING or takes it out of it.                           *)
WaitForChildren(s, n, children_not_ready) ==
    LET new == {k \in children_not_ready : n \notin s.waiting_parents[k]}
    IN  [s EXCEPT
            !.ref_count[n] = @ + Cardinality(new),
            !.waiting_parents =
                [k \in Node |-> IF k \in new THEN @[k] \cup {n} ELSE @[k]],
            !.pending_children =
                @ \cup {k \in children_not_ready : s.state[k] = PENDING}]

(* make_ready_current: all targets are executed if one is not current.     *)
OutOfDate(n) ==
    \E t \in Range(TargetsOf(n)) : t \in build.derived \ build.current

MakeReady(s, n) ==
    [s EXCEPT !.state =
        [m \in Node |-> IF m \notin Range(TargetsOf(n)) THEN @[m]
                        ELSE IF OutOfDate(n) THEN EXECUTING
                        ELSE UP_TO_DATE]]

(* Node.built: the parents that wait for a node will be scanned again.     *)
Built(s, parents) ==
    [s EXCEPT !.implicit =
        [m \in Node |-> IF m \in parents THEN "none" ELSE @[m]]]

ParentsOf(s, ns) == UNION {s.waiting_parents[n] : n \in ns}

(* Task.executed_with_callbacks.                                           *)
Executed(s, ts) ==
    LET made == {t \in Range(ts) : s.state[t] = EXECUTING}
    IN  [Built(s, ParentsOf(s, made)) EXCEPT !.state =
            [m \in Node |-> IF m \in made THEN EXECUTED ELSE @[m]]]

(* Of the nodes ns, how many a node waits for.                             *)
WaitsFor(s, p, ns) == Cardinality({n \in ns : p \in s.waiting_parents[n]})

(* Task.postprocess: parents that wait for nothing else are candidates     *)
(* again, in the order of a dictionary, which is any order.                *)
(* Mutant: the reference count is compared before it is adjusted.          *)
ReleasedTooLate(s, ts) ==
    {p \in ParentsOf(s, Range(ts)) : s.ref_count[p] = 0}

Released(s, ts) ==
    {p \in ParentsOf(s, Range(ts)) : s.ref_count[p] = WaitsFor(s, p, Range(ts))}

(* Mutant: the targets are not discarded from pending_children.            *)
PostprocessPending(s, ts, order) ==
    [s EXCEPT
        !.ref_count = [p \in Node |-> @[p] - WaitsFor(s, p, Range(ts))],
        !.candidates = @ \o order,
        !.waiting_parents = [n \in Node |-> IF n \in Range(ts) THEN {} ELSE @[n]]]

Postprocess(s, ts, order) ==
    [s EXCEPT
        !.pending_children =
            @ \ {t \in Range(ts) : s.waiting_parents[t] # {}},
        !.ref_count = [p \in Node |-> @[p] - WaitsFor(s, p, Range(ts))],
        !.candidates = @ \o order,
        !.waiting_parents = [n \in Node |-> IF n \in Range(ts) THEN {} ELSE @[n]]]

(* will_not_build: the nodes, the parents that wait for them, and so on,   *)
(* which is the least set of nodes that has the parents of its members.    *)
Doomed(s, ns) ==
    LET closed == {D \in SUBSET Node : ns \subseteq D /\ ParentsOf(s, D) \subseteq D}
    IN  {n \in Node : \A D \in closed : n \in D}

(* Mutant: the reference counts of the parents are left alone.             *)
WillNotBuildUncounted(s, ns) ==
    LET doomed == Doomed(s, ns)
    IN  [s EXCEPT
            !.pending_children = @ \ doomed,
            !.waiting_parents = [n \in Node |-> IF n \in doomed THEN {} ELSE @[n]]]

WillNotBuild(s, ns) ==
    LET doomed == Doomed(s, ns)
    IN  [s EXCEPT
            !.pending_children = @ \ doomed,
            !.ref_count = [p \in Node |-> @[p] - WaitsFor(s, p, doomed)],
            !.waiting_parents = [n \in Node |-> IF n \in doomed THEN {} ELSE @[n]]]

(* fail_continue, and the first half of fail_stop.                         *)
FailContinue(s, ts) ==
    LET doomed == Doomed(s, Range(ts))
    IN  [WillNotBuild(s, Range(ts)) EXCEPT !.state =
            [m \in Node |-> IF m \in doomed THEN FAILED ELSE @[m]]]

Stop(s) == [s EXCEPT !.next_candidate = "no"]

(* BuildTask.do_failed and the postprocess() that follows it: the task     *)
(* that stops the build postprocesses current_top instead of its targets.  *)
Failed(s, ts) ==
    IF build.failing = "keep_going" THEN FailContinue(s, ts)
    ELSE Stop(FailContinue(s, ts))

FailedTargets(s, ts) ==
    IF build.failing = "keep_going" THEN ts ELSE <<s.current_top>>

(* no_next_candidate.                                                      *)
NoNextCandidate(s) ==
    [WillNotBuild(s, Range(s.candidates)) EXCEPT !.candidates = <<>>]

(* find_cycle: a node waits, in the end, for itself.                       *)
OnCycle(s, n) == n \in Doomed(s, s.waiting_parents[n])

(* cleanup: the error it raises, if any.                                   *)
CleanupError(s) ==
    \E n \in s.pending_children : OnCycle(s, n) \/ s.state[n] # EXECUTED
=============================================================================
