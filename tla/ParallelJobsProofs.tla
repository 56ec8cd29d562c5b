------------------------- MODULE ParallelJobsProofs -------------------------
(***************************************************************************)
(* Proofs about ParallelJobs, for every graph of nodes, every number of    *)
(* workers, every cache and every failure.                                 *)
(***************************************************************************)
EXTENDS ParallelJobs, FiniteSetTheorems, FunctionTheorems, TLAPS

(* What a build is, as an assumption on any of them.                       *)
LEMMA BuildType ==
    ASSUME NEW b \in Builds
    PROVE  /\ b.tops \in Seq(Node)
           /\ b.targets \in [Node -> Seq(Node)]
           /\ \A n \in Node : n \in Range(b.targets[n])
           /\ b.kids \in [Node -> Seq(Node)]
           /\ b.late \in [Node -> Seq(Node)]
           /\ \A n \in Node : \A t \in Range(b.targets[n]) :
                 /\ b.targets[t] = b.targets[n]
                 /\ b.kids[t] = b.kids[n] /\ b.late[t] = b.late[n]
           /\ b.cached \subseteq Node
BY BuildAssumption, WorkerAssumption

(* Range of a sequence.                                                    *)
LEMMA EntriesOfList ==
    ASSUME NEW T, NEW q \in Seq(T)
    PROVE  /\ \A x : x \in Range(q) <=> \E i \in 1 .. Len(q) : q[i] = x
           /\ Range(q) \subseteq T
BY DEF Range

(* Queue.get.                                                              *)
LEMMA FirstAndRest ==
    ASSUME NEW T, NEW q \in Seq(T), q # <<>>
    PROVE  /\ Head(q) \in T /\ Tail(q) \in Seq(T)
           /\ Len(q) \in Nat /\ Len(q) > 0 /\ Len(Tail(q)) = Len(q) - 1
           /\ DOMAIN q = 1 .. Len(q) /\ DOMAIN Tail(q) = 1 .. (Len(q) - 1)
           /\ Head(q) = q[1]
           /\ \A i \in 1 .. (Len(q) - 1) : Tail(q)[i] = q[i + 1]
OBVIOUS

(* Queue.put.                                                              *)
LEMMA Appended ==
    ASSUME NEW T, NEW q \in Seq(T), NEW x \in T
    PROVE  /\ Append(q, x) \in Seq(T)
           /\ Len(q) \in Nat /\ Len(Append(q, x)) = Len(q) + 1
           /\ DOMAIN q = 1 .. Len(q) /\ DOMAIN Append(q, x) = 1 .. (Len(q) + 1)
           /\ Append(q, x)[Len(q) + 1] = x
           /\ \A i \in 1 .. Len(q) : Append(q, x)[i] = q[i]
OBVIOUS

(* Queue.put adds one entry at the end and keeps the others.               *)
LEMMA AppendedEntries ==
    ASSUME NEW T, NEW q \in Seq(T), NEW x \in T, NEW p, p = Append(q, x)
    PROVE  \A i \in DOMAIN p : p[i] = x \/ (i \in DOMAIN q /\ p[i] = q[i])
<1>1. Len(q) \in Nat /\ DOMAIN q = 1 .. Len(q) /\ DOMAIN p = 1 .. (Len(q) + 1)
  BY Appended
<1>2. ASSUME NEW i \in 1 .. (Len(q) + 1)
      PROVE  p[i] = x \/ (i \in 1 .. Len(q) /\ p[i] = q[i])
  <2>1. i = Len(q) + 1 \/ i \in 1 .. Len(q)
    BY <1>1
  <2>2. QED
    BY <2>1, Appended
<1>3. QED
  BY <1>1, <1>2

(* An order of a finite set.                                               *)
LEMMA OrderOfSet ==
    ASSUME NEW S, IsFiniteSet(S), NEW order \in SetToSeqs(S)
    PROVE  order \in Seq(S)
<1>1. Cardinality(S) \in Nat
  BY FS_CardinalityType
<1>2. order \in [1 .. Cardinality(S) -> S]
  BY DEF SetToSeqs
<1>3. QED
  BY <1>1, <1>2

(* The nodes are finitely many, so what is counted of them is a number.    *)
LEMMA SubsetOfNode ==
    ASSUME NEW S, S \subseteq Node
    PROVE  IsFiniteSet(S) /\ Cardinality(S) \in Nat
BY BuildAssumption, FS_Subset, FS_CardinalityType

(* Every member of a set is in every order of it.                          *)
LEMMA OrderIsComplete ==
    ASSUME NEW S, S \subseteq Node, NEW order \in SetToSeqs(S)
    PROVE  Range(order) = S
<1>1. IsFiniteSet(S) /\ Cardinality(S) \in Nat
  BY SubsetOfNode
<1>2. /\ order \in [1 .. Cardinality(S) -> S]
      /\ \A i, j \in 1 .. Cardinality(S) : i # j => order[i] # order[j]
  BY DEF SetToSeqs
<1>3. order \in Injection(1 .. Cardinality(S), S)
  BY <1>2 DEF Injection, IsInjective
<1>4. Cardinality(1 .. Cardinality(S)) = Cardinality(S)
  BY <1>1, FS_Interval
<1>5. order \in Surjection(1 .. Cardinality(S), S)
  BY <1>1, <1>3, <1>4, FS_Injection
<1>6. \A x \in S : \E i \in 1 .. Cardinality(S) : order[i] = x
  BY <1>5 DEF Surjection
<1>7. QED
  BY <1>2, <1>6 DEF Range

(* The tasks in the queue of requests, which also holds sentinels.         *)
Tasks(q) == {i \in DOMAIN q : q[i] # None}

(* The tasks in a queue, sentinels not counted, are finitely many.         *)
LEMMA TasksFinite ==
    ASSUME NEW T, NEW q \in Seq(T)
    PROVE  IsFiniteSet(Tasks(q)) /\ Cardinality(Tasks(q)) \in Nat
<1>1. Len(q) \in Nat /\ DOMAIN q = 1 .. Len(q)
  OBVIOUS
<1>2. IsFiniteSet(1 .. Len(q))
  BY <1>1, FS_Interval
<1>3. Tasks(q) \in SUBSET (1 .. Len(q))
  BY <1>1 DEF Tasks
<1>4. QED
  BY <1>2, <1>3, FS_Subset, FS_CardinalityType

(* Putting a task into a queue makes the tasks one more.                   *)
LEMMA TasksAfterAppend ==
    ASSUME NEW T, NEW q \in Seq(T), NEW x \in T, x # None
    PROVE  Cardinality(Tasks(Append(q, x))) = Cardinality(Tasks(q)) + 1
<1>1. Len(q) + 1 \notin Tasks(q)
  BY Appended DEF Tasks
<1>2. Tasks(Append(q, x)) = Tasks(q) \cup {Len(q) + 1}
  BY Appended DEF Tasks
<1>3. QED
  BY <1>1, <1>2, TasksFinite, FS_AddElement

(* Taking an entry makes them one less, unless it was a sentinel.          *)
LEMMA TasksAfterTail ==
    ASSUME NEW T, NEW q \in Seq(T), q # <<>>
    PROVE  Cardinality(Tasks(q)) =
               Cardinality(Tasks(Tail(q))) + (IF Head(q) # None THEN 1 ELSE 0)
<1> DEFINE P == Tasks(q)
           R == Tasks(Tail(q))
           f == [i \in R |-> i + 1]
<1>1. /\ Len(q) \in Nat /\ Len(q) > 0 /\ DOMAIN q = 1 .. Len(q)
      /\ Tail(q) \in Seq(T) /\ DOMAIN Tail(q) = 1 .. (Len(q) - 1)
      /\ \A i \in 1 .. (Len(q) - 1) : Tail(q)[i] = q[i + 1]
      /\ Head(q) = q[1]
  BY FirstAndRest
<1>2. IsFiniteSet(P) /\ IsFiniteSet(R) /\ Cardinality(P) \in Nat /\ Cardinality(R) \in Nat
  BY <1>1, TasksFinite
<1>3. f \in Bijection(R, P \ {1})
  <2>1. \A i \in R : i \in Nat /\ i + 1 \in P \ {1}
    BY <1>1 DEF Tasks
  <2>2. \A j \in P \ {1} : j - 1 \in R /\ (j - 1) + 1 = j
    <3>1. SUFFICES ASSUME NEW j \in P, j # 1 PROVE j - 1 \in R /\ (j - 1) + 1 = j
      OBVIOUS
    <3>2. j \in 1 .. Len(q) /\ q[j] # None
      BY <1>1 DEF Tasks
    <3>3. j - 1 \in 1 .. (Len(q) - 1) /\ (j - 1) + 1 = j
      BY <3>1, <3>2, <1>1
    <3>4. QED
      BY <3>2, <3>3, <1>1 DEF Tasks
  <2>3. f \in [R -> P \ {1}]
    BY <2>1
  <2>4. \A i, j \in R : f[i] = f[j] => i = j
    BY <2>1
  <2>5. \A j \in P \ {1} : \E i \in R : f[i] = j
    BY <2>2
  <2>6. QED
    BY <2>3, <2>4, <2>5, Fun_IsBij
<1>4. Cardinality(P \ {1}) = Cardinality(R)
  BY <1>2, <1>3, FS_Bijection DEF ExistsBijection
<1>5. Cardinality(P \ {1}) = IF 1 \in P THEN Cardinality(P) - 1 ELSE Cardinality(P)
  BY <1>2, FS_RemoveElement
<1>6. 1 \in P <=> Head(q) # None
  BY <1>1 DEF Tasks
<1>7. QED
  BY <1>2, <1>4, <1>5, <1>6

(* The sentinels of ThreadPool.cleanup.                                    *)
LEMMA TasksAfterSentinels ==
    ASSUME NEW T, None \in T, NEW q \in Seq(T), NEW m \in Nat
    PROVE  /\ q \o [i \in 1 .. m |-> None] \in Seq(T)
           /\ Tasks(q \o [i \in 1 .. m |-> None]) = Tasks(q)
           /\ \A i \in DOMAIN q : (q \o [j \in 1 .. m |-> None])[i] = q[i]
<1> DEFINE z == [i \in 1 .. m |-> None]
<1>1. z \in Seq(T) /\ Len(z) = m /\ \A i \in 1 .. m : z[i] = None
  OBVIOUS
<1> HIDE DEF z
<1>2. /\ q \o z \in Seq(T) /\ Len(q) \in Nat /\ Len(q \o z) = Len(q) + m
      /\ DOMAIN q = 1 .. Len(q) /\ DOMAIN (q \o z) = 1 .. (Len(q) + m)
      /\ \A i \in 1 .. Len(q) : (q \o z)[i] = q[i]
  BY <1>1
<1>3. ASSUME NEW i \in 1 .. (Len(q) + m), i \notin 1 .. Len(q)
      PROVE  (q \o z)[i] = None
  <2>1. i - Len(q) \in 1 .. m /\ (q \o z)[i] = z[i - Len(q)]
    BY <1>1, <1>2, <1>3
  <2>2. QED
    BY <1>1, <2>1
<1>4. Tasks(q \o z) = Tasks(q)
  BY <1>2, <1>3 DEF Tasks
<1>5. QED
  BY <1>2, <1>4 DEF z

-----------------------------------------------------------------------------
(* The operators of the Taskmaster, on any state s of it.                  *)

(* A part of the Taskmaster that an operator leaves alone.                 *)
Books(s) == <<s.ref_count, s.waiting_parents>>
Stack(s) == <<s.candidates, s.top_targets_left, s.current_top>>

Agree(s) ==
    \A p \in Node :
        s.ref_count[p] = Cardinality({n \in Node : p \in s.waiting_parents[n]})

(* current_top is set before there are candidates.                         *)
TopKnown(s) == s.current_top = NoNode => s.candidates = <<>>

(* The types of the attributes, one by one.                                *)
LEMMA AttributesDef ==
    ASSUME NEW s \in Attributes
    PROVE  /\ s.state \in [Node -> NO_STATE .. FAILED]
           /\ s.ref_count \in [Node -> Nat]
           /\ s.waiting_parents \in [Node -> SUBSET Node]
           /\ s.implicit \in [Node -> {"none", "partial", "full"}]
           /\ s.candidates \in Seq(Node)
           /\ s.top_targets_left \in Seq(Node)
           /\ s.current_top \in Node \cup {NoNode}
           /\ s.pending_children \subseteq Node
           /\ s.next_candidate \in {"find", "no"}
BY DEF Attributes

(* find_next_candidate.                                                    *)
LEMMA FindNext ==
    ASSUME NEW s \in Attributes, HasCandidate(s), TopKnown(s)
    PROVE  /\ Candidate(s) \in Node
           /\ FindNextCandidate(s) \in Attributes
           /\ FindNextCandidate(s).state = s.state
           /\ FindNextCandidate(s).ref_count = s.ref_count
           /\ FindNextCandidate(s).waiting_parents = s.waiting_parents
           /\ FindNextCandidate(s).implicit = s.implicit
           /\ FindNextCandidate(s).next_candidate = s.next_candidate
           /\ FindNextCandidate(s).current_top \in Node
<1>1. CASE s.candidates # <<>>
  <2>1. Front(s.candidates) \in Seq(Node) /\ Last(s.candidates) \in Node
    BY <1>1, AttributesDef DEF Front, Last
  <2>2. s.current_top \in Node
    BY <1>1, AttributesDef DEF TopKnown
  <2>3. FindNextCandidate(s) = [s EXCEPT !.candidates = Front(s.candidates)]
    BY <1>1 DEF FindNextCandidate
  <2>4. Candidate(s) = Last(s.candidates)
    BY <1>1 DEF Candidate
  <2>5. QED
    BY <2>1, <2>2, <2>3, <2>4 DEF Attributes
<1>2. CASE s.candidates = <<>>
  <2>1. s.top_targets_left # <<>>
    BY <1>2 DEF HasCandidate
  <2>2. Front(s.top_targets_left) \in Seq(Node) /\ Last(s.top_targets_left) \in Node
    BY <2>1, AttributesDef DEF Front, Last
  <2>3. FindNextCandidate(s) =
            [s EXCEPT !.top_targets_left = Front(s.top_targets_left),
                      !.current_top = Last(s.top_targets_left)]
    BY <1>2 DEF FindNextCandidate
  <2>4. Candidate(s) = Last(s.top_targets_left)
    BY <1>2 DEF Candidate
  <2>5. QED
    BY <2>2, <2>3, <2>4 DEF Attributes
<1>3. QED
  BY <1>1, <1>2

(* The state of nodes is set, and nothing else.                            *)
LEMMA SetState ==
    ASSUME NEW s \in Attributes, NEW f \in [Node -> NO_STATE .. FAILED]
    PROVE  /\ [s EXCEPT !.state = f] \in Attributes
           /\ [s EXCEPT !.state = f].state = f
           /\ Books([s EXCEPT !.state = f]) = Books(s)
           /\ Stack([s EXCEPT !.state = f]) = Stack(s)
           /\ [s EXCEPT !.state = f].implicit = s.implicit
           /\ [s EXCEPT !.state = f].next_candidate = s.next_candidate
           /\ [s EXCEPT !.state = f].pending_children = s.pending_children
BY DEF Attributes, Books, Stack

(* What scans have found is set, and nothing else.                         *)
LEMMA SetImplicit ==
    ASSUME NEW s \in Attributes,
           NEW f \in [Node -> {"none", "partial", "full"}]
    PROVE  /\ [s EXCEPT !.implicit = f] \in Attributes
           /\ [s EXCEPT !.implicit = f].implicit = f
           /\ [s EXCEPT !.implicit = f].state = s.state
           /\ Books([s EXCEPT !.implicit = f]) = Books(s)
           /\ Stack([s EXCEPT !.implicit = f]) = Stack(s)
           /\ [s EXCEPT !.implicit = f].next_candidate = s.next_candidate
           /\ [s EXCEPT !.implicit = f].pending_children = s.pending_children
BY DEF Attributes, Books, Stack

(* A scan changes nothing but what is known of implicit dependencies.      *)
LEMMA ScanType ==
    ASSUME NEW s \in Attributes, NEW n \in Node
    PROVE  /\ Scan(s, n) \in Attributes
           /\ Scan(s, n).state = s.state
           /\ Books(Scan(s, n)) = Books(s)
           /\ Stack(Scan(s, n)) = Stack(s)
           /\ Scan(s, n).next_candidate = s.next_candidate
           /\ Scan(s, n).pending_children = s.pending_children
<1> DEFINE f == [m \in Node |->
                IF m \notin Range(TargetsOf(n)) \/ s.implicit[m] = "full"
                THEN s.implicit[m]
                ELSE IF \A k \in Range(build.kids[n]) : Readable(s, k) THEN "full"
                ELSE "partial"]
<1>1. f \in [Node -> {"none", "partial", "full"}]
  BY AttributesDef
<1>2. Scan(s, n) = s \/ Scan(s, n) = [s EXCEPT !.implicit = f]
  BY DEF Scan
<1> HIDE DEF f
<1>3. CASE Scan(s, n) = s
  BY <1>3
<1>4. CASE Scan(s, n) = [s EXCEPT !.implicit = f]
  BY <1>1, <1>4, SetImplicit
<1>5. QED
  BY <1>2, <1>3, <1>4

(* built() changes nothing but what is known of implicit dependencies.     *)
LEMMA BuiltType ==
    ASSUME NEW s \in Attributes, NEW parents
    PROVE  /\ Built(s, parents) \in Attributes
           /\ Built(s, parents).state = s.state
           /\ Books(Built(s, parents)) = Books(s)
           /\ Stack(Built(s, parents)) = Stack(s)
           /\ Built(s, parents).next_candidate = s.next_candidate
           /\ Built(s, parents).pending_children = s.pending_children
<1> DEFINE f == [m \in Node |-> IF m \in parents THEN "none" ELSE s.implicit[m]]
<1>1. f \in [Node -> {"none", "partial", "full"}]
  BY AttributesDef
<1>2. Built(s, parents) = [s EXCEPT !.implicit = f]
  BY DEF Built
<1> HIDE DEF f
<1>3. QED
  BY <1>1, <1>2, SetImplicit

(* The parents of the nodes D no longer wait for them, and are told so.    *)
Cleared(s, D) == [n \in Node |-> IF n \in D THEN {} ELSE s.waiting_parents[n]]
Uncounted(s, D) == [p \in Node |-> s.ref_count[p] - WaitsFor(s, p, D)]

(* Removing the waiting parents of some nodes and lowering the counts of   *)
(* these parents keeps the counts exact.                                   *)
LEMMA ClearedBooks ==
    ASSUME NEW s \in Attributes, Agree(s), NEW D \in SUBSET Node, NEW t,
           t.waiting_parents = Cleared(s, D), t.ref_count = Uncounted(s, D)
    PROVE  /\ Cleared(s, D) \in [Node -> SUBSET Node]
           /\ Uncounted(s, D) \in [Node -> Nat]
           /\ Agree(t)
<1>1. Cleared(s, D) \in [Node -> SUBSET Node]
  BY AttributesDef DEF Cleared
<1>2. ASSUME NEW p \in Node
      PROVE  /\ Uncounted(s, D)[p] \in Nat
             /\ Uncounted(s, D)[p] =
                    Cardinality({n \in Node : p \in Cleared(s, D)[n]})
  <2> DEFINE W == {n \in Node : p \in s.waiting_parents[n]}
  <2>1. {n \in Node : p \in Cleared(s, D)[n]} = W \ D
    BY DEF Cleared
  <2>2. {n \in D : p \in s.waiting_parents[n]} = W \cap D
    OBVIOUS
  <2>3. WaitsFor(s, p, D) = Cardinality(W \cap D)
    BY <2>2, Zenon DEF WaitsFor
  <2>4. s.ref_count[p] = Cardinality(W)
    BY DEF Agree
  <2>5. IsFiniteSet(W)
    BY SubsetOfNode
  <2>6. Cardinality(W \ D) = Cardinality(W) - Cardinality(W \cap D)
    BY <2>5, FS_Difference
  <2>7. Cardinality(W \ D) \in Nat
    BY SubsetOfNode
  <2>8. Uncounted(s, D)[p] = s.ref_count[p] - WaitsFor(s, p, D)
    BY DEF Uncounted
  <2> HIDE DEF W
  <2>9. Uncounted(s, D)[p] = Cardinality(W \ D)
    BY <2>3, <2>4, <2>6, <2>8
  <2>10. Cardinality({n \in Node : p \in Cleared(s, D)[n]}) = Cardinality(W \ D)
    BY <2>1, Zenon
  <2>11. QED
    BY <2>7, <2>9, <2>10
<1>3. Uncounted(s, D) \in [Node -> Nat]
  BY <1>2 DEF Uncounted
<1>4. Agree(t)
  BY <1>2 DEF Agree
<1>5. QED
  BY <1>1, <1>3, <1>4

(* Task.postprocess.                                                       *)
LEMMA PostprocessResult ==
    ASSUME NEW s \in Attributes, Agree(s), NEW ts, Range(ts) \subseteq Node,
           NEW order \in Seq(Node)
    PROVE  /\ Postprocess(s, ts, order) \in Attributes
           /\ Agree(Postprocess(s, ts, order))
           /\ Postprocess(s, ts, order).state = s.state
           /\ Postprocess(s, ts, order).implicit = s.implicit
           /\ Postprocess(s, ts, order).waiting_parents = Cleared(s, Range(ts))
           /\ Postprocess(s, ts, order).current_top = s.current_top
           /\ Postprocess(s, ts, order).next_candidate = s.next_candidate
<1> DEFINE t == Postprocess(s, ts, order)
           pending == s.pending_children \ {k \in Range(ts) : s.waiting_parents[k] # {}}
<1>1. t = [s EXCEPT !.pending_children = pending,
                    !.ref_count = Uncounted(s, Range(ts)),
                    !.candidates = s.candidates \o order,
                    !.waiting_parents = Cleared(s, Range(ts))]
  BY DEF Postprocess, Uncounted, Cleared
<1>2. pending \subseteq Node /\ s.candidates \o order \in Seq(Node)
  BY AttributesDef
<1> HIDE DEF pending
<1>3. /\ t.waiting_parents = Cleared(s, Range(ts))
      /\ t.ref_count = Uncounted(s, Range(ts))
      /\ t.state = s.state /\ t.implicit = s.implicit
      /\ t.current_top = s.current_top /\ t.next_candidate = s.next_candidate
  BY <1>1 DEF Attributes
<1>4. /\ Cleared(s, Range(ts)) \in [Node -> SUBSET Node]
      /\ Uncounted(s, Range(ts)) \in [Node -> Nat]
      /\ Agree(t)
  BY <1>3, ClearedBooks
<1>5. t \in Attributes
  BY <1>1, <1>2, <1>4 DEF Attributes
<1>6. QED
  BY <1>3, <1>4, <1>5

(* will_not_build() fails nodes of the graph only.                         *)
LEMMA DoomedType == ASSUME NEW s, NEW ns PROVE Doomed(s, ns) \subseteq Node
BY DEF Doomed

(* will_not_build, apart from the states.                                  *)
LEMMA WillNotBuildResult ==
    ASSUME NEW s \in Attributes, Agree(s), NEW ns
    PROVE  /\ WillNotBuild(s, ns) \in Attributes
           /\ Agree(WillNotBuild(s, ns))
           /\ WillNotBuild(s, ns).state = s.state
           /\ WillNotBuild(s, ns).implicit = s.implicit
           /\ WillNotBuild(s, ns).waiting_parents = Cleared(s, Doomed(s, ns))
           /\ Stack(WillNotBuild(s, ns)) = Stack(s)
           /\ WillNotBuild(s, ns).next_candidate = s.next_candidate
<1> DEFINE D == Doomed(s, ns)
           t == WillNotBuild(s, ns)
           pending == s.pending_children \ D
<1>1. t = [s EXCEPT !.pending_children = pending,
                    !.ref_count = Uncounted(s, D),
                    !.waiting_parents = Cleared(s, D)]
  BY DEF WillNotBuild, Uncounted, Cleared
<1>2. pending \subseteq Node /\ D \subseteq Node
  BY AttributesDef, DoomedType
<1> HIDE DEF pending, D
<1>3. /\ t.waiting_parents = Cleared(s, D)
      /\ t.ref_count = Uncounted(s, D)
      /\ t.state = s.state /\ t.implicit = s.implicit
      /\ Stack(t) = Stack(s) /\ t.next_candidate = s.next_candidate
  BY <1>1 DEF Attributes, Stack
<1>4. /\ Cleared(s, D) \in [Node -> SUBSET Node]
      /\ Uncounted(s, D) \in [Node -> Nat]
      /\ Agree(t)
  BY <1>2, <1>3, ClearedBooks
<1>5. t \in Attributes
  BY <1>1, <1>2, <1>4 DEF Attributes
<1>6. QED
  BY <1>3, <1>4, <1>5 DEF D

(* The states that will_not_build leaves when a task has failed.           *)
StatesAfterFailure(s, ts) ==
    [m \in Node |-> IF m \in Doomed(s, Range(ts)) THEN FAILED ELSE s.state[m]]

(* BuildTask.do_failed, with or without --keep-going.                      *)
LEMMA FailedResult ==
    ASSUME NEW s \in Attributes, Agree(s), NEW ts
    PROVE  /\ Failed(s, ts) \in Attributes
           /\ Agree(Failed(s, ts))
           /\ Failed(s, ts).state = StatesAfterFailure(s, ts)
           /\ Failed(s, ts).implicit = s.implicit
           /\ Failed(s, ts).waiting_parents = Cleared(s, Doomed(s, Range(ts)))
           /\ Stack(Failed(s, ts)) = Stack(s)
           /\ build.failing = "keep_going" =>
                 Failed(s, ts).next_candidate = s.next_candidate
           /\ build.failing # "keep_going" => Failed(s, ts).next_candidate = "no"
<1> DEFINE b == WillNotBuild(s, Range(ts))
           c == FailContinue(s, ts)
<1>1. StatesAfterFailure(s, ts) \in [Node -> NO_STATE .. FAILED]
  BY AttributesDef DEF StatesAfterFailure, NO_STATE, FAILED
<1>2. /\ b \in Attributes /\ Agree(b) /\ b.state = s.state /\ b.implicit = s.implicit
      /\ b.waiting_parents = Cleared(s, Doomed(s, Range(ts)))
      /\ Stack(b) = Stack(s) /\ b.next_candidate = s.next_candidate
  BY WillNotBuildResult
<1>3. c = [b EXCEPT !.state = StatesAfterFailure(s, ts)]
  BY <1>2 DEF FailContinue, StatesAfterFailure
<1> HIDE DEF b, c
<1>4. /\ c \in Attributes /\ c.state = StatesAfterFailure(s, ts)
      /\ Books(c) = Books(b) /\ Stack(c) = Stack(b) /\ c.implicit = b.implicit
      /\ c.next_candidate = b.next_candidate
  BY <1>1, <1>2, <1>3, SetState
<1>5. Agree(c) /\ c.waiting_parents = b.waiting_parents
  BY <1>2, <1>4 DEF Agree, Books
<1>6. CASE build.failing = "keep_going"
  <2>1. Failed(s, ts) = c
    BY <1>6 DEF Failed, c
  <2>2. QED
    BY <2>1, <1>2, <1>4, <1>5, <1>6
<1>7. CASE build.failing # "keep_going"
  <2>1. Failed(s, ts) = [c EXCEPT !.next_candidate = "no"]
    BY <1>7 DEF Failed, c, Stop
  <2>2. /\ Failed(s, ts) \in Attributes
        /\ Failed(s, ts).state = c.state /\ Failed(s, ts).implicit = c.implicit
        /\ Books(Failed(s, ts)) = Books(c) /\ Stack(Failed(s, ts)) = Stack(c)
        /\ Failed(s, ts).next_candidate = "no"
    BY <2>1, <1>4 DEF Attributes, Books, Stack
  <2>3. Agree(Failed(s, ts)) /\ Failed(s, ts).waiting_parents = c.waiting_parents
    BY <2>2, <1>5 DEF Agree, Books
  <2>4. QED
    BY <2>2, <2>3, <1>2, <1>4, <1>5, <1>7
<1>8. QED
  BY <1>6, <1>7

(* The parents to be released are nodes.                                   *)
LEMMA ReleasedType ==
    ASSUME NEW s \in Attributes, NEW ts, Range(ts) \subseteq Node,
           NEW order \in SetToSeqs(Released(s, ts))
    PROVE  order \in Seq(Node)
<1>1. Released(s, ts) \subseteq Node
  BY AttributesDef DEF Released, ParentsOf
<1>2. order \in Seq(Released(s, ts))
  BY <1>1, SubsetOfNode, OrderOfSet
<1>3. QED
  BY <1>1, <1>2

(* task.failed() and task.postprocess(), where t is what they leave.       *)
FailedInto(s, ts, t) ==
    /\ t \in Attributes
    /\ Agree(t)
    /\ t.state = StatesAfterFailure(s, ts)
    /\ t.implicit = s.implicit
    /\ \A n \in Node : t.waiting_parents[n] \subseteq s.waiting_parents[n]
    /\ \A n \in Doomed(s, Range(ts)) : t.waiting_parents[n] = {}
    /\ t.current_top = s.current_top
    /\ build.failing = "keep_going" =>
          /\ t.next_candidate = s.next_candidate
          /\ \A n \in Node :
                n \notin Doomed(s, Range(ts)) \cup Range(ts) =>
                    t.waiting_parents[n] = s.waiting_parents[n]
    /\ build.failing # "keep_going" => t.next_candidate = "no"

(* A task that fails, up to its postprocess().                             *)
LEMMA FailTaskResult ==
    ASSUME NEW s \in Attributes, Agree(s), s.current_top \in Node,
           NEW ts, Range(ts) \subseteq Node, FailTask(s, ts)
    PROVE  FailedInto(s, ts, tm')
<1> DEFINE f == Failed(s, ts)
           top == FailedTargets(s, ts)
<1>1. PICK order \in SetToSeqs(Released(f, top)) : tm' = Postprocess(f, top, order)
  BY DEF FailTask
<1>2. Range(top) \subseteq Node
  <2>1. CASE build.failing = "keep_going"
    BY <2>1 DEF FailedTargets
  <2>2. CASE build.failing # "keep_going"
    <3>1. top = <<s.current_top>>
      BY <2>2 DEF FailedTargets
    <3>2. top \in Seq(Node)
      BY <3>1
    <3>3. QED
      BY <3>2, EntriesOfList
  <2>3. QED
    BY <2>1, <2>2
<1>3. build.failing = "keep_going" => top = ts
  BY DEF FailedTargets
<1>4. /\ f \in Attributes /\ Agree(f) /\ f.state = StatesAfterFailure(s, ts)
      /\ f.implicit = s.implicit
      /\ f.waiting_parents = Cleared(s, Doomed(s, Range(ts)))
      /\ f.current_top = s.current_top
      /\ build.failing = "keep_going" => f.next_candidate = s.next_candidate
      /\ build.failing # "keep_going" => f.next_candidate = "no"
  BY FailedResult DEF Stack
<1> HIDE DEF f, top
<1>5. order \in Seq(Node)
  BY <1>2, <1>4, ReleasedType
<1>6. /\ tm' \in Attributes /\ Agree(tm') /\ tm'.state = f.state
      /\ tm'.implicit = f.implicit /\ tm'.waiting_parents = Cleared(f, Range(top))
      /\ tm'.current_top = f.current_top /\ tm'.next_candidate = f.next_candidate
  BY <1>1, <1>2, <1>4, <1>5, PostprocessResult
<1>7. /\ \A n \in Node : tm'.waiting_parents[n] \subseteq s.waiting_parents[n]
      /\ \A n \in Doomed(s, Range(ts)) : tm'.waiting_parents[n] = {}
      /\ \A n \in Node : n \notin Doomed(s, Range(ts)) \cup Range(top) =>
             tm'.waiting_parents[n] = s.waiting_parents[n]
  BY <1>4, <1>6, DoomedType DEF Cleared
<1>8. QED
  BY <1>3, <1>4, <1>6, <1>7 DEF FailedInto

(* task.executed().                                                        *)
StatesAfterExecution(s, ts) ==
    [m \in Node |-> IF m \in Range(ts) /\ s.state[m] = EXECUTING THEN EXECUTED
                    ELSE s.state[m]]

(* executed(): what was executing is executed and its parents will be      *)
(* scanned again.                                                          *)
LEMMA ExecutedResult ==
    ASSUME NEW s \in Attributes, NEW ts
    PROVE  /\ Executed(s, ts) \in Attributes
           /\ Executed(s, ts).state = StatesAfterExecution(s, ts)
           /\ Books(Executed(s, ts)) = Books(s)
           /\ Stack(Executed(s, ts)) = Stack(s)
           /\ Executed(s, ts).next_candidate = s.next_candidate
           /\ Executed(s, ts).pending_children = s.pending_children
<1> DEFINE made == {t \in Range(ts) : s.state[t] = EXECUTING}
           b == Built(s, ParentsOf(s, made))
<1>1. StatesAfterExecution(s, ts) \in [Node -> NO_STATE .. FAILED]
  BY AttributesDef DEF StatesAfterExecution, NO_STATE, FAILED, EXECUTED
<1>2. /\ b \in Attributes /\ b.state = s.state /\ Books(b) = Books(s)
      /\ Stack(b) = Stack(s) /\ b.next_candidate = s.next_candidate
      /\ b.pending_children = s.pending_children
  BY BuiltType
<1>3. Executed(s, ts) = [b EXCEPT !.state = StatesAfterExecution(s, ts)]
  BY <1>2 DEF Executed, StatesAfterExecution
<1> HIDE DEF b
<1>4. QED
  BY <1>1, <1>2, <1>3, SetState

(* task.executed() and task.postprocess(), where t is what they leave.     *)
FinishedInto(s, ts, t) ==
    /\ t \in Attributes
    /\ Agree(t)
    /\ t.state = StatesAfterExecution(s, ts)
    /\ t.implicit = Executed(s, ts).implicit
    /\ t.waiting_parents = Cleared(s, Range(ts))
    /\ t.current_top = s.current_top
    /\ t.next_candidate = s.next_candidate

(* A task that succeeds, up to its postprocess().                          *)
LEMMA FinishTaskResult ==
    ASSUME NEW s \in Attributes, Agree(s), NEW ts, Range(ts) \subseteq Node,
           FinishTask(s, ts)
    PROVE  FinishedInto(s, ts, tm')
<1> DEFINE e == Executed(s, ts)
<1>1. PICK order \in SetToSeqs(Released(e, ts)) : tm' = Postprocess(e, ts, order)
  BY DEF FinishTask
<1>2. /\ e \in Attributes /\ e.state = StatesAfterExecution(s, ts)
      /\ e.ref_count = s.ref_count /\ e.waiting_parents = s.waiting_parents
      /\ e.current_top = s.current_top /\ e.next_candidate = s.next_candidate
  BY ExecutedResult DEF Books, Stack
<1> HIDE DEF e
<1>3. Agree(e) /\ Cleared(e, Range(ts)) = Cleared(s, Range(ts))
  BY <1>2 DEF Agree, Cleared
<1>4. order \in Seq(Node)
  BY <1>2, ReleasedType
<1>5. /\ tm' \in Attributes /\ Agree(tm') /\ tm'.state = e.state
      /\ tm'.implicit = e.implicit /\ tm'.waiting_parents = Cleared(e, Range(ts))
      /\ tm'.current_top = e.current_top /\ tm'.next_candidate = e.next_candidate
  BY <1>1, <1>2, <1>3, <1>4, PostprocessResult
<1>6. e.implicit = Executed(s, ts).implicit
  BY DEF e
<1>7. QED
  BY <1>2, <1>3, <1>5, <1>6 DEF FinishedInto

(* One list after another.                                                 *)
LEMMA EntriesOfJoin ==
    ASSUME NEW T, NEW a \in Seq(T), NEW b \in Seq(T)
    PROVE  Range(a \o b) = Range(a) \cup Range(b) /\ Range(a \o <<>>) = Range(a)
<1>1. a \o b \in Seq(T) /\ Len(a \o b) = Len(a) + Len(b) /\ a \o <<>> = a
  OBVIOUS
<1>2. ASSUME NEW x PROVE x \in Range(a \o b) <=> x \in Range(a) \cup Range(b)
  <2>1. ASSUME NEW i \in 1 .. Len(a) PROVE (a \o b)[i] = a[i] /\ i \in 1 .. Len(a \o b)
    OBVIOUS
  <2>2. ASSUME NEW i \in 1 .. Len(b)
        PROVE  (a \o b)[i + Len(a)] = b[i] /\ i + Len(a) \in 1 .. Len(a \o b)
    OBVIOUS
  <2>3. ASSUME NEW i \in 1 .. Len(a \o b), i \notin 1 .. Len(a)
        PROVE  i - Len(a) \in 1 .. Len(b) /\ (a \o b)[i] = b[i - Len(a)]
    BY <2>3
  <2>4. /\ x \in Range(a \o b) <=> \E i \in 1 .. Len(a \o b) : (a \o b)[i] = x
        /\ x \in Range(a) <=> \E i \in 1 .. Len(a) : a[i] = x
        /\ x \in Range(b) <=> \E i \in 1 .. Len(b) : b[i] = x
    BY <1>1, EntriesOfList
  <2>5. x \in Range(a) \/ x \in Range(b) => x \in Range(a \o b)
    BY <2>1, <2>2, <2>4
  <2>6. x \in Range(a \o b) => x \in Range(a) \/ x \in Range(b)
    BY <2>1, <2>3, <2>4
  <2>7. QED
    BY <2>5, <2>6
<1>3. QED
  BY <1>1, <1>2

(* The children of a node are among its sources: all of them when a scan   *)
(* has found the late ones.                                                *)
LEMMA ChildrenType ==
    ASSUME build \in Builds, NEW s, NEW n \in Node
    PROVE  /\ Range(build.kids[n]) \subseteq Range(Children(s, n))
           /\ Range(Children(s, n)) \subseteq Sources(n)
           /\ Sources(n) \subseteq Node
           /\ (\E t \in Range(TargetsOf(n)) : s.implicit[t] = "full") =>
                 Sources(n) \subseteq Range(Children(s, n))
<1>1. build.kids[n] \in Seq(Node) /\ build.late[n] \in Seq(Node)
  BY BuildType
<1>2. /\ Range(build.kids[n] \o build.late[n]) = Sources(n)
      /\ Range(build.kids[n] \o <<>>) = Range(build.kids[n])
  BY <1>1, EntriesOfJoin DEF Sources
<1>3. CASE \E t \in Range(TargetsOf(n)) : s.implicit[t] = "full"
  <2>1. Children(s, n) = build.kids[n] \o build.late[n]
    BY <1>3 DEF Children
  <2>2. QED
    BY <1>1, <1>2, <2>1, EntriesOfList DEF Sources
<1>4. CASE ~\E t \in Range(TargetsOf(n)) : s.implicit[t] = "full"
  <2>1. Children(s, n) = build.kids[n] \o <<>>
    BY <1>4 DEF Children
  <2>2. QED
    BY <1>1, <1>2, <1>4, <2>1, EntriesOfList DEF Sources
<1>5. QED
  BY <1>3, <1>4

(* The targets of a task.                                                  *)
LEMMA TargetsType ==
    ASSUME build \in Builds, NEW n \in Node
    PROVE  /\ TargetsOf(n) \in Seq(Node) /\ TargetsOf(n) # None
           /\ Range(TargetsOf(n)) \subseteq Node
           /\ n \in Range(TargetsOf(n))
           /\ \A t \in Range(TargetsOf(n)) : TargetsOf(t) = TargetsOf(n)
<1>1. /\ TargetsOf(n) \in Seq(Node) /\ n \in Range(TargetsOf(n))
      /\ \A t \in Range(TargetsOf(n)) : TargetsOf(t) = TargetsOf(n)
  BY BuildType DEF TargetsOf
<1>2. TargetsOf(n) # None
  BY <1>1 DEF None, Range
<1>3. QED
  BY <1>1, <1>2, EntriesOfList

(* New candidates.                                                         *)
LEMMA AddNotVisitedResult ==
    ASSUME build \in Builds, NEW s \in Attributes, NEW n \in Node,
           NEW new \in NotVisited(s, n)
    PROVE  /\ AddNotVisited(s, new) \in Attributes
           /\ AddNotVisited(s, new).state = s.state
           /\ AddNotVisited(s, new).implicit = s.implicit
           /\ Books(AddNotVisited(s, new)) = Books(s)
           /\ AddNotVisited(s, new).current_top = s.current_top
           /\ AddNotVisited(s, new).next_candidate = s.next_candidate
           /\ Range(AddNotVisited(s, new).candidates) =
                 Range(s.candidates) \cup ChildrenIn(s, n, {NO_STATE})
           /\ AddNotVisited(s, new).top_targets_left = s.top_targets_left
           /\ AddNotVisited(s, new).pending_children = s.pending_children
<1> DEFINE U == ChildrenIn(s, n, {NO_STATE})
<1>1. U \subseteq Node
  BY ChildrenType DEF ChildrenIn
<1>2. new \in SetToSeqs(U)
  BY DEF NotVisited
<1> HIDE DEF U
<1>3. new \in Seq(U)
  BY <1>1, <1>2, SubsetOfNode, OrderOfSet
<1>4. s.candidates \o new \in Seq(Node)
  BY <1>1, <1>3, AttributesDef
<1>5. AddNotVisited(s, new) = [s EXCEPT !.candidates = s.candidates \o new]
  BY DEF AddNotVisited
<1>6. Range(s.candidates \o new) = Range(s.candidates) \cup U
  <2>1. new \in Seq(Node) /\ s.candidates \in Seq(Node)
    BY <1>1, <1>3, AttributesDef
  <2>2. Range(new) = U
    BY <1>1, <1>2, OrderIsComplete
  <2>3. QED
    BY <2>1, <2>2, EntriesOfJoin
<1> DEFINE joined == s.candidates \o new
<1> HIDE DEF joined
<1>7. /\ joined \in Seq(Node) /\ Range(joined) = Range(s.candidates) \cup U
      /\ AddNotVisited(s, new) = [s EXCEPT !.candidates = joined]
  BY <1>4, <1>5, <1>6 DEF joined
<1>8. QED
  BY <1>7 DEF Attributes, Books, U

(* A node is failed for a child that has failed.                           *)
StatesAfterChildFailed(s, n) ==
    [m \in Node |-> IF m \in Range(TargetsOf(n)) THEN FAILED ELSE s.state[m]]

(* A failed child fails the targets of the executor; the books stay as     *)
(* they are.                                                               *)
LEMMA ChildrenFailedResult ==
    ASSUME build \in Builds, NEW s \in Attributes, NEW n \in Node,
           NEW new \in NotVisited(s, n)
    PROVE  /\ ChildrenFailed(s, n, new) \in Attributes
           /\ ChildrenFailed(s, n, new).state = StatesAfterChildFailed(s, n)
           /\ ChildrenFailed(s, n, new).implicit = s.implicit
           /\ Books(ChildrenFailed(s, n, new)) = Books(s)
           /\ ChildrenFailed(s, n, new).current_top = s.current_top
           /\ ChildrenFailed(s, n, new).next_candidate = s.next_candidate
           /\ Range(s.candidates) \subseteq Range(ChildrenFailed(s, n, new).candidates)
           /\ ChildrenFailed(s, n, new).top_targets_left = s.top_targets_left
           /\ ChildrenFailed(s, n, new).pending_children = s.pending_children
<1> DEFINE a == AddNotVisited(s, new)
<1>1. /\ a \in Attributes /\ a.state = s.state /\ a.implicit = s.implicit
      /\ Books(a) = Books(s) /\ a.current_top = s.current_top
      /\ a.next_candidate = s.next_candidate
      /\ Range(s.candidates) \subseteq Range(a.candidates)
      /\ a.top_targets_left = s.top_targets_left
      /\ a.pending_children = s.pending_children
  BY AddNotVisitedResult
<1>2. StatesAfterChildFailed(s, n) \in [Node -> NO_STATE .. FAILED]
  BY AttributesDef DEF StatesAfterChildFailed, NO_STATE, FAILED
<1>3. ChildrenFailed(s, n, new) = [a EXCEPT !.state = StatesAfterChildFailed(s, n)]
  BY <1>1 DEF ChildrenFailed, StatesAfterChildFailed
<1> HIDE DEF a
<1>4. QED
  BY <1>1, <1>2, <1>3, SetState DEF Stack

(* A task is made ready.                                                   *)
StatesAfterReady(s, n) ==
    [m \in Node |-> IF m \notin Range(TargetsOf(n)) THEN s.state[m]
                    ELSE IF OutOfDate(n) THEN EXECUTING ELSE UP_TO_DATE]

(* make_ready_current() decides about all targets of an executor at once.  *)
LEMMA MakeReadyResult ==
    ASSUME NEW s \in Attributes, NEW n \in Node
    PROVE  /\ MakeReady(s, n) \in Attributes
           /\ MakeReady(s, n).state = StatesAfterReady(s, n)
           /\ MakeReady(s, n).implicit = s.implicit
           /\ MakeReady(s, n).ref_count = s.ref_count
           /\ MakeReady(s, n).waiting_parents = s.waiting_parents
           /\ MakeReady(s, n).candidates = s.candidates
           /\ MakeReady(s, n).current_top = s.current_top
           /\ MakeReady(s, n).next_candidate = s.next_candidate
           /\ MakeReady(s, n).top_targets_left = s.top_targets_left
           /\ MakeReady(s, n).pending_children = s.pending_children
<1>1. StatesAfterReady(s, n) \in [Node -> NO_STATE .. FAILED]
  BY AttributesDef
     DEF StatesAfterReady, NO_STATE, EXECUTING, UP_TO_DATE, FAILED
<1>2. MakeReady(s, n) = [s EXCEPT !.state = StatesAfterReady(s, n)]
  BY DEF MakeReady, StatesAfterReady
<1>3. QED
  BY <1>1, <1>2, SetState DEF Books, Stack

(* A node waits for its children.                                          *)
LEMMA WaitForChildrenResult ==
    ASSUME build \in Builds, NEW s \in Attributes, Agree(s), NEW n \in Node,
           NEW C \in SUBSET Node
    PROVE  /\ WaitForChildren(s, n, C) \in Attributes
           /\ Agree(WaitForChildren(s, n, C))
           /\ WaitForChildren(s, n, C).state = s.state
           /\ WaitForChildren(s, n, C).implicit = s.implicit
           /\ WaitForChildren(s, n, C).waiting_parents =
                  [k \in Node |-> IF k \in C THEN s.waiting_parents[k] \cup {n}
                                  ELSE s.waiting_parents[k]]
           /\ Stack(WaitForChildren(s, n, C)) = Stack(s)
           /\ WaitForChildren(s, n, C).next_candidate = s.next_candidate
           /\ WaitForChildren(s, n, C).pending_children =
                  s.pending_children \cup {k \in C : s.state[k] = PENDING}
<1> DEFINE new == {k \in C : n \notin s.waiting_parents[k]}
           t == WaitForChildren(s, n, C)
           refs == [s.ref_count EXCEPT ![n] = s.ref_count[n] + Cardinality(new)]
           waits == [k \in Node |-> IF k \in new THEN s.waiting_parents[k] \cup {n}
                                    ELSE s.waiting_parents[k]]
           pending == s.pending_children \cup {k \in C : s.state[k] = PENDING}
<1>1. /\ new \subseteq Node /\ IsFiniteSet(new) /\ Cardinality(new) \in Nat
      /\ pending \subseteq Node
  BY SubsetOfNode, AttributesDef, ChildrenType DEF ChildrenIn
<1>2. t = [s EXCEPT !.ref_count = refs, !.waiting_parents = waits,
                    !.pending_children = pending]
  <2>1. t = [s EXCEPT !.ref_count[n] = @ + Cardinality(new),
                      !.waiting_parents = waits, !.pending_children = pending]
    BY DEF WaitForChildren
  <2> HIDE DEF new, waits, pending, t
  <2>2. QED
    BY <2>1 DEF Attributes
<1>3. /\ refs \in [Node -> Nat] /\ waits \in [Node -> SUBSET Node]
      /\ waits = [k \in Node |-> IF k \in C THEN s.waiting_parents[k] \cup {n}
                                  ELSE s.waiting_parents[k]]
  <2>1. refs \in [Node -> Nat]
    BY <1>1, AttributesDef
  <2>2. waits \in [Node -> SUBSET Node]
    BY AttributesDef
  <2>3. ASSUME NEW k \in C, k \notin new
        PROVE  s.waiting_parents[k] \cup {n} = s.waiting_parents[k]
    BY <2>3
  <2>4. ASSUME NEW k \in Node
        PROVE  waits[k] = IF k \in C THEN s.waiting_parents[k] \cup {n}
                          ELSE s.waiting_parents[k]
    BY <2>3
  <2>5. waits = [k \in Node |-> IF k \in C THEN s.waiting_parents[k] \cup {n}
                                ELSE s.waiting_parents[k]]
    BY <2>4
  <2>6. QED
    BY <2>1, <2>2, <2>5
<1>4. ASSUME NEW p \in Node
      PROVE  refs[p] = Cardinality({k \in Node : p \in waits[k]})
  <2> DEFINE W == {k \in Node : p \in s.waiting_parents[k]}
  <2>1. s.ref_count[p] = Cardinality(W) /\ IsFiniteSet(W) /\ Cardinality(W) \in Nat
    BY SubsetOfNode DEF Agree
  <2>2. CASE p = n
    <3>1. {k \in Node : p \in waits[k]} = W \cup new
      BY <2>2, <1>1
    <3>2. W \cap new = {}
      BY <2>2
    <3>3. Cardinality(W \cup new) = Cardinality(W) + Cardinality(new)
      <4>1. Cardinality(W \cup new)
               = Cardinality(W) + Cardinality(new) - Cardinality(W \cap new)
        BY <1>1, <2>1, FS_Union
      <4>2. Cardinality(W \cap new) = 0
        BY <3>2, FS_EmptySet, Zenon
      <4> HIDE DEF W, new
      <4>3. QED
        BY <4>1, <4>2, <1>1, <2>1
    <3>4. refs[p] = s.ref_count[p] + Cardinality(new)
      BY <2>2, AttributesDef
    <3>5. Cardinality({k \in Node : p \in waits[k]}) = Cardinality(W \cup new)
      BY <3>1, Zenon
    <3> HIDE DEF W, new, refs, waits
    <3>6. QED
      BY <3>3, <3>4, <3>5, <2>1
  <2>3. CASE p # n
    <3>1. {k \in Node : p \in waits[k]} = W
      BY <2>3
    <3>2. refs[p] = s.ref_count[p]
      BY <2>3, AttributesDef
    <3>3. Cardinality({k \in Node : p \in waits[k]}) = Cardinality(W)
      BY <3>1, Zenon
    <3>4. QED
      BY <3>2, <3>3, <2>1
  <2>4. QED
    BY <2>2, <2>3
<1> HIDE DEF new, refs, waits, pending
<1>5. /\ t \in Attributes /\ t.state = s.state /\ t.implicit = s.implicit
      /\ t.ref_count = refs /\ t.waiting_parents = waits
      /\ Stack(t) = Stack(s) /\ t.next_candidate = s.next_candidate
      /\ t.pending_children = pending
  BY <1>1, <1>2, <1>3 DEF Attributes, Stack
<1>6. Agree(t)
  BY <1>4, <1>5 DEF Agree
<1>7. QED
  BY <1>3, <1>5, <1>6 DEF pending

-----------------------------------------------------------------------------
(* The inductive invariant.                                                *)

Phases == {"get", "retrieve", "built", "build", "exited"}

EngineTypes ==
    /\ TypeOK
    /\ children_not_ready \subseteq Node
    /\ requestQueue \in Seq(Seq(Node))
    /\ resultsQueue \in Seq([task : Seq(Node), ok : {"ok", "failed"}])
    /\ worker \in [Worker -> [phase : Phases, task : Seq(Node), pos : Nat,
                              parents : SUBSET Node]]

(* The main thread: it asks for a task only while a worker is free, the    *)
(* node it looks at is still pending whatever the workers do, and there is *)
(* a current_top once there is something to look at.                       *)
MainKnows ==
    /\ main \in {"fill", "look", "wait"} => jobs < maxjobs
    /\ main \in {"look", "wait"} => node \in Node /\ tm.state[node] = PENDING
    /\ tm.current_top = NoNode =>
          tm.candidates = <<>> /\ main \notin {"look", "wait"} /\ jobs = 0

WorkersKnow ==
    \A w \in Worker :
        /\ worker[w].phase \in {"retrieve", "built", "build"} <=> worker[w].task # None
        /\ worker[w].task # None => worker[w].pos \in 1 .. Len(worker[w].task)

(* A task is that of an executor, and has been dispatched.                 *)
Started(ts) ==
    /\ ts # None
    /\ \A t \in Range(ts) : TargetsOf(t) = ts /\ starts[t] >= 1

TasksStarted ==
    /\ \A i \in DOMAIN requestQueue :
          requestQueue[i] # None => Started(requestQueue[i])
    /\ \A w \in Worker : worker[w].task # None => Started(worker[w].task)
    /\ \A i \in DOMAIN resultsQueue : Started(resultsQueue[i].task)

(* The executor of a node is done with: _find_next_ready_node skips all of *)
(* its targets.                                                            *)
Closed(n) == \A t \in Range(TargetsOf(n)) : tm.state[t] > PENDING

(* What has been dispatched is done with.                                  *)
StartedOnce == \A n \in Node : starts[n] <= 1 /\ (starts[n] >= 1 => Closed(n))

BooksInv ==
    /\ EngineTypes /\ RefCountsAgree /\ JobsAgree
    /\ MainKnows /\ WorkersKnow /\ TasksStarted /\ StartedOnce

(* Where the task of a node is.                                            *)
Queued(n) == {i \in DOMAIN requestQueue : n \in Range(requestQueue[i])}
Held(n) == {w \in Worker : n \in Range(worker[w].task)}
Returned(n) == {i \in DOMAIN resultsQueue : n \in Range(resultsQueue[i].task)}

InFlight(n) == Queued(n) # {} \/ Held(n) # {} \/ Returned(n) # {}

InOnePlace ==
    \A n \in Node :
        /\ \A i, j \in Queued(n) : i = j
        /\ \A v, w \in Held(n) : v = w
        /\ \A i, j \in Returned(n) : i = j
        /\ Held(n) # {} => Queued(n) = {}
        /\ Returned(n) # {} => Queued(n) = {} /\ Held(n) = {}

Active == {EXECUTING, UP_TO_DATE, EXECUTED}

(* A node that waits is not made, unless something it needs was got from   *)
(* the cache.                                                              *)
WaitersPend ==
    \A k \in Node : \A p \in tm.waiting_parents[k] :
        k \in Sources(p) /\ (tm.state[p] \in Active => Tainted(p))

(* The targets of an executor are made together.                           *)
MadeTogether == \A n \in Node : tm.state[n] \in Active => Closed(n)

(* Nobody waits for a finished node but from the cache.                    *)
FinishedReleases ==
    \A n \in Node : tm.state[n] \in Finished =>
        n \in retrieved \/ tm.waiting_parents[n] = {}

UpToDateIsReadable ==
    \A n \in Node : tm.state[n] = UP_TO_DATE => n \notin build.derived \ build.current

(* A failed node has a reason to stay failed.                              *)
FailuresStay ==
    \A n \in Node : tm.state[n] = FAILED =>
        \/ Closed(n) \/ Tainted(n)
        \/ \E k \in Sources(n) : tm.state[k] = FAILED

Full(n) == \E t \in Range(TargetsOf(n)) : tm.implicit[t] = "full"
Scanned(n) == \A t \in Range(TargetsOf(n)) : tm.implicit[t] # "none"

(* A scan of the candidate is incomplete only while a source cannot be     *)
(* read.                                                                   *)
LookKnows ==
    main = "look" /\ ~Full(node) =>
        Tainted(node) \/ \E k \in Range(build.kids[node]) : ~Readable(tm, k)

WaitKnows ==
    main = "wait" =>
        /\ \A k \in children_not_ready :
              /\ k \in Sources(node)
              /\ tm.state[k] \in {NO_STATE, PENDING, EXECUTING} \/ k \in retrieved
        /\ ~Full(node) =>
              \/ Tainted(node)
              \/ \E k \in Range(build.kids[node]) :
                    k \in children_not_ready /\ ~Readable(tm, k)

(* Of a node that may become a candidate again an incomplete scan will be  *)
(* forgotten, since it waits for a source that it could not read.          *)
Outdated(n) ==
    \/ Tainted(n)
    \/ \E k \in Range(build.kids[n]) :
          /\ ~Readable(tm, k)
          /\ \/ tm.state[k] = FAILED
             \/ \E t \in Range(TargetsOf(n)) : t \in tm.waiting_parents[k]

ScansForgotten ==
    \A n \in Node :
        \/ Closed(n) \/ tm.next_candidate = "no"
        \/ main \in {"look", "wait"} /\ node \in Range(TargetsOf(n))
        \/ Full(n) \/ ~Scanned(n)
        \/ Outdated(n)

(* A node in flight is executing, or the cache has spoilt it.              *)
FlightKnown ==
    \A n \in Node : InFlight(n) =>
        \/ tm.state[n] = EXECUTING
        \/ tm.state[n] = EXECUTED /\ n \in retrieved
        \/ Condemned(n)

(* The parents that built() goes through.                                  *)
ParentsTainted == \A w \in Worker : \A p \in worker[w].parents : Tainted(p)

(* A source that nobody touches any more.                                  *)
Ready(k) ==
    /\ tm.state[k] \in Finished \/ Condemned(k)
    /\ Closed(k)
    /\ ~InFlight(k)

SourcesReady ==
    \A n \in Node : InFlight(n) =>
        /\ \A k \in Range(build.kids[n]) : Ready(k) \/ k \in retrieved
        /\ \A k \in Range(build.late[n]) : Ready(k) \/ Tainted(n)

WalkInv ==
    /\ InOnePlace /\ WaitersPend /\ MadeTogether /\ FinishedReleases
    /\ UpToDateIsReadable /\ FailuresStay /\ LookKnows /\ WaitKnows
    /\ ScansForgotten /\ FlightKnown /\ ParentsTainted /\ SourcesReady

-----------------------------------------------------------------------------
(* What the steps do to the Taskmaster.                                    *)

USE DEF NO_STATE, PENDING, EXECUTING, UP_TO_DATE, EXECUTED, FAILED

(* What the types and the knowledge of the main thread say of the          *)
(* Taskmaster.                                                             *)
LEMMA EngineType ==
    ASSUME BooksInv
    PROVE  /\ build \in Builds /\ tm \in Attributes /\ Agree(tm) /\ TopKnown(tm)
           /\ jobs \in 0 .. maxjobs
           /\ main \in {"look", "wait"} =>
                 /\ node \in Node /\ tm.state[node] = PENDING
                 /\ tm.current_top \in Node
<1>1. build \in Builds /\ tm \in Attributes /\ Agree(tm) /\ jobs \in 0 .. maxjobs
  BY DEF BooksInv, EngineTypes, TypeOK, RefCountsAgree, Agree
<1>2. /\ main \in {"look", "wait"} => node \in Node /\ tm.state[node] = PENDING
      /\ tm.current_top = NoNode =>
            tm.candidates = <<>> /\ main \notin {"look", "wait"}
  BY DEF BooksInv, MainKnows
<1>3. QED
  BY <1>1, <1>2, AttributesDef DEF TopKnown

(* Consider skips a candidate, or makes it PENDING and scans it.           *)
LEMMA ConsiderResult ==
    ASSUME BooksInv, Consider
    PROVE  /\ tm' \in Attributes /\ Agree(tm') /\ tm'.current_top \in Node
           /\ tm'.waiting_parents = tm.waiting_parents
           /\ tm'.next_candidate = tm.next_candidate
           /\ \/ /\ tm'.state = tm.state /\ tm'.implicit = tm.implicit
                 /\ UNCHANGED <<main, node>>
              \/ /\ node' \in Node /\ tm.state[node'] <= PENDING
                 /\ tm'.state = [tm.state EXCEPT ![node'] = PENDING]
                 /\ main' = "look"
                 /\ \E s \in Attributes :
                       /\ tm' = Scan(s, node') /\ s.implicit = tm.implicit
                       /\ s.state = tm'.state
<1> DEFINE n == Candidate(tm)
           s == FindNextCandidate(tm)
           q == [s EXCEPT !.state[n] = PENDING]
<1>1. tm \in Attributes /\ Agree(tm) /\ TopKnown(tm)
  BY EngineType
<1>2. /\ n \in Node /\ s \in Attributes /\ s.state = tm.state
      /\ s.ref_count = tm.ref_count /\ s.waiting_parents = tm.waiting_parents
      /\ s.implicit = tm.implicit /\ s.next_candidate = tm.next_candidate
      /\ s.current_top \in Node
  BY <1>1, FindNext DEF Consider
<1>3. Agree(s)
  BY <1>1, <1>2 DEF Agree
<1>4. \/ s.state[n] > PENDING /\ tm' = s /\ UNCHANGED <<main, node>>
      \/ /\ ~(s.state[n] > PENDING)
         /\ tm' = Scan(q, n) /\ main' = "look" /\ node' = n
  BY DEF Consider
<1> HIDE DEF n, s
<1>5. CASE tm' = s /\ UNCHANGED <<main, node>>
  BY <1>2, <1>3, <1>5
<1>6. CASE ~(s.state[n] > PENDING) /\ tm' = Scan(q, n) /\ main' = "look" /\ node' = n
  <2> DEFINE f == [s.state EXCEPT ![n] = PENDING]
  <2>1. f \in [Node -> NO_STATE .. FAILED] /\ q = [s EXCEPT !.state = f]
    BY <1>2, AttributesDef DEF Attributes
  <2> HIDE DEF f, q
  <2>2. /\ q \in Attributes /\ q.state = f /\ Books(q) = Books(s)
        /\ Stack(q) = Stack(s) /\ q.implicit = s.implicit
        /\ q.next_candidate = s.next_candidate
    BY <1>2, <2>1, SetState
  <2>3. /\ Scan(q, n) \in Attributes /\ Scan(q, n).state = q.state
        /\ Books(Scan(q, n)) = Books(q) /\ Stack(Scan(q, n)) = Stack(q)
        /\ Scan(q, n).next_candidate = q.next_candidate
    BY <1>2, <2>2, ScanType
  <2>4. /\ tm'.ref_count = tm.ref_count /\ tm'.waiting_parents = tm.waiting_parents
        /\ tm'.current_top = s.current_top
    BY <1>2, <1>6, <2>2, <2>3 DEF Books, Stack
  <2>5. Agree(tm')
    BY <1>1, <2>4 DEF Agree
  <2>6. tm.state[n] <= PENDING
    <3>1. tm.state[n] \in NO_STATE .. FAILED
      BY <1>1, <1>2, AttributesDef
    <3>2. ~(tm.state[n] > PENDING)
      BY <1>2, <1>6
    <3>3. QED
      BY <3>1, <3>2
  <2>7. tm'.state = [tm.state EXCEPT ![n] = PENDING] /\ q.state = tm'.state
    BY <1>2, <1>6, <2>2, <2>3 DEF f
  <2>8. tm' \in Attributes /\ tm'.next_candidate = tm.next_candidate
    BY <1>2, <1>6, <2>2, <2>3
  <2>9. \E t \in Attributes :
           tm' = Scan(t, node') /\ t.implicit = tm.implicit /\ t.state = tm'.state
    BY <1>2, <1>6, <2>2, <2>7
  <2>10. QED
    BY <1>2, <1>6, <2>4, <2>5, <2>6, <2>7, <2>8, <2>9
<1>7. QED
  BY <1>4, <1>5, <1>6

(* SkipFailed fails the candidate and the targets made with it.            *)
LEMMA SkipFailedResult ==
    ASSUME BooksInv, SkipFailed
    PROVE  /\ node \in Node /\ tm' \in Attributes /\ Agree(tm')
           /\ tm'.state = StatesAfterChildFailed(tm, node)
           /\ tm'.implicit = tm.implicit
           /\ tm'.waiting_parents = tm.waiting_parents
           /\ tm'.current_top = tm.current_top
           /\ tm'.next_candidate = tm.next_candidate
<1>1. /\ build \in Builds /\ tm \in Attributes /\ Agree(tm) /\ node \in Node
  BY EngineType DEF SkipFailed
<1>2. PICK new \in NotVisited(tm, node) : tm' = ChildrenFailed(tm, node, new)
  BY DEF SkipFailed
<1>3. /\ tm' \in Attributes /\ tm'.state = StatesAfterChildFailed(tm, node)
      /\ tm'.implicit = tm.implicit /\ Books(tm') = Books(tm)
      /\ tm'.current_top = tm.current_top /\ tm'.next_candidate = tm.next_candidate
  BY <1>1, <1>2, ChildrenFailedResult
<1>4. QED
  BY <1>1, <1>3 DEF Books, Agree

(* SomeNotReady only puts children on the stack.                           *)
LEMMA SomeNotReadyResult ==
    ASSUME BooksInv, SomeNotReady
    PROVE  /\ node \in Node /\ tm' \in Attributes /\ Agree(tm')
           /\ tm'.state = tm.state /\ tm'.implicit = tm.implicit
           /\ tm'.waiting_parents = tm.waiting_parents
           /\ tm'.current_top = tm.current_top
           /\ tm'.next_candidate = tm.next_candidate
           /\ children_not_ready' \subseteq Node
<1>1. /\ build \in Builds /\ tm \in Attributes /\ Agree(tm) /\ node \in Node
  BY EngineType DEF SomeNotReady
<1>2. PICK new \in NotVisited(tm, node) : tm' = AddNotVisited(tm, new)
  BY DEF SomeNotReady
<1>3. /\ tm' \in Attributes /\ tm'.state = tm.state
      /\ tm'.implicit = tm.implicit /\ Books(tm') = Books(tm)
      /\ tm'.current_top = tm.current_top /\ tm'.next_candidate = tm.next_candidate
  BY <1>1, <1>2, AddNotVisitedResult
<1>4. children_not_ready' \subseteq Node
  BY <1>1, ChildrenType DEF SomeNotReady, NotReady, ChildrenIn
<1>5. QED
  BY <1>1, <1>3, <1>4 DEF Books, Agree

(* WaitForThem registers the candidate with the children that were not     *)
(* ready.                                                                  *)
LEMMA WaitForThemResult ==
    ASSUME BooksInv, WaitForThem
    PROVE  /\ node \in Node /\ tm' \in Attributes /\ Agree(tm')
           /\ tm'.state = tm.state /\ tm'.implicit = tm.implicit
           /\ tm'.waiting_parents =
                 [k \in Node |-> IF k \in children_not_ready
                                 THEN tm.waiting_parents[k] \cup {node}
                                 ELSE tm.waiting_parents[k]]
           /\ tm'.current_top = tm.current_top
           /\ tm'.next_candidate = tm.next_candidate
<1>1. /\ build \in Builds /\ tm \in Attributes /\ Agree(tm) /\ node \in Node
  BY EngineType DEF WaitForThem
<1>2. children_not_ready \in SUBSET Node
  BY DEF BooksInv, EngineTypes
<1>3. tm' = WaitForChildren(tm, node, children_not_ready)
  BY DEF WaitForThem
<1>4. QED
  BY <1>1, <1>2, <1>3, WaitForChildrenResult DEF Stack

(* The Taskmaster when a task has been made ready.                         *)
LEMMA TaskForResult ==
    ASSUME BooksInv, NEW n \in Node, TaskFor(n)
    PROVE  /\ n = node /\ tm.state[n] = PENDING
           /\ MakeReady(tm, n) \in Attributes /\ Agree(MakeReady(tm, n))
           /\ MakeReady(tm, n).state = StatesAfterReady(tm, n)
           /\ MakeReady(tm, n).implicit = tm.implicit
           /\ MakeReady(tm, n).waiting_parents = tm.waiting_parents
           /\ MakeReady(tm, n).current_top = tm.current_top
           /\ MakeReady(tm, n).next_candidate = tm.next_candidate
           /\ tm.current_top \in Node
<1>1. tm \in Attributes /\ Agree(tm)
  BY EngineType
<1>2. n = node /\ tm.state[n] = PENDING /\ tm.current_top \in Node
  BY EngineType DEF TaskFor
<1>3. /\ MakeReady(tm, n) \in Attributes
      /\ MakeReady(tm, n).state = StatesAfterReady(tm, n)
      /\ MakeReady(tm, n).implicit = tm.implicit
      /\ MakeReady(tm, n).ref_count = tm.ref_count
      /\ MakeReady(tm, n).waiting_parents = tm.waiting_parents
      /\ MakeReady(tm, n).current_top = tm.current_top
      /\ MakeReady(tm, n).next_candidate = tm.next_candidate
  BY <1>1, MakeReadyResult
<1>4. Agree(MakeReady(tm, n))
  BY <1>1, <1>3 DEF Agree
<1>5. QED
  BY <1>2, <1>3, <1>4

(* A task that fails before or instead of its dispatch, ...                *)
LEMMA FailNowResult ==
    ASSUME BooksInv, NEW n \in Node, TaskFor(n),
           FailTask(MakeReady(tm, n), TargetsOf(n))
    PROVE  FailedInto(MakeReady(tm, n), TargetsOf(n), tm')
<1>1. Range(TargetsOf(n)) \subseteq Node
  BY EngineType, TargetsType
<1>2. QED
  BY <1>1, TaskForResult, FailTaskResult

(* ... one with nothing to do, ...                                         *)
LEMMA FinishNowResult ==
    ASSUME BooksInv, NEW n \in Node, TaskFor(n),
           FinishTask(MakeReady(tm, n), TargetsOf(n))
    PROVE  FinishedInto(MakeReady(tm, n), TargetsOf(n), tm')
<1>1. Range(TargetsOf(n)) \subseteq Node
  BY EngineType, TargetsType
<1>2. QED
  BY <1>1, TaskForResult, FinishTaskResult

(* ... and one that comes back.                                            *)
LEMMA CollectResult ==
    ASSUME BooksInv, Collect
    PROVE  /\ Head(resultsQueue).task \in Seq(Node)
           /\ Range(Head(resultsQueue).task) \subseteq Node
           /\ jobs > 0
           /\ tm.current_top \in Node
           /\ \/ FinishedInto(tm, Head(resultsQueue).task, tm')
              \/ FailedInto(tm, Head(resultsQueue).task, tm')
<1> DEFINE r == Head(resultsQueue)
<1>1. r.task \in Seq(Node) /\ Len(resultsQueue) \in Nat /\ Len(resultsQueue) > 0
  <2>1. /\ resultsQueue \in Seq([task : Seq(Node), ok : {"ok", "failed"}])
        /\ resultsQueue # <<>>
    BY DEF BooksInv, EngineTypes, Collect
  <2>2. r \in [task : Seq(Node), ok : {"ok", "failed"}]
    BY <2>1, FirstAndRest
  <2>3. Len(resultsQueue) \in Nat /\ Len(resultsQueue) > 0
    BY <2>1
  <2>4. QED
    BY <2>2, <2>3
<1>2. Range(r.task) \subseteq Node
  BY <1>1, EntriesOfList
<1>3. tm \in Attributes /\ Agree(tm) /\ jobs \in 0 .. maxjobs
  BY EngineType
<1>4. jobs > 0
  <2>1. Cardinality({i \in DOMAIN requestQueue : requestQueue[i] # None}) \in Nat
    <3>1. requestQueue \in Seq(Seq(Node))
      BY DEF BooksInv, EngineTypes
    <3>2. DOMAIN requestQueue = 1 .. Len(requestQueue) /\ Len(requestQueue) \in Nat
      BY <3>1
    <3>3. IsFiniteSet(1 .. Len(requestQueue))
      BY <3>2, FS_Interval
    <3>4. QED
      BY <3>2, <3>3, FS_Subset, FS_CardinalityType
  <2>2. Cardinality({w \in Worker : worker[w].task # None}) \in Nat
    BY WorkerAssumption, FS_Subset, FS_CardinalityType
  <2>3. QED
    BY <1>1, <2>1, <2>2 DEF BooksInv, JobsAgree
<1>5. tm.current_top \in Node
  BY <1>3, <1>4, AttributesDef DEF BooksInv, MainKnows
<1>6. FinishTask(tm, r.task) \/ FailTask(tm, r.task)
  BY DEF Collect
<1> HIDE DEF r
<1>7. CASE FinishTask(tm, r.task)
  <2>1. FinishedInto(tm, r.task, tm')
    BY <1>2, <1>3, <1>7, FinishTaskResult
  <2>2. QED
    BY <1>1, <1>2, <1>4, <1>5, <2>1 DEF r
<1>8. CASE FailTask(tm, r.task)
  <2>1. FailedInto(tm, r.task, tm')
    BY <1>2, <1>3, <1>5, <1>8, FailTaskResult
  <2>2. QED
    BY <1>1, <1>2, <1>4, <1>5, <2>1 DEF r
<1>9. QED
  BY <1>6, <1>7, <1>8

(* next_task() without a task changes no node, but may drop what waits.    *)
LEMMA NoTaskResult ==
    ASSUME BooksInv, NoTask
    PROVE  /\ tm' \in Attributes /\ Agree(tm') /\ tm'.state = tm.state
           /\ tm'.implicit = tm.implicit
           /\ tm'.current_top = tm.current_top
           /\ tm'.next_candidate = tm.next_candidate
           /\ tm.candidates = <<>> => tm'.candidates = <<>>
           /\ \A n \in Node : tm'.waiting_parents[n] \subseteq tm.waiting_parents[n]
           /\ tm.next_candidate = "find" => tm'.waiting_parents = tm.waiting_parents
<1>1. tm \in Attributes /\ Agree(tm)
  BY EngineType
<1>2. CASE tm.next_candidate = "no" /\ tm' = NoNextCandidate(tm)
  <2> DEFINE b == WillNotBuild(tm, Range(tm.candidates))
  <2>1. /\ b \in Attributes /\ Agree(b) /\ b.state = tm.state /\ b.implicit = tm.implicit
        /\ b.waiting_parents = Cleared(tm, Doomed(tm, Range(tm.candidates)))
        /\ Stack(b) = Stack(tm) /\ b.next_candidate = tm.next_candidate
    BY <1>1, WillNotBuildResult
  <2> DEFINE empty == <<>>
  <2>2. tm' = [b EXCEPT !.candidates = empty] /\ empty \in Seq(Node)
    BY <1>2 DEF NoNextCandidate
  <2> HIDE DEF b, empty
  <2>3. /\ tm' \in Attributes /\ tm'.state = b.state /\ tm'.implicit = b.implicit
        /\ tm'.ref_count = b.ref_count /\ tm'.waiting_parents = b.waiting_parents
        /\ tm'.current_top = b.current_top /\ tm'.candidates = empty
        /\ tm'.next_candidate = b.next_candidate
    BY <2>1, <2>2 DEF Attributes
  <2>4. Agree(tm') /\ tm'.current_top = tm.current_top
    BY <2>1, <2>3 DEF Agree, Stack
  <2>5. \A n \in Node : tm'.waiting_parents[n] \subseteq tm.waiting_parents[n]
    BY <2>1, <2>3 DEF Cleared
  <2>6. QED
    BY <1>2, <2>1, <2>3, <2>4, <2>5 DEF empty
<1>3. CASE tm' = tm
  BY <1>1, <1>3
<1>4. QED
  BY <1>2, <1>3 DEF NoTask

(* The signal handler touches no node.                                     *)
LEMMA InterruptResult ==
    ASSUME BooksInv, Interrupt
    PROVE  /\ tm' \in Attributes /\ Agree(tm') /\ tm'.state = tm.state
           /\ tm'.implicit = tm.implicit
           /\ tm'.waiting_parents = tm.waiting_parents
           /\ tm'.current_top = tm.current_top
           /\ tm'.candidates = tm.candidates
           /\ tm'.next_candidate = "no"
<1>1. tm \in Attributes /\ Agree(tm)
  BY EngineType
<1>2. tm' = [tm EXCEPT !.next_candidate = "no"]
  BY DEF Interrupt, Stop
<1>3. /\ tm' \in Attributes /\ tm'.state = tm.state /\ tm'.implicit = tm.implicit
      /\ tm'.ref_count = tm.ref_count /\ tm'.waiting_parents = tm.waiting_parents
      /\ tm'.current_top = tm.current_top /\ tm'.candidates = tm.candidates
      /\ tm'.next_candidate = "no"
  BY <1>1, <1>2 DEF Attributes
<1>4. QED
  BY <1>1, <1>3 DEF Agree

(* A worker has a task in hand.                                            *)
LEMMA TaskInHand ==
    ASSUME BooksInv, NEW w \in Worker, worker[w].task # None
    PROVE  /\ worker[w].task \in Seq(Node)
           /\ Target(w) \in Range(worker[w].task) /\ Target(w) \in Node
           /\ Range(worker[w].task) \subseteq Node
           /\ Started(worker[w].task)
<1>1. worker[w].task \in Seq(Node)
  BY DEF BooksInv, EngineTypes
<1>2. worker[w].pos \in 1 .. Len(worker[w].task)
  BY DEF BooksInv, WorkersKnow
<1>3. Target(w) \in Range(worker[w].task)
  BY <1>1, <1>2, EntriesOfList DEF Target
<1>4. Range(worker[w].task) \subseteq Node
  BY <1>1, EntriesOfList
<1>5. Started(worker[w].task)
  BY DEF BooksInv, TasksStarted
<1>6. QED
  BY <1>1, <1>3, <1>4, <1>5

(* What has been dispatched is done with.                                  *)
LEMMA StartedIsClosed ==
    ASSUME BooksInv, NEW ts, Started(ts), NEW n \in Range(ts), n \in Node
    PROVE  Closed(n) /\ TargetsOf(n) = ts /\ tm.state[n] > PENDING
<1>1. TargetsOf(n) = ts /\ starts[n] >= 1
  BY DEF Started
<1>2. Closed(n)
  BY <1>1 DEF BooksInv, StartedOnce
<1>3. QED
  BY <1>1, <1>2 DEF Closed

(* A worker marks a target that is in the cache, and nothing else.         *)
LEMMA RetrieveResult ==
    ASSUME BooksInv, NEW w \in Worker, Retrieve(w)
    PROVE  /\ worker[w].task # None
           /\ tm' \in Attributes /\ Agree(tm')
           /\ tm'.implicit = tm.implicit
           /\ tm'.waiting_parents = tm.waiting_parents
           /\ tm'.current_top = tm.current_top
           /\ tm'.candidates = tm.candidates
           /\ tm'.next_candidate = tm.next_candidate
           /\ tm'.top_targets_left = tm.top_targets_left
           /\ tm'.pending_children = tm.pending_children
           /\ \/ /\ tm'.state = [tm.state EXCEPT ![Target(w)] = EXECUTED]
                 /\ retrieved' = retrieved \cup {Target(w)}
                 /\ worker' = [worker EXCEPT ![w].phase = "built",
                                   ![w].parents = tm.waiting_parents[Target(w)]]
              \/ /\ tm' = tm /\ retrieved' = retrieved
                 /\ worker' = [worker EXCEPT ![w].phase = "build"]
<1>1. tm \in Attributes /\ Agree(tm)
  BY EngineType
<1>2. worker[w].task # None
  BY DEF Retrieve, BooksInv, WorkersKnow
<1>3. Target(w) \in Node
  BY <1>2, TaskInHand
<1>4. \/ /\ tm' = [tm EXCEPT !.state[Target(w)] = EXECUTED]
         /\ retrieved' = retrieved \cup {Target(w)}
         /\ worker' = [worker EXCEPT ![w].phase = "built",
                           ![w].parents = tm.waiting_parents[Target(w)]]
      \/ /\ tm' = tm /\ retrieved' = retrieved
         /\ worker' = [worker EXCEPT ![w].phase = "build"]
  BY DEF Retrieve
<1>5. CASE tm' = [tm EXCEPT !.state[Target(w)] = EXECUTED]
  <2> DEFINE f == [tm.state EXCEPT ![Target(w)] = EXECUTED]
  <2>1. f \in [Node -> NO_STATE .. FAILED]
    BY <1>1, <1>3, AttributesDef
  <2>2. tm' = [tm EXCEPT !.state = f]
    BY <1>1, <1>5 DEF Attributes
  <2> HIDE DEF f
  <2>3. /\ tm' \in Attributes /\ tm'.state = f /\ Books(tm') = Books(tm)
        /\ Stack(tm') = Stack(tm) /\ tm'.implicit = tm.implicit
        /\ tm'.next_candidate = tm.next_candidate
        /\ tm'.pending_children = tm.pending_children
    BY <1>1, <2>1, <2>2, SetState
  <2>4. /\ tm'.ref_count = tm.ref_count /\ tm'.waiting_parents = tm.waiting_parents
        /\ tm'.current_top = tm.current_top /\ tm'.candidates = tm.candidates
        /\ tm'.top_targets_left = tm.top_targets_left
    BY <2>3 DEF Books, Stack
  <2>5. Agree(tm')
    BY <1>1, <2>4 DEF Agree
  <2>6. QED
    BY <1>2, <1>4, <2>3, <2>4, <2>5 DEF f
<1>6. CASE tm' = tm
  BY <1>1, <1>2, <1>4, <1>5, <1>6
<1>7. QED
  BY <1>4, <1>5, <1>6

(* built() in a worker makes parents scan again, and nothing else.         *)
LEMMA RetrievalDoneResult ==
    ASSUME BooksInv, NEW w \in Worker, RetrievalDone(w)
    PROVE  /\ worker[w].task # None
           /\ tm' \in Attributes /\ Agree(tm')
           /\ tm'.state = tm.state
           /\ tm'.waiting_parents = tm.waiting_parents
           /\ tm'.current_top = tm.current_top
           /\ tm'.candidates = tm.candidates
           /\ tm'.next_candidate = tm.next_candidate
           /\ tm'.top_targets_left = tm.top_targets_left
           /\ tm'.pending_children = tm.pending_children
           /\ \E seen \in SUBSET worker[w].parents : tm' = Built(tm, seen)
<1>1. tm \in Attributes /\ Agree(tm)
  BY EngineType
<1>2. worker[w].task # None
  BY DEF RetrievalDone, BooksInv, WorkersKnow
<1>3. PICK seen \in SUBSET worker[w].parents : tm' = Built(tm, seen)
  BY DEF RetrievalDone
<1>4. /\ tm' \in Attributes /\ tm'.state = tm.state /\ Books(tm') = Books(tm)
      /\ Stack(tm') = Stack(tm) /\ tm'.next_candidate = tm.next_candidate
      /\ tm'.pending_children = tm.pending_children
  BY <1>1, <1>3, BuiltType
<1>5. /\ tm'.ref_count = tm.ref_count /\ tm'.waiting_parents = tm.waiting_parents
      /\ tm'.current_top = tm.current_top /\ tm'.candidates = tm.candidates
      /\ tm'.top_targets_left = tm.top_targets_left
  BY <1>4 DEF Books, Stack
<1>6. Agree(tm')
  BY <1>1, <1>5 DEF Agree
<1>7. QED
  BY <1>2, <1>3, <1>4, <1>5, <1>6

-----------------------------------------------------------------------------
(* The books are kept.                                                     *)

(* The Taskmaster keeps its books, and never takes back that a node has    *)
(* been handled.                                                           *)
Advances(s, t) ==
    /\ t \in Attributes /\ Agree(t)
    /\ \A n \in Node : s.state[n] > PENDING => t.state[n] > PENDING
    /\ s.current_top \in Node => t.current_top \in Node
    /\ t.current_top = NoNode => (s.candidates = <<>> => t.candidates = <<>>)

(* make_ready_current() takes the targets out of PENDING.                  *)
LEMMA ReadyAdvances ==
    ASSUME BooksInv, NEW n \in Node, TaskFor(n)
    PROVE  /\ \A m \in Node : tm.state[m] > PENDING => MakeReady(tm, n).state[m] > PENDING
           /\ \A t \in Range(TargetsOf(n)) : MakeReady(tm, n).state[t] > PENDING
<1>1. MakeReady(tm, n).state = StatesAfterReady(tm, n)
  BY TaskForResult
<1>2. Range(TargetsOf(n)) \subseteq Node
  BY EngineType, TargetsType
<1>3. QED
  BY <1>1, <1>2 DEF StatesAfterReady

(* A failed task does not send a node back to PENDING.                     *)
LEMMA FailureAdvances ==
    ASSUME NEW s \in Attributes, NEW ts, NEW t, FailedInto(s, ts, t),
           s.current_top \in Node
    PROVE  Advances(s, t)
<1>1. /\ t \in Attributes /\ Agree(t) /\ t.state = StatesAfterFailure(s, ts)
      /\ t.current_top \in Node
  BY DEF FailedInto
<1>2. t.current_top # NoNode
  BY <1>1, BuildAssumption
<1>3. \A n \in Node : s.state[n] > PENDING => t.state[n] > PENDING
  BY <1>1 DEF StatesAfterFailure
<1>4. QED
  BY <1>1, <1>2, <1>3 DEF Advances

(* A finished task does not send a node back to PENDING.                   *)
LEMMA FinishAdvances ==
    ASSUME NEW s \in Attributes, NEW ts, NEW t, FinishedInto(s, ts, t),
           s.current_top \in Node
    PROVE  Advances(s, t)
<1>1. /\ t \in Attributes /\ Agree(t) /\ t.state = StatesAfterExecution(s, ts)
      /\ t.current_top \in Node
  BY DEF FinishedInto
<1>2. t.current_top # NoNode
  BY <1>1, BuildAssumption
<1>3. \A n \in Node : s.state[n] > PENDING => t.state[n] > PENDING
  BY <1>1 DEF StatesAfterExecution
<1>4. QED
  BY <1>1, <1>2, <1>3 DEF Advances

(* Nor does a task that ends within the step that makes it ready.          *)
LEMMA ReadyThenAdvances ==
    ASSUME BooksInv, NEW n \in Node, TaskFor(n), NEW t,
           Advances(MakeReady(tm, n), t)
    PROVE  Advances(tm, t)
<1>1. MakeReady(tm, n).current_top \in Node
  BY TaskForResult
<1>2. t.current_top \in Node /\ t.current_top # NoNode
  BY <1>1, BuildAssumption DEF Advances
<1>3. QED
  BY <1>2, ReadyAdvances DEF Advances

(* No step of anybody sends a node back to PENDING.                        *)
LEMMA TaskmasterAdvances ==
    ASSUME BooksInv, Next
    PROVE  Advances(tm, tm') /\ build' = build
<1>1. /\ tm \in Attributes /\ Agree(tm) /\ build \in Builds
      /\ main \in {"look", "wait"} => tm.current_top \in Node
  BY EngineType
<1>2. tm' = tm => Advances(tm, tm')
  BY <1>1 DEF Advances
<1>3. ASSUME NEW t \in Attributes, Agree(t), t.state = tm.state,
             t.current_top = tm.current_top,
             tm.candidates = <<>> => t.candidates = <<>>
      PROVE  Advances(tm, t)
  BY <1>3 DEF Advances
<1>4. CASE Consider
  <2>1. tm'.current_top # NoNode
    BY <1>4, ConsiderResult, BuildAssumption
  <2>2. \A n \in Node : tm.state[n] > PENDING => tm'.state[n] > PENDING
    <3>1. CASE tm'.state = tm.state
      BY <3>1
    <3>2. CASE /\ node' \in Node /\ tm.state[node'] <= PENDING
               /\ tm'.state = [tm.state EXCEPT ![node'] = PENDING]
      BY <1>1, <3>2, AttributesDef
    <3>3. QED
      BY <1>4, <3>1, <3>2, ConsiderResult
  <2>3. QED
    BY <1>4, <2>1, <2>2, ConsiderResult DEF Advances, Consider
<1>5. CASE SkipFailed
  <2>1. tm.current_top \in Node /\ tm.current_top # NoNode
    BY <1>1, <1>5, BuildAssumption DEF SkipFailed
  <2>2. \A n \in Node : tm.state[n] > PENDING => tm'.state[n] > PENDING
    BY <1>5, SkipFailedResult DEF StatesAfterChildFailed
  <2>3. QED
    BY <1>5, <2>1, <2>2, SkipFailedResult DEF Advances, SkipFailed
<1>6. CASE SomeNotReady
  <2>1. tm.current_top \in Node /\ tm.current_top # NoNode
    BY <1>1, <1>6, BuildAssumption DEF SomeNotReady
  <2>2. QED
    BY <1>6, <2>1, SomeNotReadyResult DEF Advances, SomeNotReady
<1>7. CASE WaitForThem
  <2>1. tm.current_top \in Node /\ tm.current_top # NoNode
    BY <1>1, <1>7, BuildAssumption DEF WaitForThem
  <2>2. QED
    BY <1>7, <2>1, WaitForThemResult DEF Advances, WaitForThem
<1>8. ASSUME NEW n \in Node, TaskFor(n),
             FailTask(MakeReady(tm, n), TargetsOf(n))
                 \/ FinishTask(MakeReady(tm, n), TargetsOf(n))
      PROVE  Advances(tm, tm') /\ build' = build
  <2>1. MakeReady(tm, n) \in Attributes /\ MakeReady(tm, n).current_top \in Node
    BY <1>8, TaskForResult
  <2>2. Advances(MakeReady(tm, n), tm')
    BY <1>8, <2>1, FailNowResult, FinishNowResult, FailureAdvances,
       FinishAdvances
  <2>3. QED
    BY <1>8, <2>2, ReadyThenAdvances DEF TaskFor
<1>9. ASSUME NEW n \in Node, Dispatch(n) PROVE Advances(tm, tm') /\ build' = build
  <2>1. TaskFor(n) /\ tm' = MakeReady(tm, n)
    BY <1>9 DEF Dispatch
  <2>2. Advances(MakeReady(tm, n), tm')
    BY <2>1, TaskForResult DEF Advances
  <2>3. QED
    BY <2>1, <2>2, ReadyThenAdvances DEF TaskFor
<1>10. CASE NoTask
  BY <1>3, <1>10, NoTaskResult DEF NoTask
<1>11. CASE Collect
  <2>1. Advances(tm, tm')
    BY <1>1, <1>11, CollectResult, FailureAdvances, FinishAdvances
  <2>2. QED
    BY <1>11, <2>1 DEF Collect
<1>12. CASE CleanupPool \/ CleanupTaskmaster
  BY <1>2, <1>12 DEF CleanupPool, CleanupTaskmaster
<1>13. CASE Interrupt
  BY <1>3, <1>13, InterruptResult DEF Interrupt
<1>14. ASSUME NEW w \in Worker, Get(w) \/ BuildTargets(w)
       PROVE  Advances(tm, tm') /\ build' = build
  BY <1>2, <1>14 DEF Get, BuildTargets
<1>15. ASSUME NEW w \in Worker, Retrieve(w) PROVE Advances(tm, tm') /\ build' = build
  <2>1. Target(w) \in Node
    BY <1>15, RetrieveResult, TaskInHand
  <2>2. \A n \in Node : tm.state[n] > PENDING => tm'.state[n] > PENDING
    <3>1. CASE tm'.state = [tm.state EXCEPT ![Target(w)] = EXECUTED]
      BY <1>1, <2>1, <3>1, AttributesDef
    <3>2. CASE tm' = tm
      BY <3>2
    <3>3. QED
      BY <1>15, <3>1, <3>2, RetrieveResult
  <2>3. tm' \in Attributes /\ Agree(tm') /\ tm'.current_top = tm.current_top
        /\ tm'.candidates = tm.candidates
    BY <1>15, RetrieveResult
  <2>4. QED
    BY <1>15, <2>2, <2>3 DEF Advances, Retrieve
<1>16. ASSUME NEW w \in Worker, RetrievalDone(w)
       PROVE  Advances(tm, tm') /\ build' = build
  BY <1>3, <1>16, RetrievalDoneResult DEF RetrievalDone
<1>17. QED
  <2>1. ASSUME NEW n \in Node, PreparationFails(n) \/ NothingToDo(n)
        PROVE  Advances(tm, tm') /\ build' = build
    BY <1>8, <2>1 DEF PreparationFails, NothingToDo
  <2>2. QED
    BY <1>4, <1>5, <1>6, <1>7, <1>9, <1>10, <1>11, <1>12, <1>13, <1>14, <1>15,
       <1>16,
       <2>1 DEF Next, Main, Work

(* The kinds of steps of the build.                                        *)
LEMMA StepsOfBuild ==
    ASSUME Next
    PROVE  \/ Consider \/ SkipFailed \/ SomeNotReady \/ WaitForThem
           \/ \E n \in Node : PreparationFails(n) \/ NothingToDo(n)
           \/ \E n \in Node : Dispatch(n)
           \/ NoTask \/ Collect \/ CleanupPool \/ CleanupTaskmaster \/ Interrupt
           \/ \E w \in Worker : Get(w)
           \/ \E w \in Worker : Retrieve(w)
           \/ \E w \in Worker : RetrievalDone(w)
           \/ \E w \in Worker : BuildTargets(w)
BY DEF Next, Main, Work

(* Most steps of the main thread leave the workers and the queues alone.   *)
LEMMA QuietSteps ==
    \/ Consider \/ SkipFailed \/ SomeNotReady \/ WaitForThem
    \/ \E n \in Node : PreparationFails(n) \/ NothingToDo(n)
    \/ NoTask \/ CleanupTaskmaster \/ Interrupt
    => UNCHANGED <<queues, worker, history>>
BY
   DEF Consider, SkipFailed, SomeNotReady, WaitForThem, PreparationFails,
       NothingToDo,
       TaskFor, NoTask, CleanupTaskmaster, Interrupt, queues, history

Record == [task : Seq(Node), ok : {"ok", "failed"}]
Threads == [phase : Phases, task : Seq(Node), pos : Nat, parents : SUBSET Node]

(* The types of the queues, the workers and the histories.                 *)
LEMMA TypesNow ==
    ASSUME BooksInv
    PROVE  /\ requestQueue \in Seq(Seq(Node)) /\ resultsQueue \in Seq(Record)
           /\ worker \in [Worker -> Threads]
           /\ starts \in [Node -> Nat] /\ cache \subseteq Node
           /\ retrieved \subseteq Node /\ count \in 0 .. Interval - 1
           /\ maxjobs \in Nat /\ jobs \in 0 .. maxjobs
           /\ main \in Steps /\ node \in Node \cup {NoNode}
           /\ children_not_ready \subseteq Node
<1>1. maxjobs \in Nat
  BY WorkerAssumption, FS_CardinalityType DEF maxjobs
<1>2. QED
  BY <1>1 DEF BooksInv, EngineTypes, TypeOK, Record, Threads

(* A worker without a task.                                                *)
LEMMA IdleType == Idle \in Threads /\ None \in Seq(Node)
<1> DEFINE empty == <<>>
<1>1. None = empty /\ empty \in Seq(Node)
  BY DEF None
<1> HIDE DEF empty
<1>2. Idle = [phase |-> "get", task |-> empty, pos |-> 0, parents |-> {}]
  BY <1>1 DEF Idle
<1>3. QED
  BY <1>1, <1>2 DEF Threads, Phases

(* An entry of resultsQueue.                                               *)
LEMMA ResultType ==
    ASSUME NEW ts \in Seq(Node), NEW ok \in {"ok", "failed"}
    PROVE  Result(ts, ok) \in Record /\ Result(ts, ok).task = ts
BY DEF Result, Record

(* What a worker is after each of its steps.                               *)
LEMMA GetResult ==
    ASSUME BooksInv, NEW w \in Worker, Get(w)
    PROVE  /\ worker[w].task = None /\ requestQueue # <<>>
           /\ Head(requestQueue) \in Seq(Node)
           /\ requestQueue' = Tail(requestQueue)
           /\ \/ /\ Head(requestQueue) = None
                 /\ worker'[w].task = None /\ worker'[w].phase = "exited"
                 /\ resultsQueue' = resultsQueue
              \/ /\ Head(requestQueue) # None /\ worker' = worker
                 /\ resultsQueue' =
                       Append(resultsQueue, Result(Head(requestQueue), "failed"))
              \/ /\ Head(requestQueue) # None
                 /\ worker'[w].task = Head(requestQueue) /\ worker'[w].pos = 1
                 /\ worker'[w].phase = "retrieve"
                 /\ resultsQueue' = resultsQueue
           /\ worker' \in [Worker -> Threads]
           /\ worker'[w].parents = worker[w].parents
           /\ \A v \in Worker \ {w} : worker'[v] = worker[v]
<1>1. worker \in [Worker -> Threads] /\ requestQueue \in Seq(Seq(Node))
  BY TypesNow
<1>2. worker[w].task = None
  BY DEF Get, BooksInv, WorkersKnow
<1>3. requestQueue # <<>> /\ requestQueue' = Tail(requestQueue)
  BY DEF Get
<1>4. Head(requestQueue) \in Seq(Node)
  BY <1>1, <1>3, FirstAndRest
<1> DEFINE task == Head(requestQueue)
<1>5. \/ /\ task = None
         /\ worker' = [worker EXCEPT ![w].phase = "exited"]
         /\ UNCHANGED resultsQueue
      \/ /\ task # None
         /\ resultsQueue' = Append(resultsQueue, Result(task, "failed"))
         /\ UNCHANGED worker
      \/ /\ task # None
         /\ worker' = [worker EXCEPT ![w].phase = "retrieve",
                                     ![w].task = task, ![w].pos = 1]
         /\ UNCHANGED resultsQueue
  BY DEF Get
<1> HIDE DEF task
<1>6. CASE /\ task = None
           /\ worker' = [worker EXCEPT ![w].phase = "exited"]
           /\ UNCHANGED resultsQueue
  BY <1>1, <1>2, <1>3, <1>4, <1>6 DEF Threads, Phases, task
<1>7. CASE /\ task # None
           /\ resultsQueue' = Append(resultsQueue, Result(task, "failed"))
           /\ UNCHANGED worker
  BY <1>1, <1>2, <1>3, <1>4, <1>7 DEF task
<1>8. CASE /\ task # None
           /\ worker' = [worker EXCEPT ![w].phase = "retrieve",
                                       ![w].task = task, ![w].pos = 1]
           /\ UNCHANGED resultsQueue
  <2>1. task \in Seq(Node)
    BY <1>4 DEF task
  <2>2. worker' \in [Worker -> Threads]
    BY <1>1, <1>8, <2>1 DEF Threads, Phases
  <2>3. /\ worker'[w].task = task /\ worker'[w].pos = 1
        /\ worker'[w].phase = "retrieve" /\ worker'[w].parents = worker[w].parents
        /\ \A v \in Worker \ {w} : worker'[v] = worker[v]
    BY <1>1, <1>8 DEF Threads
  <2>4. QED
    BY <1>2, <1>3, <1>4, <1>8, <2>2, <2>3 DEF task
<1>9. QED
  BY <1>5, <1>6, <1>7, <1>8

(* A worker that puts its result has no task in hand any more.             *)
LEMMA PutResultResult ==
    ASSUME BooksInv, NEW w \in Worker,
           NEW ok \in {"ok", "failed"}, PutResult(w, ok)
    PROVE  /\ worker' \in [Worker -> Threads] /\ worker'[w] = Idle
           /\ \A v \in Worker \ {w} : worker'[v] = worker[v]
           /\ Result(worker[w].task, ok) \in Record
           /\ Result(worker[w].task, ok).task = worker[w].task
           /\ resultsQueue' = Append(resultsQueue, Result(worker[w].task, ok))
<1>1. worker \in [Worker -> Threads]
  BY TypesNow
<1>2. worker[w].task \in Seq(Node)
  BY <1>1 DEF Threads
<1>3. worker' = [worker EXCEPT ![w] = Idle]
  BY DEF PutResult
<1>4. QED
  BY <1>1, <1>2, <1>3, IdleType, ResultType DEF PutResult

(* A worker keeps its task, or puts it into the queue of results.          *)
Keeps(w) ==
    /\ worker' \in [Worker -> Threads]
    /\ \A v \in Worker \ {w} : worker'[v] = worker[v]
    /\ worker'[w].task = worker[w].task
    /\ worker'[w].pos \in 1 .. Len(worker[w].task)
    /\ worker'[w].phase \in {"retrieve", "built", "build"}
    /\ resultsQueue' = resultsQueue

Puts(w) ==
    /\ worker' \in [Worker -> Threads] /\ worker'[w] = Idle
    /\ \A v \in Worker \ {w} : worker'[v] = worker[v]
    /\ \E r \in Record :
          /\ r.task = worker[w].task
          /\ resultsQueue' = Append(resultsQueue, r)

(* A worker with a task keeps it, or puts its result.                      *)
LEMMA WorkerStep ==
    ASSUME BooksInv, NEW w \in Worker,
           Retrieve(w) \/ RetrievalDone(w) \/ BuildTargets(w)
    PROVE  /\ worker[w].task # None
           /\ requestQueue' = requestQueue
           /\ UNCHANGED <<jobs, main, walk, starts>>
           /\ Keeps(w) \/ Puts(w)
<1>1. worker \in [Worker -> Threads] /\ tm \in Attributes
  BY TypesNow, EngineType
<1>2. worker[w].task # None
  BY DEF Retrieve, RetrievalDone, BuildTargets, BooksInv, WorkersKnow
<1>3. worker[w].pos \in 1 .. Len(worker[w].task) /\ worker[w].task \in Seq(Node)
  BY <1>1, <1>2 DEF BooksInv, WorkersKnow, Threads
<1>4. ASSUME NEW ok \in {"ok", "failed"}, PutResult(w, ok) PROVE Puts(w)
  BY <1>4, PutResultResult DEF Puts
<1>5. CASE Retrieve(w)
  <2>1. tm.waiting_parents[Target(w)] \subseteq Node
    BY <1>1, <1>2, TaskInHand, AttributesDef
  <2>2. resultsQueue' = resultsQueue /\ requestQueue' = requestQueue
        /\ UNCHANGED <<jobs, main, walk, starts>>
    BY <1>5 DEF Retrieve, queues
  <2> DEFINE P == tm.waiting_parents[Target(w)]
  <2>3. \/ worker' = [worker EXCEPT ![w].phase = "built", ![w].parents = P]
        \/ worker' = [worker EXCEPT ![w].phase = "build"]
    BY <1>5, RetrieveResult
  <2> HIDE DEF P
  <2>4. P \subseteq Node
    BY <2>1 DEF P
  <2>5. CASE worker' = [worker EXCEPT ![w].phase = "built", ![w].parents = P]
    BY <1>1, <1>2, <1>3, <2>2, <2>4, <2>5 DEF Keeps, Threads, Phases
  <2>6. CASE worker' = [worker EXCEPT ![w].phase = "build"]
    BY <1>1, <1>2, <1>3, <2>2, <2>6 DEF Keeps, Threads, Phases
  <2>7. QED
    BY <2>3, <2>5, <2>6
<1>6. CASE RetrievalDone(w)
  <2>1. requestQueue' = requestQueue /\ UNCHANGED <<jobs, main, walk, starts>>
    BY <1>6 DEF RetrievalDone, history
  <2>2. \/ \E ok \in {"ok", "failed"} : PutResult(w, ok)
        \/ /\ worker[w].pos # Len(worker[w].task)
           /\ worker' = [worker EXCEPT ![w].phase = "retrieve",
                                       ![w].pos = worker[w].pos + 1,
                                       ![w].parents = {}]
           /\ resultsQueue' = resultsQueue
    BY <1>6 DEF RetrievalDone
  <2>3. CASE /\ worker[w].pos # Len(worker[w].task)
             /\ worker' = [worker EXCEPT ![w].phase = "retrieve",
                                         ![w].pos = worker[w].pos + 1,
                                         ![w].parents = {}]
             /\ resultsQueue' = resultsQueue
    <3>1. worker[w].pos + 1 \in 1 .. Len(worker[w].task) /\ worker[w].pos + 1 \in Nat
      BY <1>3, <2>3
    <3>2. Keeps(w)
      BY <1>1, <2>3, <3>1 DEF Keeps, Threads, Phases
    <3>3. QED
      BY <1>2, <2>1, <3>2
  <2>4. QED
    BY <1>2, <1>4, <2>1, <2>2, <2>3
<1>7. CASE BuildTargets(w)
  BY <1>2, <1>4, <1>7 DEF BuildTargets, history
<1>8. QED
  BY <1>5, <1>6, <1>7

(* A purge only removes files.                                             *)
LEMMA CacheKept ==
    ASSUME cache \subseteq Node, Progress
    PROVE  cache' \subseteq Node
BY DEF Progress, Purged

LEMMA StoppedCacheKept ==
    ASSUME cache \subseteq Node, cache' \in PurgeStopped(cache)
    PROVE  cache' \subseteq Node
BY DEF PurgeStopped

QueuesTyped ==
    /\ requestQueue \in Seq(Seq(Node)) /\ resultsQueue \in Seq(Record)
    /\ worker \in [Worker -> Threads]

(* Every step keeps the types.                                             *)
LEMMA TypesKept ==
    ASSUME BooksInv, Next
    PROVE  EngineTypes'
<1>1. /\ requestQueue \in Seq(Seq(Node)) /\ resultsQueue \in Seq(Record)
      /\ worker \in [Worker -> Threads]
      /\ starts \in [Node -> Nat] /\ cache \subseteq Node
      /\ retrieved \subseteq Node /\ count \in 0 .. Interval - 1
      /\ maxjobs \in Nat /\ jobs \in 0 .. maxjobs
      /\ main \in Steps /\ node \in Node \cup {NoNode}
      /\ children_not_ready \subseteq Node
  BY TypesNow
<1>2. tm' \in Attributes /\ build' \in Builds /\ build \in Builds
  BY TaskmasterAdvances, EngineType DEF Advances
<1>3. main' \in Steps /\ node' \in Node \cup {NoNode}
  <2>1. CASE Consider
    BY <1>1, <2>1, ConsiderResult DEF Steps
  <2>2. CASE ~Consider
    BY <1>1, <2>2, StepsOfBuild, WorkerStep
       DEF Steps, SkipFailed, SomeNotReady, WaitForThem, PreparationFails, NothingToDo,
           Dispatch, TaskFor, NoTask, Collect, CleanupPool, CleanupTaskmaster, Interrupt,
           Get, walk
  <2>3. QED
    BY <2>1, <2>2
<1>4. children_not_ready' \subseteq Node
  <2>1. CASE SomeNotReady
    BY <2>1, SomeNotReadyResult
  <2>2. CASE ~SomeNotReady
    BY <1>1, <2>2, StepsOfBuild, WorkerStep
       DEF Consider, SkipFailed, WaitForThem, PreparationFails, NothingToDo,
           Dispatch, TaskFor, NoTask, Collect, CleanupPool, CleanupTaskmaster, Interrupt,
           Get, walk
  <2>3. QED
    BY <2>1, <2>2
<1>5. jobs' \in 0 .. maxjobs
  <2>1. ASSUME NEW n \in Node, Dispatch(n) PROVE jobs' \in 0 .. maxjobs
    <3>1. jobs < maxjobs /\ jobs' = jobs + 1
      BY <2>1 DEF Dispatch, TaskFor, BooksInv, MainKnows
    <3>2. QED
      BY <1>1, <3>1
  <2>2. CASE Collect
    <3>1. jobs > 0 /\ jobs' = jobs - 1
      BY <2>2, CollectResult DEF Collect
    <3>2. QED
      BY <1>1, <3>1
  <2>3. QED
    BY <1>1, <2>1, <2>2, StepsOfBuild, QuietSteps, WorkerStep
       DEF queues, CleanupPool, Get
<1>6. QueuesTyped'
  <2>1. QueuesTyped
    BY <1>1 DEF QueuesTyped
  <2>2. CASE UNCHANGED <<queues, worker>>
    BY <1>1, <2>2 DEF QueuesTyped, queues
  <2>3. ASSUME NEW n \in Node, Dispatch(n) PROVE QueuesTyped'
    <3>1. requestQueue' = Append(requestQueue, TargetsOf(n))
          /\ UNCHANGED <<resultsQueue, worker>>
      BY <2>3 DEF Dispatch, TaskFor
    <3>2. TargetsOf(n) \in Seq(Node)
      BY <1>2, TargetsType
    <3>3. QED
      BY <1>1, <3>1, <3>2, Appended DEF QueuesTyped
  <2>4. CASE Collect
    <3>1. resultsQueue # <<>> /\ resultsQueue' = Tail(resultsQueue)
          /\ UNCHANGED <<requestQueue, worker>>
      BY <2>4 DEF Collect
    <3>2. QED
      BY <1>1, <3>1, FirstAndRest DEF QueuesTyped
  <2>5. CASE CleanupPool
    <3>1. requestQueue' = requestQueue \o [i \in 1 .. maxjobs |-> None]
          /\ UNCHANGED <<resultsQueue, worker>>
      BY <2>5 DEF CleanupPool
    <3>2. QED
      BY <1>1, <3>1, IdleType, TasksAfterSentinels DEF QueuesTyped
  <2>6. ASSUME NEW w \in Worker, Get(w) PROVE QueuesTyped'
    <3>1. requestQueue' \in Seq(Seq(Node)) /\ worker' \in [Worker -> Threads]
      <4>1. requestQueue # <<>> /\ requestQueue' = Tail(requestQueue)
            /\ worker' \in [Worker -> Threads]
        BY <2>6, GetResult
      <4>2. QED
        BY <1>1, <4>1, FirstAndRest
    <3>2. Result(Head(requestQueue), "failed") \in Record
      BY <2>6, GetResult, ResultType
    <3>3. resultsQueue' \in Seq(Record)
      <4>1. \/ resultsQueue' = resultsQueue
            \/ resultsQueue' = Append(resultsQueue, Result(Head(requestQueue), "failed"))
        BY <2>6, GetResult
      <4>2. Append(resultsQueue, Result(Head(requestQueue), "failed")) \in Seq(Record)
        BY <1>1, <3>2
      <4>3. QED
        BY <1>1, <4>1, <4>2
    <3>4. QED
      BY <3>1, <3>3 DEF QueuesTyped
  <2>7. ASSUME NEW w \in Worker, Retrieve(w) \/ RetrievalDone(w) \/ BuildTargets(w)
        PROVE  QueuesTyped'
    <3>1. Keeps(w) \/ Puts(w)
      BY <2>7, WorkerStep
    <3>2. worker' \in [Worker -> Threads]
      BY <3>1 DEF Keeps, Puts
    <3>3. resultsQueue' \in Seq(Record)
      <4>1. \/ resultsQueue' = resultsQueue
            \/ \E r \in Record : resultsQueue' = Append(resultsQueue, r)
        BY <3>1 DEF Keeps, Puts
      <4>2. \A r \in Record : Append(resultsQueue, r) \in Seq(Record)
        BY <1>1
      <4>3. QED
        BY <1>1, <4>1, <4>2
    <3>4. requestQueue' = requestQueue
      BY <2>7, WorkerStep
    <3>5. QED
      BY <1>1, <3>2, <3>3, <3>4 DEF QueuesTyped
  <2>8. QED
    BY <2>2, <2>3, <2>4, <2>5, <2>6, <2>7, StepsOfBuild, QuietSteps
<1>7. cache' \subseteq Node
  <2>1. ASSUME NEW n \in Node, PreparationFails(n) \/ NothingToDo(n) \/ Dispatch(n)
        PROVE  cache' \subseteq Node
    BY <1>1, <2>1, CacheKept, StoppedCacheKept DEF PreparationFails, NothingToDo, Dispatch
  <2>2. CASE Collect
    <3>1. Range(Head(resultsQueue).task) \subseteq Node
      BY <2>2, CollectResult
    <3>2. QED
      BY <1>1, <2>2, <3>1 DEF Collect
  <2>3. QED
    BY <1>1, <2>1, <2>2, StepsOfBuild
       DEF Consider, SkipFailed, SomeNotReady, WaitForThem, NoTask, CleanupPool,
           CleanupTaskmaster, Interrupt, Get, Retrieve, RetrievalDone, BuildTargets, store
<1>8. count' \in 0 .. Interval - 1
  <2>1. ASSUME NEW n \in Node, TaskFor(n) PROVE count' \in 0 .. Interval - 1
    BY <1>1, <2>1, CacheAssumption DEF TaskFor
  <2>2. QED
    BY <1>1, <2>1, StepsOfBuild
       DEF PreparationFails, NothingToDo, Dispatch, Consider, SkipFailed, SomeNotReady,
           WaitForThem, NoTask, Collect, CleanupPool, CleanupTaskmaster, Interrupt, Get,
           Retrieve, RetrievalDone, BuildTargets, store
<1>9. retrieved' \subseteq Node
  <2>1. ASSUME NEW w \in Worker, Retrieve(w) PROVE retrieved' \subseteq Node
    <3>1. Target(w) \in Node
      BY <2>1, RetrieveResult, TaskInHand
    <3>2. QED
      BY <1>1, <2>1, <3>1 DEF Retrieve
  <2>2. QED
    BY <1>1, <2>1, StepsOfBuild, QuietSteps
       DEF Dispatch, TaskFor, Collect, CleanupPool, Get, RetrievalDone, BuildTargets, history
<1>10. starts' \in [Node -> Nat]
  <2>1. ASSUME NEW n \in Node, Dispatch(n) PROVE starts' \in [Node -> Nat]
    BY <1>1, <2>1 DEF Dispatch
  <2>2. QED
    BY <1>1, <2>1, StepsOfBuild, QuietSteps, WorkerStep
       DEF Collect, CleanupPool, Get, history
<1>11. QED
  <2>1. \A w \in Worker : worker'[w].phase \in Phases
    BY <1>6 DEF QueuesTyped, Threads
  <2>2. TypeOK'
    BY <1>2, <1>3, <1>5, <1>7, <1>8, <1>9, <1>10, <2>1 DEF TypeOK, Phases
  <2>3. QED
    BY <1>4, <1>6, <2>2 DEF EngineTypes, QueuesTyped, Record, Threads

(* Every step keeps what a worker knows of its task.                       *)
LEMMA WorkersKept ==
    ASSUME BooksInv, Next
    PROVE  WorkersKnow'
<1>1. WorkersKnow /\ worker \in [Worker -> Threads]
  BY TypesNow DEF BooksInv
<1> DEFINE Knows(r) ==
        /\ r.phase \in {"retrieve", "built", "build"} <=> r.task # None
        /\ r.task # None => r.pos \in 1 .. Len(r.task)
<1>2. \A v \in Worker : Knows(worker[v])
  BY <1>1 DEF WorkersKnow
<1>3. (\A v \in Worker : Knows(worker'[v])) => WorkersKnow'
  BY DEF WorkersKnow
<1>4. CASE worker' = worker
  BY <1>1, <1>4 DEF WorkersKnow
<1>5. ASSUME NEW w \in Worker, Get(w) PROVE WorkersKnow'
  <2>1. Knows(worker'[w])
    <3>1. \/ worker'[w].task = None /\ worker'[w].phase = "exited"
          \/ worker' = worker
          \/ /\ worker'[w].task = Head(requestQueue) /\ worker'[w].pos = 1
             /\ worker'[w].phase = "retrieve" /\ Head(requestQueue) # None
      BY <1>5, GetResult
    <3>2. Head(requestQueue) # None => 1 \in 1 .. Len(Head(requestQueue))
      <4>1. Head(requestQueue) \in Seq(Node)
        BY <1>5, GetResult
      <4>2. QED
        BY <4>1 DEF None
    <3>3. QED
      BY <1>2, <3>1, <3>2
  <2>2. \A v \in Worker \ {w} : worker'[v] = worker[v]
    BY <1>5, GetResult
  <2>3. QED
    BY <1>2, <1>3, <2>1, <2>2
<1>6. ASSUME NEW w \in Worker, Retrieve(w) \/ RetrievalDone(w) \/ BuildTargets(w)
      PROVE  WorkersKnow'
  <2>1. worker[w].task # None /\ (Keeps(w) \/ Puts(w))
    BY <1>6, WorkerStep
  <2>2. Knows(worker'[w])
    BY <2>1 DEF Keeps, Puts, Idle
  <2>3. \A v \in Worker \ {w} : worker'[v] = worker[v]
    BY <2>1 DEF Keeps, Puts
  <2>4. QED
    BY <1>2, <1>3, <2>2, <2>3
<1>7. QED
  BY <1>4, <1>5, <1>6, StepsOfBuild, QuietSteps
     DEF Dispatch, TaskFor, Collect, CleanupPool

(* The workers with a task.                                                *)
Busy == {w \in Worker : worker[w].task # None}

(* JobsAgree in terms of the tasks in the queue and the busy workers.      *)
LEMMA JobsNow ==
    JobsAgree <=> jobs = Cardinality(Tasks(requestQueue)) + Cardinality(Busy)
                         + Len(resultsQueue)
BY Zenon DEF JobsAgree, Tasks, Busy

(* Every step moves a task between the queues and the workers, or adds or  *)
(* collects one, and jobs with it.                                         *)
LEMMA JobsKept ==
    ASSUME BooksInv, Next
    PROVE  JobsAgree'
<1>1. /\ requestQueue \in Seq(Seq(Node)) /\ resultsQueue \in Seq(Record)
      /\ worker \in [Worker -> Threads] /\ maxjobs \in Nat /\ jobs \in 0 .. maxjobs
      /\ build \in Builds
  BY TypesNow, EngineType
<1> DEFINE q == Cardinality(Tasks(requestQueue))
           b == Cardinality(Busy)
           r == Len(resultsQueue)
<1>2. q \in Nat /\ b \in Nat /\ r \in Nat /\ IsFiniteSet(Busy)
  BY <1>1, TasksFinite, WorkerAssumption, FS_Subset, FS_CardinalityType
     DEF Busy
<1>3. jobs = q + b + r
  BY JobsNow DEF BooksInv
<1>4. JobsAgree' <=> jobs' = q' + b' + r'
  BY Zenon DEF JobsAgree, Tasks, Busy, q, b, r
<1> HIDE DEF q, b, r
<1>5. worker' = worker => b' = b
  BY DEF b, Busy
<1>6. requestQueue' = requestQueue => q' = q
  BY DEF q
<1>7. resultsQueue' = resultsQueue => r' = r
  BY DEF r
<1>8. CASE UNCHANGED <<queues, worker>>
  BY <1>3, <1>4, <1>5, <1>6, <1>7, <1>8 DEF queues
<1>9. ASSUME NEW n \in Node, Dispatch(n) PROVE JobsAgree'
  <2>1. /\ requestQueue' = Append(requestQueue, TargetsOf(n)) /\ jobs' = jobs + 1
        /\ UNCHANGED <<resultsQueue, worker>>
    BY <1>9 DEF Dispatch, TaskFor
  <2>2. TargetsOf(n) \in Seq(Node) /\ TargetsOf(n) # None
    BY <1>1, TargetsType
  <2>3. q' = q + 1
    BY <1>1, <2>1, <2>2, TasksAfterAppend DEF q
  <2>4. QED
    BY <1>2, <1>3, <1>4, <1>5, <1>7, <2>1, <2>3
<1>10. CASE Collect
  <2>1. /\ resultsQueue # <<>> /\ resultsQueue' = Tail(resultsQueue)
        /\ jobs' = jobs - 1 /\ UNCHANGED <<requestQueue, worker>>
    BY <1>10 DEF Collect
  <2>2. r' = r - 1
    BY <1>1, <2>1, FirstAndRest DEF r
  <2>3. QED
    BY <1>2, <1>3, <1>4, <1>5, <1>6, <2>1, <2>2
<1>11. CASE CleanupPool
  <2>1. /\ requestQueue' = requestQueue \o [i \in 1 .. maxjobs |-> None]
        /\ UNCHANGED <<jobs, resultsQueue, worker>>
    BY <1>11 DEF CleanupPool
  <2>2. Tasks(requestQueue') = Tasks(requestQueue)
    BY <1>1, <2>1, IdleType, TasksAfterSentinels
  <2>3. q' = q
    BY <2>2, Zenon DEF q
  <2>4. QED
    BY <1>3, <1>4, <1>5, <1>7, <2>1, <2>3
<1>12. ASSUME NEW w \in Worker, Get(w) PROVE JobsAgree'
  <2>1. /\ requestQueue # <<>> /\ requestQueue' = Tail(requestQueue)
        /\ jobs' = jobs /\ w \notin Busy
        /\ \A v \in Worker \ {w} : worker'[v] = worker[v]
    BY <1>12, GetResult DEF Get, Busy
  <2>2. q = q' + (IF Head(requestQueue) # None THEN 1 ELSE 0)
    BY <1>1, <2>1, TasksAfterTail DEF q
  <2>3. q' \in Nat
    <3>1. requestQueue' \in Seq(Seq(Node))
      BY <1>1, <2>1, FirstAndRest
    <3>2. QED
      BY <3>1, TasksFinite DEF q
  <2>4. CASE /\ Head(requestQueue) = None /\ worker'[w].task = None
             /\ resultsQueue' = resultsQueue
    <3>1. Busy' = Busy
      BY <2>1, <2>4 DEF Busy
    <3>2. b' = b
      BY <3>1, Zenon DEF b
    <3>3. QED
      BY <1>2, <1>3, <1>4, <1>7, <2>1, <2>2, <2>3, <2>4, <3>2
  <2>5. CASE /\ Head(requestQueue) # None /\ worker' = worker
             /\ resultsQueue' = Append(resultsQueue, Result(Head(requestQueue), "failed"))
    <3>1. Result(Head(requestQueue), "failed") \in Record
      BY <1>12, GetResult, ResultType
    <3>2. r' = r + 1
      BY <1>1, <2>5, <3>1, Appended DEF r
    <3>3. QED
      BY <1>2, <1>3, <1>4, <1>5, <2>1, <2>2, <2>3, <2>5, <3>2
  <2>6. CASE /\ Head(requestQueue) # None /\ worker'[w].task = Head(requestQueue)
             /\ resultsQueue' = resultsQueue
    <3>1. Busy' = Busy \cup {w}
      BY <2>1, <2>6 DEF Busy
    <3>2. Cardinality(Busy \cup {w}) = b + 1
      BY <1>2, <2>1, FS_AddElement DEF b
    <3>3. b' = b + 1
      BY <3>1, <3>2, Zenon DEF b
    <3>4. QED
      BY <1>2, <1>3, <1>4, <1>7, <2>1, <2>2, <2>3, <2>6, <3>3
  <2>7. QED
    BY <1>12, <2>4, <2>5, <2>6, GetResult
<1>13. ASSUME NEW w \in Worker, Retrieve(w) \/ RetrievalDone(w) \/ BuildTargets(w)
       PROVE  JobsAgree'
  <2>1. /\ worker[w].task # None /\ requestQueue' = requestQueue /\ jobs' = jobs
        /\ Keeps(w) \/ Puts(w)
    BY <1>13, WorkerStep
  <2>2. CASE Keeps(w)
    <3>1. /\ resultsQueue' = resultsQueue /\ worker'[w].task = worker[w].task
          /\ \A v \in Worker \ {w} : worker'[v] = worker[v]
      BY <2>2 DEF Keeps
    <3>2. Busy' = Busy
      BY <3>1 DEF Busy
    <3>3. b' = b
      BY <3>2, Zenon DEF b
    <3>4. QED
      BY <1>3, <1>4, <1>6, <1>7, <2>1, <3>1, <3>3
  <2>3. CASE Puts(w)
    <3>1. /\ worker'[w] = Idle /\ \A v \in Worker \ {w} : worker'[v] = worker[v]
          /\ \E x \in Record : resultsQueue' = Append(resultsQueue, x)
      BY <2>3 DEF Puts
    <3>2. Busy' = Busy \ {w} /\ w \in Busy
      BY <2>1, <3>1 DEF Busy, Idle
    <3>3. Cardinality(Busy \ {w}) = b - 1
      BY <1>2, <3>2, FS_RemoveElement DEF b
    <3>4. b' = b - 1
      BY <3>2, <3>3, Zenon DEF b
    <3>5. r' = r + 1
      BY <1>1, <3>1, Appended DEF r
    <3>6. QED
      BY <1>2, <1>3, <1>4, <1>6, <2>1, <3>4, <3>5
  <2>4. QED
    BY <2>1, <2>2, <2>3
<1>14. QED
  BY <1>8, <1>9, <1>10, <1>11, <1>12, <1>13, StepsOfBuild, QuietSteps

(* Every step keeps what the main thread knows.                            *)
LEMMA MainKept ==
    ASSUME BooksInv, Next
    PROVE  MainKnows'
<1>1. /\ build \in Builds /\ tm \in Attributes /\ jobs \in 0 .. maxjobs /\ maxjobs \in Nat
      /\ MainKnows
  BY TypesNow, EngineType DEF BooksInv
<1>2. /\ tm' \in Attributes
      /\ tm.current_top \in Node => tm'.current_top \in Node
      /\ tm'.current_top = NoNode => (tm.candidates = <<>> => tm'.candidates = <<>>)
  BY TaskmasterAdvances DEF Advances
<1>3. ASSUME main' \in {"fill", "look", "wait"} PROVE jobs' < maxjobs
  <2>1. CASE Consider \/ SkipFailed \/ SomeNotReady \/ WaitForThem \/ Interrupt
    BY <1>1, <1>3, <2>1
       DEF MainKnows, Consider, SkipFailed, SomeNotReady, WaitForThem, Interrupt, queues
  <2>2. ASSUME NEW n \in Node, PreparationFails(n) \/ NothingToDo(n) PROVE jobs' < maxjobs
    BY <1>1, <2>2 DEF MainKnows, PreparationFails, NothingToDo, TaskFor
  <2>3. ASSUME NEW n \in Node, Dispatch(n) PROVE jobs' < maxjobs
    BY <1>3, <2>3 DEF Dispatch
  <2>4. CASE Collect
    <3>1. jobs' = jobs - 1
      BY <2>4 DEF Collect
    <3>2. QED
      BY <1>1, <3>1
  <2>5. CASE NoTask \/ CleanupPool \/ CleanupTaskmaster
    BY <1>3, <2>5 DEF NoTask, CleanupPool, CleanupTaskmaster
  <2>6. ASSUME NEW w \in Worker, Get(w) PROVE jobs' < maxjobs
    BY <1>1, <1>3, <2>6 DEF MainKnows, Get
  <2>7. ASSUME NEW w \in Worker, Retrieve(w) \/ RetrievalDone(w) \/ BuildTargets(w)
        PROVE  jobs' < maxjobs
    BY <1>1, <1>3, <2>7, WorkerStep DEF MainKnows
  <2>8. QED
    BY <2>1, <2>2, <2>3, <2>4, <2>5, <2>6, <2>7, StepsOfBuild
<1>4. ASSUME main' \in {"look", "wait"} PROVE node' \in Node /\ tm'.state[node'] = PENDING
  <2>1. CASE Consider
    <3>1. CASE UNCHANGED <<main, node>>
      BY <1>4, <2>1, <3>1 DEF Consider
    <3>2. CASE node' \in Node /\ tm'.state = [tm.state EXCEPT ![node'] = PENDING]
      BY <1>1, <3>2, AttributesDef
    <3>3. QED
      BY <2>1, <3>1, <3>2, ConsiderResult
  <2>2. CASE SomeNotReady
    BY <1>1, <2>2, SomeNotReadyResult DEF MainKnows, SomeNotReady
  <2>3. CASE \/ SkipFailed \/ WaitForThem \/ NoTask
             \/ Collect \/ CleanupPool \/ CleanupTaskmaster
    BY <1>4, <2>3 DEF SkipFailed, WaitForThem, NoTask, Collect, CleanupPool,
                      CleanupTaskmaster
  <2>4. ASSUME NEW n \in Node, PreparationFails(n) \/ NothingToDo(n) \/ Dispatch(n)
        PROVE  FALSE
    BY <1>4, <2>4 DEF PreparationFails, NothingToDo, Dispatch
  <2>5. CASE Interrupt
    BY <1>1, <1>4, <2>5, InterruptResult DEF MainKnows, Interrupt, walk
  <2>6. ASSUME NEW w \in Worker, Get(w) \/ BuildTargets(w)
        PROVE  node' \in Node /\ tm'.state[node'] = PENDING
    BY <1>1, <1>4, <2>6 DEF MainKnows, Get, BuildTargets, walk
  <2>7. ASSUME NEW w \in Worker, RetrievalDone(w)
        PROVE  node' \in Node /\ tm'.state[node'] = PENDING
    BY <1>1, <1>4, <2>7, RetrievalDoneResult DEF MainKnows, RetrievalDone, walk
  <2>8. ASSUME NEW w \in Worker, Retrieve(w)
        PROVE  node' \in Node /\ tm'.state[node'] = PENDING
    <3>1. node' = node /\ node \in Node /\ tm.state[node] = PENDING
      BY <1>1, <1>4, <2>8 DEF MainKnows, Retrieve, walk
    <3>2. Target(w) \in Range(worker[w].task) /\ Target(w) \in Node
          /\ Started(worker[w].task)
      BY <2>8, RetrieveResult, TaskInHand
    <3>3. tm.state[Target(w)] > PENDING
      BY <3>2, StartedIsClosed
    <3>4. Target(w) # node
      BY <3>1, <3>3
    <3>5. CASE tm'.state = [tm.state EXCEPT ![Target(w)] = EXECUTED]
      BY <1>1, <3>1, <3>4, <3>5, AttributesDef
    <3>6. CASE tm' = tm
      BY <3>1, <3>6
    <3>7. QED
      BY <2>8, <3>5, <3>6, RetrieveResult
  <2>9. QED
    BY <2>1, <2>2, <2>3, <2>4, <2>5, <2>6, <2>7, <2>8, StepsOfBuild
<1>5. ASSUME tm'.current_top = NoNode
      PROVE  tm'.candidates = <<>> /\ main' \notin {"look", "wait"} /\ jobs' = 0
  <2>1. tm.current_top = NoNode
    BY <1>1, <1>2, <1>5, BuildAssumption, AttributesDef
  <2>2. tm.candidates = <<>> /\ main \notin {"look", "wait"} /\ jobs = 0
    BY <1>1, <2>1 DEF MainKnows
  <2>3. tm'.candidates = <<>>
    BY <1>2, <1>5, <2>2
  <2>4. ~Consider
    BY <1>5, ConsiderResult, BuildAssumption
  <2>5. ~Collect
    BY <2>2, CollectResult, <1>1
  <2>6. QED
    BY <2>2, <2>3, <2>4, <2>5, StepsOfBuild, QuietSteps, WorkerStep
       DEF SkipFailed, SomeNotReady, WaitForThem, PreparationFails, NothingToDo, Dispatch,
           TaskFor, NoTask, CleanupPool, CleanupTaskmaster, Interrupt, Get, queues
<1>6. QED
  BY <1>3, <1>4, <1>5 DEF MainKnows, maxjobs

(* An executor that is done with is never taken up again.                  *)
LEMMA ClosedStays ==
    ASSUME BooksInv, Next, NEW n \in Node, Closed(n)
    PROVE  Closed(n)'
<1>1. /\ build \in Builds /\ build' = build
      /\ \A m \in Node : tm.state[m] > PENDING => tm'.state[m] > PENDING
  BY EngineType, TaskmasterAdvances DEF Advances
<1>2. Range(TargetsOf(n)) \subseteq Node
  BY <1>1, TargetsType
<1>3. QED
  BY <1>1, <1>2 DEF Closed, TargetsOf

(* No node is dispatched for the second time.                              *)
LEMMA StartsKept ==
    ASSUME BooksInv, Next
    PROVE  /\ StartedOnce'
           /\ \A n \in Node : starts[n] >= 1 => starts'[n] >= 1
<1>1. /\ build \in Builds /\ tm \in Attributes /\ starts \in [Node -> Nat]
      /\ StartedOnce /\ build' = build
      /\ \A n \in Node : tm.state[n] > PENDING => tm'.state[n] > PENDING
  BY TypesNow, EngineType, TaskmasterAdvances DEF BooksInv, Advances
<1>2. ASSUME NEW n \in Node, Closed(n) PROVE Closed(n)'
  BY <1>2, ClosedStays
<1>3. CASE starts' = starts
  BY <1>1, <1>2, <1>3 DEF StartedOnce
<1>4. ASSUME NEW n \in Node, Dispatch(n)
      PROVE  StartedOnce' /\ \A m \in Node : starts[m] >= 1 => starts'[m] >= 1
  <2> DEFINE ts == Range(TargetsOf(n))
  <2>1. TaskFor(n) /\ tm' = MakeReady(tm, n)
        /\ starts' = [m \in Node |-> IF m \in ts THEN starts[m] + 1 ELSE starts[m]]
    BY <1>4 DEF Dispatch
  <2>2. ts \subseteq Node /\ n \in ts /\ \A t \in ts : TargetsOf(t) = TargetsOf(n)
    BY <1>1, TargetsType
  <2>3. tm.state[n] = PENDING
    BY <2>1, TaskForResult
  <2>4. ASSUME NEW t \in ts PROVE starts[t] = 0
    <3>1. ~Closed(t)
      BY <2>2, <2>3, <2>4 DEF Closed
    <3>2. starts[t] \in Nat /\ ~(starts[t] >= 1)
      BY <1>1, <2>2, <3>1 DEF StartedOnce
    <3>3. QED
      BY <3>2
  <2>5. ASSUME NEW t \in ts PROVE Closed(t)'
    <3>1. \A u \in ts : tm'.state[u] > PENDING
      BY <2>1, ReadyAdvances
    <3>2. QED
      BY <1>1, <2>2, <3>1 DEF Closed, TargetsOf
  <2>6. ASSUME NEW m \in Node
        PROVE  /\ starts'[m] <= 1 /\ (starts'[m] >= 1 => Closed(m)')
               /\ starts[m] >= 1 => starts'[m] >= 1
    <3>1. CASE m \in ts
      BY <2>1, <2>4, <2>5, <3>1
    <3>2. CASE m \notin ts
      BY <1>1, <1>2, <2>1, <3>2 DEF StartedOnce
    <3>3. QED
      BY <3>1, <3>2
  <2>7. QED
    BY <2>6 DEF StartedOnce
<1>5. QED
  BY <1>3, <1>4, StepsOfBuild, QuietSteps, WorkerStep
     DEF Collect, CleanupPool, Get, history

(* Every step keeps that what is in the queues and with the workers was    *)
(* dispatched.                                                             *)
LEMMA TasksKept ==
    ASSUME BooksInv, Next
    PROVE  TasksStarted'
<1>1. /\ requestQueue \in Seq(Seq(Node)) /\ resultsQueue \in Seq(Record)
      /\ worker \in [Worker -> Threads] /\ build' = build /\ build \in Builds
      /\ starts \in [Node -> Nat] /\ maxjobs \in Nat
  BY TypesNow, TaskmasterAdvances, EngineType
<1> DEFINE Keeps1(ts) == /\ ts # None
                         /\ \A t \in Range(ts) : TargetsOf(t) = ts /\ starts'[t] >= 1
<1>2. ASSUME NEW ts \in Seq(Node), Started(ts) PROVE Keeps1(ts)
  <2>1. Range(ts) \subseteq Node
    BY EntriesOfList
  <2>2. QED
    BY <1>1, <1>2, <2>1, StartsKept DEF Started
<1>3. ASSUME \A i \in DOMAIN requestQueue' :
                 requestQueue'[i] # None => Keeps1(requestQueue'[i]),
             \A w \in Worker : worker'[w].task # None => Keeps1(worker'[w].task),
             \A i \in DOMAIN resultsQueue' : Keeps1(resultsQueue'[i].task)
      PROVE  TasksStarted'
  BY <1>1, <1>3 DEF TasksStarted, Started, TargetsOf
<1> HIDE DEF Keeps1
<1>4. \A i \in DOMAIN requestQueue :
          requestQueue[i] # None => Keeps1(requestQueue[i])
  BY <1>1, <1>2 DEF BooksInv, TasksStarted
<1>5. \A w \in Worker : worker[w].task # None => Keeps1(worker[w].task)
  BY <1>1, <1>2 DEF BooksInv, TasksStarted, Threads
<1>6. \A i \in DOMAIN resultsQueue : Keeps1(resultsQueue[i].task)
  <2>1. \A i \in DOMAIN resultsQueue : resultsQueue[i] \in Record
    BY <1>1
  <2>2. \A i \in DOMAIN resultsQueue : resultsQueue[i].task \in Seq(Node)
    BY <2>1 DEF Record
  <2>3. QED
    BY <1>2, <2>2 DEF BooksInv, TasksStarted
<1>7. CASE UNCHANGED <<queues, worker>>
  BY <1>3, <1>4, <1>5, <1>6, <1>7 DEF queues
<1>8. ASSUME NEW n \in Node, Dispatch(n) PROVE TasksStarted'
  <2>1. /\ requestQueue' = Append(requestQueue, TargetsOf(n))
        /\ UNCHANGED <<resultsQueue, worker>>
        /\ starts' = [m \in Node |-> IF m \in Range(TargetsOf(n))
                                     THEN starts[m] + 1 ELSE starts[m]]
    BY <1>8 DEF Dispatch, TaskFor
  <2>2. /\ TargetsOf(n) \in Seq(Node) /\ TargetsOf(n) # None
        /\ Range(TargetsOf(n)) \subseteq Node
        /\ \A t \in Range(TargetsOf(n)) : TargetsOf(t) = TargetsOf(n)
    BY <1>1, TargetsType
  <2>3. Keeps1(TargetsOf(n))
    BY <1>1, <2>1, <2>2 DEF Keeps1
  <2>4. \A i \in DOMAIN requestQueue' :
            requestQueue'[i] = TargetsOf(n)
            \/ (i \in DOMAIN requestQueue /\ requestQueue'[i] = requestQueue[i])
    BY <1>1, <2>1, <2>2, AppendedEntries
  <2>5. QED
    BY <1>3, <1>4, <1>5, <1>6, <2>1, <2>3, <2>4
<1>9. CASE Collect
  <2>1. /\ resultsQueue # <<>> /\ resultsQueue' = Tail(resultsQueue)
        /\ UNCHANGED <<requestQueue, worker>>
    BY <1>9 DEF Collect
  <2>2. \A i \in DOMAIN resultsQueue' :
            i + 1 \in DOMAIN resultsQueue /\ resultsQueue'[i] = resultsQueue[i + 1]
    BY <1>1, <2>1, FirstAndRest
  <2>3. QED
    BY <1>3, <1>4, <1>5, <1>6, <2>1, <2>2
<1>10. CASE CleanupPool
  <2>1. /\ requestQueue' = requestQueue \o [i \in 1 .. maxjobs |-> None]
        /\ UNCHANGED <<resultsQueue, worker>>
    BY <1>10 DEF CleanupPool
  <2>2. /\ Tasks(requestQueue') = Tasks(requestQueue)
        /\ \A i \in DOMAIN requestQueue : requestQueue'[i] = requestQueue[i]
    BY <1>1, <2>1, IdleType, TasksAfterSentinels
  <2>3. QED
    BY <1>3, <1>4, <1>5, <1>6, <2>1, <2>2 DEF Tasks
<1>11. ASSUME NEW w \in Worker, Get(w) PROVE TasksStarted'
  <2>1. /\ requestQueue # <<>> /\ requestQueue' = Tail(requestQueue)
        /\ \A v \in Worker \ {w} : worker'[v] = worker[v]
        /\ \/ worker'[w].task = None /\ resultsQueue' = resultsQueue
           \/ /\ Head(requestQueue) # None /\ worker' = worker
              /\ resultsQueue' =
                    Append(resultsQueue, Result(Head(requestQueue), "failed"))
           \/ /\ Head(requestQueue) # None
              /\ worker'[w].task = Head(requestQueue)
              /\ resultsQueue' = resultsQueue
    BY <1>11, GetResult
  <2>2. /\ \A i \in DOMAIN requestQueue' :
              i + 1 \in DOMAIN requestQueue /\ requestQueue'[i] = requestQueue[i + 1]
        /\ 1 \in DOMAIN requestQueue /\ Head(requestQueue) = requestQueue[1]
    BY <1>1, <2>1, FirstAndRest
  <2>3. Head(requestQueue) # None => Keeps1(Head(requestQueue))
    BY <1>4, <2>2
  <2>4. /\ Result(Head(requestQueue), "failed") \in Record
        /\ Result(Head(requestQueue), "failed").task = Head(requestQueue)
    BY <1>11, GetResult, ResultType
  <2>5. CASE resultsQueue' = resultsQueue
    BY <1>3, <1>4, <1>5, <1>6, <2>1, <2>2, <2>3, <2>5
  <2>6. CASE /\ Head(requestQueue) # None /\ worker' = worker
             /\ resultsQueue' =
                   Append(resultsQueue, Result(Head(requestQueue), "failed"))
    <3>1. \A i \in DOMAIN resultsQueue' :
              resultsQueue'[i].task = Head(requestQueue)
              \/ (i \in DOMAIN resultsQueue /\ resultsQueue'[i] = resultsQueue[i])
      <4> DEFINE x == Result(Head(requestQueue), "failed")
      <4> HIDE DEF x
      <4>0. x \in Record /\ x.task = Head(requestQueue) /\ resultsQueue' = Append(resultsQueue, x)
        BY <2>4, <2>6 DEF x
      <4>1. \A i \in DOMAIN resultsQueue' :
                resultsQueue'[i] = x
                \/ (i \in DOMAIN resultsQueue /\ resultsQueue'[i] = resultsQueue[i])
        BY <1>1, <4>0, AppendedEntries
      <4>2. QED
        BY <4>0, <4>1
    <3>2. QED
      BY <1>3, <1>4, <1>5, <1>6, <2>1, <2>2, <2>3, <2>6, <3>1
  <2>7. QED
    BY <2>1, <2>5, <2>6
<1>12. ASSUME NEW w \in Worker, Retrieve(w) \/ RetrievalDone(w) \/ BuildTargets(w)
       PROVE  TasksStarted'
  <2>1. /\ worker[w].task # None /\ requestQueue' = requestQueue
        /\ Keeps(w) \/ Puts(w)
    BY <1>12, WorkerStep
  <2>2. CASE Keeps(w)
    BY <1>3, <1>4, <1>5, <1>6, <2>1, <2>2 DEF Keeps
  <2>3. CASE Puts(w)
    <3>1. PICK r \in Record : r.task = worker[w].task /\ resultsQueue' = Append(resultsQueue, r)
      BY <2>3 DEF Puts
    <3>2. \A i \in DOMAIN resultsQueue' :
              resultsQueue'[i].task = worker[w].task
              \/ (i \in DOMAIN resultsQueue /\ resultsQueue'[i] = resultsQueue[i])
      <4>1. \A i \in DOMAIN resultsQueue' :
                resultsQueue'[i] = r
                \/ (i \in DOMAIN resultsQueue /\ resultsQueue'[i] = resultsQueue[i])
        BY <1>1, <3>1, AppendedEntries
      <4>2. QED
        BY <3>1, <4>1
    <3>3. \A v \in Worker : worker'[v].task # None => worker'[v] = worker[v]
      BY <2>3 DEF Puts, Idle
    <3>4. QED
      BY <1>3, <1>4, <1>5, <1>6, <2>1, <3>2, <3>3
  <2>4. QED
    BY <2>1, <2>2, <2>3
<1>13. QED
  BY <1>7, <1>8, <1>9, <1>10, <1>11, <1>12, StepsOfBuild, QuietSteps

-----------------------------------------------------------------------------

(* The books are exact at the start.                                       *)
LEMMA BooksInit == Init => BooksInv
<1> SUFFICES ASSUME Init PROVE BooksInv
  OBVIOUS
<1>1. build \in Builds /\ build.tops \in Seq(Node) /\ build.cached \subseteq Node
  BY BuildType DEF Init, TaskmasterInit
<1> DEFINE empty == <<>>
           left == Reverse(build.tops)
<1>2. empty \in Seq(Node) /\ empty \in Seq(Seq(Node)) /\ empty \in Seq(Record)
      /\ DOMAIN empty = {} /\ Len(empty) = 0 /\ empty = None
  BY DEF None
<1>3. left \in Seq(Node)
  BY <1>1 DEF Reverse
<1>4. tm = [state |-> [n \in Node |-> NO_STATE], ref_count |-> [n \in Node |-> 0],
            waiting_parents |-> [n \in Node |-> {}],
            implicit |-> [n \in Node |-> "none"],
            candidates |-> empty, top_targets_left |-> left, current_top |-> NoNode,
            pending_children |-> {}, next_candidate |-> "find"]
  BY DEF Init, TaskmasterInit
<1>5. /\ requestQueue = empty /\ resultsQueue = empty /\ jobs = 0 /\ main = "fill"
      /\ node = NoNode /\ children_not_ready = {} /\ worker = [w \in Worker |-> Idle]
      /\ cache = build.cached /\ count = 0 /\ starts = [n \in Node |-> 0]
      /\ retrieved = {}
  BY DEF Init
<1> HIDE DEF empty, left
<1>6. tm \in Attributes
  BY <1>2, <1>3, <1>4 DEF Attributes
<1>7. maxjobs \in Nat /\ maxjobs > 0
  BY WorkerAssumption, FS_CardinalityType, FS_EmptySet DEF maxjobs
<1>8. EngineTypes
  <2>1. worker \in [Worker -> Threads] /\ \A w \in Worker : worker[w].phase \in Phases
    BY <1>5, IdleType DEF Idle, Phases
  <2>2. TypeOK
    BY <1>1, <1>5, <1>6, <1>7, <2>1, CacheAssumption DEF TypeOK, Steps, Phases
  <2>3. QED
    BY <1>2, <1>5, <2>1, <2>2 DEF EngineTypes, Record, Threads
<1>9. RefCountsAgree
  <2>1. ASSUME NEW p \in Node
        PROVE  tm.ref_count[p] = Cardinality({n \in Node : p \in tm.waiting_parents[n]})
    <3>1. {n \in Node : p \in tm.waiting_parents[n]} = {} /\ tm.ref_count[p] = 0
      BY <1>4
    <3>2. QED
      BY <3>1, FS_EmptySet, Zenon
  <2>2. QED
    BY <2>1 DEF RefCountsAgree
<1>10. JobsAgree
  <2>1. Tasks(requestQueue) = {} /\ Busy = {} /\ Len(resultsQueue) = 0
    BY <1>2, <1>5 DEF Tasks, Busy, Idle
  <2>2. Cardinality(Tasks(requestQueue)) = 0 /\ Cardinality(Busy) = 0
    BY <2>1, FS_EmptySet, Zenon
  <2>3. QED
    BY <1>5, <2>1, <2>2, JobsNow
<1>11. MainKnows
  BY <1>2, <1>4, <1>5, <1>7 DEF MainKnows, empty
<1>12. WorkersKnow
  BY <1>5 DEF WorkersKnow, Idle
<1>13. TasksStarted
  BY <1>2, <1>5 DEF TasksStarted, Idle
<1>14. StartedOnce
  BY <1>5 DEF StartedOnce
<1>15. QED
  BY <1>8, <1>9, <1>10, <1>11, <1>12, <1>13, <1>14 DEF BooksInv

(* Every step keeps the books exact.                                       *)
LEMMA BooksStep == BooksInv /\ [Next]_vars => BooksInv'
<1>1. ASSUME BooksInv, Next PROVE BooksInv'
  <2>1. RefCountsAgree'
    BY <1>1, TaskmasterAdvances DEF Advances, Agree, RefCountsAgree
  <2>2. QED
    BY <1>1, <2>1, TypesKept, JobsKept, MainKept, WorkersKept, TasksKept,
       StartsKept
       DEF BooksInv
<1>2. ASSUME BooksInv, UNCHANGED vars PROVE BooksInv'
  <2>1. UNCHANGED <<build, tm, main, node, children_not_ready, jobs, requestQueue,
                    resultsQueue, worker, cache, count, starts, retrieved>>
    BY <1>2 DEF vars, walk, queues, store, history
  <2>2. (EngineTypes /\ RefCountsAgree /\ JobsAgree)'
    BY <1>2, <2>1 DEF BooksInv, EngineTypes, TypeOK, RefCountsAgree, JobsAgree
  <2>3. (MainKnows /\ WorkersKnow /\ TasksStarted /\ StartedOnce)'
    BY <1>2, <2>1
       DEF BooksInv, MainKnows, WorkersKnow, TasksStarted, Started, StartedOnce, Closed,
           TargetsOf
  <2>4. QED
    BY <2>2, <2>3 DEF BooksInv
<1>3. QED
  BY <1>1, <1>2

(* The inductive invariant of the books holds in every build.              *)
THEOREM BooksInvariance == Spec => []BooksInv
BY BooksInit, BooksStep, PTL DEF Spec

(* The books of the build are exact, whatever fails and whoever interrupts *)
(* it: ref_count of a node counts the children it is registered with, also *)
(* after will_not_build() and the postprocess() of current_top, and jobs   *)
(* counts the tasks in the queues and with the workers.                    *)
THEOREM BooksAreExact == Spec => []EngineInv
<1>1. BooksInv => EngineInv
  BY DEF BooksInv, EngineTypes, EngineInv
<1>2. QED
  BY <1>1, BooksInvariance, PTL

(* No node is dispatched twice, however often it is put on the stack of    *)
(* candidates.                                                             *)
THEOREM NoNodeIsDispatchedTwice == Spec => []OncePerBuild
<1>1. BooksInv => OncePerBuild
  BY DEF BooksInv, StartedOnce, OncePerBuild
<1>2. QED
  BY <1>1, BooksInvariance, PTL

-----------------------------------------------------------------------------
(* What was got from the cache.                                            *)

(* The least set, as an assumption on any other.                           *)
LEMMA ClosureDef ==
    ASSUME NEW n, NEW k
    PROVE  k \in Closure(Sources(n), Sources) <=>
               /\ k \in Node
               /\ \A D \in SUBSET Node :
                     (Sources(n) \subseteq D /\ \A m \in D : Sources(m) \subseteq D)
                         => k \in D
BY DEF Closure

(* What needs a retrieved or a tainted node is tainted.                    *)
LEMMA TaintedBySource ==
    ASSUME build \in Builds, NEW n \in Node, NEW k \in Sources(n),
           k \in retrieved \/ Tainted(k)
    PROVE  Tainted(n)
<1>1. k \in Node
  BY ChildrenType
<1>2. CASE k \in retrieved
  BY <1>1, <1>2, ClosureDef DEF Tainted
<1>3. CASE Tainted(k)
  <2>1. PICK r \in retrieved : r \in Closure(Sources(k), Sources)
    BY <1>3 DEF Tainted
  <2>2. r \in Closure(Sources(n), Sources)
    BY <1>1, <2>1, ClosureDef
  <2>3. QED
    BY <2>1, <2>2 DEF Tainted
<1>4. QED
  BY <1>2, <1>3

(* The targets of an executor share their sources.                         *)
LEMMA TargetsShare ==
    ASSUME build \in Builds, NEW n \in Node, NEW t \in Range(TargetsOf(n))
    PROVE  /\ t \in Node /\ TargetsOf(t) = TargetsOf(n) /\ n \in Range(TargetsOf(t))
           /\ Sources(t) = Sources(n) /\ build.kids[t] = build.kids[n]
           /\ build.late[t] = build.late[n]
           /\ Tainted(t) <=> Tainted(n)
           /\ Closed(t) <=> Closed(n)
<1>1. /\ t \in Node /\ TargetsOf(t) = TargetsOf(n) /\ n \in Range(TargetsOf(n))
      /\ build.kids[t] = build.kids[n] /\ build.late[t] = build.late[n]
  BY TargetsType, BuildType DEF TargetsOf
<1>2. Sources(t) = Sources(n)
  BY <1>1, Zenon DEF Sources
<1>3. Tainted(t) <=> Tainted(n)
  BY <1>2, Zenon DEF Tainted
<1>4. QED
  BY <1>1, <1>2, <1>3 DEF Closed

(* Nothing is ever cleared of its taint.                                   *)
LEMMA TaintStays ==
    ASSUME build' = build, retrieved \subseteq retrieved', NEW n, Tainted(n)
    PROVE  Tainted(n)'
<1>1. Closure(Sources(n), Sources)' = Closure(Sources(n), Sources)
  BY DEF Closure, Sources
<1>2. QED
  BY <1>1 DEF Tainted

(* A retrieval taints whatever has the target for a source.                *)
LEMMA TaintedByRetrieval ==
    ASSUME build \in Builds, build' = build, NEW n \in Node,
           NEW k \in Sources(n),
           k \in retrieved'
    PROVE  Tainted(n)'
<1>1. k \in Node
  BY ChildrenType
<1>2. k \in Closure(Sources(n), Sources)
  BY <1>1, ClosureDef
<1>3. Closure(Sources(n), Sources)' = Closure(Sources(n), Sources)
  BY DEF Closure, Sources
<1>4. QED
  BY <1>2, <1>3 DEF Tainted

(* will_not_build reaches a node through one that it waits for.            *)
LEMMA DoomedReason ==
    ASSUME NEW s \in Attributes, NEW ns \in SUBSET Node,
           NEW n \in Doomed(s, ns)
    PROVE  n \in ns \/ \E x \in Doomed(s, ns) : n \in s.waiting_parents[x]
<1> SUFFICES ASSUME n \notin ns, \A x \in Doomed(s, ns) : n \notin s.waiting_parents[x]
             PROVE  FALSE
  OBVIOUS
<1> DEFINE D == Doomed(s, ns)
           E == D \ {n}
<1>1. \A m : m \in D <=> /\ m \in Node
                         /\ \A C \in SUBSET Node :
                               (ns \subseteq C /\ ParentsOf(s, C) \subseteq C) => m \in C
  BY DEF Doomed
<1>2. ns \subseteq E
  BY <1>1
<1>3. ParentsOf(s, E) \subseteq E
  <2>1. SUFFICES ASSUME NEW x \in E, NEW p \in s.waiting_parents[x] PROVE p \in E
    BY DEF ParentsOf
  <2>2. p \in Node /\ x \in Node
    BY <1>1, AttributesDef
  <2>3. ASSUME NEW C \in SUBSET Node, ns \subseteq C, ParentsOf(s, C) \subseteq C
        PROVE  p \in C
    <3>1. x \in C
      BY <1>1, <2>1, <2>3
    <3>2. QED
      BY <2>3, <3>1 DEF ParentsOf
  <2>4. p \in D
    BY <1>1, <2>2, <2>3
  <2>5. p # n
    BY <2>1
  <2>6. QED
    BY <2>4, <2>5
<1>4. E \in SUBSET Node
  BY <1>1
<1>5. n \in D
  OBVIOUS
<1> HIDE DEF D
<1>6. QED
  BY <1>1, <1>2, <1>3, <1>4, <1>5

(* will_not_build() fails the nodes it is called for.                      *)
LEMMA DoomedHas ==
    ASSUME NEW s, NEW ns \in SUBSET Node
    PROVE  ns \subseteq Doomed(s, ns)
BY DEF Doomed

-----------------------------------------------------------------------------
(* Where tasks are.                                                        *)

(* What is in flight was dispatched, with all targets of its executor.     *)
LEMMA FlightIsClosed ==
    ASSUME BooksInv, NEW n \in Node, InFlight(n)
    PROVE  Closed(n) /\ starts[n] >= 1 /\ tm.state[n] > PENDING
<1>1. \E ts : Started(ts) /\ n \in Range(ts)
  <2>1. CASE Queued(n) # {}
    <3>1. PICK i \in DOMAIN requestQueue : n \in Range(requestQueue[i])
      BY <2>1 DEF Queued
    <3>2. requestQueue[i] # None
      BY <3>1 DEF None, Range
    <3>3. QED
      BY <3>1, <3>2 DEF BooksInv, TasksStarted
  <2>2. CASE Held(n) # {}
    <3>1. PICK w \in Worker : n \in Range(worker[w].task)
      BY <2>2 DEF Held
    <3>2. worker[w].task # None
      BY <3>1 DEF None, Range
    <3>3. QED
      BY <3>1, <3>2 DEF BooksInv, TasksStarted
  <2>3. CASE Returned(n) # {}
    BY <2>3 DEF Returned, BooksInv, TasksStarted
  <2>4. QED
    BY <2>1, <2>2, <2>3 DEF InFlight
<1>2. PICK ts : Started(ts) /\ n \in Range(ts)
  BY <1>1
<1>3. QED
  BY <1>2, StartedIsClosed DEF Started

(* The task of an executor that has not been dispatched is nowhere.        *)
LEMMA PendingNotInFlight ==
    ASSUME BooksInv, NEW n \in Node, TaskFor(n), NEW t \in Range(TargetsOf(n))
    PROVE  ~InFlight(t) /\ ~Closed(t)
<1>1. t \in Node /\ n \in Range(TargetsOf(t))
  BY EngineType, TargetsShare
<1>2. tm.state[n] = PENDING
  BY TaskForResult
<1>3. ~Closed(t)
  BY <1>1, <1>2 DEF Closed
<1>4. QED
  BY <1>1, <1>3, FlightIsClosed

(* InOnePlace, for one node.                                               *)
Apart(n) ==
    /\ \A i, j \in Queued(n) : i = j
    /\ \A v, w \in Held(n) : v = w
    /\ \A i, j \in Returned(n) : i = j
    /\ Held(n) # {} => Queued(n) = {}
    /\ Returned(n) # {} => Queued(n) = {} /\ Held(n) = {}

(* A task is in one place, also when it goes from one to the next.         *)
LEMMA FlightKept ==
    ASSUME BooksInv, InOnePlace, Next, NEW n \in Node
    PROVE  /\ Apart(n)'
           /\ InFlight(n)' =>
                 InFlight(n) \/ \E m \in Node : Dispatch(m) /\ n \in Range(TargetsOf(m))
           /\ Collect /\ n \in Range(Head(resultsQueue).task) =>
                 InFlight(n) /\ ~InFlight(n)'
<1>1. /\ requestQueue \in Seq(Seq(Node)) /\ resultsQueue \in Seq(Record)
      /\ worker \in [Worker -> Threads] /\ build \in Builds /\ maxjobs \in Nat
  BY TypesNow, EngineType
<1>2. Apart(n)
  BY DEF InOnePlace, Apart
<1>3. worker' = worker => Held(n)' = Held(n)
  BY DEF Held
<1>4. requestQueue' = requestQueue => Queued(n)' = Queued(n)
  BY DEF Queued
<1>5. resultsQueue' = resultsQueue => Returned(n)' = Returned(n)
  BY DEF Returned
<1>6. /\ Apart(n)' <=>
            /\ \A i, j \in Queued(n)' : i = j
            /\ \A v, w \in Held(n)' : v = w
            /\ \A i, j \in Returned(n)' : i = j
            /\ Held(n)' # {} => Queued(n)' = {}
            /\ Returned(n)' # {} => Queued(n)' = {} /\ Held(n)' = {}
      /\ InFlight(n)' <=> Queued(n)' # {} \/ Held(n)' # {} \/ Returned(n)' # {}
  BY DEF Apart, InFlight
<1>7. CASE UNCHANGED <<queues, worker>> /\ ~Collect
  BY <1>2, <1>3, <1>4, <1>5, <1>6, <1>7 DEF queues, Apart, InFlight
<1>8. ASSUME NEW m \in Node, Dispatch(m)
      PROVE  /\ Apart(n)'
             /\ InFlight(n)' => InFlight(n) \/ n \in Range(TargetsOf(m))
             /\ ~Collect
  <2>1. /\ requestQueue' = Append(requestQueue, TargetsOf(m))
        /\ UNCHANGED <<resultsQueue, worker>> /\ TaskFor(m) /\ main = "look"
    BY <1>8 DEF Dispatch, TaskFor
  <2>2. TargetsOf(m) \in Seq(Node)
    BY <1>1, TargetsType
  <2>3. \A i \in Queued(n)' :
            i \in Queued(n) \/ (i = Len(requestQueue) + 1 /\ n \in Range(TargetsOf(m)))
    BY <1>1, <2>1, <2>2, Appended DEF Queued
  <2>4. ~Collect
    BY <2>1 DEF Collect
  <2>5. CASE n \in Range(TargetsOf(m))
    <3>1. ~InFlight(n)
      BY <2>1, <2>5, PendingNotInFlight
    <3>2. Queued(n) = {} /\ Held(n)' = {} /\ Returned(n)' = {}
      BY <1>3, <1>5, <2>1, <3>1 DEF InFlight
    <3>3. QED
      BY <1>6, <2>3, <2>4, <2>5, <3>2
  <2>6. CASE n \notin Range(TargetsOf(m))
    <3>1. Queued(n)' \subseteq Queued(n)
      BY <2>3, <2>6
    <3>2. QED
      BY <1>2, <1>3, <1>5, <1>6, <2>1, <2>4, <3>1 DEF Apart, InFlight
  <2>7. QED
    BY <2>5, <2>6
<1>9. CASE Collect
  <2>1. /\ resultsQueue # <<>> /\ resultsQueue' = Tail(resultsQueue)
        /\ UNCHANGED <<requestQueue, worker>>
    BY <1>9 DEF Collect
  <2>2. \A i \in Returned(n)' : i \in Nat /\ i >= 1 /\ i + 1 \in Returned(n)
    BY <1>1, <2>1, FirstAndRest DEF Returned
  <2>3. n \in Range(Head(resultsQueue).task) => 1 \in Returned(n)
    BY <1>1, <2>1, FirstAndRest DEF Returned
  <2>4. \A i, j \in Returned(n)' : i = j
    <3>1. ASSUME NEW i \in Returned(n)', NEW j \in Returned(n)' PROVE i = j
      <4>1. i \in Nat /\ j \in Nat /\ i + 1 = j + 1
        BY <1>2, <2>2, <3>1 DEF Apart
      <4>2. QED
        BY <4>1
    <3>2. QED
      BY <3>1
  <2>5. 1 \in Returned(n) => Returned(n)' = {} /\ Queued(n) = {} /\ Held(n) = {}
    <3>1. ASSUME 1 \in Returned(n), NEW i \in Returned(n)' PROVE FALSE
      <4>1. i \in Nat /\ i >= 1 /\ i + 1 = 1
        BY <1>2, <2>2, <3>1 DEF Apart
      <4>2. QED
        BY <4>1
    <3>2. QED
      BY <1>2, <3>1 DEF Apart
  <2>6. Queued(n)' = Queued(n) /\ Held(n)' = Held(n)
    BY <1>3, <1>4, <2>1
  <2>7. Returned(n)' # {} => Returned(n) # {}
    BY <2>2
  <2>8. QED
    BY <1>2, <1>6, <2>3, <2>4, <2>5, <2>6, <2>7 DEF Apart, InFlight
<1>10. CASE CleanupPool
  <2>1. /\ requestQueue' = requestQueue \o [i \in 1 .. maxjobs |-> None]
        /\ UNCHANGED <<resultsQueue, worker>> /\ main = "cleanup"
    BY <1>10 DEF CleanupPool
  <2>2. /\ Tasks(requestQueue') = Tasks(requestQueue)
        /\ \A i \in DOMAIN requestQueue : requestQueue'[i] = requestQueue[i]
    BY <1>1, <2>1, IdleType, TasksAfterSentinels
  <2>3. ASSUME NEW i \in Queued(n)' PROVE i \in Queued(n)
    <3>1. i \in DOMAIN requestQueue' /\ n \in Range(requestQueue'[i])
      BY <2>3 DEF Queued
    <3>2. requestQueue'[i] # None
      BY <3>1 DEF None, Range
    <3>3. i \in DOMAIN requestQueue
      BY <2>2, <3>1, <3>2 DEF Tasks
    <3>4. QED
      BY <2>2, <3>1, <3>3 DEF Queued
  <2>4. ~Collect
    BY <2>1 DEF Collect
  <2>5. QED
    BY <1>2, <1>3, <1>5, <1>6, <2>1, <2>3, <2>4 DEF Apart, InFlight
<1>11. ASSUME NEW w \in Worker, Get(w)
       PROVE  Apart(n)' /\ (InFlight(n)' => InFlight(n))
  <2>1. /\ requestQueue # <<>> /\ requestQueue' = Tail(requestQueue)
        /\ worker[w].task = None
        /\ \A v \in Worker \ {w} : worker'[v] = worker[v]
        /\ \/ worker'[w].task = None /\ resultsQueue' = resultsQueue
           \/ /\ worker' = worker
              /\ resultsQueue' =
                    Append(resultsQueue, Result(Head(requestQueue), "failed"))
           \/ /\ worker'[w].task = Head(requestQueue)
              /\ resultsQueue' = resultsQueue
    BY <1>11, GetResult
  <2>2. /\ Result(Head(requestQueue), "failed") \in Record
        /\ Result(Head(requestQueue), "failed").task = Head(requestQueue)
    BY <1>11, GetResult, ResultType
  <2>3. \A i \in Queued(n)' : i \in Nat /\ i >= 1 /\ i + 1 \in Queued(n)
    BY <1>1, <2>1, FirstAndRest DEF Queued
  <2>4. n \in Range(Head(requestQueue)) => 1 \in Queued(n)
    BY <1>1, <2>1, FirstAndRest DEF Queued
  <2>5. \A i, j \in Queued(n)' : i = j
    <3>1. ASSUME NEW i \in Queued(n)', NEW j \in Queued(n)' PROVE i = j
      <4>1. i \in Nat /\ j \in Nat /\ i + 1 = j + 1
        BY <1>2, <2>3, <3>1 DEF Apart
      <4>2. QED
        BY <4>1
    <3>2. QED
      BY <3>1
  <2>6. 1 \in Queued(n) => Queued(n)' = {} /\ Held(n) = {} /\ Returned(n) = {}
    <3>1. ASSUME 1 \in Queued(n), NEW i \in Queued(n)' PROVE FALSE
      <4>1. i \in Nat /\ i >= 1 /\ i + 1 = 1
        BY <1>2, <2>3, <3>1 DEF Apart
      <4>2. QED
        BY <4>1
    <3>2. QED
      BY <1>2, <3>1 DEF Apart
  <2>7. Queued(n)' # {} => Queued(n) # {}
    BY <2>3
  <2>8. n \notin Range(None)
    BY DEF None, Range
  <2>9. CASE worker'[w].task = None /\ resultsQueue' = resultsQueue
    <3>1. Held(n)' = Held(n)
      BY <2>1, <2>8, <2>9 DEF Held
    <3>2. QED
      BY <1>2, <1>5, <1>6, <2>5, <2>7, <2>9, <3>1 DEF Apart, InFlight
  <2>10. CASE /\ worker' = worker
              /\ resultsQueue' =
                    Append(resultsQueue, Result(Head(requestQueue), "failed"))
    <3>1. \A i \in Returned(n)' :
              \/ i \in Returned(n)
              \/ i = Len(resultsQueue) + 1 /\ n \in Range(Head(requestQueue))
      <4> DEFINE x == Result(Head(requestQueue), "failed")
      <4> HIDE DEF x
      <4>1. /\ x \in Record /\ x.task = Head(requestQueue)
            /\ resultsQueue' = Append(resultsQueue, x)
        BY <2>2, <2>10 DEF x
      <4>2. QED
        BY <1>1, <4>1, Appended DEF Returned
    <3>2. QED
      BY <1>2, <1>3, <1>6, <2>4, <2>5, <2>6, <2>7, <2>10, <3>1
         DEF Apart, InFlight
  <2>11. CASE worker'[w].task = Head(requestQueue) /\ resultsQueue' = resultsQueue
    <3>1. \A v \in Held(n)' :
              v \in Held(n) \/ (v = w /\ n \in Range(Head(requestQueue)))
      BY <2>1, <2>11 DEF Held
    <3>2. QED
      BY <1>2, <1>5, <1>6, <2>4, <2>5, <2>6, <2>7, <2>11, <3>1
         DEF Apart, InFlight
  <2>12. QED
    BY <2>1, <2>9, <2>10, <2>11
<1>12. ASSUME NEW w \in Worker, Retrieve(w) \/ RetrievalDone(w) \/ BuildTargets(w)
       PROVE  Apart(n)' /\ (InFlight(n)' => InFlight(n))
  <2>1. requestQueue' = requestQueue /\ (Keeps(w) \/ Puts(w))
    BY <1>12, WorkerStep
  <2>2. CASE Keeps(w)
    <3>1. Held(n)' = Held(n) /\ resultsQueue' = resultsQueue
      BY <2>2 DEF Held, Keeps
    <3>2. QED
      BY <1>2, <1>4, <1>5, <1>6, <2>1, <3>1 DEF Apart, InFlight
  <2>3. CASE Puts(w)
    <3>1. PICK r \in Record :
              r.task = worker[w].task /\ resultsQueue' = Append(resultsQueue, r)
      BY <2>3 DEF Puts
    <3>2. \A i \in Returned(n)' :
              i \in Returned(n) \/ (i = Len(resultsQueue) + 1 /\ w \in Held(n))
      BY <1>1, <3>1, Appended DEF Returned, Held
    <3>3. Held(n)' = Held(n) \ {w}
      <4>1. n \notin Range(Idle.task)
        BY DEF Idle, None, Range
      <4>2. QED
        BY <2>3, <4>1 DEF Held, Puts
    <3>4. QED
      BY <1>2, <1>4, <1>6, <2>1, <3>2, <3>3 DEF Apart, InFlight
  <2>4. QED
    BY <2>1, <2>2, <2>3
<1>13. QED
  <2>1. CASE ~Collect
    BY <1>7, <1>8, <1>10, <1>11, <1>12, <2>1, StepsOfBuild, QuietSteps
  <2>2. QED
    BY <1>9, <2>1

-----------------------------------------------------------------------------
(* What a step does to a node.                                             *)

(* All that a node of the executor that is looked at needs is finished.    *)
SourcesDone(n) ==
    /\ main = "look" /\ node \in Range(TargetsOf(n))
    /\ \A k \in Range(Children(tm, n)) : tm.state[k] \in Finished

Moves(n) ==
    \/ tm'.state[n] = tm.state[n]
    \/ tm.state[n] <= PENDING /\ tm'.state[n] = PENDING
    \/ /\ main = "look" /\ ~Closed(n) /\ Closed(n)'
       /\ \/ tm'.state[n] = FAILED
          \/ /\ SourcesDone(n)
             /\ \/ tm'.state[n] = EXECUTING
                \/ /\ tm'.state[n] = UP_TO_DATE
                   /\ tm'.waiting_parents[n] = {}
                   /\ n \notin build.derived \ build.current
    \/ /\ main \in {"look", "collect"} /\ tm'.state[n] = FAILED
       /\ \E x \in Node : n \in tm.waiting_parents[x] /\ tm'.state[x] = FAILED
    \/ /\ main = "collect" /\ InFlight(n) /\ ~InFlight(n)'
       /\ \/ tm'.state[n] = FAILED
          \/ /\ tm.state[n] = EXECUTING /\ tm'.state[n] = EXECUTED
             /\ tm'.waiting_parents[n] = {}
    \/ InFlight(n) /\ tm'.state[n] = EXECUTED /\ n \in retrieved'

(* A node that is registered with a child, or no longer.                   *)
Registers(k, p) ==
    /\ main = "wait" /\ p = node /\ k \in children_not_ready
    /\ tm'.state = tm.state

Forgets(k, p) ==
    \/ tm'.next_candidate = "no"
    \/ tm'.state[k] = FAILED
    \/ tm'.implicit[p] = "none"
    \/ k \notin build.derived \ build.current
    \/ tm.state[k] = EXECUTED

Rescans(n) ==
    \/ tm'.implicit[n] = tm.implicit[n]
    \/ tm'.implicit[n] = "none" /\ (main = "collect" \/ Tainted(n))
    \/ main = "fill" /\ main' = "look" /\ node' \in Range(TargetsOf(n))

Moved ==
    /\ build' = build /\ retrieved \subseteq retrieved'
    /\ tm.next_candidate = "no" => tm'.next_candidate = "no"
    /\ \A n \in Node : Moves(n) /\ Rescans(n)
    /\ \A k \in Node : \A p \in tm'.waiting_parents[k] :
          p \in tm.waiting_parents[k] \/ Registers(k, p)
    /\ \A k \in Node : \A p \in tm.waiting_parents[k] :
          p \in tm'.waiting_parents[k] \/ Forgets(k, p)

(* Most steps change one thing.                                            *)
LEMMA SameStates ==
    ASSUME BooksInv, Next, retrieved \subseteq retrieved',
           tm'.state = tm.state, tm'.waiting_parents = tm.waiting_parents,
           tm'.next_candidate = tm.next_candidate \/ tm'.next_candidate = "no",
           \A n \in Node : \/ tm'.implicit[n] = tm.implicit[n]
                           \/ tm'.implicit[n] = "none" /\ Tainted(n)
    PROVE  Moved
BY TaskmasterAdvances DEF Moved, Moves, Rescans

(* Consider takes a node that was not done with, and scans it.             *)
LEMMA ConsiderMoves ==
    ASSUME BooksInv, Next, Consider
    PROVE  Moved
<1>1. tm \in Attributes /\ build \in Builds /\ retrieved' = retrieved
  BY EngineType DEF Consider, history
<1>2. CASE tm'.state = tm.state /\ tm'.implicit = tm.implicit
  BY <1>1, <1>2, SameStates, ConsiderResult
<1>3. CASE /\ node' \in Node /\ tm.state[node'] <= PENDING /\ main' = "look"
           /\ tm'.state = [tm.state EXCEPT ![node'] = PENDING]
           /\ \E s \in Attributes :
                 /\ tm' = Scan(s, node') /\ s.implicit = tm.implicit
                 /\ s.state = tm'.state
  <2>1. \A n \in Node : Moves(n)
    BY <1>1, <1>3, AttributesDef DEF Moves
  <2>2. ASSUME NEW n \in Node PROVE Rescans(n)
    <3>1. PICK s \in Attributes : tm' = Scan(s, node') /\ s.implicit = tm.implicit
      BY <1>3
    <3>2. CASE n \in Range(TargetsOf(node'))
      BY <1>1, <1>3, <3>2, TargetsShare DEF Rescans, Consider
    <3>3. CASE n \notin Range(TargetsOf(node'))
      <4>1. tm'.implicit[n] = s.implicit[n]
        BY <3>1, <3>3 DEF Scan, Attributes
      <4>2. QED
        BY <3>1, <4>1 DEF Rescans
    <3>4. QED
      BY <3>2, <3>3
  <2>3. QED
    BY <1>1, <2>1, <2>2, ConsiderResult, TaskmasterAdvances DEF Moved
<1>4. QED
  BY <1>2, <1>3, ConsiderResult

(* SkipFailed fails nodes that are not done with, for a source that        *)
(* failed.                                                                 *)
LEMMA SkipFailedMoves ==
    ASSUME BooksInv, Next, SkipFailed
    PROVE  Moved
<1>1. /\ tm \in Attributes /\ build \in Builds /\ retrieved' = retrieved
      /\ node \in Node /\ tm.state[node] = PENDING /\ build' = build /\ main = "look"
  BY EngineType DEF SkipFailed, history
<1>2. /\ tm'.state = StatesAfterChildFailed(tm, node) /\ tm'.implicit = tm.implicit
      /\ tm'.waiting_parents = tm.waiting_parents
      /\ tm'.next_candidate = tm.next_candidate
  BY SkipFailedResult
<1>3. ASSUME NEW n \in Node PROVE Moves(n)
  <2>1. CASE n \notin Range(TargetsOf(node))
    BY <1>2, <2>1 DEF Moves, StatesAfterChildFailed
  <2>2. CASE n \in Range(TargetsOf(node))
    <3>1. TargetsOf(n) = TargetsOf(node) /\ Range(TargetsOf(n)) \subseteq Node
          /\ node \in Range(TargetsOf(n))
      BY <1>1, <2>2, TargetsShare, TargetsType
    <3>2. ~Closed(n)
      BY <1>1, <3>1 DEF Closed
    <3>3. Closed(n)'
      BY <1>1, <1>2, <3>1 DEF Closed, StatesAfterChildFailed, TargetsOf
    <3>4. tm'.state[n] = FAILED
      BY <1>2, <2>2 DEF StatesAfterChildFailed
    <3>5. QED
      BY <1>1, <3>2, <3>3, <3>4 DEF Moves
  <2>3. QED
    BY <2>1, <2>2
<1>4. QED
  BY <1>1, <1>2, <1>3 DEF Moved, Rescans

(* WaitForThem registers the candidate, and nobody else.                   *)
LEMMA WaitForThemMoves ==
    ASSUME BooksInv, Next, WaitForThem
    PROVE  Moved
<1>1. retrieved' = retrieved /\ main = "wait" /\ build' = build
  BY DEF WaitForThem, history
<1>2. /\ tm'.state = tm.state /\ tm'.implicit = tm.implicit
      /\ tm'.waiting_parents = [k \in Node |-> IF k \in children_not_ready
                                               THEN tm.waiting_parents[k] \cup {node}
                                               ELSE tm.waiting_parents[k]]
      /\ tm'.next_candidate = tm.next_candidate
  BY WaitForThemResult
<1>3. ASSUME NEW k \in Node
      PROVE  /\ \A p \in tm'.waiting_parents[k] :
                   p \in tm.waiting_parents[k] \/ Registers(k, p)
             /\ tm.waiting_parents[k] \subseteq tm'.waiting_parents[k]
  BY <1>1, <1>2 DEF Registers
<1>4. QED
  BY <1>1, <1>2, <1>3 DEF Moved, Moves, Rescans

(* A task has failed.                                                      *)
LEMMA FailureMoves ==
    ASSUME NEW s \in Attributes, NEW ts, Range(ts) \subseteq Node,
           FailedInto(s, ts, tm'), NEW m \in Node
    PROVE  /\ \/ m \in Range(ts) /\ tm'.state[m] = FAILED
              \/ m \notin Range(ts) /\ tm'.state[m] = s.state[m]
              \/ /\ m \notin Range(ts) /\ tm'.state[m] = FAILED
                 /\ \E x \in Node : m \in s.waiting_parents[x] /\ tm'.state[x] = FAILED
           /\ \A p \in s.waiting_parents[m] :
                 \/ p \in tm'.waiting_parents[m]
                 \/ tm'.next_candidate = "no" \/ tm'.state[m] = FAILED
<1> DEFINE D == Doomed(s, Range(ts))
<1>1. tm'.state = StatesAfterFailure(s, ts)
  BY DEF FailedInto
<1>2. \A x \in Node : tm'.state[x] = IF x \in D THEN FAILED ELSE s.state[x]
  BY <1>1 DEF StatesAfterFailure
<1>3. Range(ts) \subseteq D /\ D \subseteq Node
  BY DoomedHas, DoomedType
<1>4. m \in D => m \in Range(ts) \/ \E x \in D : m \in s.waiting_parents[x]
  BY DoomedReason
<1> HIDE DEF D
<1>5. \/ m \in Range(ts) /\ tm'.state[m] = FAILED
      \/ m \notin Range(ts) /\ tm'.state[m] = s.state[m]
      \/ /\ m \notin Range(ts) /\ tm'.state[m] = FAILED
         /\ \E x \in Node : m \in s.waiting_parents[x] /\ tm'.state[x] = FAILED
  BY <1>2, <1>3, <1>4
<1>6. ASSUME NEW p \in s.waiting_parents[m], tm'.next_candidate # "no"
      PROVE  p \in tm'.waiting_parents[m] \/ tm'.state[m] = FAILED
  <2>1. m \notin D => tm'.waiting_parents[m] = s.waiting_parents[m]
    BY <1>3, <1>6 DEF FailedInto, D
  <2>2. QED
    BY <1>2, <1>6, <2>1
<1>7. QED
  BY <1>5, <1>6

(* A task that does not fail before is made ready: what it needs is        *)
(* finished.                                                               *)
LEMMA ReadyMoves ==
    ASSUME BooksInv, NEW n \in Node, TaskFor(n), ChildrenReady(n),
           NEW m \in Range(TargetsOf(n))
    PROVE  ~Closed(m) /\ SourcesDone(m)
<1>1. build \in Builds /\ tm \in Attributes
  BY EngineType
<1>2. ~Closed(m)
  BY PendingNotInFlight
<1>3. /\ m \in Node /\ TargetsOf(m) = TargetsOf(n) /\ n \in Range(TargetsOf(m))
      /\ build.kids[m] = build.kids[n] /\ build.late[m] = build.late[n]
  BY <1>1, TargetsShare
<1>4. Children(tm, m) = Children(tm, n)
  BY <1>3 DEF Children
<1>5. /\ ChildrenIn(tm, n, {FAILED}) = {} /\ NotReady(tm, n) = {}
      /\ main = "look" /\ n = node
  BY DEF TaskFor, ChildrenReady
<1>6. ASSUME NEW k \in Range(Children(tm, n)) PROVE tm.state[k] \in Finished
  <2>1. k \in Node
    BY <1>1, ChildrenType
  <2>2. tm.state[k] \in NO_STATE .. FAILED
    BY <1>1, <2>1, AttributesDef
  <2>3. tm.state[k] \notin {NO_STATE, PENDING, EXECUTING, FAILED}
    BY <1>5 DEF ChildrenIn, NotReady
  <2>4. QED
    BY <2>2, <2>3 DEF Finished
<1>7. QED
  BY <1>2, <1>3, <1>4, <1>5, <1>6 DEF SourcesDone

(* A task that fails in its preparation fails its targets and who waits    *)
(* for them.                                                               *)
LEMMA ReadyFailMoves ==
    ASSUME BooksInv, Next, NEW n \in Node, TaskFor(n),
           FailTask(MakeReady(tm, n), TargetsOf(n))
    PROVE  Moved
<1> DEFINE s == MakeReady(tm, n)
           ts == TargetsOf(n)
<1>1. /\ build \in Builds /\ tm \in Attributes /\ build' = build
      /\ retrieved' = retrieved /\ main = "look"
  BY EngineType DEF TaskFor
<1>2. /\ s \in Attributes /\ s.state = StatesAfterReady(tm, n)
      /\ s.implicit = tm.implicit /\ s.waiting_parents = tm.waiting_parents
      /\ s.next_candidate = tm.next_candidate
  BY TaskForResult
<1>3. FailedInto(s, ts, tm')
  BY FailNowResult
<1>4. /\ ts \in Seq(Node) /\ Range(ts) \subseteq Node
      /\ \A t \in Range(ts) : TargetsOf(t) = ts
  BY <1>1, TargetsType
<1>5. \A t \in Range(ts) : ~Closed(t)
  BY PendingNotInFlight
<1> HIDE DEF s, ts
<1>6. ASSUME NEW m \in Node
      PROVE  /\ \/ m \in Range(ts) /\ tm'.state[m] = FAILED
                \/ m \notin Range(ts) /\ tm'.state[m] = s.state[m]
                \/ /\ m \notin Range(ts) /\ tm'.state[m] = FAILED
                   /\ \E x \in Node : m \in s.waiting_parents[x] /\ tm'.state[x] = FAILED
             /\ \A p \in s.waiting_parents[m] :
                   \/ p \in tm'.waiting_parents[m]
                   \/ tm'.next_candidate = "no" \/ tm'.state[m] = FAILED
  BY <1>2, <1>3, <1>4, FailureMoves
<1>7. ASSUME NEW m \in Node PROVE Moves(m)
  <2>1. CASE m \in Range(ts)
    <3>1. Closed(m)'
      BY <1>1, <1>4, <1>6, <2>1 DEF Closed, TargetsOf
    <3>2. QED
      BY <1>1, <1>5, <1>6, <2>1, <3>1 DEF Moves
  <2>2. CASE m \notin Range(ts)
    <3>1. s.state[m] = tm.state[m]
      BY <1>2, <2>2 DEF StatesAfterReady, ts
    <3>2. QED
      BY <1>1, <1>2, <1>6, <2>2, <3>1 DEF Moves
  <2>3. QED
    BY <2>1, <2>2
<1>8. /\ tm'.implicit = tm.implicit
      /\ \A k \in Node : tm'.waiting_parents[k] \subseteq tm.waiting_parents[k]
      /\ tm.next_candidate = "no" => tm'.next_candidate = "no"
  BY <1>2, <1>3 DEF FailedInto
<1>9. QED
  BY <1>1, <1>2, <1>6, <1>7, <1>8 DEF Moved, Rescans, Forgets

(* What executed() does to the scans.                                      *)
LEMMA ExecutedScans ==
    ASSUME NEW s \in Attributes, NEW ts, NEW m \in Node
    PROVE  Executed(s, ts).implicit[m] =
               IF \E t \in Range(ts) : s.state[t] = EXECUTING /\ m \in s.waiting_parents[t]
               THEN "none" ELSE s.implicit[m]
<1> DEFINE made == {t \in Range(ts) : s.state[t] = EXECUTING}
           f == [x \in Node |-> IF x \in ParentsOf(s, made) THEN "none"
                                ELSE s.implicit[x]]
           g == [x \in Node |-> IF x \in made THEN EXECUTED ELSE s.state[x]]
<1>1. Built(s, ParentsOf(s, made)) = [s EXCEPT !.implicit = f]
  BY DEF Built
<1>2. Executed(s, ts) = [[s EXCEPT !.implicit = f] EXCEPT !.state = g]
  BY <1>1 DEF Executed, Attributes
<1> HIDE DEF f, g
<1>3. Executed(s, ts).implicit = f
  BY <1>2 DEF Attributes
<1>4. m \in ParentsOf(s, made) <=>
          \E t \in Range(ts) : s.state[t] = EXECUTING /\ m \in s.waiting_parents[t]
  BY DEF ParentsOf
<1>5. QED
  BY <1>3, <1>4 DEF f

(* Targets that are current are UP_TO_DATE, and nobody waits for them any  *)
(* more.                                                                   *)
LEMMA ReadyFinishMoves ==
    ASSUME BooksInv, Next, NEW n \in Node, TaskFor(n), ChildrenReady(n),
           ~OutOfDate(n), FinishTask(MakeReady(tm, n), TargetsOf(n))
    PROVE  Moved
<1> DEFINE s == MakeReady(tm, n)
           ts == TargetsOf(n)
<1>1. /\ build \in Builds /\ tm \in Attributes /\ build' = build
      /\ retrieved' = retrieved /\ main = "look"
  BY EngineType DEF TaskFor
<1>2. /\ s \in Attributes /\ s.state = StatesAfterReady(tm, n)
      /\ s.implicit = tm.implicit /\ s.waiting_parents = tm.waiting_parents
      /\ s.next_candidate = tm.next_candidate
  BY TaskForResult
<1>3. FinishedInto(s, ts, tm')
  BY FinishNowResult
<1>4. /\ ts \in Seq(Node) /\ Range(ts) \subseteq Node
      /\ \A t \in Range(ts) : TargetsOf(t) = ts
  BY <1>1, TargetsType
<1>5. \A t \in Range(ts) :
          ~Closed(t) /\ SourcesDone(t) /\ t \notin build.derived \ build.current
  BY ReadyMoves DEF OutOfDate
<1>6. \A m \in Node : s.state[m] = IF m \in Range(ts) THEN UP_TO_DATE ELSE tm.state[m]
  BY <1>2 DEF StatesAfterReady, ts
<1> HIDE DEF s, ts
<1>7. \A m \in Node : tm'.state[m] = IF m \in Range(ts) THEN UP_TO_DATE ELSE tm.state[m]
  BY <1>3, <1>6 DEF FinishedInto, StatesAfterExecution
<1>8. \A m \in Node : tm'.waiting_parents[m] =
                          IF m \in Range(ts) THEN {} ELSE tm.waiting_parents[m]
  BY <1>2, <1>3 DEF FinishedInto, Cleared
<1>9. \A m \in Node : tm'.implicit[m] = tm.implicit[m]
  BY <1>2, <1>3, <1>4, <1>6, ExecutedScans DEF FinishedInto
<1>10. ASSUME NEW m \in Node PROVE Moves(m)
  <2>1. CASE m \in Range(ts)
    <3>1. Closed(m)'
      BY <1>1, <1>4, <1>7, <2>1 DEF Closed, TargetsOf
    <3>2. QED
      BY <1>1, <1>5, <1>7, <1>8, <2>1, <3>1 DEF Moves
  <2>2. CASE m \notin Range(ts)
    BY <1>7, <2>2 DEF Moves
  <2>3. QED
    BY <2>1, <2>2
<1>11. tm'.next_candidate = tm.next_candidate
  BY <1>2, <1>3 DEF FinishedInto
<1>12. QED
  BY <1>1, <1>5, <1>8, <1>9, <1>10, <1>11 DEF Moved, Rescans, Forgets

(* Dispatched targets are EXECUTING, with their sources done.              *)
LEMMA DispatchMoves ==
    ASSUME BooksInv, Next, NEW n \in Node, Dispatch(n)
    PROVE  /\ Moved
           /\ \A t \in Range(TargetsOf(n)) : tm'.state[t] = EXECUTING
<1>1. /\ build \in Builds /\ tm \in Attributes /\ build' = build
      /\ retrieved' = retrieved /\ OutOfDate(n) /\ TaskFor(n) /\ ChildrenReady(n)
      /\ tm' = MakeReady(tm, n) /\ main = "look"
  BY EngineType DEF Dispatch, TaskFor
<1>2. /\ tm'.state = StatesAfterReady(tm, n)
      /\ tm'.implicit = tm.implicit /\ tm'.waiting_parents = tm.waiting_parents
      /\ tm'.next_candidate = tm.next_candidate
  BY <1>1, TaskForResult
<1>3. /\ Range(TargetsOf(n)) \subseteq Node
      /\ \A t \in Range(TargetsOf(n)) : TargetsOf(t) = TargetsOf(n)
  BY <1>1, TargetsType
<1>4. \A t \in Range(TargetsOf(n)) : ~Closed(t) /\ SourcesDone(t)
  BY <1>1, ReadyMoves
<1>5. \A m \in Node : tm'.state[m] = IF m \in Range(TargetsOf(n)) THEN EXECUTING
                                     ELSE tm.state[m]
  BY <1>1, <1>2 DEF StatesAfterReady
<1>6. ASSUME NEW m \in Node PROVE Moves(m)
  <2>1. CASE m \in Range(TargetsOf(n))
    <3>1. Closed(m)'
      BY <1>1, <1>3, <1>5, <2>1 DEF Closed, TargetsOf
    <3>2. QED
      BY <1>1, <1>4, <1>5, <2>1, <3>1 DEF Moves
  <2>2. CASE m \notin Range(TargetsOf(n))
    BY <1>5, <2>2 DEF Moves
  <2>3. QED
    BY <2>1, <2>2
<1>7. QED
  BY <1>1, <1>2, <1>3, <1>5, <1>6 DEF Moved, Rescans

(* next_task() without a task moves no node.                               *)
LEMMA NoTaskMoves ==
    ASSUME BooksInv, Next, NoTask
    PROVE  Moved
<1>1. build' = build /\ retrieved' = retrieved /\ tm \in Attributes
  BY EngineType DEF NoTask, history
<1>2. /\ tm'.state = tm.state /\ tm'.implicit = tm.implicit
      /\ tm'.next_candidate = tm.next_candidate
      /\ \A n \in Node : tm'.waiting_parents[n] \subseteq tm.waiting_parents[n]
      /\ tm.next_candidate = "find" => tm'.waiting_parents = tm.waiting_parents
  BY NoTaskResult
<1>3. tm.next_candidate \in {"find", "no"}
  BY <1>1, AttributesDef
<1>4. QED
  BY <1>1, <1>2, <1>3 DEF Moved, Moves, Rescans, Forgets

(* A result that is collected ends the flight of its targets.              *)
LEMMA CollectMoves ==
    ASSUME BooksInv, InOnePlace, FlightKnown, Next, Collect
    PROVE  Moved
<1> DEFINE ts == Head(resultsQueue).task
<1>1. /\ build \in Builds /\ build' = build /\ retrieved' = retrieved /\ tm \in Attributes
      /\ main = "collect"
  BY EngineType DEF Collect, history
<1>2. /\ Range(ts) \subseteq Node
      /\ FinishedInto(tm, ts, tm') \/ FailedInto(tm, ts, tm')
  BY CollectResult
<1>3. \A m \in Range(ts) : InFlight(m) /\ ~InFlight(m)'
  BY <1>2, FlightKept
<1>4. \A m \in Range(ts) : tm.state[m] \in {EXECUTING, EXECUTED, FAILED}
  BY <1>2, <1>3 DEF FlightKnown, Condemned
<1> HIDE DEF ts
<1>5. CASE FinishedInto(tm, ts, tm')
  <2>1. \A m \in Node : tm'.state[m] = IF m \in Range(ts) /\ tm.state[m] = EXECUTING
                                       THEN EXECUTED ELSE tm.state[m]
    BY <1>5 DEF FinishedInto, StatesAfterExecution
  <2>2. \A m \in Node : tm'.waiting_parents[m] =
                            IF m \in Range(ts) THEN {} ELSE tm.waiting_parents[m]
    BY <1>5 DEF FinishedInto, Cleared
  <2>3. \A m \in Node :
            tm'.implicit[m] =
                IF \E t \in Range(ts) :
                       tm.state[t] = EXECUTING /\ m \in tm.waiting_parents[t]
                THEN "none" ELSE tm.implicit[m]
    BY <1>1, <1>5, ExecutedScans DEF FinishedInto
  <2>4. \A m \in Node : Moves(m)
    BY <1>1, <1>3, <2>1, <2>2 DEF Moves
  <2>5. ASSUME NEW k \in Node, NEW p \in tm.waiting_parents[k],
               p \notin tm'.waiting_parents[k]
        PROVE  Forgets(k, p)
    <3>1. k \in Range(ts) /\ p \in Node
      BY <1>1, <2>2, <2>5, AttributesDef
    <3>2. tm.state[k] = EXECUTING => tm'.implicit[p] = "none"
      BY <2>3, <2>5, <3>1
    <3>3. tm.state[k] = FAILED => tm'.state[k] = FAILED
      BY <2>1
    <3>4. QED
      BY <1>4, <3>1, <3>2, <3>3 DEF Forgets
  <2>6. tm'.next_candidate = tm.next_candidate
    BY <1>5 DEF FinishedInto
  <2>7. QED
    BY <1>1, <2>2, <2>3, <2>4, <2>5, <2>6 DEF Moved, Rescans
<1>6. CASE FailedInto(tm, ts, tm')
  <2>1. ASSUME NEW m \in Node
        PROVE  /\ \/ m \in Range(ts) /\ tm'.state[m] = FAILED
                  \/ m \notin Range(ts) /\ tm'.state[m] = tm.state[m]
                  \/ /\ m \notin Range(ts) /\ tm'.state[m] = FAILED
                     /\ \E x \in Node :
                           m \in tm.waiting_parents[x] /\ tm'.state[x] = FAILED
               /\ \A p \in tm.waiting_parents[m] :
                     \/ p \in tm'.waiting_parents[m]
                     \/ tm'.next_candidate = "no" \/ tm'.state[m] = FAILED
    BY <1>1, <1>2, <1>6, FailureMoves
  <2>2. \A m \in Node : Moves(m)
    BY <1>1, <1>3, <2>1 DEF Moves
  <2>3. /\ tm'.implicit = tm.implicit
        /\ \A k \in Node : tm'.waiting_parents[k] \subseteq tm.waiting_parents[k]
        /\ tm.next_candidate = "no" => tm'.next_candidate = "no"
    BY <1>6 DEF FailedInto
  <2>4. QED
    BY <1>1, <2>1, <2>2, <2>3 DEF Moved, Rescans, Forgets
<1>7. QED
  BY <1>2, <1>5, <1>6

(* A retrieval moves a node that is in flight.                             *)
LEMMA RetrieveMoves ==
    ASSUME BooksInv, Next, NEW w \in Worker, Retrieve(w)
    PROVE  Moved
<1>1. /\ tm'.implicit = tm.implicit /\ tm'.waiting_parents = tm.waiting_parents
      /\ tm'.next_candidate = tm.next_candidate /\ worker[w].task # None
      /\ tm \in Attributes
  BY RetrieveResult, EngineType
<1>2. build' = build
  BY DEF Retrieve
<1>3. CASE tm' = tm /\ retrieved' = retrieved
  BY <1>3, SameStates
<1>4. CASE /\ tm'.state = [tm.state EXCEPT ![Target(w)] = EXECUTED]
           /\ retrieved' = retrieved \cup {Target(w)}
  <2>1. Target(w) \in Node /\ Target(w) \in Range(worker[w].task)
    BY <1>1, TaskInHand
  <2>2. InFlight(Target(w))
    BY <2>1 DEF InFlight, Held
  <2>3. ASSUME NEW m \in Node PROVE Moves(m)
    <3>1. CASE m = Target(w)
      BY <1>1, <1>4, <2>1, <2>2, <3>1, AttributesDef DEF Moves
    <3>2. CASE m # Target(w)
      <4>1. tm'.state[m] = tm.state[m]
        BY <1>1, <1>4, <3>2, AttributesDef
      <4>2. QED
        BY <4>1 DEF Moves
    <3>3. QED
      BY <3>1, <3>2
  <2>4. QED
    BY <1>1, <1>2, <1>4, <2>3 DEF Moved, Rescans
<1>5. QED
  BY <1>3, <1>4, RetrieveResult

(* built() in a worker makes only tainted nodes scan again.                *)
LEMMA RetrievalDoneMoves ==
    ASSUME BooksInv, ParentsTainted, Next, NEW w \in Worker, RetrievalDone(w)
    PROVE  Moved
<1>1. PICK seen \in SUBSET worker[w].parents : tm' = Built(tm, seen)
  BY RetrievalDoneResult
<1>2. tm \in Attributes
  BY EngineType
<1>3. \A n \in Node : tm'.implicit[n] = IF n \in seen THEN "none" ELSE tm.implicit[n]
  <2> DEFINE f == [m \in Node |-> IF m \in seen THEN "none" ELSE tm.implicit[m]]
  <2>1. tm' = [tm EXCEPT !.implicit = f]
    BY <1>1 DEF Built
  <2> HIDE DEF f
  <2>2. tm'.implicit = f
    BY <1>2, <2>1 DEF Attributes
  <2>3. QED
    BY <2>2 DEF f
<1>4. /\ tm'.state = tm.state /\ tm'.waiting_parents = tm.waiting_parents
      /\ tm'.next_candidate = tm.next_candidate
  BY RetrievalDoneResult
<1>5. retrieved' = retrieved
  BY DEF RetrievalDone, history
<1>6. \A n \in Node : n \in seen => Tainted(n)
  BY DEF ParentsTainted
<1>7. QED
  BY <1>3, <1>4, <1>5, <1>6, SameStates

(* Every step moves the nodes in one of the ways of Moved.                 *)
LEMMA StepMoves ==
    ASSUME BooksInv, InOnePlace, FlightKnown, ParentsTainted, Next
    PROVE  Moved
<1>1. CASE SomeNotReady
  BY <1>1, SomeNotReadyResult, SameStates DEF SomeNotReady, history
<1>2. CASE Interrupt
  BY <1>2, InterruptResult, SameStates DEF Interrupt, history
<1>3. CASE \/ CleanupPool \/ CleanupTaskmaster
           \/ \E w \in Worker : Get(w) \/ BuildTargets(w)
  <2>1. tm' = tm /\ retrieved' = retrieved
    BY <1>3 DEF CleanupPool, CleanupTaskmaster, Get, BuildTargets, history
  <2>2. QED
    BY <2>1, SameStates
<1>4. ASSUME NEW n \in Node, PreparationFails(n) \/ NothingToDo(n) PROVE Moved
  <2>1. TaskFor(n)
    BY <1>4 DEF PreparationFails, NothingToDo
  <2>2. \/ FailTask(MakeReady(tm, n), TargetsOf(n))
        \/ /\ ChildrenReady(n) /\ ~OutOfDate(n)
           /\ FinishTask(MakeReady(tm, n), TargetsOf(n))
    BY <1>4 DEF PreparationFails, NothingToDo
  <2>3. QED
    BY <2>1, <2>2, ReadyFailMoves, ReadyFinishMoves
<1>5. QED
  BY <1>1, <1>2, <1>3, <1>4, StepsOfBuild, ConsiderMoves, SkipFailedMoves,
     WaitForThemMoves, DispatchMoves, NoTaskMoves, CollectMoves, RetrieveMoves,
     RetrievalDoneMoves

-----------------------------------------------------------------------------
(* The walk is kept.                                                       *)

(* A task that is made ready without all of its sources is tainted.        *)
LEMMA IncompleteIsTainted ==
    ASSUME BooksInv, LookKnows, UpToDateIsReadable,
           NEW n \in Node, SourcesDone(n), ~Full(n)
    PROVE  Tainted(n)
<1>1. build \in Builds
  BY EngineType
<1>2. /\ main = "look" /\ node \in Range(TargetsOf(n))
      /\ \A k \in Range(Children(tm, n)) : tm.state[k] \in Finished
  BY DEF SourcesDone
<1>3. /\ node \in Node /\ TargetsOf(node) = TargetsOf(n)
      /\ build.kids[node] = build.kids[n] /\ (Tainted(node) <=> Tainted(n))
  BY <1>1, <1>2, TargetsShare
<1>4. ~Full(node)
  BY <1>3 DEF Full
<1>5. ASSUME NEW k \in Range(build.kids[n]) PROVE Readable(tm, k)
  <2>1. k \in Range(Children(tm, n)) /\ k \in Node
    BY <1>1, ChildrenType
  <2>2. tm.state[k] = EXECUTED \/ tm.state[k] = UP_TO_DATE
    BY <1>2, <2>1 DEF Finished
  <2>3. QED
    BY <2>1, <2>2 DEF Readable, UpToDateIsReadable
<1>6. QED
  BY <1>2, <1>3, <1>4, <1>5 DEF LookKnows

(* A source that a node does not know of was not scanned for.              *)
LEMMA SourceIsChild ==
    ASSUME build \in Builds, NEW n \in Node, NEW k \in Sources(n),
           k \notin Range(Children(tm, n))
    PROVE  ~Full(n)
BY ChildrenType DEF Full

(* A task that is made ready while it waits for a source is tainted.       *)
LEMMA WaiterIsTainted ==
    ASSUME BooksInv, LookKnows, UpToDateIsReadable, FinishedReleases,
           NEW n \in Node, SourcesDone(n), NEW k \in Sources(n),
           n \in tm.waiting_parents[k]
    PROVE  Tainted(n)
<1>1. build \in Builds /\ k \in Node
  BY EngineType, ChildrenType
<1>2. CASE k \in Range(Children(tm, n))
  <2>1. k \in retrieved
    BY <1>1, <1>2 DEF SourcesDone, FinishedReleases
  <2>2. QED
    BY <1>1, <2>1, TaintedBySource
<1>3. CASE k \notin Range(Children(tm, n))
  BY <1>1, <1>3, SourceIsChild, IncompleteIsTainted
<1>4. QED
  BY <1>2, <1>3

(* A failed node that is made ready after all is tainted.                  *)
LEMMA RevivedIsTainted ==
    ASSUME BooksInv, LookKnows, UpToDateIsReadable, FailuresStay,
           NEW n \in Node, SourcesDone(n), ~Closed(n), tm.state[n] = FAILED
    PROVE  Tainted(n)
<1>1. build \in Builds
  BY EngineType
<1>2. SUFFICES ASSUME NEW k \in Sources(n), tm.state[k] = FAILED PROVE Tainted(n)
  BY DEF FailuresStay
<1>3. k \notin Range(Children(tm, n))
  BY <1>2 DEF SourcesDone, Finished
<1>4. QED
  BY <1>1, <1>3, SourceIsChild, IncompleteIsTainted

(* Every step keeps WaitersPend: only the candidate registers, and what is *)
(* made later has its sources done.                                        *)
LEMMA WaitersKept ==
    ASSUME BooksInv, WalkInv, Next, Moved
    PROVE  WaitersPend'
<1>1. SUFFICES ASSUME NEW k \in Node, NEW p \in tm'.waiting_parents[k]
               PROVE  k \in Sources(p) /\ (tm'.state[p] \in Active => Tainted(p)')
  BY DEF WaitersPend, Moved, Sources
<1>2. /\ build \in Builds /\ tm \in Attributes /\ tm' \in Attributes /\ build' = build
      /\ retrieved \subseteq retrieved'
  BY EngineType, TaskmasterAdvances DEF Moved, Advances
<1>3. p \in Node
  BY <1>1, <1>2, AttributesDef
<1>4. CASE Registers(k, p)
  <2>1. /\ main = "wait" /\ p = node /\ k \in children_not_ready /\ tm'.state = tm.state
    BY <1>4 DEF Registers
  <2>2. tm'.state[p] = PENDING
    BY <2>1, EngineType
  <2>3. k \in Sources(p)
    BY <2>1 DEF WalkInv, WaitKnows
  <2>4. QED
    BY <2>2, <2>3 DEF Active
<1>5. CASE p \in tm.waiting_parents[k]
  <2>1. k \in Sources(p) /\ (tm.state[p] \in Active => Tainted(p))
    BY <1>5 DEF WalkInv, WaitersPend
  <2>2. Tainted(p) => Tainted(p)'
    BY <1>2, TaintStays
  <2>3. ASSUME tm'.state[p] \in Active, tm.state[p] \notin Active PROVE Tainted(p)
    <3>1. SourcesDone(p) \/ InFlight(p)
      BY <1>3, <2>3 DEF Moved, Moves, Active
    <3>2. SourcesDone(p) => Tainted(p)
      BY <1>3, <1>5, <2>1, WaiterIsTainted DEF WalkInv
    <3>3. InFlight(p) => Tainted(p)
      BY <1>3, <2>3 DEF WalkInv, FlightKnown, Condemned, Active
    <3>4. QED
      BY <3>1, <3>2, <3>3
  <2>4. QED
    BY <2>1, <2>2, <2>3
<1>6. QED
  BY <1>1, <1>4, <1>5 DEF Moved

(* Every step keeps MadeTogether.                                          *)
LEMMA TogetherKept ==
    ASSUME BooksInv, WalkInv, Next, Moved
    PROVE  MadeTogether'
<1>1. SUFFICES ASSUME NEW n \in Node, tm'.state[n] \in Active PROVE Closed(n)'
  BY DEF MadeTogether
<1>2. Closed(n) => Closed(n)'
  BY ClosedStays
<1>3. tm.state[n] \in Active => Closed(n)
  BY DEF WalkInv, MadeTogether
<1>4. InFlight(n) => Closed(n)
  BY FlightIsClosed
<1>5. \/ tm'.state[n] = tm.state[n] \/ Closed(n)' \/ InFlight(n)
  BY <1>1 DEF Moved, Moves, Active
<1>6. QED
  BY <1>1, <1>2, <1>3, <1>4, <1>5

(* Every step keeps FinishedReleases and UpToDateIsReadable.               *)
LEMMA ReleasesKept ==
    ASSUME BooksInv, WalkInv, Next, Moved
    PROVE  FinishedReleases' /\ UpToDateIsReadable'
<1>1. build' = build /\ retrieved \subseteq retrieved'
  BY DEF Moved
<1>2. ASSUME NEW n \in Node, tm'.state[n] \in Finished
      PROVE  n \in retrieved' \/ tm'.waiting_parents[n] = {}
  <2>1. CASE tm'.state[n] = tm.state[n]
    <3>1. n \in retrieved \/ tm.waiting_parents[n] = {}
      BY <1>2, <2>1 DEF WalkInv, FinishedReleases
    <3>2. ASSUME NEW p, Registers(n, p) PROVE n \in retrieved
      <4>1. tm.state[n] \in {NO_STATE, PENDING, EXECUTING} \/ n \in retrieved
        BY <3>2 DEF WalkInv, WaitKnows, Registers
      <4>2. QED
        BY <1>2, <2>1, <4>1 DEF Finished
    <3>3. \A p \in tm'.waiting_parents[n] :
              p \in tm.waiting_parents[n] \/ Registers(n, p)
      BY DEF Moved
    <3>4. QED
      BY <1>1, <3>1, <3>2, <3>3
  <2>2. CASE tm'.state[n] # tm.state[n]
    BY <1>2, <2>2 DEF Moved, Moves, Finished
  <2>3. QED
    BY <2>1, <2>2
<1>3. ASSUME NEW n \in Node, tm'.state[n] = UP_TO_DATE
      PROVE  n \notin build.derived \ build.current
  BY <1>3 DEF Moved, Moves, WalkInv, UpToDateIsReadable
<1>4. QED
  BY <1>1, <1>2, <1>3 DEF FinishedReleases, UpToDateIsReadable

(* Every step keeps FailuresStay.                                          *)
LEMMA FailuresKept ==
    ASSUME BooksInv, WalkInv, Next, Moved
    PROVE  FailuresStay'
<1>1. /\ build \in Builds /\ build' = build /\ retrieved \subseteq retrieved'
      /\ \A n \in Node : Sources(n)' = Sources(n)
  BY EngineType DEF Moved, Sources
<1>2. ASSUME NEW n \in Node, tm'.state[n] = FAILED
      PROVE  Closed(n)' \/ Tainted(n)' \/ \E k \in Sources(n) : tm'.state[k] = FAILED
  <2>1. Closed(n) => Closed(n)'
    BY ClosedStays
  <2>2. Tainted(n) => Tainted(n)'
    BY <1>1, TaintStays
  <2>3. CASE tm.state[n] = FAILED
    <3>1. SUFFICES ASSUME NEW k \in Sources(n), tm.state[k] = FAILED,
                          tm'.state[k] # FAILED
                   PROVE  Tainted(n)'
      BY <2>1, <2>2, <2>3 DEF WalkInv, FailuresStay
    <3>2. k \in Node
      BY <1>1, ChildrenType
    <3>3. (~Closed(k) /\ SourcesDone(k)) \/ k \in retrieved'
      BY <3>1, <3>2 DEF Moved, Moves
    <3>4. ~Closed(k) /\ SourcesDone(k) => Tainted(k)
      BY <3>1, <3>2, RevivedIsTainted DEF WalkInv
    <3>5. Tainted(k) => Tainted(n)
      BY <1>1, <3>1, TaintedBySource
    <3>6. k \in retrieved' => Tainted(n)'
      BY <1>1, <3>1, TaintedByRetrieval
    <3>7. QED
      BY <2>2, <3>3, <3>4, <3>5, <3>6
  <2>4. CASE tm.state[n] # FAILED
    <3>1. \/ Closed(n)' \/ InFlight(n)
          \/ \E x \in Node : n \in tm.waiting_parents[x] /\ tm'.state[x] = FAILED
      BY <1>2, <2>4 DEF Moved, Moves
    <3>2. InFlight(n) => Closed(n)
      BY FlightIsClosed
    <3>3. QED
      BY <2>1, <3>1, <3>2 DEF WalkInv, WaitersPend
  <2>5. QED
    BY <2>3, <2>4
<1>3. QED
  BY <1>1, <1>2 DEF FailuresStay

(* What cannot be read is made by nobody but a worker, or from the cache.  *)
LEMMA ReadLater ==
    ASSUME Moved, NEW k \in Node, ~Readable(tm, k)
    PROVE  \/ ~Readable(tm', k)
           \/ k \in retrieved'
           \/ main = "collect" /\ tm.state[k] = EXECUTING /\ tm'.state[k] = EXECUTED
<1>1. k \in build.derived /\ k \notin build.current /\ tm.state[k] # EXECUTED
  BY DEF Readable
<1>2. Readable(tm', k) => tm'.state[k] = EXECUTED
  BY <1>1 DEF Readable
<1>3. QED
  BY <1>1, <1>2 DEF Moved, Moves

(* Who looks at a node.                                                    *)
LEMMA LookStep ==
    ASSUME BooksInv, Next
    PROVE  /\ main' = "look" => Consider \/ (main = "look" /\ node' = node)
           /\ main' = "wait" =>
                 \/ SomeNotReady
                 \/ main = "wait" /\ UNCHANGED <<node, children_not_ready>>
BY StepsOfBuild, WorkerStep
   DEF Consider, SkipFailed, WaitForThem, PreparationFails, NothingToDo, Dispatch, NoTask,
       Collect, CleanupPool, CleanupTaskmaster, Interrupt, Get, SomeNotReady, walk

(* While it looks at a node, a scan of it is forgotten for a retrieval.    *)
LEMMA FullStays ==
    ASSUME BooksInv, Moved, main \in {"look", "wait"}, NEW n \in Node, Full(n),
           ~Full(n)'
    PROVE  Tainted(n)
<1>1. build \in Builds /\ build' = build
  BY EngineType DEF Moved
<1>2. PICK t \in Range(TargetsOf(n)) : tm.implicit[t] = "full"
  BY DEF Full
<1>3. t \in Node /\ (Tainted(t) <=> Tainted(n))
  BY <1>1, TargetsShare
<1>4. tm'.implicit[t] # "full"
  BY <1>1, <1>2 DEF Full, TargetsOf
<1>5. Tainted(t)
  BY <1>2, <1>3, <1>4 DEF Moved, Rescans
<1>6. QED
  BY <1>3, <1>5

(* The scan that a candidate has had when the main thread looks at it.     *)
LEMMA ScanResult ==
    ASSUME build \in Builds, NEW s \in Attributes, NEW n \in Node
    PROVE  \/ /\ \A t \in Range(TargetsOf(n)) : s.implicit[t] # "none"
              /\ Scan(s, n) = s
           \/ Scan(s, n).implicit[n] = "full"
           \/ \E k \in Range(build.kids[n]) : ~Readable(s, k)
<1>1. CASE \A t \in Range(TargetsOf(n)) : s.implicit[t] # "none"
  BY <1>1 DEF Scan
<1>2. CASE ~\A t \in Range(TargetsOf(n)) : s.implicit[t] # "none"
  <2> DEFINE f == [m \in Node |->
                IF m \notin Range(TargetsOf(n)) \/ s.implicit[m] = "full"
                THEN s.implicit[m]
                ELSE IF \A k \in Range(build.kids[n]) : Readable(s, k) THEN "full"
                ELSE "partial"]
  <2>1. Scan(s, n) = [s EXCEPT !.implicit = f]
    BY <1>2 DEF Scan
  <2>2. n \in Range(TargetsOf(n))
    BY TargetsType
  <2>3. (\A k \in Range(build.kids[n]) : Readable(s, k)) => f[n] = "full"
    BY <2>2
  <2> HIDE DEF f
  <2>4. Scan(s, n).implicit = f
    BY <2>1 DEF Attributes
  <2>5. QED
    BY <2>3, <2>4
<1>3. QED
  BY <1>1, <1>2

(* Every step keeps LookKnows: what becomes readable while the main thread *)
(* looks was retrieved.                                                    *)
LEMMA LookKept ==
    ASSUME BooksInv, WalkInv, Next, Moved
    PROVE  LookKnows'
<1>1. /\ build \in Builds /\ build' = build /\ retrieved \subseteq retrieved'
      /\ main' = "look" => node' \in Node
  BY EngineType, MainKept DEF Moved, MainKnows
<1>2. SUFFICES ASSUME main' = "look", NEW n \in Node, n = node', ~Full(n)'
               PROVE  \/ Tainted(n)'
                      \/ \E k \in Range(build.kids[n]) : ~Readable(tm', k)
  BY <1>1 DEF LookKnows, Readable, Full, TargetsOf
<1>3. Tainted(n) => Tainted(n)'
  BY <1>1, TaintStays
<1>4. ASSUME NEW k \in Range(build.kids[n]), ~Readable(tm, k), main # "collect"
      PROVE  Tainted(n)' \/ ~Readable(tm', k)
  <2>1. k \in Sources(n) /\ k \in Node
    BY <1>1, ChildrenType DEF Sources
  <2>2. ~Readable(tm', k) \/ k \in retrieved'
    BY <1>4, <2>1, ReadLater
  <2>3. k \in retrieved' => Tainted(n)'
    BY <1>1, <2>1, TaintedByRetrieval
  <2>4. QED
    BY <2>2, <2>3
<1>5. CASE main = "look" /\ node = n
  <2>1. Full(n) => Tainted(n)
    BY <1>2, <1>5, FullStays
  <2>2. QED
    BY <1>3, <1>4, <1>5, <2>1 DEF WalkInv, LookKnows
<1>6. CASE Consider
  <2>1. main = "fill" /\ tm.next_candidate = "find"
    BY <1>6 DEF Consider
  <2>2. /\ tm.state[n] <= PENDING
        /\ \E s \in Attributes :
              tm' = Scan(s, n) /\ s.implicit = tm.implicit /\ s.state = tm'.state
    BY <1>2, <1>6, <2>1, ConsiderResult
  <2>3. PICK s \in Attributes :
            tm' = Scan(s, n) /\ s.implicit = tm.implicit /\ s.state = tm'.state
    BY <2>2
  <2>4. ~Closed(n)
    <3>1. n \in Range(TargetsOf(n)) /\ tm.state[n] \in NO_STATE .. FAILED
      BY <1>1, TargetsType, EngineType, AttributesDef
    <3>2. QED
      BY <2>2, <3>1 DEF Closed
  <2>5. CASE tm' = s /\ \A t \in Range(TargetsOf(n)) : s.implicit[t] # "none"
    <3>1. Scanned(n) /\ ~Full(n)
      BY <1>1, <1>2, <2>3, <2>5 DEF Scanned, Full, TargetsOf
    <3>2. Outdated(n)
      BY <2>1, <2>4, <3>1 DEF WalkInv, ScansForgotten
    <3>3. QED
      BY <1>3, <1>4, <2>1, <3>2 DEF Outdated
  <2>6. CASE tm'.implicit[n] = "full"
    <3>1. n \in Range(TargetsOf(n))
      BY <1>1, TargetsType
    <3>2. QED
      BY <1>1, <1>2, <2>6, <3>1 DEF Full, TargetsOf
  <2>7. CASE \E k \in Range(build.kids[n]) : ~Readable(s, k)
    BY <2>3, <2>7 DEF Readable
  <2>8. QED
    BY <1>1, <2>3, <2>5, <2>6, <2>7, ScanResult
<1>7. QED
  BY <1>2, <1>5, <1>6, LookStep

(* Every step keeps WaitKnows.                                             *)
LEMMA WaitKept ==
    ASSUME BooksInv, WalkInv, Next, Moved
    PROVE  WaitKnows'
<1>1. /\ build \in Builds /\ build' = build /\ retrieved \subseteq retrieved'
      /\ main' = "wait" => node' \in Node /\ children_not_ready' \subseteq Node
      /\ tm \in Attributes
  BY EngineType, MainKept, TypesKept DEF Moved, MainKnows, EngineTypes
<1>2. SUFFICES ASSUME main' = "wait", NEW n \in Node, n = node'
               PROVE  /\ \A k \in children_not_ready' :
                            /\ k \in Sources(n)
                            /\ \/ tm'.state[k] \in {NO_STATE, PENDING, EXECUTING}
                               \/ k \in retrieved'
                      /\ ~Full(n)' =>
                            \/ Tainted(n)'
                            \/ \E k \in Range(build.kids[n]) :
                                  k \in children_not_ready' /\ ~Readable(tm', k)
  BY <1>1 DEF WaitKnows, Readable, Full, TargetsOf, Sources
<1>3. Tainted(n) => Tainted(n)'
  BY <1>1, TaintStays
<1>4. CASE main = "wait" /\ UNCHANGED <<node, children_not_ready>>
  <2>1. ASSUME NEW k \in children_not_ready
        PROVE  /\ k \in Sources(n)
               /\ \/ tm'.state[k] \in {NO_STATE, PENDING, EXECUTING}
                  \/ k \in retrieved'
    <3>1. /\ k \in Sources(n) /\ k \in Node
          /\ tm.state[k] \in {NO_STATE, PENDING, EXECUTING} \/ k \in retrieved
      BY <1>1, <1>2, <1>4 DEF WalkInv, WaitKnows
    <3>2. QED
      BY <1>1, <1>4, <3>1 DEF Moved, Moves
  <2>2. Full(n) /\ ~Full(n)' => Tainted(n)
    BY <1>4, FullStays
  <2>3. ASSUME NEW k \in Range(build.kids[n]), ~Readable(tm, k)
        PROVE  Tainted(n)' \/ ~Readable(tm', k)
    <3>1. k \in Sources(n) /\ k \in Node
      BY <1>1, ChildrenType DEF Sources
    <3>2. ~Readable(tm', k) \/ k \in retrieved'
      BY <1>4, <2>3, <3>1, ReadLater
    <3>3. k \in retrieved' => Tainted(n)'
      BY <1>1, <3>1, TaintedByRetrieval
    <3>4. QED
      BY <3>2, <3>3
  <2>4. QED
    BY <1>2, <1>3, <1>4, <2>1, <2>2, <2>3 DEF WalkInv, WaitKnows
<1>5. CASE SomeNotReady
  <2>1. /\ main = "look" /\ node = n /\ tm'.state = tm.state /\ tm'.implicit = tm.implicit
        /\ children_not_ready' = NotReady(tm, n) /\ ChildrenIn(tm, n, {FAILED}) = {}
    BY <1>2, <1>5, SomeNotReadyResult DEF SomeNotReady
  <2>2. \A k \in children_not_ready' :
            k \in Sources(n) /\ tm'.state[k] \in {NO_STATE, PENDING, EXECUTING}
    BY <1>1, <2>1, ChildrenType DEF NotReady, ChildrenIn
  <2>3. ~Full(n)' => ~Full(n)
    BY <1>1, <2>1 DEF Full, TargetsOf
  <2>4. ASSUME NEW k \in Range(build.kids[n]), ~Readable(tm, k)
        PROVE  k \in children_not_ready' /\ ~Readable(tm', k)
    <3>1. k \in Range(Children(tm, n)) /\ k \in Node
      BY <1>1, ChildrenType
    <3>2. tm.state[k] \notin {FAILED, EXECUTED, UP_TO_DATE}
      BY <2>1, <2>4, <3>1 DEF ChildrenIn, Readable, WalkInv, UpToDateIsReadable
    <3>3. tm.state[k] \in NO_STATE .. FAILED
      BY <1>1, <3>1, AttributesDef
    <3>4. tm.state[k] \in {NO_STATE, PENDING, EXECUTING}
      BY <3>2, <3>3
    <3>5. QED
      BY <2>1, <2>4, <3>1, <3>4 DEF NotReady, ChildrenIn, Readable
  <2>5. QED
    BY <1>3, <2>1, <2>2, <2>3, <2>4 DEF WalkInv, LookKnows
<1>6. QED
  BY <1>2, <1>4, <1>5, LookStep

(* A task that the main thread has taken is done with.                     *)
LEMMA TaskCloses ==
    ASSUME BooksInv, NEW n \in Node,
           PreparationFails(n) \/ NothingToDo(n) \/ Dispatch(n),
           NEW t \in Range(TargetsOf(n))
    PROVE  Closed(t)'
<1>1. TaskFor(n) /\ build \in Builds /\ build' = build
  BY EngineType DEF PreparationFails, NothingToDo, Dispatch, TaskFor
<1>2. MakeReady(tm, n) \in Attributes /\ MakeReady(tm, n).current_top \in Node
      /\ Agree(MakeReady(tm, n))
  BY <1>1, TaskForResult
<1>3. Advances(MakeReady(tm, n), tm')
  <2>1. CASE tm' = MakeReady(tm, n)
    BY <1>2, <2>1 DEF Advances
  <2>2. CASE FailTask(MakeReady(tm, n), TargetsOf(n))
    BY <1>1, <1>2, <2>2, FailNowResult, FailureAdvances
  <2>3. CASE FinishTask(MakeReady(tm, n), TargetsOf(n))
    BY <1>1, <1>2, <2>3, FinishNowResult, FinishAdvances
  <2>4. QED
    BY <2>1, <2>2, <2>3 DEF PreparationFails, NothingToDo, Dispatch
<1>4. /\ TargetsOf(t) = TargetsOf(n) /\ Range(TargetsOf(n)) \subseteq Node
  BY <1>1, TargetsType
<1>5. \A u \in Range(TargetsOf(n)) : tm'.state[u] > PENDING
  BY <1>1, <1>3, <1>4, ReadyAdvances DEF Advances
<1>6. QED
  BY <1>1, <1>4, <1>5 DEF Closed, TargetsOf

(* A scan that is out of date stays so until it is forgotten.              *)
LEMMA OutdatedStays ==
    ASSUME BooksInv, WalkInv, Next, Moved, NEW n \in Node, Outdated(n)
    PROVE  Outdated(n)' \/ ~Scanned(n)' \/ tm'.next_candidate = "no"
<1>1. /\ build \in Builds /\ build' = build /\ retrieved \subseteq retrieved'
  BY EngineType DEF Moved
<1>2. Tainted(n) => Tainted(n)'
  BY <1>1, TaintStays
<1>3. Tainted(n)' => Outdated(n)'
  BY DEF Outdated
<1>4. ASSUME NEW k \in Range(build.kids[n]), ~Readable(tm, k), tm.state[k] = FAILED
      PROVE  Outdated(n)'
  <2>1. k \in Sources(n) /\ k \in Node
    BY <1>1, ChildrenType DEF Sources
  <2>2. CASE tm'.state[k] = FAILED
    BY <1>1, <1>4, <2>2 DEF Outdated, Readable
  <2>3. CASE tm'.state[k] # FAILED
    <3>1. (~Closed(k) /\ SourcesDone(k)) \/ k \in retrieved'
      BY <1>4, <2>1, <2>3 DEF Moved, Moves
    <3>2. ~Closed(k) /\ SourcesDone(k) => Tainted(n)
      BY <1>1, <1>4, <2>1, RevivedIsTainted, TaintedBySource DEF WalkInv
    <3>3. k \in retrieved' => Tainted(n)'
      BY <1>1, <2>1, TaintedByRetrieval
    <3>4. QED
      BY <1>2, <1>3, <3>1, <3>2, <3>3
  <2>4. QED
    BY <2>2, <2>3
<1>5. ASSUME NEW k \in Range(build.kids[n]), ~Readable(tm, k),
             NEW t \in Range(TargetsOf(n)), t \in tm.waiting_parents[k]
      PROVE  Outdated(n)' \/ ~Scanned(n)' \/ tm'.next_candidate = "no"
  <2>1. k \in Sources(n) /\ k \in Node
    BY <1>1, ChildrenType DEF Sources
  <2>2. /\ k \in build.derived /\ k \notin build.current /\ tm.state[k] # EXECUTED
    BY <1>5 DEF Readable
  <2>3. tm'.implicit[t] = "none" => ~Scanned(n)'
    BY <1>1 DEF Scanned, TargetsOf
  <2>4. ASSUME t \notin tm'.waiting_parents[k]
        PROVE  \/ tm'.next_candidate = "no" \/ ~Scanned(n)' \/ tm'.state[k] = FAILED
    BY <1>5, <2>1, <2>2, <2>3, <2>4 DEF Moved, Forgets
  <2>5. tm'.state[k] = FAILED => Outdated(n)'
    BY <1>1, <2>2 DEF Outdated, Readable
  <2>6. tm'.state[k] # EXECUTED /\ t \in tm'.waiting_parents[k] => Outdated(n)'
    BY <1>1, <2>2 DEF Outdated, Readable, TargetsOf
  <2>7. CASE tm'.state[k] = EXECUTED
    <3>1. k \in retrieved' \/ tm'.waiting_parents[k] = {}
      BY <2>1, <2>2, <2>7 DEF Moved, Moves
    <3>2. k \in retrieved' => Tainted(n)'
      BY <1>1, <2>1, TaintedByRetrieval
    <3>3. QED
      BY <1>3, <2>4, <2>7, <3>1, <3>2
  <2>8. QED
    BY <2>4, <2>5, <2>6, <2>7
<1>6. QED
  BY <1>2, <1>3, <1>4, <1>5 DEF Outdated

(* Every step keeps ScansForgotten: a node stops waiting for what it could *)
(* not read only when its scan is forgotten with it.                       *)
LEMMA ScansKept ==
    ASSUME BooksInv, WalkInv, Next, Moved
    PROVE  ScansForgotten'
<1>1. /\ build \in Builds /\ build' = build /\ retrieved \subseteq retrieved'
      /\ tm.next_candidate = "no" => tm'.next_candidate = "no"
  BY EngineType DEF Moved
<1>2. SUFFICES ASSUME NEW n \in Node, tm'.next_candidate # "no", ~Closed(n)',
                      ~(main' \in {"look", "wait"} /\ node' \in Range(TargetsOf(n)))
               PROVE  Full(n)' \/ ~Scanned(n)' \/ Outdated(n)'
  BY <1>1 DEF ScansForgotten, TargetsOf
<1>3. ~Closed(n) /\ tm.next_candidate # "no"
  BY <1>1, <1>2, ClosedStays
<1>4. Outdated(n) => Outdated(n)' \/ ~Scanned(n)'
  BY <1>2, OutdatedStays
<1>5. ASSUME NEW t \in Range(TargetsOf(n))
      PROVE  tm'.implicit[t] = tm.implicit[t] \/ tm'.implicit[t] = "none"
  <2>1. t \in Node /\ TargetsOf(t) = TargetsOf(n)
    BY <1>1, TargetsShare
  <2>2. QED
    BY <1>2, <2>1 DEF Moved, Rescans
<1>6. Full(n) => Full(n)' \/ ~Scanned(n)'
  BY <1>1, <1>5 DEF Full, Scanned, TargetsOf
<1>7. ~Scanned(n) => ~Scanned(n)'
  BY <1>1, <1>5 DEF Scanned, TargetsOf
<1>8. CASE main \in {"look", "wait"} /\ node \in Range(TargetsOf(n))
  <2>1. /\ node \in Node /\ TargetsOf(node) = TargetsOf(n)
        /\ build.kids[node] = build.kids[n] /\ (Tainted(node) <=> Tainted(n))
    BY <1>1, <1>8, TargetsShare
  <2>2. WaitForThem
    <3>1. ~SkipFailed
      <4>1. SkipFailed => tm'.state = StatesAfterChildFailed(tm, node)
        BY SkipFailedResult
      <4>2. Range(TargetsOf(n)) \subseteq Node
        BY <1>1, TargetsType
      <4>3. QED
        BY <1>1, <1>2, <2>1, <4>1, <4>2
           DEF StatesAfterChildFailed, Closed, TargetsOf
    <3>2. ASSUME NEW m \in Node, PreparationFails(m) \/ NothingToDo(m) \/ Dispatch(m)
          PROVE  FALSE
      <4>1. TaskFor(m) /\ m = node
        BY <3>2 DEF PreparationFails, NothingToDo, Dispatch, TaskFor
      <4>2. n \in Range(TargetsOf(m))
        BY <1>1, <2>1, <4>1, TargetsType
      <4>3. QED
        BY <1>2, <3>2, <4>2, TaskCloses
    <3>3. QED
      BY <1>2, <1>8, <3>1, <3>2, StepsOfBuild, WorkerStep
         DEF Consider, SomeNotReady, NoTask, Collect, CleanupPool, CleanupTaskmaster,
             Interrupt, Get, walk
  <2>3. /\ tm'.state = tm.state /\ tm'.implicit = tm.implicit /\ main = "wait"
        /\ tm'.waiting_parents = [k \in Node |-> IF k \in children_not_ready
                                                 THEN tm.waiting_parents[k] \cup {node}
                                                 ELSE tm.waiting_parents[k]]
    BY <2>2, WaitForThemResult DEF WaitForThem
  <2>4. Full(node) => Full(n)
    BY <2>1 DEF Full
  <2>5. Tainted(n) => Outdated(n)
    BY DEF Outdated
  <2>6. ASSUME NEW k \in Range(build.kids[n]), k \in children_not_ready, ~Readable(tm, k)
        PROVE  Outdated(n)'
    <3>1. k \in Node
      BY <1>1, ChildrenType
    <3>2. node \in tm'.waiting_parents[k] /\ ~Readable(tm', k)
      BY <2>3, <2>6, <3>1 DEF Readable
    <3>3. QED
      BY <1>1, <1>8, <3>2 DEF Outdated, Readable, TargetsOf
  <2>7. QED
    BY <1>4, <1>6, <2>1, <2>3, <2>4, <2>5, <2>6 DEF WalkInv, WaitKnows
<1>9. QED
  BY <1>3, <1>4, <1>6, <1>7, <1>8 DEF WalkInv, ScansForgotten

(* Every step keeps FlightKnown: only will_not_build() fails what is in    *)
(* flight, and only what waited although it was made.                      *)
LEMMA FlightsKept ==
    ASSUME BooksInv, WalkInv, Next, Moved
    PROVE  FlightKnown'
<1>1. build' = build /\ retrieved \subseteq retrieved'
  BY DEF Moved
<1>2. SUFFICES ASSUME NEW n \in Node, InFlight(n)'
               PROVE  \/ tm'.state[n] = EXECUTING
                      \/ tm'.state[n] = EXECUTED /\ n \in retrieved'
                      \/ tm'.state[n] = FAILED /\ Tainted(n)'
  BY DEF FlightKnown, Condemned
<1>3. CASE \E m \in Node : Dispatch(m) /\ n \in Range(TargetsOf(m))
  BY <1>3, DispatchMoves
<1>4. CASE InFlight(n)
  <2>1. Tainted(n) => Tainted(n)'
    BY <1>1, TaintStays
  <2>2. \/ tm.state[n] = EXECUTING
        \/ tm.state[n] = EXECUTED /\ n \in retrieved
        \/ tm.state[n] = FAILED /\ Tainted(n)
    BY <1>4 DEF WalkInv, FlightKnown, Condemned
  <2>3. Closed(n) /\ tm.state[n] > PENDING
    BY <1>4, FlightIsClosed
  <2>4. ASSUME NEW x \in Node, n \in tm.waiting_parents[x] PROVE Tainted(n)
    BY <2>2, <2>4 DEF WalkInv, WaitersPend, Active
  <2>5. CASE tm'.state[n] = tm.state[n]
    BY <1>1, <2>1, <2>2, <2>5
  <2>6. CASE tm'.state[n] # tm.state[n]
    <3>1. \/ tm.state[n] <= PENDING
          \/ tm'.state[n] = FAILED /\ \E x \in Node : n \in tm.waiting_parents[x]
          \/ tm'.state[n] = EXECUTED /\ n \in retrieved'
      BY <1>2, <2>3, <2>6 DEF Moved, Moves
    <3>2. QED
      BY <2>1, <2>2, <2>3, <2>4, <3>1
  <2>7. QED
    BY <2>5, <2>6
<1>5. QED
  BY <1>2, <1>3, <1>4, FlightKept DEF WalkInv

(* Every step keeps ParentsTainted.                                        *)
LEMMA ParentsKept ==
    ASSUME BooksInv, WalkInv, Next, Moved
    PROVE  ParentsTainted'
<1>1. build \in Builds /\ build' = build /\ retrieved \subseteq retrieved'
  BY EngineType DEF Moved
<1>2. \A n \in Node : Tainted(n) => Tainted(n)'
  BY <1>1, TaintStays
<1>3. /\ worker \in [Worker -> Threads] /\ worker' \in [Worker -> Threads]
      /\ \A v \in Worker : \A p \in worker[v].parents : p \in Node /\ Tainted(p)
  <2>1. worker \in [Worker -> Threads]
    BY TypesNow
  <2>2. EngineTypes'
    BY TypesKept
  <2>3. worker' \in [Worker -> Threads]
    BY <2>2 DEF EngineTypes, Threads
  <2>4. QED
    BY <2>1, <2>3 DEF WalkInv, ParentsTainted, Threads
<1>4. SUFFICES ASSUME NEW v \in Worker, NEW p \in worker'[v].parents,
                      p \notin worker[v].parents
               PROVE  Tainted(p)'
  BY <1>2, <1>3 DEF ParentsTainted
<1>5. Retrieve(v)
  <2>1. worker' # worker /\ worker'[v] # worker[v]
    BY <1>4
  <2>2. ASSUME NEW w \in Worker, Get(w) PROVE FALSE
    <3>1. worker'[w].parents = worker[w].parents
          /\ \A u \in Worker \ {w} : worker'[u] = worker[u]
      BY <2>2, GetResult
    <3>2. QED
      BY <1>4, <3>1
  <2>3. ASSUME NEW w \in Worker, RetrievalDone(w) \/ BuildTargets(w) PROVE FALSE
    <3>1. w = v
      BY <2>1, <2>3, WorkerStep DEF Keeps, Puts
    <3>2. worker'[w].parents = {}
      <4>1. CASE \E ok \in {"ok", "failed"} : PutResult(w, ok)
        BY <4>1, PutResultResult DEF Idle
      <4>2. CASE worker' = [worker EXCEPT ![w].phase = "retrieve",
                                          ![w].pos = worker[w].pos + 1,
                                          ![w].parents = {}]
        BY <1>3, <4>2 DEF Threads
      <4>3. QED
        BY <2>3, <4>1, <4>2 DEF RetrievalDone, BuildTargets
    <3>3. QED
      BY <1>4, <3>1, <3>2
  <2>4. ASSUME NEW w \in Worker, Retrieve(w) PROVE w = v
    BY <2>1, <2>4, WorkerStep DEF Keeps, Puts
  <2>5. QED
    BY <2>1, <2>2, <2>3, <2>4, StepsOfBuild, QuietSteps
       DEF Dispatch, TaskFor, Collect, CleanupPool
<1>6. /\ worker[v].task # None
      /\ \/ /\ retrieved' = retrieved \cup {Target(v)}
            /\ worker' = [worker EXCEPT ![v].phase = "built",
                              ![v].parents = tm.waiting_parents[Target(v)]]
         \/ worker' = [worker EXCEPT ![v].phase = "build"]
  BY <1>5, RetrieveResult
<1>7. CASE worker' = [worker EXCEPT ![v].phase = "build"]
  BY <1>3, <1>4, <1>7 DEF Threads
<1>8. CASE /\ retrieved' = retrieved \cup {Target(v)}
           /\ worker' = [worker EXCEPT ![v].phase = "built",
                             ![v].parents = tm.waiting_parents[Target(v)]]
  <2>1. Target(v) \in Node
    BY <1>6, TaskInHand
  <2> DEFINE P == tm.waiting_parents[Target(v)]
  <2>2. worker' = [worker EXCEPT ![v].phase = "built", ![v].parents = P]
    BY <1>8
  <2> HIDE DEF P
  <2>3. p \in P
    BY <1>3, <1>4, <2>2 DEF Threads
  <2>4. p \in Node /\ Target(v) \in Sources(p)
    <3>1. P \subseteq Node
      BY <2>1, EngineType, AttributesDef DEF P
    <3>2. QED
      BY <2>1, <2>3, <3>1 DEF P, WalkInv, WaitersPend
  <2>5. QED
    BY <1>1, <1>8, <2>4, TaintedByRetrieval
<1>9. QED
  BY <1>6, <1>7, <1>8

(* A source that is ready stays so.                                        *)
LEMMA ReadyStays ==
    ASSUME BooksInv, WalkInv, Next, Moved, NEW k \in Node, Ready(k)
    PROVE  Ready(k)'
<1>1. /\ build' = build /\ retrieved \subseteq retrieved'
      /\ tm.state[k] \in Finished \/ (tm.state[k] = FAILED /\ Tainted(k))
      /\ Closed(k) /\ ~InFlight(k)
  BY DEF Moved, Ready, Condemned
<1>2. Closed(k)'
  BY <1>1, ClosedStays
<1>3. ~InFlight(k)'
  <2>1. ASSUME NEW m \in Node, Dispatch(m), k \in Range(TargetsOf(m)) PROVE FALSE
    BY <1>1, <2>1, PendingNotInFlight DEF Dispatch
  <2>2. QED
    BY <1>1, <2>1, FlightKept DEF WalkInv
<1>4. Tainted(k) => Tainted(k)'
  BY <1>1, TaintStays
<1>5. ASSUME NEW x \in Node, k \in tm.waiting_parents[x] PROVE Tainted(k)
  BY <1>1, <1>5 DEF WalkInv, WaitersPend, Active, Finished
<1>6. \/ tm'.state[k] = tm.state[k]
      \/ tm'.state[k] = FAILED /\ \E x \in Node : k \in tm.waiting_parents[x]
  BY <1>1 DEF Moved, Moves, Finished
<1>7. tm'.state[k] \in Finished \/ (tm'.state[k] = FAILED /\ Tainted(k)')
  BY <1>1, <1>4, <1>5, <1>6
<1>8. QED
  BY <1>2, <1>3, <1>7 DEF Ready, Condemned

(* Every step keeps SourcesReady: what is dispatched has its sources done, *)
(* and what is ready stays so.                                             *)
LEMMA SourcesKept ==
    ASSUME BooksInv, WalkInv, Next, Moved
    PROVE  SourcesReady'
<1>1. build \in Builds /\ build' = build /\ retrieved \subseteq retrieved'
  BY EngineType DEF Moved
<1>2. SUFFICES ASSUME NEW n \in Node, InFlight(n)'
               PROVE  /\ \A k \in Range(build.kids[n]) : Ready(k)' \/ k \in retrieved'
                      /\ \A k \in Range(build.late[n]) : Ready(k)' \/ Tainted(n)'
  BY <1>1 DEF SourcesReady
<1>3. Tainted(n) => Tainted(n)'
  BY <1>1, TaintStays
<1>4. \A k \in Sources(n) : k \in Node
  BY <1>1, ChildrenType
<1>5. \A k \in Sources(n) : Ready(k) => Ready(k)'
  BY <1>4, ReadyStays
<1>6. CASE InFlight(n)
  BY <1>1, <1>3, <1>5, <1>6 DEF WalkInv, SourcesReady, Sources
<1>7. ASSUME NEW m \in Node, Dispatch(m), n \in Range(TargetsOf(m))
      PROVE  /\ \A k \in Range(build.kids[n]) : Ready(k)' \/ k \in retrieved'
             /\ \A k \in Range(build.late[n]) : Ready(k)' \/ Tainted(n)'
  <2>1. TaskFor(m) /\ SourcesDone(n) /\ ~Closed(n)
    BY <1>7, ReadyMoves DEF Dispatch
  <2>2. ASSUME NEW k \in Range(Children(tm, n)) PROVE Ready(k) \/ k \in retrieved
    <3>1. k \in Node /\ tm.state[k] \in Finished
      BY <1>1, <2>1, ChildrenType DEF SourcesDone
    <3>2. Closed(k)
      BY <3>1 DEF WalkInv, MadeTogether, Finished, Active
    <3>3. InFlight(k) => k \in retrieved
      BY <3>1 DEF WalkInv, FlightKnown, Condemned, Finished
    <3>4. QED
      BY <3>1, <3>2, <3>3 DEF Ready
  <2>3. Full(n) => Sources(n) \subseteq Range(Children(tm, n))
    BY <1>1, ChildrenType DEF Full
  <2>4. ~Full(n) => Tainted(n)
    BY <2>1, IncompleteIsTainted DEF WalkInv
  <2>5. \A k \in Sources(n) : k \in retrieved => Tainted(n)
    BY <1>1, TaintedBySource
  <2>6. \A k \in Range(build.kids[n]) : k \in Range(Children(tm, n)) /\ k \in Sources(n)
    BY <1>1, ChildrenType DEF Sources
  <2>7. \A k \in Range(build.late[n]) : k \in Sources(n)
    BY DEF Sources
  <2>8. QED
    BY <1>1, <1>3, <1>5, <2>2, <2>3, <2>4, <2>5, <2>6, <2>7
<1>8. QED
  BY <1>2, <1>6, <1>7, FlightKept DEF WalkInv

-----------------------------------------------------------------------------

(* The invariant of the walk holds at the start.                           *)
LEMMA WalkInit == Init => WalkInv
<1> SUFFICES ASSUME Init PROVE WalkInv
  OBVIOUS
<1>1. /\ requestQueue = <<>> /\ resultsQueue = <<>> /\ main = "fill"
      /\ worker = [w \in Worker |-> Idle] /\ build \in Builds
  BY DEF Init, TaskmasterInit
<1>2. /\ \A n \in Node : tm.state[n] = NO_STATE /\ tm.waiting_parents[n] = {}
      /\ \A n \in Node : tm.implicit[n] = "none"
  BY DEF Init, TaskmasterInit
<1>3. ASSUME NEW n PROVE Queued(n) = {} /\ Held(n) = {} /\ Returned(n) = {}
  <2>1. Range(Idle.task) = {}
    BY DEF Idle, None, Range
  <2>2. QED
    BY <1>1, <2>1 DEF Queued, Held, Returned
<1>4. \A n \in Node : ~Scanned(n)
  <2>1. \A n \in Node : n \in Range(TargetsOf(n))
    BY <1>1, TargetsType
  <2>2. QED
    BY <1>2, <2>1 DEF Scanned
<1>5. InOnePlace
  BY <1>3 DEF InOnePlace
<1>6. FlightKnown /\ SourcesReady
  BY <1>3 DEF FlightKnown, SourcesReady, InFlight
<1>7. ParentsTainted
  BY <1>1 DEF ParentsTainted, Idle
<1>8. ScansForgotten
  BY <1>4 DEF ScansForgotten
<1>9. LookKnows /\ WaitKnows
  BY <1>1 DEF LookKnows, WaitKnows
<1>10. /\ WaitersPend /\ MadeTogether /\ FinishedReleases /\ UpToDateIsReadable
       /\ FailuresStay
  BY <1>2 DEF WaitersPend, MadeTogether, FinishedReleases, UpToDateIsReadable,
              FailuresStay, Active, Finished
<1>11. QED
  BY <1>5, <1>6, <1>7, <1>8, <1>9, <1>10 DEF WalkInv

(* Every step keeps the invariant of the walk.                             *)
LEMMA WalkStep == BooksInv /\ WalkInv /\ [Next]_vars => WalkInv'
<1>1. ASSUME BooksInv, WalkInv, Next PROVE WalkInv'
  <2>1. Moved
    BY <1>1, StepMoves DEF WalkInv
  <2>2. InOnePlace'
    BY <1>1, FlightKept DEF WalkInv, InOnePlace, Apart
  <2>3. QED
    BY <1>1, <2>1, <2>2, WaitersKept, TogetherKept, ReleasesKept, FailuresKept,
       LookKept,
       WaitKept, ScansKept, FlightsKept, ParentsKept, SourcesKept DEF WalkInv
<1>2. ASSUME WalkInv, UNCHANGED vars PROVE WalkInv'
  <2>1. UNCHANGED <<build, tm, main, node, children_not_ready, requestQueue,
                    resultsQueue, worker, retrieved>>
    BY <1>2 DEF vars, walk, queues, history
  <2>2. InOnePlace'
    BY <1>2, <2>1 DEF WalkInv, InOnePlace, Queued, Held, Returned
  <2>3. WaitersPend'
    BY <1>2, <2>1 DEF WalkInv, WaitersPend, Tainted, Closure, Sources
  <2>4. MadeTogether' /\ FinishedReleases' /\ UpToDateIsReadable'
    BY <1>2, <2>1
       DEF WalkInv, MadeTogether, FinishedReleases, UpToDateIsReadable, Closed, TargetsOf
  <2>5. FailuresStay'
    BY <1>2, <2>1
       DEF WalkInv, FailuresStay, Closed, TargetsOf, Tainted, Closure, Sources
  <2>6. LookKnows' /\ WaitKnows'
    BY <1>2, <2>1
       DEF WalkInv, LookKnows, WaitKnows, Readable, Full, TargetsOf,
           Sources,
                      Tainted, Closure
  <2>7. ScansForgotten'
    BY <1>2, <2>1
       DEF WalkInv, ScansForgotten, Closed, Full, Scanned, Outdated, Readable,
           TargetsOf, Tainted, Closure, Sources
  <2>8. FlightKnown'
    BY <1>2, <2>1
       DEF WalkInv, FlightKnown, InFlight, Queued, Held, Returned, Condemned,
           Tainted, Closure, Sources
  <2>9. ParentsTainted'
    BY <1>2, <2>1 DEF WalkInv, ParentsTainted, Tainted, Closure, Sources
  <2>10. SourcesReady'
    <3>1. ASSUME NEW k PROVE Ready(k)' = Ready(k)
      BY <2>1
         DEF Ready, InFlight, Queued, Held, Returned, Condemned, Closed,
             TargetsOf,
                  Tainted, Closure, Sources
    <3>2. ASSUME NEW n PROVE InFlight(n)' = InFlight(n) /\ Tainted(n)' = Tainted(n)
      BY <2>1 DEF InFlight, Queued, Held, Returned, Tainted, Closure, Sources
    <3>3. QED
      BY <1>2, <2>1, <3>1, <3>2 DEF WalkInv, SourcesReady
  <2>11. QED
    BY <2>2, <2>3, <2>4, <2>5, <2>6, <2>7, <2>8, <2>9, <2>10 DEF WalkInv
<1>3. QED
  BY <1>1, <1>2

(* The inductive invariant of the walk holds in every build.               *)
THEOREM WalkInvariance == Spec => []WalkInv
BY BooksInvariance, WalkInit, WalkStep, PTL DEF Spec

(* While a worker builds a target, its sources are finished and nobody is  *)
(* writing them, and so are the files these include, but for what the      *)
(* cache has given to a worker in the meantime.                            *)
THEOREM WorkersBuildFromSettledSources == Spec => []ChildrenSettled
<1>1. WalkInv /\ BooksInv => ChildrenSettled
  <2> SUFFICES ASSUME WalkInv, BooksInv, NEW w \in Worker, NEW t \in Building(w)
               PROVE  /\ \A k \in Range(build.kids[t]) : Settled(k) \/ k \in retrieved
                      /\ \A k \in Range(build.late[t]) : Settled(k) \/ Tainted(t)
    BY DEF ChildrenSettled
  <2>1. ASSUME NEW v \in Worker, NEW n \in Building(v)
        PROVE  n \in Node /\ InFlight(n)
    <3>1. n \in Range(worker[v].task)
      BY <2>1 DEF Building
    <3>2. worker[v].task \in Seq(Node)
      BY TypesNow DEF Threads
    <3>3. QED
      BY <3>1, <3>2, EntriesOfList DEF InFlight, Held
  <2>2. \A k : Ready(k) => Settled(k)
    BY <2>1 DEF Ready, Settled
  <2>3. t \in Node /\ InFlight(t)
    BY <2>1
  <2>4. QED
    BY <2>2, <2>3 DEF WalkInv, SourcesReady
<1>2. QED
  BY <1>1, BooksInvariance, WalkInvariance, PTL

-----------------------------------------------------------------------------

(* What the build still owes to the nodes that wait: the invariant behind  *)
(* CyclesAreReal and SuccessMeansBuilt.                                    *)

(* A node is on somebody's list of waiting parents.                        *)
Waits(k) == \E j \in Node : k \in tm.waiting_parents[j]

(* The walk may still register a node.                                     *)
Walking == tm.next_candidate = "find" \/ main \in {"look", "wait"}

(* It is a candidate, or the one that the main thread looks at.            *)
OnHand(k) ==
    k \in Range(tm.candidates) \/ (main \in {"look", "wait"} /\ k = node)

(* A node that is waited for will be looked at, waits itself, or is in     *)
(* flight.                                                                 *)
PendingOwed ==
    \A k \in Node :
        tm.state[k] = PENDING /\ (Walking \/ tm.waiting_parents[k] # {}) =>
            OnHand(k) \/ Waits(k)

(* A node that has not been looked at waits for nobody, and is waited for  *)
(* only as a candidate.                                                    *)
UnvisitedOwed ==
    \A k \in Node :
        tm.state[k] = NO_STATE =>
            /\ tm.waiting_parents[k] # {} => k \in Range(tm.candidates)
            /\ ~Waits(k)

(* What executes is in flight, and what is finished is in flight or is     *)
(* waited for no longer.                                                   *)
ActiveOwed ==
    \A k \in Node :
        /\ tm.state[k] = EXECUTING => InFlight(k)
        /\ tm.state[k] \in Finished => InFlight(k) \/ tm.waiting_parents[k] = {}

(* The children that the node looked at is about to wait for will be       *)
(* built, or wait themselves.                                              *)
WaitOwed ==
    main = "wait" =>
        /\ children_not_ready # {}
        /\ \A k \in children_not_ready :
              /\ tm.state[k] = NO_STATE => k \in Range(tm.candidates)
              /\ tm.state[k] \in Finished => InFlight(k)
              /\ tm.state[k] # FAILED

(* A node is in pending_children only if somebody waits for it, and in any *)
(* circle of nodes that wait there is one.                                 *)
PendingAwaited == \A n \in tm.pending_children : tm.waiting_parents[n] # {}

(* A set of pending nodes each of which waits for another one of them.     *)
Circle(S) ==
    /\ S # {}
    /\ \A n \in S : tm.state[n] = PENDING /\ \E k \in S : n \in tm.waiting_parents[k]

CirclesPend == \A S \in SUBSET Node : Circle(S) => S \cap tm.pending_children # {}

(* Nothing revives a node that has failed and is not in flight, nor what   *)
(* needs it.                                                               *)
DeadNodes == {k \in Node : tm.state[k] = FAILED /\ Closed(k) /\ ~InFlight(k)}

(* All that a node is built from, directly or not.                         *)
Need(n) == Closure(Sources(n), Sources)

(* The nodes that need one that is dead.                                   *)
Cursed == {n \in Node : Need(n) \cap DeadNodes # {}}

FailedForReason ==
    \A n \in Node : tm.state[n] = FAILED =>
        (n \in DeadNodes /\ tm.waiting_parents[n] = {}) \/ n \in Cursed

(* Without --keep-going the walk ends with the first failure.              *)
FailureStops ==
    build.failing # "keep_going" =>
        \A n \in Node : tm.state[n] = FAILED =>
            /\ tm.next_candidate = "no" /\ main \notin {"look", "wait"}
            /\ tm.waiting_parents[n] = {}

(* The end.                                                                *)
EndKnows ==
    /\ main \in {"cleanup", "join", "done"} =>
          /\ jobs = 0 /\ tm.candidates = <<>>
          /\ tm.next_candidate = "find" => tm.top_targets_left = <<>>
    /\ cleanup_error = (main = "done" /\ CleanupError(tm))

(* The inductive invariant behind CyclesAreReal.                           *)
CycleInv ==
    /\ PendingOwed /\ UnvisitedOwed /\ ActiveOwed /\ WaitOwed /\ PendingAwaited
    /\ FailedForReason /\ FailureStops /\ EndKnows

(* As long as scons would return 0.                                        *)
FailuresCount == exit_status = 0 =>
    /\ \A n \in Node : tm.state[n] # FAILED
    /\ ~interrupted => tm.next_candidate = "find"

(* A target asked for is still to be taken, or has been looked at.         *)
TopsOwed ==
    \A n \in Range(build.tops) :
        n \in Range(tm.top_targets_left) \/ tm.state[n] # NO_STATE

(* While scons would return 0, what is executing or made has all its       *)
(* children made.                                                          *)
ChildrenDone ==
    exit_status = 0 =>
        \A n \in Node : tm.state[n] \in Active =>
            \A k \in Range(Children(tm, n)) : tm.state[k] \in Finished

(* The inductive invariant behind SuccessMeansBuilt.                       *)
SuccessInv == CirclesPend /\ FailuresCount /\ TopsOwed /\ ChildrenDone

-----------------------------------------------------------------------------

(* will_not_build() goes on to the parents of what it fails.               *)
LEMMA DoomedGoesOn ==
    ASSUME NEW s \in Attributes, NEW ns, NEW x \in Doomed(s, ns)
    PROVE  s.waiting_parents[x] \subseteq Doomed(s, ns)
<1>1. ASSUME NEW p \in s.waiting_parents[x], NEW D \in SUBSET Node,
             ns \subseteq D, ParentsOf(s, D) \subseteq D
      PROVE  p \in D
  BY <1>1 DEF Doomed, ParentsOf
<1>2. s.waiting_parents[x] \subseteq Node
  BY AttributesDef, DoomedType
<1>3. QED
  BY <1>1, <1>2 DEF Doomed

(* No candidate is lost; a node that leaves pending_children is waited for *)
(* no more, and the others are as before; and a node that waited waits on, *)
(* is a candidate or has failed.                                           *)
Shelves(s, t) ==
    /\ t.top_targets_left = s.top_targets_left
    /\ Range(s.candidates) \subseteq Range(t.candidates)
    /\ t.pending_children \subseteq s.pending_children
    /\ \A n \in t.pending_children : t.waiting_parents[n] = s.waiting_parents[n]
    /\ \A n \in s.pending_children :
          n \in t.pending_children \/ t.waiting_parents[n] = {}
    /\ \A n \in Node : t.waiting_parents[n] \subseteq s.waiting_parents[n]
    /\ \A p \in Node : (\E j \in Node : p \in s.waiting_parents[j]) =>
          \/ p \in Range(t.candidates)
          \/ \E j \in Node : p \in t.waiting_parents[j]
          \/ t.state[p] = FAILED

(* A step that leaves the lists and the states alone leaves the shelves    *)
(* alone.                                                                  *)
LEMMA SameShelves ==
    ASSUME NEW s, NEW t,
           t.top_targets_left = s.top_targets_left, t.waiting_parents = s.waiting_parents,
           Range(s.candidates) \subseteq Range(t.candidates),
           t.pending_children = s.pending_children
    PROVE  Shelves(s, t)
BY DEF Shelves

(* Two operations, one after the other.                                    *)
LEMMA ShelvesTwice ==
    ASSUME NEW s \in Attributes, NEW f \in Attributes, NEW t \in Attributes,
           Shelves(s, f), Shelves(f, t),
           \A n \in Node : f.state[n] = FAILED => t.state[n] = FAILED
    PROVE  Shelves(s, t)
<1>1. /\ t.top_targets_left = s.top_targets_left
      /\ Range(s.candidates) \subseteq Range(t.candidates)
      /\ t.pending_children \subseteq s.pending_children
      /\ \A n \in t.pending_children : t.waiting_parents[n] = s.waiting_parents[n]
      /\ \A n \in Node : t.waiting_parents[n] \subseteq s.waiting_parents[n]
  BY DEF Shelves
<1>2. ASSUME NEW n \in s.pending_children
      PROVE  n \in t.pending_children \/ t.waiting_parents[n] = {}
  <2>1. n \in Node
    BY AttributesDef
  <2>2. CASE n \in f.pending_children
    BY <2>2 DEF Shelves
  <2>3. CASE f.waiting_parents[n] = {}
    BY <2>1, <2>3 DEF Shelves
  <2>4. QED
    BY <2>2, <2>3 DEF Shelves
<1>3. ASSUME NEW p \in Node, \E j \in Node : p \in s.waiting_parents[j]
      PROVE  \/ p \in Range(t.candidates)
             \/ \E j \in Node : p \in t.waiting_parents[j]
             \/ t.state[p] = FAILED
  <2>1. \/ p \in Range(f.candidates)
        \/ \E j \in Node : p \in f.waiting_parents[j]
        \/ f.state[p] = FAILED
    BY <1>3 DEF Shelves
  <2>2. QED
    BY <2>1 DEF Shelves
<1>4. QED
  BY <1>1, <1>2, <1>3 DEF Shelves

(* postprocess() makes candidates of the parents that wait for nothing     *)
(* else.                                                                   *)
LEMMA PostprocessShelves ==
    ASSUME NEW s \in Attributes, Agree(s), NEW ts, Range(ts) \subseteq Node,
           NEW order \in SetToSeqs(Released(s, ts))
    PROVE  Shelves(s, Postprocess(s, ts, order))
<1> DEFINE t == Postprocess(s, ts, order)
           pending == s.pending_children \ {k \in Range(ts) : s.waiting_parents[k] # {}}
           joined == s.candidates \o order
<1>1. t = [s EXCEPT !.pending_children = pending,
                    !.ref_count = Uncounted(s, Range(ts)),
                    !.candidates = joined,
                    !.waiting_parents = Cleared(s, Range(ts))]
  BY DEF Postprocess, Uncounted, Cleared
<1>2. Released(s, ts) \subseteq Node
  BY AttributesDef DEF Released, ParentsOf
<1>3. order \in Seq(Node) /\ Range(order) = Released(s, ts)
  BY <1>2, ReleasedType, OrderIsComplete
<1>4. Range(joined) = Range(s.candidates) \cup Released(s, ts)
  BY <1>3, AttributesDef, EntriesOfJoin
<1>5. /\ t.pending_children = pending /\ t.candidates = joined
      /\ t.waiting_parents = Cleared(s, Range(ts))
      /\ t.top_targets_left = s.top_targets_left
  <2> HIDE DEF pending, joined
  <2>1. QED
    BY <1>1 DEF Attributes
<1> HIDE DEF t, joined
<1>6. ASSUME NEW p \in Node, NEW j \in Node, p \in s.waiting_parents[j],
             ~\E k \in Node : p \in t.waiting_parents[k]
      PROVE  p \in Released(s, ts)
  <2>1. \A k \in Node : p \in s.waiting_parents[k] => k \in Range(ts)
    BY <1>5, <1>6 DEF Cleared
  <2>2. p \in ParentsOf(s, Range(ts))
    BY <1>6, <2>1 DEF ParentsOf
  <2>3. {k \in Node : p \in s.waiting_parents[k]}
           = {k \in Range(ts) : p \in s.waiting_parents[k]}
    BY <2>1
  <2>4. s.ref_count[p] = WaitsFor(s, p, Range(ts))
    BY <2>3, Zenon DEF Agree, WaitsFor
  <2>5. QED
    BY <2>2, <2>4 DEF Released
<1>7. \A n \in Node : t.waiting_parents[n] \subseteq s.waiting_parents[n]
  BY <1>5 DEF Cleared
<1>8. \A n \in t.pending_children : t.waiting_parents[n] = s.waiting_parents[n]
  BY <1>5, AttributesDef DEF Cleared
<1>9. \A n \in s.pending_children :
         n \in t.pending_children \/ t.waiting_parents[n] = {}
  BY <1>5, AttributesDef DEF Cleared
<1>10. Range(s.candidates) \subseteq Range(t.candidates)
       /\ Released(s, ts) \subseteq Range(t.candidates)
  BY <1>4, <1>5
<1>11. \A p \in Node : (\E j \in Node : p \in s.waiting_parents[j]) =>
          p \in Range(t.candidates) \/ \E j \in Node : p \in t.waiting_parents[j]
  BY <1>6, <1>10
<1>12. t.pending_children \subseteq s.pending_children
  BY <1>5
<1>13. Shelves(s, t)
  BY <1>5, <1>7, <1>8, <1>9, <1>10, <1>11, <1>12 DEF Shelves
<1>14. QED
  BY <1>13 DEF t

(* will_not_build() and the failure of what it visits.                     *)
LEMMA FailedShelves ==
    ASSUME NEW s \in Attributes, Agree(s), NEW ts
    PROVE  Shelves(s, Failed(s, ts))
<1> DEFINE D == Doomed(s, Range(ts))
           t == Failed(s, ts)
           pending == s.pending_children \ D
<1>1. /\ t \in Attributes /\ t.state = StatesAfterFailure(s, ts)
      /\ t.waiting_parents = Cleared(s, D) /\ Stack(t) = Stack(s)
  BY FailedResult
<1>2. t.pending_children = pending
  <2> DEFINE b == WillNotBuild(s, Range(ts))
             c == FailContinue(s, ts)
  <2>1. b = [s EXCEPT !.pending_children = pending,
                      !.ref_count = Uncounted(s, D), !.waiting_parents = Cleared(s, D)]
    BY DEF WillNotBuild, Uncounted, Cleared
  <2>2. b \in Attributes /\ b.state = s.state
    BY WillNotBuildResult
  <2>3. c = [b EXCEPT !.state = StatesAfterFailure(s, ts)]
    BY <2>2 DEF FailContinue, StatesAfterFailure
  <2>4. t = c \/ t = [c EXCEPT !.next_candidate = "no"]
    BY DEF Failed, Stop
  <2> HIDE DEF b, c, t, D, pending
  <2>5. b.pending_children = pending
    BY <2>1 DEF Attributes
  <2>6. c \in Attributes /\ c.pending_children = b.pending_children
    <3>1. StatesAfterFailure(s, ts) \in [Node -> NO_STATE .. FAILED]
      BY AttributesDef DEF StatesAfterFailure, NO_STATE, FAILED
    <3>2. QED
      BY <2>2, <2>3, <3>1 DEF Attributes
  <2>7. QED
    BY <2>4, <2>5, <2>6 DEF Attributes
<1>3. t.top_targets_left = s.top_targets_left /\ t.candidates = s.candidates
  BY <1>1 DEF Stack
<1> HIDE DEF t
<1>4. /\ \A n \in Node : t.waiting_parents[n] \subseteq s.waiting_parents[n]
      /\ \A n \in Node \ D : t.waiting_parents[n] = s.waiting_parents[n]
      /\ \A n \in Node \cap D : t.waiting_parents[n] = {}
  BY <1>1 DEF Cleared
<1>5. s.pending_children \subseteq Node
  BY AttributesDef
<1>6. ASSUME NEW p \in Node, NEW j \in Node, p \in s.waiting_parents[j]
      PROVE  p \in t.waiting_parents[j] \/ t.state[p] = FAILED
  <2>1. CASE j \in D
    BY <1>1, <1>6, <2>1, DoomedGoesOn DEF StatesAfterFailure
  <2>2. CASE j \notin D
    BY <1>4, <1>6, <2>2
  <2>3. QED
    BY <2>1, <2>2
<1> HIDE DEF D
<1>7. Shelves(s, t)
  BY <1>2, <1>3, <1>4, <1>5, <1>6 DEF Shelves
<1>8. QED
  BY <1>7 DEF t

(* executed() and make_ready_current() leave the shelves alone, ...        *)
LEMMA FinishTaskShelves ==
    ASSUME NEW s \in Attributes, Agree(s), NEW ts, Range(ts) \subseteq Node,
           FinishTask(s, ts)
    PROVE  Shelves(s, tm')
<1> DEFINE e == Executed(s, ts)
<1>1. PICK order \in SetToSeqs(Released(e, ts)) : tm' = Postprocess(e, ts, order)
  BY DEF FinishTask
<1>2. /\ e \in Attributes /\ e.state = StatesAfterExecution(s, ts)
      /\ e.ref_count = s.ref_count /\ e.waiting_parents = s.waiting_parents
      /\ e.candidates = s.candidates /\ e.top_targets_left = s.top_targets_left
      /\ e.pending_children = s.pending_children
  BY ExecutedResult DEF Books, Stack
<1> HIDE DEF e
<1>3. Agree(e)
  BY <1>2 DEF Agree
<1>4. Shelves(e, tm')
  BY <1>1, <1>2, <1>3, PostprocessShelves
<1>5. Shelves(s, e)
  BY <1>2, SameShelves
<1>6. tm' \in Attributes /\ tm'.state = e.state
  <2>1. order \in Seq(Node)
    BY <1>2, ReleasedType
  <2>2. QED
    BY <1>1, <1>2, <1>3, <2>1, PostprocessResult
<1>7. QED
  BY <1>2, <1>4, <1>5, <1>6, ShelvesTwice

(* ... and so does a failure, but for what has failed.                     *)
LEMMA FailTaskShelves ==
    ASSUME NEW s \in Attributes, Agree(s), s.current_top \in Node,
           NEW ts, Range(ts) \subseteq Node, FailTask(s, ts)
    PROVE  Shelves(s, tm')
<1> DEFINE f == Failed(s, ts)
           top == FailedTargets(s, ts)
<1>1. PICK order \in SetToSeqs(Released(f, top)) : tm' = Postprocess(f, top, order)
  BY DEF FailTask
<1>2. Range(top) \subseteq Node
  <2>1. CASE build.failing = "keep_going"
    BY <2>1 DEF FailedTargets
  <2>2. CASE build.failing # "keep_going"
    <3>1. top = <<s.current_top>>
      BY <2>2 DEF FailedTargets
    <3>2. top \in Seq(Node)
      BY <3>1
    <3>3. QED
      BY <3>2, EntriesOfList
  <2>3. QED
    BY <2>1, <2>2
<1>3. f \in Attributes /\ Agree(f) /\ Shelves(s, f)
  BY FailedResult, FailedShelves
<1> HIDE DEF f, top
<1>4. Shelves(f, tm')
  BY <1>1, <1>2, <1>3, PostprocessShelves
<1>5. tm' \in Attributes /\ tm'.state = f.state
  <2>1. order \in Seq(Node)
    BY <1>2, <1>3, ReleasedType
  <2>2. QED
    BY <1>1, <1>2, <1>3, <2>1, PostprocessResult
<1>6. QED
  BY <1>3, <1>4, <1>5, ShelvesTwice

(* A task that is made ready and ends at once.                             *)
LEMMA ReadyShelves ==
    ASSUME BooksInv, NEW n \in Node, TaskFor(n),
           \/ FailTask(MakeReady(tm, n), TargetsOf(n))
           \/ FinishTask(MakeReady(tm, n), TargetsOf(n))
           \/ tm' = MakeReady(tm, n)
    PROVE  Shelves(tm, tm')
<1> DEFINE s == MakeReady(tm, n)
<1>1. tm \in Attributes /\ Range(TargetsOf(n)) \subseteq Node
  BY EngineType, TargetsType
<1>2. s \in Attributes /\ Agree(s) /\ s.current_top \in Node
  BY TaskForResult
<1>3. /\ s.top_targets_left = tm.top_targets_left
      /\ s.waiting_parents = tm.waiting_parents
      /\ s.candidates = tm.candidates /\ s.pending_children = tm.pending_children
  BY <1>1, MakeReadyResult
<1>4. Shelves(s, tm') \/ tm' = s
  BY <1>1, <1>2, FailTaskShelves, FinishTaskShelves
<1> HIDE DEF s
<1>5. CASE Shelves(s, tm')
  BY <1>3, <1>5 DEF Shelves
<1>6. CASE tm' = s
  BY <1>3, <1>6, SameShelves
<1>7. QED
  BY <1>4, <1>5, <1>6

(* The steps that do not change the shelves in any other way.              *)
LEMMA StepShelves ==
    ASSUME BooksInv, Next
    PROVE  Consider \/ WaitForThem \/ NoTask \/ Shelves(tm, tm')
<1>1. tm \in Attributes /\ Agree(tm) /\ build \in Builds
  BY EngineType
<1>2. CASE SkipFailed
  <2>1. node \in Node /\ \E new \in NotVisited(tm, node) : tm' = ChildrenFailed(tm, node, new)
    BY <1>2, EngineType DEF SkipFailed
  <2>2. /\ Range(tm.candidates) \subseteq Range(tm'.candidates)
        /\ tm'.top_targets_left = tm.top_targets_left
        /\ tm'.pending_children = tm.pending_children
        /\ Books(tm') = Books(tm)
    BY <1>1, <2>1, ChildrenFailedResult
  <2>3. QED
    BY <2>2, SameShelves DEF Books
<1>3. CASE SomeNotReady
  <2>1. node \in Node /\ \E new \in NotVisited(tm, node) : tm' = AddNotVisited(tm, new)
    BY <1>3, EngineType DEF SomeNotReady
  <2>2. /\ Range(tm.candidates) \subseteq Range(tm'.candidates)
        /\ tm'.top_targets_left = tm.top_targets_left
        /\ tm'.pending_children = tm.pending_children
        /\ Books(tm') = Books(tm)
    BY <1>1, <2>1, AddNotVisitedResult
  <2>3. QED
    BY <2>2, SameShelves DEF Books
<1>4. CASE \E n \in Node : PreparationFails(n) \/ NothingToDo(n) \/ Dispatch(n)
  <2>1. PICK n \in Node : PreparationFails(n) \/ NothingToDo(n) \/ Dispatch(n)
    BY <1>4
  <2>2. /\ TaskFor(n)
        /\ \/ FailTask(MakeReady(tm, n), TargetsOf(n))
           \/ FinishTask(MakeReady(tm, n), TargetsOf(n))
           \/ tm' = MakeReady(tm, n)
    BY <2>1 DEF PreparationFails, NothingToDo, Dispatch
  <2>3. QED
    BY <2>2, ReadyShelves
<1>5. CASE Collect
  <2>1. /\ Range(Head(resultsQueue).task) \subseteq Node /\ tm.current_top \in Node
    BY <1>5, CollectResult
  <2>2. \/ FinishTask(tm, Head(resultsQueue).task)
        \/ FailTask(tm, Head(resultsQueue).task)
    BY <1>5 DEF Collect
  <2>3. QED
    BY <1>1, <2>1, <2>2, FailTaskShelves, FinishTaskShelves
<1>6. CASE Interrupt
  <2>1. tm' = [tm EXCEPT !.next_candidate = "no"]
    BY <1>6 DEF Interrupt, Stop
  <2>2. /\ tm'.top_targets_left = tm.top_targets_left
        /\ tm'.waiting_parents = tm.waiting_parents
        /\ tm'.candidates = tm.candidates /\ tm'.pending_children = tm.pending_children
    BY <1>1, <2>1 DEF Attributes
  <2>3. QED
    BY <2>2, SameShelves
<1>7. CASE \E w \in Worker : Retrieve(w)
  BY <1>7, RetrieveResult, SameShelves
<1>8. CASE \E w \in Worker : RetrievalDone(w)
  BY <1>8, RetrievalDoneResult, SameShelves
<1>9. CASE tm' = tm
  BY <1>9, SameShelves
<1>10. CleanupPool \/ CleanupTaskmaster \/ (\E w \in Worker : Get(w))
          \/ (\E w \in Worker : BuildTargets(w)) => tm' = tm
  BY DEF CleanupPool, CleanupTaskmaster, Get, BuildTargets
<1>11. QED
  BY <1>2, <1>3, <1>4, <1>5, <1>6, <1>7, <1>8, <1>9, <1>10, StepsOfBuild

(* Consider takes a candidate, or the next target asked for.               *)
Takes(c) ==
    /\ c \in Node
    /\ Range(tm.candidates) \subseteq Range(tm'.candidates) \cup {c}
    /\ Range(tm.top_targets_left) \subseteq Range(tm'.top_targets_left) \cup {c}
    /\ tm'.pending_children = tm.pending_children
    /\ tm'.waiting_parents = tm.waiting_parents
    /\ \/ tm.state[c] > PENDING /\ tm'.state = tm.state /\ UNCHANGED main
       \/ /\ tm.state[c] <= PENDING
          /\ tm'.state = [tm.state EXCEPT ![c] = PENDING]
          /\ main' = "look" /\ node' = c

(* The last of a list and the others.                                      *)
LEMMA LastAndFront ==
    ASSUME NEW T, NEW q \in Seq(T), q # <<>>
    PROVE  Range(q) \subseteq Range(Front(q)) \cup {Last(q)} /\ Last(q) \in T
<1> DEFINE m == Len(q)
<1>1. m \in Nat /\ m > 0 /\ DOMAIN q = 1 .. m
  OBVIOUS
<1>2. Front(q) = [i \in 1 .. m - 1 |-> q[i]]
  BY DEF Front
<1>3. /\ DOMAIN Front(q) = 1 .. m - 1
      /\ \A i \in 1 .. m - 1 : Front(q)[i] = q[i]
      /\ Last(q) = q[m]
  BY <1>2 DEF Last
<1> HIDE DEF m
<1>4. ASSUME NEW i \in 1 .. m PROVE i = m \/ i \in 1 .. m - 1
  BY <1>1
<1>5. Range(q) \subseteq Range(Front(q)) \cup {Last(q)}
  BY <1>1, <1>3, <1>4 DEF Range
<1>6. Last(q) \in T
  BY <1>1, <1>3
<1>7. QED
  BY <1>5, <1>6

(* That is all that _find_next_ready_node() does when it takes a node.     *)
LEMMA ConsiderShelves ==
    ASSUME BooksInv, Consider
    PROVE  \E c : Takes(c)
<1> DEFINE n == Candidate(tm)
           s == FindNextCandidate(tm)
           q == [s EXCEPT !.state[n] = PENDING]
           f == [tm.state EXCEPT ![n] = PENDING]
<1>1. tm \in Attributes /\ TopKnown(tm) /\ HasCandidate(tm)
  BY EngineType DEF Consider
<1>2. /\ n \in Node /\ s \in Attributes /\ s.state = tm.state
      /\ s.waiting_parents = tm.waiting_parents
  BY <1>1, FindNext
<1>3. /\ s.pending_children = tm.pending_children
      /\ Range(tm.candidates) \subseteq Range(s.candidates) \cup {n}
      /\ Range(tm.top_targets_left) \subseteq Range(s.top_targets_left) \cup {n}
  <2>1. CASE tm.candidates # <<>>
    <3> DEFINE front == Front(tm.candidates)
    <3>1. s = [tm EXCEPT !.candidates = front] /\ n = Last(tm.candidates)
      BY <2>1 DEF FindNextCandidate, Candidate
    <3>2. Range(tm.candidates) \subseteq Range(front) \cup {Last(tm.candidates)}
      BY <1>1, <2>1, AttributesDef, LastAndFront
    <3> HIDE DEF front, s, n
    <3>3. /\ s.pending_children = tm.pending_children /\ s.candidates = front
          /\ s.top_targets_left = tm.top_targets_left
      BY <1>1, <3>1 DEF Attributes
    <3>4. QED
      BY <3>1, <3>2, <3>3
  <2>2. CASE tm.candidates = <<>>
    <3> DEFINE front == Front(tm.top_targets_left)
               last == Last(tm.top_targets_left)
    <3>1. /\ s = [tm EXCEPT !.top_targets_left = front, !.current_top = last]
          /\ n = last /\ tm.top_targets_left # <<>>
      BY <1>1, <2>2 DEF FindNextCandidate, Candidate, HasCandidate
    <3>2. Range(tm.top_targets_left) \subseteq Range(front) \cup {last}
      BY <1>1, <3>1, AttributesDef, LastAndFront
    <3> HIDE DEF front, last, s, n
    <3>3. /\ s.pending_children = tm.pending_children /\ s.candidates = tm.candidates
          /\ s.top_targets_left = front
      BY <1>1, <3>1 DEF Attributes
    <3>4. QED
      BY <3>1, <3>2, <3>3
  <2>3. QED
    BY <2>1, <2>2
<1>4. \/ s.state[n] > PENDING /\ tm' = s /\ UNCHANGED <<main, node>>
      \/ /\ ~(s.state[n] > PENDING)
         /\ tm' = Scan(q, n) /\ main' = "look" /\ node' = n
  BY DEF Consider
<1> HIDE DEF n, s
<1>5. CASE s.state[n] > PENDING /\ tm' = s /\ UNCHANGED <<main, node>>
  BY <1>2, <1>3, <1>5 DEF Takes
<1>6. CASE ~(s.state[n] > PENDING) /\ tm' = Scan(q, n) /\ main' = "look" /\ node' = n
  <2>1. f \in [Node -> NO_STATE .. FAILED] /\ q = [s EXCEPT !.state = f]
    BY <1>1, <1>2, AttributesDef DEF Attributes
  <2> HIDE DEF q
  <2>2. tm.state[n] <= PENDING
    <3>1. tm.state[n] \in NO_STATE .. FAILED
      BY <1>1, <1>2, AttributesDef
    <3>2. QED
      BY <1>2, <1>6, <3>1
  <2> HIDE DEF f
  <2>3. /\ q \in Attributes /\ q.state = f /\ Books(q) = Books(s)
        /\ Stack(q) = Stack(s) /\ q.pending_children = s.pending_children
    BY <1>2, <2>1, SetState
  <2>4. /\ Scan(q, n).state = f /\ Books(Scan(q, n)) = Books(s)
        /\ Stack(Scan(q, n)) = Stack(s)
        /\ Scan(q, n).pending_children = s.pending_children
    BY <1>2, <2>3, ScanType
  <2>5. /\ tm'.state = f /\ tm'.waiting_parents = tm.waiting_parents
        /\ tm'.candidates = s.candidates /\ tm'.top_targets_left = s.top_targets_left
        /\ tm'.pending_children = tm.pending_children
    BY <1>2, <1>3, <1>6, <2>4 DEF Books, Stack
  <2>6. Takes(n)
    BY <1>2, <1>3, <1>6, <2>2, <2>5 DEF Takes, f
  <2>7. QED
    BY <2>6
<1>7. QED
  BY <1>4, <1>5, <1>6

(* WaitForThem registers the node, ...                                     *)
Enters ==
    /\ node \in Node /\ main = "wait" /\ main' = "fill"
    /\ tm'.state = tm.state
    /\ tm'.candidates = tm.candidates
    /\ tm'.top_targets_left = tm.top_targets_left
    /\ children_not_ready \subseteq Node
    /\ tm'.waiting_parents =
          [k \in Node |-> IF k \in children_not_ready
                          THEN tm.waiting_parents[k] \cup {node}
                          ELSE tm.waiting_parents[k]]
    /\ tm'.pending_children = tm.pending_children \cup
          {k \in children_not_ready : tm.state[k] = PENDING}

(* That is all that it does when the children are not ready.               *)
LEMMA WaitForThemShelves ==
    ASSUME BooksInv, WaitForThem
    PROVE  Enters
<1>1. /\ build \in Builds /\ tm \in Attributes /\ Agree(tm) /\ node \in Node
      /\ children_not_ready \in SUBSET Node /\ main = "wait" /\ main' = "fill"
      /\ tm' = WaitForChildren(tm, node, children_not_ready)
  BY EngineType DEF WaitForThem, BooksInv, EngineTypes
<1>2. QED
  BY <1>1, WaitForChildrenResult DEF Enters, Stack

(* ... and NoTask drops the candidates, and who waits for them, after the  *)
(* walk has been stopped.                                                  *)
Drops(D) ==
    /\ tm.next_candidate = "no"
    /\ tm'.state = tm.state
    /\ tm'.candidates = <<>>
    /\ tm'.top_targets_left = tm.top_targets_left
    /\ Range(tm.candidates) \subseteq D
    /\ \A n \in Node \cap D : tm.waiting_parents[n] \subseteq D
    /\ tm'.waiting_parents = Cleared(tm, D)
    /\ tm'.pending_children = tm.pending_children \ D

(* stop() and no_next_candidate() drop the stack in this way only.         *)
LEMMA NoTaskShelves ==
    ASSUME BooksInv, NoTask
    PROVE  /\ main = "fill" /\ main' \in {"cleanup", "collect"}
           /\ main' = "cleanup" => jobs = 0
           /\ \/ tm' = tm /\ tm.next_candidate = "find" /\ ~HasCandidate(tm)
              \/ \E D : Drops(D)
<1>1. tm \in Attributes /\ Agree(tm)
  BY EngineType
<1>2. /\ main = "fill" /\ main' \in {"cleanup", "collect"}
      /\ main' = "cleanup" => jobs = 0
  BY DEF NoTask
<1>3. CASE tm.next_candidate = "no" /\ tm' = NoNextCandidate(tm)
  <2> DEFINE C == Range(tm.candidates)
             D == Doomed(tm, C)
             b == WillNotBuild(tm, C)
             pending == tm.pending_children \ D
             empty == <<>>
  <2>1. /\ b \in Attributes /\ b.state = tm.state
        /\ b.waiting_parents = Cleared(tm, D) /\ Stack(b) = Stack(tm)
    BY <1>1, WillNotBuildResult
  <2>2. C \in SUBSET Node
    BY <1>1, AttributesDef, EntriesOfList
  <2>3. C \subseteq D /\ \A n \in Node \cap D : tm.waiting_parents[n] \subseteq D
    BY <1>1, <2>2, DoomedHas, DoomedGoesOn
  <2>4. b = [tm EXCEPT !.pending_children = pending,
                       !.ref_count = Uncounted(tm, D), !.waiting_parents = Cleared(tm, D)]
    BY DEF WillNotBuild, Uncounted, Cleared
  <2>5. tm' = [b EXCEPT !.candidates = empty]
    BY <1>3 DEF NoNextCandidate
  <2> HIDE DEF b, D, C, pending, empty
  <2>6. b.pending_children = pending
    BY <1>1, <2>4 DEF Attributes
  <2>7. /\ tm'.state = b.state /\ tm'.candidates = empty
        /\ tm'.top_targets_left = b.top_targets_left
        /\ tm'.waiting_parents = b.waiting_parents
        /\ tm'.pending_children = b.pending_children
    BY <2>1, <2>5 DEF Attributes
  <2>8. tm'.top_targets_left = tm.top_targets_left
    BY <2>1, <2>7 DEF Stack
  <2>9. Drops(D)
    BY <1>3, <2>1, <2>3, <2>6, <2>7, <2>8 DEF Drops, C, pending, empty
  <2>10. QED
    BY <1>2, <2>9
<1>4. CASE tm.next_candidate = "find" /\ ~HasCandidate(tm) /\ tm' = tm
  BY <1>2, <1>4
<1>5. QED
  BY <1>3, <1>4 DEF NoTask

-----------------------------------------------------------------------------
(* What is in flight stays so until its result is collected.               *)
LEMMA FlightStays ==
    ASSUME BooksInv, Next, NEW n \in Node, InFlight(n),
           ~(Collect /\ n \in Range(Head(resultsQueue).task))
    PROVE  InFlight(n)'
<1>1. /\ requestQueue \in Seq(Seq(Node)) /\ resultsQueue \in Seq(Record)
      /\ worker \in [Worker -> Threads] /\ build \in Builds /\ maxjobs \in Nat
  BY TypesNow, EngineType
<1>2. worker' = worker => Held(n)' = Held(n)
  BY DEF Held
<1>3. requestQueue' = requestQueue => Queued(n)' = Queued(n)
  BY DEF Queued
<1>4. resultsQueue' = resultsQueue => Returned(n)' = Returned(n)
  BY DEF Returned
<1>5. InFlight(n)' <=> Queued(n)' # {} \/ Held(n)' # {} \/ Returned(n)' # {}
  BY DEF InFlight
<1>6. CASE UNCHANGED <<queues, worker>>
  BY <1>2, <1>3, <1>4, <1>5, <1>6 DEF queues, InFlight
<1>7. CASE \E m \in Node : Dispatch(m)
  <2>1. PICK m \in Node : Dispatch(m)
    BY <1>7
  <2>2. /\ requestQueue' = Append(requestQueue, TargetsOf(m))
        /\ UNCHANGED <<resultsQueue, worker>>
    BY <2>1 DEF Dispatch, TaskFor
  <2>3. TargetsOf(m) \in Seq(Node)
    BY <1>1, TargetsType
  <2>4. Queued(n) \subseteq Queued(n)'
    BY <1>1, <2>2, <2>3, Appended DEF Queued
  <2>5. QED
    BY <1>2, <1>4, <1>5, <2>2, <2>4 DEF InFlight
<1>8. CASE Collect
  <2>1. /\ resultsQueue # <<>> /\ resultsQueue' = Tail(resultsQueue)
        /\ UNCHANGED <<requestQueue, worker>>
    BY <1>8 DEF Collect
  <2>2. ASSUME NEW i \in Returned(n) PROVE Returned(n)' # {}
    <3> DEFINE q == resultsQueue
    <3>1. /\ i \in 1 .. Len(q) /\ n \in Range(q[i].task) /\ q[1] = Head(q)
          /\ Len(q) \in Nat /\ DOMAIN Tail(q) = 1 .. (Len(q) - 1)
          /\ \A j \in 1 .. (Len(q) - 1) : Tail(q)[j] = q[j + 1]
      BY <1>1, <2>1, <2>2, FirstAndRest DEF Returned
    <3>2. i # 1
      BY <1>8, <3>1
    <3>3. i - 1 \in 1 .. (Len(q) - 1) /\ (i - 1) + 1 = i
      BY <3>1, <3>2
    <3>4. i - 1 \in Returned(n)'
      BY <2>1, <3>1, <3>3 DEF Returned
    <3>5. QED
      BY <3>4
  <2>3. QED
    BY <1>2, <1>3, <1>5, <2>1, <2>2 DEF InFlight
<1>9. CASE CleanupPool
  <2>1. /\ requestQueue' = requestQueue \o [i \in 1 .. maxjobs |-> None]
        /\ UNCHANGED <<resultsQueue, worker>>
    BY <1>9 DEF CleanupPool
  <2>2. /\ Tasks(requestQueue') = Tasks(requestQueue)
        /\ \A i \in DOMAIN requestQueue : requestQueue'[i] = requestQueue[i]
    BY <1>1, <2>1, IdleType, TasksAfterSentinels
  <2>3. ASSUME NEW i \in Queued(n) PROVE i \in Queued(n)'
    <3>1. /\ i \in DOMAIN requestQueue /\ n \in Range(requestQueue[i])
          /\ requestQueue[i] # None
      BY <2>3 DEF Queued, None, Range
    <3>2. i \in DOMAIN requestQueue'
      BY <2>2, <3>1 DEF Tasks
    <3>3. QED
      BY <2>2, <3>1, <3>2 DEF Queued
  <2>4. QED
    BY <1>2, <1>4, <1>5, <2>1, <2>3 DEF InFlight
<1>10. CASE \E w \in Worker : Get(w)
  <2>1. PICK w \in Worker : Get(w)
    BY <1>10
  <2> DEFINE x == Result(Head(requestQueue), "failed")
  <2>2. /\ requestQueue # <<>> /\ requestQueue' = Tail(requestQueue)
        /\ worker[w].task = None
        /\ \A v \in Worker \ {w} : worker'[v] = worker[v]
        /\ \/ /\ Head(requestQueue) = None
              /\ worker'[w].task = None /\ resultsQueue' = resultsQueue
           \/ worker' = worker /\ resultsQueue' = Append(resultsQueue, x)
           \/ worker'[w].task = Head(requestQueue) /\ resultsQueue' = resultsQueue
    BY <2>1, GetResult
  <2>3. x \in Record /\ x.task = Head(requestQueue)
    BY <2>1, GetResult, ResultType
  <2>4. n \notin Range(None)
    BY DEF None, Range
  <2> HIDE DEF x
  <2>5. Held(n) \subseteq Held(n)'
    BY <2>2, <2>4 DEF Held
  <2>6. Returned(n) \subseteq Returned(n)'
    <3>1. CASE resultsQueue' = resultsQueue
      BY <1>4, <3>1
    <3>2. CASE resultsQueue' = Append(resultsQueue, x)
      BY <1>1, <2>3, <3>2, Appended DEF Returned
    <3>3. QED
      BY <2>2, <3>1, <3>2
  <2>7. ASSUME NEW i \in Queued(n)
        PROVE  Queued(n)' # {} \/ Held(n)' # {} \/ Returned(n)' # {}
    <3> DEFINE q == requestQueue
    <3>1. /\ i \in 1 .. Len(q) /\ n \in Range(q[i]) /\ q[1] = Head(q)
          /\ Len(q) \in Nat /\ DOMAIN Tail(q) = 1 .. (Len(q) - 1)
          /\ \A j \in 1 .. (Len(q) - 1) : Tail(q)[j] = q[j + 1]
      BY <1>1, <2>2, <2>7, FirstAndRest DEF Queued
    <3>2. CASE i # 1
      <4>1. i - 1 \in 1 .. (Len(q) - 1) /\ (i - 1) + 1 = i
        BY <3>1, <3>2
      <4>2. i - 1 \in Queued(n)'
        BY <2>2, <3>1, <4>1 DEF Queued
      <4>3. QED
        BY <4>2
    <3>3. CASE i = 1
      <4>1. n \in Range(Head(requestQueue)) /\ Head(requestQueue) # None
        BY <2>4, <3>1, <3>3
      <4>2. CASE resultsQueue' = Append(resultsQueue, x)
        <5>1. Len(resultsQueue) + 1 \in Returned(n)'
          BY <1>1, <2>3, <4>1, <4>2, Appended DEF Returned
        <5>2. QED
          BY <5>1
      <4>3. CASE worker'[w].task = Head(requestQueue)
        <5>1. w \in Held(n)'
          BY <4>1, <4>3 DEF Held
        <5>2. QED
          BY <5>1
      <4>4. QED
        BY <2>2, <4>1, <4>2, <4>3
    <3>4. QED
      BY <3>2, <3>3
  <2>8. QED
    BY <1>5, <2>5, <2>6, <2>7 DEF InFlight
<1>11. CASE \E w \in Worker : Retrieve(w) \/ RetrievalDone(w) \/ BuildTargets(w)
  <2>1. PICK w \in Worker : Retrieve(w) \/ RetrievalDone(w) \/ BuildTargets(w)
    BY <1>11
  <2>2. requestQueue' = requestQueue /\ (Keeps(w) \/ Puts(w))
    BY <2>1, WorkerStep
  <2>3. CASE Keeps(w)
    <3>1. Held(n)' = Held(n) /\ resultsQueue' = resultsQueue
      BY <2>3 DEF Held, Keeps
    <3>2. QED
      BY <1>3, <1>4, <1>5, <2>2, <3>1 DEF InFlight
  <2>4. CASE Puts(w)
    <3>1. PICK r \in Record :
              r.task = worker[w].task /\ resultsQueue' = Append(resultsQueue, r)
      BY <2>4 DEF Puts
    <3>2. /\ Returned(n) \subseteq Returned(n)'
          /\ n \in Range(worker[w].task) => Len(resultsQueue) + 1 \in Returned(n)'
      BY <1>1, <3>1, Appended DEF Returned
    <3>3. \A v \in Held(n) : v \in Held(n)' \/ v = w
      BY <2>4 DEF Held, Puts
    <3>4. Held(n) # {} => Held(n)' # {} \/ Returned(n)' # {}
      BY <3>2, <3>3 DEF Held
    <3>5. QED
      BY <1>3, <1>5, <2>2, <3>2, <3>4 DEF InFlight
  <2>5. QED
    BY <2>2, <2>3, <2>4
<1>12. QED
  BY <1>6, <1>7, <1>8, <1>9, <1>10, <1>11, StepsOfBuild, QuietSteps

(* A task that is dispatched is in flight.                                 *)
LEMMA DispatchFlies ==
    ASSUME BooksInv, NEW m \in Node, Dispatch(m), NEW n \in Range(TargetsOf(m))
    PROVE  InFlight(n)'
<1>1. requestQueue \in Seq(Seq(Node)) /\ build \in Builds
  BY TypesNow, EngineType
<1>2. requestQueue' = Append(requestQueue, TargetsOf(m)) /\ TargetsOf(m) \in Seq(Node)
  BY <1>1, TargetsType DEF Dispatch
<1>3. Len(requestQueue) + 1 \in Queued(n)'
  BY <1>1, <1>2, Appended DEF Queued
<1>4. QED
  BY <1>3 DEF InFlight

-----------------------------------------------------------------------------
(* What a step does to the state of a node, step by step.                  *)

(* What a node needs.                                                      *)
LEMMA NeedUp ==
    ASSUME build \in Builds, NEW n \in Node, NEW k \in Sources(n)
    PROVE  k \in Need(n) /\ Need(k) \subseteq Need(n) /\ k \in Node
<1>1. k \in Node
  BY ChildrenType
<1>2. k \in Need(n)
  BY <1>1 DEF Need, Closure
<1>3. ASSUME NEW x \in Need(k) PROVE x \in Need(n)
  <2>1. /\ x \in Node
        /\ \A D \in SUBSET Node :
              (Sources(k) \subseteq D /\ \A m \in D : Sources(m) \subseteq D) => x \in D
    BY <1>3, ClosureDef DEF Need
  <2>2. ASSUME NEW D \in SUBSET Node, Sources(n) \subseteq D,
               \A m \in D : Sources(m) \subseteq D
        PROVE  x \in D
    BY <2>1, <2>2
  <2>3. QED
    BY <2>1, <2>2, ClosureDef DEF Need
<1>4. QED
  BY <1>1, <1>2, <1>3

(* The need of what is needed is needed.                                   *)
LEMMA NeedTransitive ==
    ASSUME build \in Builds, NEW n \in Node, NEW k \in Need(n)
    PROVE  Need(k) \subseteq Need(n) /\ k \in Node
<1> DEFINE D == {m \in Node : Need(m) \subseteq Need(n) /\ m \in Need(n)}
<1>1. Sources(n) \subseteq D
  BY NeedUp
<1>2. ASSUME NEW m \in D PROVE Sources(m) \subseteq D
  BY <1>2, NeedUp
<1>3. k \in D
  <2> HIDE DEF D
  <2>1. D \in SUBSET Node
    BY DEF D
  <2>2. QED
    BY <1>1, <1>2, <2>1, ClosureDef DEF Need
<1>4. QED
  BY <1>3

(* What a node needs is a fact about the build.                            *)
LEMMA NeedSame == ASSUME build' = build, NEW n PROVE Need(n)' = Need(n)
BY DEF Need, Closure, Sources

(* What is built from a dead or a cursed node is cursed.                   *)
LEMMA CursedUp ==
    ASSUME build \in Builds, build' = build, NEW n \in Node,
           NEW k \in Sources(n)
    PROVE  /\ k \in DeadNodes \cup Cursed => n \in Cursed
           /\ k \in DeadNodes' \cup Cursed' => n \in Cursed'
<1>1. k \in Need(n) /\ Need(k) \subseteq Need(n) /\ k \in Node
  BY NeedUp
<1>2. Need(n)' = Need(n) /\ Need(k)' = Need(k)
  BY NeedSame
<1>3. k \in DeadNodes \cup Cursed => n \in Cursed
  BY <1>1 DEF Cursed
<1>4. k \in Cursed' => Need(k)' \cap DeadNodes' # {}
  BY DEF Cursed
<1>5. Need(n)' \cap DeadNodes' # {} => n \in Cursed'
  BY DEF Cursed
<1>6. QED
  BY <1>1, <1>2, <1>3, <1>4, <1>5

(* The dead stay dead.                                                     *)
LEMMA DeadStays ==
    ASSUME BooksInv, InOnePlace, Next, Moved
    PROVE  DeadNodes \subseteq DeadNodes' /\ Cursed \subseteq Cursed'
<1>1. ASSUME NEW k \in DeadNodes PROVE k \in DeadNodes'
  <2>1. k \in Node /\ tm.state[k] = FAILED /\ Closed(k) /\ ~InFlight(k)
    BY <1>1 DEF DeadNodes
  <2>2. Closed(k)'
    BY <2>1, ClosedStays
  <2>3. ~InFlight(k)'
    <3>1. ASSUME NEW m \in Node, Dispatch(m), k \in Range(TargetsOf(m)) PROVE FALSE
      BY <2>1, <3>1, PendingNotInFlight DEF Dispatch
    <3>2. QED
      BY <2>1, <3>1, FlightKept
  <2>4. tm'.state[k] = FAILED
    <3>1. Moves(k)
      BY <2>1 DEF Moved
    <3>2. QED
      BY <2>1, <3>1 DEF Moves
  <2>5. QED
    BY <2>1, <2>2, <2>3, <2>4 DEF DeadNodes
<1>2. ASSUME NEW n \in Cursed PROVE n \in Cursed'
  <2>1. n \in Node /\ Need(n) \cap DeadNodes # {}
    BY <1>2 DEF Cursed
  <2>2. Need(n)' = Need(n)
    BY NeedSame DEF Moved
  <2>3. Need(n)' \cap DeadNodes' # {}
    BY <1>1, <2>1, <2>2
  <2>4. QED
    BY <2>1, <2>3 DEF Cursed
<1>3. QED
  BY <1>1, <1>2

(* A task fails in this step.                                              *)
Fails(s, ts) ==
    /\ s \in Attributes /\ Range(ts) \subseteq Node
    /\ FailedInto(s, ts, tm')
    /\ s.waiting_parents = tm.waiting_parents
    /\ exit_status' = 2 /\ main' \in {"fill", "collect"}
    /\ Range(ts) \subseteq DeadNodes'

(* Its targets are dead.                                                   *)
LEMMA FailedTask ==
    ASSUME BooksInv, InOnePlace, Next, NEW s \in Attributes, NEW ts,
           Range(ts) \subseteq Node, FailedInto(s, ts, tm'),
           \/ Collect /\ ts = Head(resultsQueue).task
           \/ \E n \in Node : ts = TargetsOf(n) /\ (PreparationFails(n) \/ NothingToDo(n))
    PROVE  Range(ts) \subseteq DeadNodes' /\ main' \in {"fill", "collect"}
<1>1. ASSUME NEW x \in Range(ts) PROVE x \in DeadNodes'
  <2>1. x \in Node /\ tm'.state[x] = FAILED
    <3>1. x \in Node
      BY <1>1
    <3>2. x \in Doomed(s, Range(ts))
      BY <1>1, DoomedHas
    <3>3. QED
      BY <3>1, <3>2 DEF FailedInto, StatesAfterFailure
  <2>2. CASE Collect /\ ts = Head(resultsQueue).task
    <3>1. InFlight(x) /\ ~InFlight(x)'
      BY <1>1, <2>1, <2>2, FlightKept
    <3>2. Closed(x)'
      BY <2>1, <3>1, FlightIsClosed, ClosedStays
    <3>3. QED
      BY <2>1, <3>1, <3>2 DEF DeadNodes
  <2>3. ASSUME NEW n \in Node, ts = TargetsOf(n), PreparationFails(n) \/ NothingToDo(n)
        PROVE  x \in DeadNodes'
    <3>1. TaskFor(n)
      BY <2>3 DEF PreparationFails, NothingToDo
    <3>2. ~InFlight(x)
      BY <1>1, <2>3, <3>1, PendingNotInFlight
    <3>3. UNCHANGED <<queues, worker, history>>
      BY <2>3, QuietSteps
    <3>4. ~InFlight(x)'
      BY <3>2, <3>3 DEF InFlight, Queued, Held, Returned, queues
    <3>5. Closed(x)'
      BY <1>1, <2>3, TaskCloses
    <3>6. QED
      BY <2>1, <3>4, <3>5 DEF DeadNodes
  <2>4. QED
    BY <2>2, <2>3
<1>2. main' \in {"fill", "collect"}
  BY DEF Collect, PreparationFails, NothingToDo
<1>3. QED
  BY <1>1, <1>2

(* How the state of a node changes.                                        *)
Changes(n) ==
    \/ /\ Consider /\ tm'.state[n] = PENDING
       /\ main' = "look" /\ node' = n
    \/ /\ SkipFailed /\ node \in Node
       /\ n \in Range(TargetsOf(node)) /\ tm'.state[n] = FAILED
    \/ /\ \E m \in Node : Dispatch(m) /\ n \in Range(TargetsOf(m))
       /\ tm'.state[n] = EXECUTING
    \/ /\ main = "look" /\ tm'.state[n] = UP_TO_DATE /\ tm'.waiting_parents[n] = {}
    \/ /\ tm'.state[n] = FAILED
       /\ \E s, ts : Fails(s, ts) /\ n \in Doomed(s, Range(ts))
    \/ /\ Collect /\ tm.state[n] = EXECUTING /\ tm'.state[n] = EXECUTED
       /\ tm'.waiting_parents[n] = {}
    \/ /\ InFlight(n) /\ tm'.state[n] = EXECUTED
       /\ \E w \in Worker : Retrieve(w)

(* Every step changes the state of a node in one of these ways.            *)
LEMMA StateChanges ==
    ASSUME BooksInv, InOnePlace, Next, NEW n \in Node,
           tm'.state[n] # tm.state[n]
    PROVE  Changes(n)
<1>1. build \in Builds /\ tm \in Attributes
  BY EngineType
<1>2. CASE Consider
  <2>1. PICK c : Takes(c)
    BY <1>2, ConsiderShelves
  <2>2. QED
    BY <1>1, <1>2, <2>1, AttributesDef DEF Takes, Changes
<1>3. CASE SkipFailed
  <2>1. tm'.state = StatesAfterChildFailed(tm, node) /\ node \in Node
    BY <1>3, SkipFailedResult
  <2>2. n \in Range(TargetsOf(node)) /\ tm'.state[n] = FAILED
    BY <2>1 DEF StatesAfterChildFailed
  <2>3. QED
    BY <1>3, <2>1, <2>2 DEF Changes
<1>4. ASSUME NEW m \in Node, Dispatch(m) PROVE Changes(n)
  <2>1. tm'.state = StatesAfterReady(tm, m) /\ OutOfDate(m)
    BY <1>1, <1>4, MakeReadyResult DEF Dispatch
  <2>2. n \in Range(TargetsOf(m)) /\ tm'.state[n] = EXECUTING
    BY <2>1 DEF StatesAfterReady
  <2>3. QED
    BY <1>4, <2>2 DEF Changes
<1>5. ASSUME NEW m \in Node, PreparationFails(m) \/ NothingToDo(m) PROVE Changes(n)
  <2> DEFINE s == MakeReady(tm, m)
             ts == TargetsOf(m)
  <2>1. /\ TaskFor(m) /\ main = "look"
        /\ \/ FailTask(s, ts)
           \/ FinishTask(s, ts) /\ ~OutOfDate(m)
    BY <1>5 DEF PreparationFails, NothingToDo, TaskFor
  <2>2. /\ s \in Attributes /\ s.state = StatesAfterReady(tm, m)
        /\ s.waiting_parents = tm.waiting_parents
    BY <2>1, TaskForResult
  <2>3. Range(ts) \subseteq Node
    BY <1>1, TargetsType
  <2>4. CASE FailTask(s, ts)
    <3>1. FailedInto(s, ts, tm') /\ exit_status' = 2
      BY <2>1, <2>4, FailNowResult DEF FailTask
    <3>2. Range(ts) \subseteq DeadNodes' /\ main' \in {"fill", "collect"}
      <4> HIDE DEF s
      <4>1. QED
        BY <1>5, <2>2, <2>3, <3>1, FailedTask
    <3>3. Fails(s, ts)
      BY <2>2, <2>3, <3>1, <3>2 DEF Fails
    <3>4. tm'.state = StatesAfterFailure(s, ts)
      BY <3>1 DEF FailedInto
    <3>5. Range(ts) \subseteq Doomed(s, Range(ts))
      BY <2>3, DoomedHas
    <3>6. n \in Doomed(s, Range(ts)) /\ tm'.state[n] = FAILED
      <4>1. CASE n \in Range(ts)
        BY <3>4, <3>5, <4>1 DEF StatesAfterFailure
      <4>2. CASE n \notin Range(ts)
        <5>1. s.state[n] = tm.state[n]
          BY <2>2, <4>2 DEF StatesAfterReady
        <5> HIDE DEF s, ts
        <5>2. QED
          BY <3>4, <5>1 DEF StatesAfterFailure
      <4>3. QED
        BY <4>1, <4>2
    <3>7. \E u, us : Fails(u, us) /\ n \in Doomed(u, Range(us))
      <4> HIDE DEF s, ts
      <4>1. QED
        BY <3>3, <3>6
    <3>8. QED
      BY <3>6, <3>7 DEF Changes
  <2>5. CASE FinishTask(s, ts) /\ ~OutOfDate(m)
    <3>1. FinishedInto(s, ts, tm')
      BY <2>1, <2>5, FinishNowResult
    <3>2. tm'.state = StatesAfterExecution(s, ts) /\ tm'.waiting_parents = Cleared(s, Range(ts))
      BY <3>1 DEF FinishedInto
    <3>3. s.state[n] = IF n \in Range(ts) THEN UP_TO_DATE ELSE tm.state[n]
      BY <2>2, <2>5 DEF StatesAfterReady
    <3> HIDE DEF s, ts
    <3>4. n \in Range(ts) /\ tm'.state[n] = UP_TO_DATE
      BY <3>2, <3>3 DEF StatesAfterExecution
    <3>5. tm'.waiting_parents[n] = {}
      BY <3>2, <3>4 DEF Cleared
    <3>6. QED
      BY <2>1, <3>4, <3>5 DEF Changes
  <2>6. QED
    BY <2>1, <2>4, <2>5
<1>6. CASE Collect
  <2> DEFINE ts == Head(resultsQueue).task
  <2>1. Range(ts) \subseteq Node /\ (FinishedInto(tm, ts, tm') \/ FailedInto(tm, ts, tm'))
    BY <1>6, CollectResult
  <2>2. CASE FinishedInto(tm, ts, tm')
    <3> HIDE DEF ts
    <3>1. /\ tm'.state = StatesAfterExecution(tm, ts)
          /\ tm'.waiting_parents = Cleared(tm, Range(ts))
      BY <2>2 DEF FinishedInto
    <3>2. n \in Range(ts) /\ tm.state[n] = EXECUTING /\ tm'.state[n] = EXECUTED
      BY <3>1 DEF StatesAfterExecution
    <3>3. tm'.waiting_parents[n] = {}
      BY <3>1, <3>2 DEF Cleared
    <3>4. QED
      BY <1>6, <3>2, <3>3 DEF Changes
  <2>3. CASE FailedInto(tm, ts, tm') /\ ~FinishedInto(tm, ts, tm')
    <3>1. exit_status' = 2
      <4>1. FinishTask(tm, ts) \/ FailTask(tm, ts)
        BY <1>6 DEF Collect
      <4>2. ~FinishTask(tm, ts)
        BY <1>1, <2>1, <2>3, EngineType, FinishTaskResult
      <4>3. QED
        BY <4>1, <4>2 DEF FailTask
    <3>2. Range(ts) \subseteq DeadNodes' /\ main' \in {"fill", "collect"}
      BY <1>1, <1>6, <2>1, <2>3, FailedTask
    <3> HIDE DEF ts
    <3>3. Fails(tm, ts)
      BY <1>1, <2>1, <2>3, <3>1, <3>2 DEF Fails
    <3>4. n \in Doomed(tm, Range(ts)) /\ tm'.state[n] = FAILED
      BY <2>3 DEF FailedInto, StatesAfterFailure
    <3>5. QED
      BY <3>3, <3>4 DEF Changes
  <2>4. QED
    BY <2>1, <2>2, <2>3
<1>7. ASSUME NEW w \in Worker, Retrieve(w) PROVE Changes(n)
  <2>1. /\ worker[w].task # None
        /\ tm' = tm \/ tm'.state = [tm.state EXCEPT ![Target(w)] = EXECUTED]
    BY <1>7, RetrieveResult
  <2>2. tm'.state[n] = EXECUTED /\ n = Target(w)
    BY <1>1, <2>1, AttributesDef
  <2>3. w \in Held(n)
    BY <2>1, <2>2, TaskInHand DEF Held
  <2>4. InFlight(n)
    BY <2>3 DEF InFlight
  <2>5. QED
    BY <1>7, <2>2, <2>4 DEF Changes
<1>8. CASE tm'.state = tm.state
  BY <1>8
<1>9. \/ SomeNotReady \/ WaitForThem \/ NoTask \/ CleanupPool \/ CleanupTaskmaster
      \/ Interrupt
      \/ \E w \in Worker : Get(w) \/ RetrievalDone(w) \/ BuildTargets(w)
      => tm'.state = tm.state
  BY SomeNotReadyResult, WaitForThemResult, NoTaskResult, InterruptResult,
     RetrievalDoneResult
     DEF CleanupPool, CleanupTaskmaster, Get, BuildTargets
<1>10. QED
  BY <1>2, <1>3, <1>4, <1>5, <1>6, <1>7, <1>8, <1>9, StepsOfBuild

-----------------------------------------------------------------------------
(* What the build owes is kept.                                            *)

(* The main thread puts a node down when it waits or is done with.         *)
LEMMA LooksAway ==
    ASSUME BooksInv, Next, main \in {"look", "wait"}
    PROVE  \/ main' \in {"look", "wait"} /\ node' = node
           \/ WaitForThem
           \/ node \in Node /\ tm'.state[node] > PENDING
<1>1. build \in Builds /\ node \in Node
  BY EngineType
<1>2. CASE SkipFailed
  <2>1. tm'.state = StatesAfterChildFailed(tm, node)
    BY <1>2, SkipFailedResult
  <2>2. node \in Range(TargetsOf(node))
    BY <1>1, TargetsType
  <2>3. QED
    BY <1>1, <2>1, <2>2 DEF StatesAfterChildFailed
<1>3. ASSUME NEW n \in Node, PreparationFails(n) \/ NothingToDo(n) \/ Dispatch(n)
      PROVE  tm'.state[node] > PENDING
  <2>1. n = node
    BY <1>3 DEF PreparationFails, NothingToDo, Dispatch, TaskFor
  <2>2. n \in Range(TargetsOf(n))
    BY <1>1, TargetsType
  <2>3. Closed(n)'
    BY <1>3, <2>2, TaskCloses
  <2>4. build' = build
    BY TaskmasterAdvances
  <2>5. tm'.state[n] > PENDING
    BY <2>2, <2>3, <2>4 DEF Closed, TargetsOf
  <2>6. QED
    BY <2>1, <2>5
<1>4. SomeNotReady \/ Interrupt \/ (\E w \in Worker : Work(w)) =>
          main' \in {"look", "wait"} /\ node' = node
  BY
     DEF SomeNotReady, Interrupt, Work, Get, Retrieve, RetrievalDone,
         BuildTargets, walk
<1>5. ~(Consider \/ NoTask \/ Collect \/ CleanupPool \/ CleanupTaskmaster)
  BY DEF Consider, NoTask, Collect, CleanupPool, CleanupTaskmaster
<1>6. QED
  BY <1>1, <1>2, <1>3, <1>4, <1>5, StepsOfBuild DEF Work

(* A node that waits will be looked at, or waits for another.              *)
LEMMA PendingKept ==
    ASSUME BooksInv, WalkInv, CycleInv, Next, Moved
    PROVE  PendingOwed'
<1> SUFFICES ASSUME NEW k \in Node, tm'.state[k] = PENDING,
                    Walking' \/ tm'.waiting_parents[k] # {}
             PROVE  OnHand(k)' \/ Waits(k)'
  BY DEF PendingOwed
<1>1. tm \in Attributes /\ InOnePlace /\ PendingOwed /\ WaitOwed
  BY EngineType DEF WalkInv, CycleInv
<1>2. /\ OnHand(k)' <=> k \in Range(tm'.candidates) \/ (main' \in {"look", "wait"} /\ k = node')
      /\ Waits(k)' <=> \E j \in Node : k \in tm'.waiting_parents[j]
      /\ Walking' <=> tm'.next_candidate = "find" \/ main' \in {"look", "wait"}
  BY DEF OnHand, Waits, Walking
<1>3. CASE Consider
  <2>1. PICK c : Takes(c)
    BY <1>3, ConsiderShelves
  <2>2. tm.next_candidate = "find" /\ main = "fill"
    BY <1>3 DEF Consider
  <2>3. CASE k = c
    BY <1>2, <2>1, <2>3, AttributesDef DEF Takes
  <2>4. CASE k # c
    <3>1. tm.state[k] = PENDING
      BY <1>1, <2>1, <2>4, AttributesDef DEF Takes
    <3>2. k \in Range(tm.candidates) \/ \E j \in Node : k \in tm.waiting_parents[j]
      BY <1>1, <2>2, <3>1 DEF PendingOwed, Walking, OnHand, Waits
    <3>3. QED
      BY <1>2, <2>1, <2>4, <3>2 DEF Takes
  <2>5. QED
    BY <2>3, <2>4
<1>4. CASE WaitForThem
  <2>1. Enters
    BY <1>4, WaitForThemShelves
  <2>2. CASE k = node
    <3>1. PICK j \in children_not_ready : TRUE
      BY <1>1, <2>1 DEF WaitOwed, Enters
    <3>2. j \in Node /\ k \in tm'.waiting_parents[j]
      BY <2>1, <2>2 DEF Enters
    <3>3. QED
      BY <1>2, <3>2
  <2>3. CASE k # node
    <3>1. k \in Range(tm.candidates) \/ \E j \in Node : k \in tm.waiting_parents[j]
      BY <1>1, <2>1, <2>3 DEF PendingOwed, Walking, OnHand, Waits, Enters
    <3>2. QED
      BY <1>2, <2>1, <3>1 DEF Enters
  <2>4. QED
    BY <2>2, <2>3
<1>5. CASE NoTask
  <2>1. /\ main = "fill" /\ main' \in {"cleanup", "collect"}
        /\ \/ tm' = tm
           \/ \E D : Drops(D)
    BY <1>5, NoTaskShelves
  <2>2. CASE tm' = tm
    BY <1>1, <1>2, <2>1, <2>2 DEF PendingOwed, Walking, OnHand, Waits
  <2>3. ASSUME NEW D, Drops(D) PROVE Waits(k)'
    <3>1. tm'.next_candidate = "no"
      BY <2>3 DEF Moved, Drops
    <3>2. tm'.waiting_parents[k] # {}
      BY <1>2, <2>1, <3>1
    <3>3. k \notin D /\ tm.waiting_parents[k] # {} /\ tm.state[k] = PENDING
      BY <2>3, <3>2 DEF Drops, Cleared
    <3>4. \E j \in Node : k \in tm.waiting_parents[j]
      BY <1>1, <2>1, <2>3, <3>3 DEF PendingOwed, OnHand, Waits, Drops
    <3>5. \E j \in Node : k \in tm'.waiting_parents[j]
      BY <2>3, <3>3, <3>4 DEF Drops, Cleared
    <3>6. QED
      BY <1>2, <3>5
  <2>4. QED
    BY <2>1, <2>2, <2>3
<1>6. CASE Shelves(tm, tm') /\ ~Consider /\ ~WaitForThem
  <2>1. tm.state[k] = PENDING
    <3>1. ASSUME tm'.state[k] # tm.state[k] PROVE FALSE
      <4>1. Changes(k)
        BY <1>1, <3>1, StateChanges
      <4>2. QED
        BY <1>6, <4>1 DEF Changes
    <3>2. QED
      BY <3>1
  <2>2. Walking \/ tm.waiting_parents[k] # {}
    <3>1. CASE tm'.waiting_parents[k] # {}
      BY <1>6, <3>1 DEF Shelves
    <3>2. CASE tm'.next_candidate = "find"
      BY <1>1, <3>2, AttributesDef DEF Moved, Walking
    <3>3. CASE main' \in {"look", "wait"}
      <4>1. main \in {"look", "wait"}
        BY <1>6, <3>3, LookStep DEF SomeNotReady
      <4>2. QED
        BY <4>1 DEF Walking
    <3>4. QED
      BY <1>2, <3>1, <3>2, <3>3
  <2>3. OnHand(k) \/ Waits(k)
    BY <1>1, <2>1, <2>2 DEF PendingOwed
  <2>4. CASE k \in Range(tm.candidates)
    BY <1>2, <1>6, <2>4 DEF Shelves
  <2>5. CASE main \in {"look", "wait"} /\ k = node
    BY <1>2, <1>6, <2>5, LooksAway
  <2>6. CASE \E j \in Node : k \in tm.waiting_parents[j]
    BY <1>2, <1>6, <2>6 DEF Shelves
  <2>7. QED
    BY <2>3, <2>4, <2>5, <2>6 DEF OnHand, Waits
<1>7. QED
  BY <1>3, <1>4, <1>5, <1>6, StepShelves

(* A node that nobody has looked at is waited for only as a candidate.     *)
LEMMA UnvisitedKept ==
    ASSUME BooksInv, WalkInv, CycleInv, Next, Moved
    PROVE  UnvisitedOwed'
<1> SUFFICES ASSUME NEW k \in Node, tm'.state[k] = NO_STATE
             PROVE  /\ tm'.waiting_parents[k] # {} => k \in Range(tm'.candidates)
                    /\ ~\E j \in Node : k \in tm'.waiting_parents[j]
  BY DEF UnvisitedOwed, Waits
<1>1. tm \in Attributes /\ InOnePlace /\ UnvisitedOwed /\ WaitOwed
  BY EngineType DEF WalkInv, CycleInv
<1>2. tm.state[k] = NO_STATE
  <2>1. Moves(k)
    BY DEF Moved
  <2>2. QED
    BY <2>1 DEF Moves
<1>3. /\ tm.waiting_parents[k] # {} => k \in Range(tm.candidates)
      /\ ~\E j \in Node : k \in tm.waiting_parents[j]
  BY <1>1, <1>2 DEF UnvisitedOwed, Waits
<1>4. CASE Consider
  <2>1. PICK c : Takes(c)
    BY <1>4, ConsiderShelves
  <2>2. k # c
    BY <1>1, <1>2, <2>1, AttributesDef DEF Takes
  <2>3. QED
    BY <1>3, <2>1, <2>2 DEF Takes
<1>5. CASE WaitForThem
  <2>1. Enters /\ tm.state[node] = PENDING
    BY <1>5, WaitForThemShelves, EngineType DEF Enters
  <2>2. k # node
    BY <1>2, <2>1
  <2>3. ~\E j \in Node : k \in tm'.waiting_parents[j]
    BY <1>3, <2>1, <2>2 DEF Enters
  <2>4. tm'.waiting_parents[k] # {} => k \in Range(tm'.candidates)
    BY <1>1, <1>2, <1>3, <2>1 DEF Enters, WaitOwed
  <2>5. QED
    BY <2>3, <2>4
<1>6. CASE NoTask
  <2>1. tm' = tm \/ \E D : Drops(D)
    BY <1>6, NoTaskShelves
  <2>2. ASSUME NEW D, Drops(D)
        PROVE  tm'.waiting_parents[k] = {}
    BY <1>3, <2>2 DEF Drops, Cleared
  <2>3. \A j \in Node : tm'.waiting_parents[j] \subseteq tm.waiting_parents[j]
    BY <1>6, NoTaskResult
  <2>4. QED
    BY <1>3, <2>1, <2>2, <2>3
<1>7. CASE Shelves(tm, tm')
  <2>1. /\ Range(tm.candidates) \subseteq Range(tm'.candidates)
        /\ \A j \in Node : tm'.waiting_parents[j] \subseteq tm.waiting_parents[j]
    BY <1>7 DEF Shelves
  <2>2. QED
    BY <1>3, <2>1
<1>8. QED
  BY <1>4, <1>5, <1>6, <1>7, StepShelves

(* A result that is collected is no longer waited for.                     *)
LEMMA CollectedReleases ==
    ASSUME BooksInv, Collect, NEW n \in Node,
           n \in Range(Head(resultsQueue).task)
    PROVE  /\ tm'.state[n] = FAILED \/ tm'.waiting_parents[n] = {}
           /\ tm'.state[n] # EXECUTING
<1> DEFINE ts == Head(resultsQueue).task
<1>1. Range(ts) \subseteq Node /\ (FinishedInto(tm, ts, tm') \/ FailedInto(tm, ts, tm'))
  BY CollectResult
<1>2. Range(ts) \subseteq Doomed(tm, Range(ts)) /\ n \in Range(ts)
  BY <1>1, DoomedHas
<1> HIDE DEF ts
<1>3. CASE FinishedInto(tm, ts, tm')
  BY <1>2, <1>3 DEF FinishedInto, Cleared, StatesAfterExecution
<1>4. CASE FailedInto(tm, ts, tm')
  BY <1>2, <1>4 DEF FailedInto, StatesAfterFailure
<1>5. QED
  BY <1>1, <1>3, <1>4

(* What executes is in flight, and so is what is waited for although it is *)
(* finished.                                                               *)
LEMMA ActiveKept ==
    ASSUME BooksInv, WalkInv, CycleInv, Next, Moved
    PROVE  ActiveOwed'
<1> SUFFICES ASSUME NEW k \in Node
             PROVE  /\ tm'.state[k] = EXECUTING => InFlight(k)'
                    /\ tm'.state[k] \in Finished =>
                          InFlight(k)' \/ tm'.waiting_parents[k] = {}
  BY DEF ActiveOwed
<1>1. tm \in Attributes /\ InOnePlace /\ ActiveOwed /\ WaitOwed
  BY EngineType DEF WalkInv, CycleInv
<1>2. CASE Collect /\ k \in Range(Head(resultsQueue).task)
  BY <1>2, CollectedReleases DEF Finished
<1>3. CASE ~(Collect /\ k \in Range(Head(resultsQueue).task))
  <2>1. InFlight(k) => InFlight(k)'
    BY <1>3, FlightStays
  <2>2. CASE tm'.state[k] # tm.state[k]
    <3>1. Changes(k)
      BY <1>1, <2>2, StateChanges
    <3>2. CASE tm'.state[k] = EXECUTING
      BY <3>1, <3>2, DispatchFlies DEF Changes, Finished
    <3>3. CASE tm'.state[k] \in Finished
      BY <2>1, <3>1, <3>3 DEF Changes, Finished
    <3>4. QED
      BY <3>2, <3>3
  <2>3. CASE tm'.state[k] = tm.state[k]
    <3>1. tm.state[k] = EXECUTING => InFlight(k)
      BY <1>1 DEF ActiveOwed
    <3>2. ASSUME tm.state[k] \in Finished, ~InFlight(k) PROVE tm'.waiting_parents[k] = {}
      <4>1. tm.waiting_parents[k] = {}
        BY <1>1, <3>2 DEF ActiveOwed
      <4>2. ASSUME NEW p \in tm'.waiting_parents[k] PROVE FALSE
        <5>1. Registers(k, p)
          BY <4>1, <4>2 DEF Moved
        <5>2. QED
          BY <1>1, <3>2, <5>1 DEF Registers, WaitOwed
      <4>3. QED
        BY <4>2
    <3>3. QED
      BY <2>1, <2>3, <3>1, <3>2
  <2>4. QED
    BY <2>2, <2>3
<1>4. QED
  BY <1>2, <1>3

(* The children that a node is about to wait for will tell it.             *)
LEMMA WaitOwedKept ==
    ASSUME BooksInv, WalkInv, CycleInv, Next, Moved
    PROVE  WaitOwed'
<1>1. tm \in Attributes /\ InOnePlace /\ WaitOwed /\ build \in Builds
      /\ children_not_ready \subseteq Node
  BY EngineType DEF WalkInv, CycleInv, BooksInv, EngineTypes
<1>2. CASE SomeNotReady
  <2>1. node \in Node /\ tm'.state = tm.state
    BY <1>2, SomeNotReadyResult
  <2>2. /\ children_not_ready' = ChildrenIn(tm, node, {NO_STATE, PENDING, EXECUTING})
        /\ children_not_ready' # {}
    BY <1>2 DEF SomeNotReady, NotReady
  <2>3. Range(tm'.candidates) = Range(tm.candidates) \cup ChildrenIn(tm, node, {NO_STATE})
    BY <1>1, <1>2, <2>1, AddNotVisitedResult DEF SomeNotReady
  <2>4. \A k \in children_not_ready' :
           /\ tm'.state[k] \in {NO_STATE, PENDING, EXECUTING}
           /\ tm'.state[k] = NO_STATE => k \in Range(tm'.candidates)
    BY <2>1, <2>2, <2>3 DEF ChildrenIn
  <2>5. QED
    BY <2>2, <2>4 DEF WaitOwed, Finished
<1>3. CASE main = "wait" /\ UNCHANGED <<node, children_not_ready>> /\ main' = "wait"
  <2>1. ASSUME NEW k \in children_not_ready
        PROVE  /\ tm'.state[k] = NO_STATE => k \in Range(tm'.candidates)
               /\ tm'.state[k] \in Finished => InFlight(k)'
               /\ tm'.state[k] # FAILED
    <3>1. /\ k \in Node /\ Moves(k)
          /\ tm.state[k] = NO_STATE => k \in Range(tm.candidates)
          /\ tm.state[k] \in Finished => InFlight(k)
          /\ tm.state[k] # FAILED
      BY <1>1, <1>3, <2>1 DEF Moved, WaitOwed
    <3>2. Shelves(tm, tm')
      BY <1>3, StepShelves DEF Consider, WaitForThem, NoTask
    <3>3. InFlight(k) => InFlight(k)'
      BY <1>3, <3>1, FlightStays DEF Collect
    <3>4. \/ tm'.state[k] = tm.state[k]
          \/ tm'.state[k] = PENDING
          \/ InFlight(k) /\ tm'.state[k] = EXECUTED
      BY <1>3, <3>1 DEF Moves
    <3>5. QED
      BY <3>1, <3>2, <3>3, <3>4 DEF Shelves, Finished
  <2>2. children_not_ready # {} /\ children_not_ready' = children_not_ready
    BY <1>1, <1>3 DEF WaitOwed
  <2>3. \A k \in children_not_ready' :
           /\ tm'.state[k] = NO_STATE => k \in Range(tm'.candidates)
           /\ tm'.state[k] \in Finished => InFlight(k)'
           /\ tm'.state[k] # FAILED
    BY <2>1, <2>2
  <2>4. QED
    BY <2>2, <2>3 DEF WaitOwed
<1>4. CASE main' # "wait"
  BY <1>4 DEF WaitOwed
<1>5. QED
  BY <1>2, <1>3, <1>4, LookStep

(* Who is in pending_children is waited for.                               *)
LEMMA AwaitedKept ==
    ASSUME BooksInv, WalkInv, CycleInv, Next
    PROVE  PendingAwaited'
<1> SUFFICES ASSUME NEW n \in tm'.pending_children
             PROVE  tm'.waiting_parents[n] # {}
  BY DEF PendingAwaited
<1>1. tm \in Attributes /\ PendingAwaited
  BY EngineType DEF CycleInv
<1>2. tm.pending_children \subseteq Node
  BY <1>1, AttributesDef
<1>3. CASE Consider
  <2>1. PICK c : Takes(c)
    BY <1>3, ConsiderShelves
  <2>2. QED
    BY <1>1, <2>1 DEF Takes, PendingAwaited
<1>4. CASE WaitForThem
  <2>1. Enters
    BY <1>4, WaitForThemShelves
  <2>2. CASE n \in children_not_ready
    <3>1. node \in tm'.waiting_parents[n]
      BY <2>1, <2>2 DEF Enters
    <3>2. QED
      BY <3>1
  <2>3. CASE n \notin children_not_ready
    BY <1>1, <1>2, <2>1, <2>3 DEF Enters, PendingAwaited
  <2>4. QED
    BY <2>2, <2>3
<1>5. CASE NoTask
  <2>1. tm' = tm \/ \E D : Drops(D)
    BY <1>5, NoTaskShelves
  <2>2. ASSUME NEW D, Drops(D) PROVE tm'.waiting_parents[n] # {}
    BY <1>1, <1>2, <2>2 DEF Drops, Cleared, PendingAwaited
  <2>3. QED
    BY <1>1, <2>1, <2>2 DEF PendingAwaited
<1>6. CASE Shelves(tm, tm')
  BY <1>1, <1>6 DEF Shelves, PendingAwaited
<1>7. QED
  BY <1>3, <1>4, <1>5, <1>6, StepShelves

(* will_not_build() fails the targets of the task, and what needs them.    *)
LEMMA DoomedIsCursed ==
    ASSUME BooksInv, WaitersPend, Moved, NEW s, NEW ts, Fails(s, ts)
    PROVE  \A n \in Doomed(s, Range(ts)) : n \in Range(ts) \cup Cursed'
<1> DEFINE D == {m \in Node : m \in Range(ts) \cup Cursed'}
<1>1. /\ build \in Builds /\ build' = build /\ tm \in Attributes
      /\ Range(ts) \subseteq Node /\ Range(ts) \subseteq DeadNodes'
      /\ s.waiting_parents = tm.waiting_parents
  BY EngineType DEF Moved, Fails
<1>2. ASSUME NEW m \in D, NEW p \in s.waiting_parents[m] PROVE p \in D
  <2>1. m \in Node /\ p \in tm.waiting_parents[m] /\ p \in Node
    BY <1>1, <1>2, AttributesDef
  <2>2. m \in Sources(p)
    BY <2>1 DEF WaitersPend
  <2>3. m \in DeadNodes' \cup Cursed'
    BY <1>1, <1>2
  <2>4. p \in Cursed'
    BY <1>1, <2>1, <2>2, <2>3, CursedUp
  <2>5. QED
    BY <2>1, <2>4
<1>3. D \in SUBSET Node /\ Range(ts) \subseteq D /\ ParentsOf(s, D) \subseteq D
  BY <1>1, <1>2 DEF ParentsOf
<1>4. ASSUME NEW n \in Doomed(s, Range(ts)) PROVE n \in D
  <2> HIDE DEF D
  <2>1. QED
    BY <1>3, <1>4 DEF Doomed
<1>5. QED
  BY <1>4

(* A node that has failed is dead, or needs a dead one.                    *)
LEMMA ReasonKept ==
    ASSUME BooksInv, WalkInv, CycleInv, Next, Moved
    PROVE  FailedForReason'
<1> SUFFICES ASSUME NEW n \in Node, tm'.state[n] = FAILED
             PROVE  \/ n \in DeadNodes' /\ tm'.waiting_parents[n] = {}
                    \/ n \in Cursed'
  BY DEF FailedForReason
<1>1. /\ tm \in Attributes /\ build \in Builds /\ build' = build
      /\ InOnePlace /\ WaitersPend /\ FailedForReason /\ WaitOwed
  BY EngineType DEF WalkInv, CycleInv, Moved
<1>2. DeadNodes \subseteq DeadNodes' /\ Cursed \subseteq Cursed'
  BY <1>1, DeadStays
<1>3. CASE tm.state[n] = FAILED
  <2>1. CASE n \in Cursed
    BY <1>2, <2>1
  <2>2. CASE n \in DeadNodes /\ tm.waiting_parents[n] = {}
    <3>1. ASSUME NEW p \in tm'.waiting_parents[n] PROVE FALSE
      <4>1. Registers(n, p)
        BY <2>2, <3>1 DEF Moved
      <4>2. QED
        BY <1>1, <1>3, <4>1 DEF Registers, WaitOwed
    <3>2. QED
      BY <1>2, <2>2, <3>1
  <2>3. QED
    BY <1>1, <1>3, <2>1, <2>2 DEF FailedForReason
<1>4. CASE tm.state[n] # FAILED
  <2>1. Changes(n)
    BY <1>1, <1>4, StateChanges
  <2>2. CASE SkipFailed /\ node \in Node /\ n \in Range(TargetsOf(node))
    <3>1. PICK k \in Range(Children(tm, node)) : tm.state[k] = FAILED
      BY <2>2 DEF SkipFailed, ChildrenIn
    <3>2. k \in Sources(node) /\ Sources(n) = Sources(node)
      BY <1>1, <2>2, <3>1, ChildrenType, TargetsShare
    <3>3. k \in Node
      BY <1>1, <2>2, <3>2, ChildrenType
    <3>4. k \in DeadNodes \cup Cursed
      BY <1>1, <3>1, <3>3 DEF FailedForReason
    <3>5. n \in Cursed'
      BY <1>1, <1>2, <3>2, <3>4, CursedUp
    <3>6. QED
      BY <3>5
  <2>3. ASSUME NEW s, NEW ts, Fails(s, ts), n \in Doomed(s, Range(ts))
        PROVE  \/ n \in DeadNodes' /\ tm'.waiting_parents[n] = {}
               \/ n \in Cursed'
    <3>1. n \in Range(ts) \cup Cursed'
      BY <1>1, <2>3, DoomedIsCursed
    <3>2. tm'.waiting_parents[n] = {} /\ Range(ts) \subseteq DeadNodes'
      BY <2>3 DEF Fails, FailedInto
    <3>3. QED
      BY <3>1, <3>2
  <2>4. QED
    BY <2>1, <2>2, <2>3 DEF Changes
<1>5. QED
  BY <1>3, <1>4

(* Without --keep-going the first failure stops the walk.                  *)
LEMMA StopsKept ==
    ASSUME BooksInv, WalkInv, CycleInv, Next, Moved
    PROVE  FailureStops'
<1> SUFFICES ASSUME build.failing # "keep_going", NEW n \in Node, tm'.state[n] = FAILED
             PROVE  /\ tm'.next_candidate = "no" /\ main' \notin {"look", "wait"}
                    /\ tm'.waiting_parents[n] = {}
  BY DEF FailureStops, Moved
<1>1. /\ tm \in Attributes /\ build \in Builds /\ InOnePlace /\ FailureStops
  BY EngineType DEF WalkInv, CycleInv
<1>2. CASE tm.state[n] = FAILED
  <2>1. /\ tm.next_candidate = "no" /\ main \notin {"look", "wait"}
        /\ tm.waiting_parents[n] = {}
    BY <1>1, <1>2 DEF FailureStops
  <2>2. tm'.next_candidate = "no"
    BY <2>1 DEF Moved
  <2>3. main' \notin {"look", "wait"}
    BY <2>1, LookStep DEF Consider, SomeNotReady
  <2>4. ASSUME NEW p \in tm'.waiting_parents[n] PROVE FALSE
    BY <2>1, <2>4 DEF Moved, Registers
  <2>5. QED
    BY <2>2, <2>3, <2>4
<1>3. CASE tm.state[n] # FAILED
  <2>1. Changes(n)
    BY <1>1, <1>3, StateChanges
  <2>2. ~(SkipFailed /\ node \in Node)
    <3>1. ASSUME SkipFailed, node \in Node PROVE FALSE
      <4>1. PICK k \in Range(Children(tm, node)) : tm.state[k] = FAILED
        BY <3>1 DEF SkipFailed, ChildrenIn
      <4>2. k \in Node
        BY <1>1, <3>1, <4>1, ChildrenType
      <4>3. QED
        BY <1>1, <3>1, <4>1, <4>2 DEF FailureStops, SkipFailed
    <3>2. QED
      BY <3>1
  <2>3. PICK s, ts : Fails(s, ts) /\ n \in Doomed(s, Range(ts))
    BY <2>1, <2>2 DEF Changes
  <2>4. QED
    BY <2>3 DEF Fails, FailedInto
<1>4. QED
  BY <1>2, <1>3

(* A worker has nothing in hand when there are no jobs.                    *)
LEMMA NoJobs ==
    ASSUME BooksInv, jobs = 0
    PROVE  /\ \A w \in Worker : worker[w].task = None
           /\ \A n \in Node : ~InFlight(n)
<1>1. /\ requestQueue \in Seq(Seq(Node)) /\ resultsQueue \in Seq(Record)
  BY TypesNow
<1>2. /\ Cardinality(Tasks(requestQueue)) \in Nat /\ IsFiniteSet(Tasks(requestQueue))
  BY <1>1, TasksFinite
<1>3. Cardinality(Busy) \in Nat /\ IsFiniteSet(Busy)
  BY WorkerAssumption, FS_Subset, FS_CardinalityType DEF Busy
<1>4. jobs = Cardinality(Tasks(requestQueue)) + Cardinality(Busy) + Len(resultsQueue)
  BY JobsNow DEF BooksInv
<1>5. Len(resultsQueue) \in Nat
  BY <1>1
<1>6. Cardinality(Tasks(requestQueue)) = 0 /\ Cardinality(Busy) = 0 /\ Len(resultsQueue) = 0
  BY <1>2, <1>3, <1>4, <1>5
<1>7. Tasks(requestQueue) = {} /\ Busy = {}
  BY <1>2, <1>3, <1>6, FS_EmptySet
<1>8. DOMAIN resultsQueue = {}
  BY <1>1, <1>6
<1>9. \A w \in Worker : worker[w].task = None
  BY <1>7 DEF Busy
<1>10. ASSUME NEW n \in Node PROVE ~InFlight(n)
  <2>1. n \notin Range(None)
    BY DEF None, Range
  <2>2. Held(n) = {} /\ Returned(n) = {}
    BY <1>8, <1>9, <2>1 DEF Held, Returned
  <2>3. Queued(n) = {}
    BY <1>7, <2>1 DEF Queued, Tasks
  <2>4. QED
    BY <2>2, <2>3 DEF InFlight
<1>11. QED
  BY <1>9, <1>10

(* The build ends with nothing in flight and nothing left on the stack.    *)
LEMMA EndKept ==
    ASSUME BooksInv, WalkInv, CycleInv, Next, Moved
    PROVE  EndKnows'
<1> DEFINE End == {"cleanup", "join", "done"}
           Clear == jobs = 0 /\ tm.candidates = <<>>
                    /\ (tm.next_candidate = "find" => tm.top_targets_left = <<>>)
<1>1. /\ main \in End => Clear
      /\ cleanup_error = (main = "done" /\ CleanupError(tm))
      /\ tm \in Attributes
  BY EngineType DEF CycleInv, EndKnows
<1>2. CASE NoTask
  <2>1. /\ main = "fill" /\ main' \in {"cleanup", "collect"}
        /\ main' = "cleanup" => jobs = 0
        /\ \/ tm' = tm /\ tm.next_candidate = "find" /\ ~HasCandidate(tm)
           \/ \E D : Drops(D)
    BY <1>2, NoTaskShelves
  <2>2. jobs' = jobs /\ cleanup_error' = cleanup_error
    BY <1>2 DEF NoTask, queues, status
  <2>3. ~cleanup_error'
    BY <1>1, <2>1, <2>2
  <2>4. tm'.candidates = <<>> /\ (tm'.next_candidate = "find" => tm'.top_targets_left = <<>>)
    <3>1. CASE tm' = tm /\ tm.next_candidate = "find" /\ ~HasCandidate(tm)
      BY <3>1 DEF HasCandidate
    <3>2. ASSUME NEW D, Drops(D)
          PROVE  tm'.candidates = <<>> /\ tm'.next_candidate = "no"
      BY <3>2 DEF Drops, Moved
    <3>3. QED
      BY <2>1, <3>1, <3>2
  <2>5. cleanup_error' = FALSE
    <3>1. cleanup_error = FALSE
      BY <1>1, <2>1
    <3>2. QED
      BY <2>2, <3>1
  <2>6. QED
    BY <2>1, <2>2, <2>4, <2>5 DEF EndKnows
<1>3. CASE tm' = tm /\ jobs' = jobs /\ main \in End
           /\ cleanup_error' = (main' = "done" /\ CleanupError(tm))
  BY <1>1, <1>3 DEF EndKnows
<1>4. CASE main' \notin End /\ main # "done" /\ cleanup_error' = cleanup_error
  <2>1. cleanup_error' = FALSE
    BY <1>1, <1>4
  <2>2. QED
    BY <1>4, <2>1 DEF EndKnows
<1>5. CASE main \in End
  <2>1. jobs = 0 /\ \A w \in Worker : worker[w].task = None
    BY <1>1, <1>5, NoJobs
  <2>2. CASE CleanupPool \/ CleanupTaskmaster
    <3>1. /\ tm' = tm /\ jobs' = jobs
          /\ \/ main' = "join" /\ main = "cleanup" /\ cleanup_error' = cleanup_error
             \/ main' = "done" /\ cleanup_error' = CleanupError(tm)
      BY <2>2 DEF CleanupPool, CleanupTaskmaster, queues, status
    <3>2. cleanup_error' = (main' = "done" /\ CleanupError(tm))
      BY <1>1, <3>1 DEF CleanupError
    <3>3. QED
      BY <1>3, <1>5, <3>1, <3>2
  <2>3. CASE Interrupt
    <3>1. /\ tm'.candidates = tm.candidates /\ tm'.next_candidate = "no"
          /\ main' = main /\ main # "done" /\ jobs' = jobs
          /\ cleanup_error' = cleanup_error
      BY <2>3, InterruptResult DEF Interrupt, queues
    <3>2. cleanup_error' = FALSE
      BY <1>1, <3>1
    <3>3. QED
      BY <1>1, <1>5, <3>1, <3>2 DEF EndKnows
  <2>4. CASE \E w \in Worker : Get(w) \/ BuildTargets(w)
    <3>1. /\ tm' = tm /\ main' = main /\ jobs' = jobs /\ cleanup_error' = cleanup_error
      BY <2>4 DEF Get, BuildTargets, status
    <3>2. QED
      BY <1>1, <1>3, <1>5, <3>1
  <2>5. ~\E w \in Worker : Retrieve(w) \/ RetrievalDone(w)
    BY <2>1, RetrieveResult, RetrievalDoneResult
  <2>6. ~(Consider \/ SkipFailed \/ SomeNotReady \/ WaitForThem \/ NoTask \/ Collect)
    BY <1>5
       DEF Consider, SkipFailed, SomeNotReady, WaitForThem, NoTask, Collect
  <2>7. ~\E n \in Node : PreparationFails(n) \/ NothingToDo(n) \/ Dispatch(n)
    BY <1>5 DEF PreparationFails, NothingToDo, Dispatch, TaskFor
  <2>8. QED
    BY <2>2, <2>3, <2>4, <2>5, <2>6, <2>7, StepsOfBuild
<1>6. CASE main \notin End /\ ~NoTask
  <2>1. main' \notin End /\ cleanup_error' = cleanup_error
    <3>1. Consider \/ SkipFailed \/ SomeNotReady \/ WaitForThem \/ Collect =>
             main' \notin End /\ cleanup_error' = cleanup_error
      BY <1>6
         DEF Consider, SkipFailed, SomeNotReady, WaitForThem, Collect,
             status
    <3>2. (\E n \in Node : PreparationFails(n) \/ NothingToDo(n) \/ Dispatch(n)) =>
             main' \notin End /\ cleanup_error' = cleanup_error
      BY DEF PreparationFails, NothingToDo, Dispatch, TaskFor
    <3>3. ~(CleanupPool \/ CleanupTaskmaster)
      BY <1>6 DEF CleanupPool, CleanupTaskmaster
    <3>4. Interrupt \/ (\E w \in Worker : Work(w)) =>
             main' \notin End /\ cleanup_error' = cleanup_error
      BY <1>6
         DEF Interrupt, Work, Get, Retrieve, RetrievalDone, BuildTargets,
             status
    <3>5. QED
      BY <1>6, <3>1, <3>2, <3>3, <3>4, StepsOfBuild DEF Work
  <2>2. QED
    BY <1>4, <1>6, <2>1
<1>7. QED
  BY <1>2, <1>5, <1>6

(* At the start the build owes nothing.                                    *)
LEMMA CycleInit == Init => CycleInv
<1> SUFFICES ASSUME Init PROVE CycleInv
  OBVIOUS
<1>1. /\ tm.state = [n \in Node |-> NO_STATE]
      /\ tm.waiting_parents = [n \in Node |-> {}]
      /\ tm.pending_children = {} /\ main = "fill" /\ cleanup_error = FALSE
  BY DEF Init, TaskmasterInit
<1>2. /\ \A n \in Node : tm.state[n] = NO_STATE /\ tm.waiting_parents[n] = {}
  BY <1>1
<1>3. PendingOwed /\ UnvisitedOwed /\ ActiveOwed /\ WaitOwed /\ PendingAwaited
  BY <1>1, <1>2
     DEF PendingOwed, UnvisitedOwed, ActiveOwed, WaitOwed, PendingAwaited,
                    Waits, Finished
<1>4. FailedForReason /\ FailureStops
  BY <1>2 DEF FailedForReason, FailureStops
<1>5. EndKnows
  BY <1>1 DEF EndKnows
<1>6. QED
  BY <1>3, <1>4, <1>5 DEF CycleInv

(* Every step keeps what the build owes.                                   *)
LEMMA CycleStep == BooksInv /\ WalkInv /\ CycleInv /\ [Next]_vars => CycleInv'
<1> SUFFICES ASSUME BooksInv, WalkInv, CycleInv, [Next]_vars PROVE CycleInv'
  OBVIOUS
<1>1. CASE Next
  <2>1. Moved
    BY <1>1, StepMoves DEF WalkInv
  <2>2. QED
    BY <1>1, <2>1, PendingKept, UnvisitedKept, ActiveKept, WaitOwedKept,
       AwaitedKept,
       ReasonKept, StopsKept, EndKept
       DEF CycleInv
<1>2. CASE UNCHANGED vars
  <2>1. /\ UNCHANGED <<build, tm, main, node, children_not_ready, jobs, requestQueue,
                      resultsQueue, worker, cleanup_error>>
    BY <1>2 DEF vars, walk, queues, status
  <2>2. PendingOwed' /\ UnvisitedOwed' /\ PendingAwaited'
    BY <2>1
       DEF CycleInv, PendingOwed, UnvisitedOwed, PendingAwaited, Walking,
           OnHand,
                Waits
  <2>3. ASSUME NEW n PROVE InFlight(n)' = InFlight(n)
    BY <2>1 DEF InFlight, Queued, Held, Returned
  <2>4. ActiveOwed' /\ WaitOwed'
    BY <2>1, <2>3 DEF CycleInv, ActiveOwed, WaitOwed
  <2>5. ASSUME NEW n PROVE Closed(n)' = Closed(n) /\ Need(n)' = Need(n)
    BY <2>1, NeedSame DEF Closed, TargetsOf
  <2>6. DeadNodes' = DeadNodes
    BY <2>1, <2>3, <2>5 DEF DeadNodes
  <2>7. Cursed' = Cursed
    BY <2>5, <2>6 DEF Cursed
  <2>8. FailedForReason' /\ FailureStops'
    BY <2>1, <2>6, <2>7 DEF CycleInv, FailedForReason, FailureStops
  <2>9. EndKnows'
    BY <2>1 DEF CycleInv, EndKnows, CleanupError, OnCycle, Doomed, ParentsOf
  <2>10. QED
    BY <2>2, <2>4, <2>8, <2>9 DEF CycleInv
<1>3. QED
  BY <1>1, <1>2

-----------------------------------------------------------------------------
(* The end of the build.                                                   *)

(* find_cycle() finds a node that needs itself.                            *)
LEMMA CycleIsReal ==
    ASSUME build \in Builds, tm \in Attributes, WaitersPend, NEW n \in Node,
           OnCycle(tm, n)
    PROVE  n \in Need(n)
<1> DEFINE D == {m \in Node : n \in Need(m)}
<1>1. tm.waiting_parents \in [Node -> SUBSET Node]
  BY AttributesDef
<1>2. tm.waiting_parents[n] \subseteq D
  <2>1. ASSUME NEW p \in tm.waiting_parents[n] PROVE p \in D
    <3>1. p \in Node /\ n \in Sources(p)
      BY <1>1, <2>1 DEF WaitersPend
    <3>2. QED
      BY <3>1, NeedUp
  <2>2. QED
    BY <2>1
<1>3. ASSUME NEW m \in D, NEW p \in tm.waiting_parents[m] PROVE p \in D
  <2>1. p \in Node /\ m \in Sources(p)
    BY <1>1, <1>3 DEF WaitersPend
  <2>2. QED
    BY <1>3, <2>1, NeedUp
<1>4. D \in SUBSET Node /\ ParentsOf(tm, D) \subseteq D
  BY <1>3 DEF ParentsOf
<1>5. n \in D
  <2> HIDE DEF D
  <2>1. QED
    BY <1>2, <1>4 DEF OnCycle, Doomed
<1>6. QED
  BY <1>5

(* A set of nodes each of which needs another one of them has a cycle.     *)
LEMMA NeedsItself ==
    ASSUME build \in Builds, NEW S, S \subseteq Node, S # {},
           \A m \in S : \E j \in S : j \in Sources(m)
    PROVE  \E j \in Node : j \in Need(j)
<1> DEFINE T == {Need(m) : m \in S}
           R == StrictSubsetOrdering(Node)
<1>1. IsWellFoundedOn(R, SUBSET Node)
  <2>1. IsWellFoundedOn(R, FiniteSubsetsOf(Node))
    BY FS_StrictSubsetOrderingWellFounded
  <2>2. FiniteSubsetsOf(Node) = SUBSET Node
    BY BuildAssumption, FS_FiniteSubsetsOfFinite
  <2> HIDE DEF R
  <2>3. QED
    BY <2>1, <2>2
<1>2. T \subseteq SUBSET Node /\ T # {}
  <2>1. ASSUME NEW m PROVE Need(m) \in SUBSET Node
    BY DEF Need, Closure
  <2>2. QED
    BY <2>1
<1>3. \E x \in T : \A y \in T : ~(<<y, x>> \in R)
  <2> HIDE DEF T, R
  <2>1. QED
    BY <1>1, <1>2, WFMin
<1>4. PICK m \in S : \A y \in T : ~(<<y, Need(m)>> \in R)
  BY <1>3
<1>5. PICK j \in S : j \in Sources(m)
  OBVIOUS
<1>6. j \in Need(m) /\ Need(j) \subseteq Need(m) /\ m \in Node
  BY <1>5, NeedUp
<1>7. Need(j) \in T /\ Need(j) \in SUBSET Node /\ Need(m) \in SUBSET Node
  BY <1>2
<1>8. Need(j) = Need(m)
  BY <1>4, <1>6, <1>7 DEF StrictSubsetOrdering
<1>9. QED
  BY <1>6, <1>8

(* What a node still waits for at the end.                                 *)
LEMMA LeftOver ==
    ASSUME BooksInv, WalkInv, CycleInv, main = "done",
           NEW n \in Node, tm.waiting_parents[n] # {}
    PROVE  \/ /\ tm.state[n] = PENDING
              /\ \E j \in Sources(n) : tm.waiting_parents[j] # {}
           \/ /\ tm.state[n] = FAILED /\ build.failing = "keep_going"
              /\ \E k \in Need(n) : tm.state[k] = FAILED
<1>1. /\ build \in Builds /\ tm \in Attributes /\ WaitersPend
      /\ jobs = 0 /\ tm.candidates = <<>>
  BY EngineType DEF WalkInv, CycleInv, EndKnows
<1>2. ~InFlight(n) /\ n \notin Range(tm.candidates)
  BY <1>1, NoJobs DEF Range
<1>3. tm.state[n] \in NO_STATE .. FAILED
  BY <1>1, AttributesDef
<1>4. tm.state[n] # NO_STATE
  BY <1>2 DEF CycleInv, UnvisitedOwed
<1>5. tm.state[n] # EXECUTING /\ tm.state[n] \notin Finished
  BY <1>2 DEF CycleInv, ActiveOwed
<1>6. CASE tm.state[n] = PENDING
  <2>1. Waits(n)
    BY <1>2, <1>6 DEF CycleInv, PendingOwed, OnHand
  <2>2. PICK j \in Node : n \in tm.waiting_parents[j]
    BY <2>1 DEF Waits
  <2>3. j \in Sources(n) /\ tm.waiting_parents[j] # {}
    BY <1>1, <2>2 DEF WaitersPend
  <2>4. QED
    BY <1>6, <2>3
<1>7. CASE tm.state[n] = FAILED
  <2>1. build.failing = "keep_going"
    BY <1>7 DEF CycleInv, FailureStops
  <2>2. n \in Cursed
    BY <1>7 DEF CycleInv, FailedForReason
  <2>3. \E k \in Need(n) : tm.state[k] = FAILED
    BY <2>2 DEF Cursed, DeadNodes
  <2>4. QED
    BY <1>7, <2>1, <2>3
<1>8. QED
  BY <1>3, <1>4, <1>5, <1>6, <1>7 DEF Finished

(* At the end, a node that still waits leads to a circle, or needs one     *)
(* that has failed.                                                        *)
LEMMA CyclesAtTheEnd == BooksInv /\ WalkInv /\ CycleInv => CyclesAreReal
<1> SUFFICES ASSUME BooksInv, WalkInv, CycleInv, cleanup_error,
                    \A n \in Node : n \notin Need(n)
             PROVE  /\ build.failing = "keep_going"
                    /\ \E n \in tm.pending_children :
                          \E k \in Need(n) : tm.state[k] = FAILED
  BY DEF CyclesAreReal, Need
<1>1. /\ build \in Builds /\ tm \in Attributes /\ WaitersPend
      /\ main = "done" /\ CleanupError(tm)
  BY EngineType DEF WalkInv, CycleInv, EndKnows
<1>2. PICK n \in tm.pending_children : OnCycle(tm, n) \/ tm.state[n] # EXECUTED
  BY <1>1 DEF CleanupError
<1>3. n \in Node /\ tm.waiting_parents[n] # {}
  BY <1>1, AttributesDef DEF CycleInv, PendingAwaited
<1>4. CASE tm.state[n] = FAILED
  BY <1>1, <1>3, <1>4, LeftOver
<1>5. CASE tm.state[n] # FAILED
  <2> DEFINE S == {m \in Node : /\ m = n \/ m \in Need(n)
                                /\ tm.waiting_parents[m] # {}}
  <2>1. S \subseteq Node /\ S # {}
    BY <1>3
  <2>2. PICK m \in S : ~\E j \in S : j \in Sources(m)
    <3> HIDE DEF S
    <3>1. QED
      BY <1>1, <2>1, NeedsItself
  <2>3. /\ m \in Node /\ tm.waiting_parents[m] # {}
        /\ m = n \/ m \in Need(n)
    OBVIOUS
  <2>4. Need(m) \subseteq Need(n) /\ Sources(m) \subseteq Need(n)
    BY <1>1, <1>3, <2>3, NeedTransitive, NeedUp
  <2>5. ~(\E j \in Sources(m) : tm.waiting_parents[j] # {})
    <3>1. Need(n) \subseteq Node
      BY DEF Need, Closure
    <3>2. QED
      BY <2>2, <2>4, <3>1
  <2>6. build.failing = "keep_going" /\ \E k \in Need(m) : tm.state[k] = FAILED
    BY <1>1, <2>3, <2>5, LeftOver
  <2>7. QED
    BY <2>4, <2>6
<1>6. QED
  BY <1>4, <1>5

(* The inductive invariant of what the build owes.                         *)
THEOREM CycleInvariance == Spec => []CycleInv
<1>1. Init => CycleInv
  BY CycleInit
<1>2. BooksInv /\ WalkInv /\ CycleInv /\ [Next]_vars => CycleInv'
  BY CycleStep
<1>3. QED
  BY <1>1, <1>2, BooksInvariance, WalkInvariance, PTL DEF Spec

(* When Taskmaster.cleanup() raises its error about a dependency cycle,    *)
(* some node does depend on itself: neither an interrupted build, nor a    *)
(* file that the cache has given to a worker, nor a failure without        *)
(* --keep-going makes scons report a cycle that the SConstruct does not    *)
(* have. With --keep-going the one other reason is a node in               *)
(* pending_children that needs one that has failed.                        *)
THEOREM ReportedCyclesAreReal == Spec => []CyclesAreReal
<1>1. BooksInv /\ WalkInv /\ CycleInv => CyclesAreReal
  BY CyclesAtTheEnd
<1>2. QED
  BY <1>1, BooksInvariance, WalkInvariance, CycleInvariance, PTL

-----------------------------------------------------------------------------
(* A build that returns 0.                                                 *)

(* Every circle of nodes that wait meets pending_children.                 *)
LEMMA CirclesKept ==
    ASSUME BooksInv, WalkInv, CycleInv, CirclesPend, Next
    PROVE  CirclesPend'
<1> SUFFICES ASSUME NEW S \in SUBSET Node, S # {},
                    \A n \in S : /\ tm'.state[n] = PENDING
                                 /\ \E k \in S : n \in tm'.waiting_parents[k]
             PROVE  S \cap tm'.pending_children # {}
  BY DEF CirclesPend, Circle
<1>1. tm \in Attributes /\ InOnePlace /\ UnvisitedOwed
  BY EngineType DEF WalkInv, CycleInv
<1> DEFINE S0 == {n \in S : tm'.waiting_parents[n] # {}}
<1>2. /\ S0 # {} /\ S0 \in SUBSET Node
      /\ \A n \in S : \E k \in S0 : n \in tm'.waiting_parents[k]
  OBVIOUS
<1>3. ASSUME \A n \in S0 : /\ tm.state[n] = PENDING
                           /\ tm'.waiting_parents[n] \subseteq tm.waiting_parents[n]
      PROVE  S0 \cap tm.pending_children # {}
  <2>1. \A n \in S0 : \E k \in S0 : n \in tm.waiting_parents[k]
    BY <1>2, <1>3
  <2>2. Circle(S0)
    BY <1>2, <1>3, <2>1 DEF Circle
  <2> HIDE DEF S0
  <2>3. QED
    BY <1>2, <2>2 DEF CirclesPend
<1>4. CASE Consider
  <2>1. PICK c : Takes(c)
    BY <1>4, ConsiderShelves
  <2>2. ASSUME NEW n \in S PROVE tm.state[n] = PENDING
    <3>1. \E k \in Node : n \in tm.waiting_parents[k]
      BY <2>1 DEF Takes
    <3>2. tm.state[n] # NO_STATE
      BY <1>1, <3>1 DEF UnvisitedOwed, Waits
    <3>3. tm.state[n] \in NO_STATE .. FAILED
      BY <1>1, AttributesDef
    <3>4. tm.state[n] = tm'.state[n] \/ tm.state[n] <= PENDING
      BY <1>1, <2>1, AttributesDef DEF Takes
    <3>5. QED
      BY <3>2, <3>3, <3>4
  <2>3. QED
    BY <1>3, <2>1, <2>2 DEF Takes
<1>5. CASE WaitForThem
  <2>1. Enters
    BY <1>5, WaitForThemShelves
  <2>2. CASE \E n \in S, k \in S : n \in tm'.waiting_parents[k] /\ n \notin tm.waiting_parents[k]
    <3>1. PICK n \in S, k \in S :
              n \in tm'.waiting_parents[k] /\ n \notin tm.waiting_parents[k]
      BY <2>2
    <3>2. k \in children_not_ready /\ tm.state[k] = PENDING
      BY <2>1, <3>1 DEF Enters
    <3>3. k \in tm'.pending_children
      BY <2>1, <3>2 DEF Enters
    <3>4. QED
      BY <3>1, <3>3
  <2>3. CASE \A n \in S, k \in S :
                n \in tm'.waiting_parents[k] => n \in tm.waiting_parents[k]
    <3>1. Circle(S)
      BY <2>1, <2>3 DEF Circle, Enters
    <3>2. QED
      BY <2>1, <3>1 DEF CirclesPend, Enters
  <2>4. QED
    BY <2>2, <2>3
<1>6. CASE NoTask
  <2>1. tm' = tm \/ \E D : Drops(D)
    BY <1>6, NoTaskShelves
  <2>2. \A n \in S0 : /\ tm.state[n] = PENDING
                      /\ tm'.waiting_parents[n] \subseteq tm.waiting_parents[n]
    BY <1>2, <1>6, NoTaskResult
  <2>3. PICK n \in S0 : n \in tm.pending_children
    BY <1>3, <2>2
  <2>4. ASSUME NEW D, Drops(D) PROVE n \in tm'.pending_children
    BY <2>3, <2>4 DEF Drops, Cleared
  <2>5. QED
    BY <2>1, <2>3, <2>4
<1>7. CASE Shelves(tm, tm') /\ ~Consider
  <2>1. ASSUME NEW n \in S0
        PROVE  /\ tm.state[n] = PENDING
               /\ tm'.waiting_parents[n] \subseteq tm.waiting_parents[n]
    <3>1. ASSUME tm'.state[n] # tm.state[n] PROVE FALSE
      <4>1. Changes(n)
        BY <1>1, <3>1, StateChanges
      <4>2. QED
        BY <1>7, <4>1 DEF Changes
    <3>2. QED
      BY <1>7, <3>1 DEF Shelves
  <2>2. PICK n \in S0 : n \in tm.pending_children
    BY <1>3, <2>1
  <2>3. n \in tm'.pending_children
    BY <1>7, <2>2 DEF Shelves
  <2>4. QED
    BY <2>2, <2>3
<1>8. QED
  BY <1>4, <1>5, <1>6, <1>7, StepShelves

(* exit_status never goes back to 0.                                       *)
LEMMA StatusStays ==
    ASSUME Next, exit_status' = 0
    PROVE  exit_status = 0
<1>1. ASSUME NEW s, NEW ts, FailTask(s, ts) \/ FinishTask(s, ts)
      PROVE  exit_status' = 2 \/ exit_status' = exit_status
  BY <1>1 DEF FailTask, FinishTask
<1>2. (\E n \in Node : PreparationFails(n) \/ NothingToDo(n)) => exit_status = 0
  BY <1>1 DEF PreparationFails, NothingToDo
<1>3. Collect => exit_status = 0
  BY <1>1 DEF Collect
<1>4. (\E n \in Node : Dispatch(n)) => exit_status = 0
  BY DEF Dispatch
<1>5. Consider \/ SkipFailed \/ SomeNotReady \/ WaitForThem \/ NoTask => exit_status = 0
  BY DEF Consider, SkipFailed, SomeNotReady, WaitForThem, NoTask, status
<1>6. CleanupPool \/ CleanupTaskmaster \/ Interrupt => exit_status = 0
  BY DEF CleanupPool, CleanupTaskmaster, Interrupt, status
<1>7. (\E w \in Worker : Work(w)) => exit_status = 0
  BY DEF Work, Get, Retrieve, RetrievalDone, BuildTargets, status
<1>8. QED
  BY <1>2, <1>3, <1>4, <1>5, <1>6, <1>7, StepsOfBuild DEF Work

(* Only a failure and a signal stop the walk.                              *)
LEMMA StopReason ==
    ASSUME BooksInv, Next, exit_status' = 0, ~interrupted'
    PROVE  tm'.next_candidate = tm.next_candidate /\ ~interrupted
<1>1. ASSUME NEW s \in Attributes, NEW ts, FinishedInto(s, ts, tm')
      PROVE  tm'.next_candidate = s.next_candidate
  BY <1>1 DEF FinishedInto
<1>2. ASSUME NEW n \in Node, PreparationFails(n) \/ NothingToDo(n)
      PROVE  tm'.next_candidate = tm.next_candidate /\ ~interrupted
  <2>1. TaskFor(n) /\ FinishTask(MakeReady(tm, n), TargetsOf(n)) /\ ~interrupted
    BY <1>2 DEF PreparationFails, NothingToDo, FailTask, TaskFor
  <2>2. /\ MakeReady(tm, n) \in Attributes
        /\ MakeReady(tm, n).next_candidate = tm.next_candidate
    BY <2>1, TaskForResult
  <2>3. FinishedInto(MakeReady(tm, n), TargetsOf(n), tm')
    BY <2>1, FinishNowResult
  <2>4. QED
    BY <1>1, <2>1, <2>2, <2>3
<1>3. CASE Collect
  <2>1. FinishTask(tm, Head(resultsQueue).task) /\ ~interrupted
    BY <1>3 DEF Collect, FailTask
  <2>2. tm \in Attributes /\ Agree(tm) /\ Range(Head(resultsQueue).task) \subseteq Node
    BY <1>3, EngineType, CollectResult
  <2>3. FinishedInto(tm, Head(resultsQueue).task, tm')
    BY <2>1, <2>2, FinishTaskResult
  <2>4. QED
    BY <1>1, <2>1, <2>2, <2>3
<1>4. ASSUME NEW n \in Node, Dispatch(n)
      PROVE  tm'.next_candidate = tm.next_candidate /\ ~interrupted
  BY <1>4, TaskForResult DEF Dispatch, TaskFor
<1>5. Consider \/ SkipFailed \/ SomeNotReady \/ WaitForThem \/ NoTask =>
          tm'.next_candidate = tm.next_candidate
  BY ConsiderResult, SkipFailedResult, SomeNotReadyResult, WaitForThemResult,
     NoTaskResult
<1>6. Consider \/ SkipFailed \/ SomeNotReady \/ WaitForThem \/ NoTask => ~interrupted
  BY DEF Consider, SkipFailed, SomeNotReady, WaitForThem, NoTask, status
<1>7. CleanupPool \/ CleanupTaskmaster =>
          tm'.next_candidate = tm.next_candidate /\ ~interrupted
  BY DEF CleanupPool, CleanupTaskmaster, status
<1>8. ~Interrupt
  BY DEF Interrupt
<1>9. (\E w \in Worker : Work(w)) => ~interrupted
  BY DEF Work, Get, Retrieve, RetrievalDone, BuildTargets, status
<1>10. (\E w \in Worker : Get(w) \/ BuildTargets(w)) => tm' = tm
  BY DEF Get, BuildTargets
<1>11. ASSUME NEW w \in Worker, Retrieve(w) \/ RetrievalDone(w)
       PROVE  tm'.next_candidate = tm.next_candidate
  BY <1>11, RetrieveResult, RetrievalDoneResult
<1>12. QED
  BY <1>2, <1>3, <1>4, <1>5, <1>6, <1>7, <1>8, <1>9, <1>10, <1>11, StepsOfBuild
     DEF Work

(* While scons would return 0 nothing has failed, and only a signal stops  *)
(* the walk.                                                               *)
LEMMA CountKept ==
    ASSUME BooksInv, WalkInv, FailuresCount, Next
    PROVE  FailuresCount'
<1> SUFFICES ASSUME exit_status' = 0
             PROVE  /\ \A n \in Node : tm'.state[n] # FAILED
                    /\ ~interrupted' => tm'.next_candidate = "find"
  BY DEF FailuresCount
<1>1. /\ exit_status = 0 /\ InOnePlace /\ build \in Builds
      /\ \A n \in Node : tm.state[n] # FAILED
      /\ ~interrupted => tm.next_candidate = "find"
  BY StatusStays, EngineType DEF FailuresCount, WalkInv
<1>2. ASSUME NEW n \in Node, tm'.state[n] = FAILED PROVE FALSE
  <2>1. Changes(n)
    BY <1>1, <1>2, StateChanges
  <2>2. CASE SkipFailed /\ node \in Node
    <3>1. PICK k \in Range(Children(tm, node)) : tm.state[k] = FAILED
      BY <2>2 DEF SkipFailed, ChildrenIn
    <3>2. QED
      BY <1>1, <2>2, <3>1, ChildrenType
  <2>3. ASSUME NEW s, NEW ts, Fails(s, ts) PROVE FALSE
    BY <2>3 DEF Fails
  <2>4. QED
    BY <1>2, <2>1, <2>2, <2>3 DEF Changes
<1>3. ~interrupted' => tm'.next_candidate = "find"
  BY <1>1, StopReason
<1>4. QED
  BY <1>2, <1>3

(* The targets asked for are looked at.                                    *)
LEMMA TopsKept ==
    ASSUME BooksInv, TopsOwed, Next, Moved
    PROVE  TopsOwed'
<1>1. tm \in Attributes /\ build \in Builds /\ build' = build
  BY EngineType DEF Moved
<1>2. ASSUME NEW n \in Range(build.tops)
      PROVE  n \in Range(tm'.top_targets_left) \/ tm'.state[n] # NO_STATE
  <2>1. n \in Node
    BY <1>1, <1>2, BuildType, EntriesOfList
  <2>2. tm.state[n] # NO_STATE => tm'.state[n] # NO_STATE
    <3>1. Moves(n)
      BY <2>1 DEF Moved
    <3>2. QED
      BY <3>1 DEF Moves
  <2>3. n \in Range(tm.top_targets_left) \/ tm.state[n] # NO_STATE
    BY <1>2 DEF TopsOwed
  <2>4. CASE Consider
    <3>1. PICK c : Takes(c)
      BY <2>4, ConsiderShelves
    <3>2. tm'.state[c] # NO_STATE
      BY <1>1, <3>1, AttributesDef DEF Takes
    <3>3. QED
      BY <2>2, <2>3, <3>1, <3>2 DEF Takes
  <2>5. CASE ~Consider
    <3>1. WaitForThem => tm'.top_targets_left = tm.top_targets_left
      BY WaitForThemShelves DEF Enters
    <3>2. NoTask => tm'.top_targets_left = tm.top_targets_left
      BY NoTaskShelves DEF Drops
    <3>3. tm'.top_targets_left = tm.top_targets_left
      BY <2>5, <3>1, <3>2, StepShelves DEF Shelves
    <3>4. QED
      BY <2>2, <2>3, <3>3
  <2>6. QED
    BY <2>4, <2>5
<1>3. QED
  BY <1>1, <1>2 DEF TopsOwed

(* What is made stays made, and does not learn of more children.           *)
LEMMA ChildrenKept ==
    ASSUME BooksInv, WalkInv, FailuresCount, ChildrenDone,
           FailuresCount', Next, Moved
    PROVE  ChildrenDone'
<1> SUFFICES ASSUME exit_status' = 0, NEW n \in Node, tm'.state[n] \in Active,
                    NEW k \in Range(Children(tm', n))
             PROVE  tm'.state[k] \in Finished
  <2>1. ChildrenDone' <=>
          (exit_status' = 0 =>
             \A n \in Node : tm'.state[n] \in Active =>
                \A k \in Range(Children(tm, n)') : tm'.state[k] \in Finished)
    BY DEF ChildrenDone
  <2>2. ASSUME NEW n PROVE Children(tm, n)' = Children(tm', n)
    BY DEF Children, TargetsOf, Moved
  <2>3. QED
    BY <2>1, <2>2
<1>1. /\ build \in Builds /\ build' = build /\ tm \in Attributes
      /\ MadeTogether /\ FlightKnown /\ exit_status = 0
      /\ \A m \in Node : tm.state[m] # FAILED /\ tm'.state[m] # FAILED
  BY EngineType, StatusStays DEF WalkInv, Moved, FailuresCount
<1>2. Range(Children(tm', n)) \subseteq Range(Children(tm, n))
  <2>1. ~(main = "fill" /\ main' = "look" /\ node' \in Range(TargetsOf(n)))
    <3>1. ASSUME main = "fill", main' = "look", node' \in Range(TargetsOf(n)) PROVE FALSE
      <4>1. Consider
        BY <3>1, LookStep
      <4>2. PICK c : Takes(c)
        BY <4>1, ConsiderShelves
      <4>3. /\ c \in Range(TargetsOf(n)) /\ tm'.state[c] = PENDING
            /\ tm.state[c] <= PENDING /\ c \in Node
            /\ tm'.state = [tm.state EXCEPT ![c] = PENDING]
        BY <1>1, <3>1, <4>2, AttributesDef DEF Takes
      <4>4. tm.state[n] \in Active
        BY <1>1, <4>3, AttributesDef DEF Active
      <4>5. Closed(n)
        BY <1>1, <4>4 DEF MadeTogether
      <4>6. tm.state[c] > PENDING
        BY <4>3, <4>5 DEF Closed
      <4>7. tm.state[c] \in NO_STATE .. FAILED
        BY <1>1, <4>3, AttributesDef
      <4>8. QED
        BY <4>3, <4>6, <4>7
    <3>2. QED
      BY <3>1
  <2>2. ASSUME NEW t \in Range(TargetsOf(n)), tm'.implicit[t] = "full"
        PROVE  tm.implicit[t] = "full"
    <3>1. t \in Node /\ TargetsOf(t) = TargetsOf(n)
      BY <1>1, <2>2, TargetsType
    <3>2. Rescans(t)
      BY <3>1 DEF Moved
    <3>3. QED
      BY <2>1, <2>2, <3>1, <3>2 DEF Rescans
  <2>3. CASE \E t \in Range(TargetsOf(n)) : tm'.implicit[t] = "full"
    <3>1. Sources(n) \subseteq Range(Children(tm, n))
      BY <1>1, <2>2, <2>3, ChildrenType
    <3>2. Range(Children(tm', n)) \subseteq Sources(n)
      BY <1>1, ChildrenType
    <3>3. QED
      BY <3>1, <3>2
  <2>4. CASE ~\E t \in Range(TargetsOf(n)) : tm'.implicit[t] = "full"
    <3>1. Children(tm', n) = build.kids[n] \o <<>>
      BY <2>4 DEF Children
    <3>2. Range(build.kids[n] \o <<>>) = Range(build.kids[n])
      BY <1>1, BuildType, EntriesOfJoin
    <3>3. Range(build.kids[n]) \subseteq Range(Children(tm, n))
      BY <1>1, ChildrenType
    <3>4. QED
      BY <3>1, <3>2, <3>3
  <2>5. QED
    BY <2>3, <2>4
<1>3. k \in Range(Children(tm, n)) /\ k \in Node
  BY <1>1, <1>2, ChildrenType
<1>4. tm.state[k] \in Finished
  <2>1. CASE tm.state[n] \in Active
    BY <1>1, <1>3, <2>1 DEF ChildrenDone
  <2>2. CASE tm.state[n] \notin Active
    <3>1. Moves(n)
      BY DEF Moved
    <3>2. InFlight(n) => tm.state[n] \in Active
      BY <1>1 DEF FlightKnown, Condemned, Active
    <3>3. SourcesDone(n)
      BY <1>1, <2>2, <3>1, <3>2 DEF Moves, Active
    <3>4. QED
      BY <1>3, <3>3 DEF SourcesDone
  <2>3. QED
    BY <2>1, <2>2
<1>5. Moves(k) /\ Closed(k)
  BY <1>1, <1>3, <1>4 DEF Moved, MadeTogether, Finished, Active
<1>6. QED
  BY <1>1, <1>3, <1>4, <1>5 DEF Moves, Finished

(* At the start nothing has failed and every target is still to be taken.  *)
LEMMA SuccessInit == Init => SuccessInv
<1> SUFFICES ASSUME Init PROVE SuccessInv
  OBVIOUS
<1>1. /\ tm.state = [n \in Node |-> NO_STATE] /\ build \in Builds
      /\ tm.next_candidate = "find" /\ tm.top_targets_left = Reverse(build.tops)
  BY DEF Init, TaskmasterInit
<1>2. \A n \in Node : tm.state[n] = NO_STATE
  BY <1>1
<1>3. CirclesPend
  BY <1>2 DEF CirclesPend, Circle
<1>4. FailuresCount /\ ChildrenDone
  BY <1>1, <1>2 DEF FailuresCount, ChildrenDone, Active
<1>5. TopsOwed
  <2> DEFINE q == build.tops
  <2>1. q \in Seq(Node)
    BY <1>1, BuildType
  <2>2. ASSUME NEW n \in Range(q) PROVE n \in Range(Reverse(q))
    <3>1. PICK i \in 1 .. Len(q) : q[i] = n
      BY <2>1, <2>2, EntriesOfList
    <3>2. Len(q) \in Nat
      BY <2>1
    <3> DEFINE len == Len(q)
               j == len - i + 1
    <3>3. j \in 1 .. len /\ len - j + 1 = i
      <4> HIDE DEF len
      <4>1. len \in Nat /\ i \in 1 .. len
        BY <3>1, <3>2 DEF len
      <4>2. QED
        BY <4>1
    <3>4. Reverse(q) = [m \in 1 .. len |-> q[len - m + 1]]
      BY DEF Reverse
    <3> HIDE DEF j, len
    <3>5. j \in DOMAIN Reverse(q) /\ Reverse(q)[j] = n
      BY <3>1, <3>3, <3>4
    <3>6. QED
      BY <3>5 DEF Range
  <2>3. QED
    BY <1>1, <2>2 DEF TopsOwed
<1>6. QED
  BY <1>3, <1>4, <1>5 DEF SuccessInv

(* Every step keeps the invariant of a build that would return 0.          *)
LEMMA SuccessStep ==
    BooksInv /\ WalkInv /\ CycleInv /\ SuccessInv /\ [Next]_vars => SuccessInv'
<1> SUFFICES ASSUME BooksInv, WalkInv, CycleInv, SuccessInv, [Next]_vars
             PROVE  SuccessInv'
  OBVIOUS
<1>1. CASE Next
  <2>1. Moved
    BY <1>1, StepMoves DEF WalkInv
  <2>2. CirclesPend' /\ FailuresCount' /\ TopsOwed'
    BY <1>1, <2>1, CirclesKept, CountKept, TopsKept DEF SuccessInv
  <2>3. ChildrenDone'
    BY <1>1, <2>1, <2>2, ChildrenKept DEF SuccessInv
  <2>4. QED
    BY <2>2, <2>3 DEF SuccessInv
<1>2. CASE UNCHANGED vars
  <2>1. UNCHANGED <<build, tm, exit_status, interrupted>>
    BY <1>2 DEF vars, status
  <2>2. QED
    BY <2>1
       DEF SuccessInv, CirclesPend, Circle, FailuresCount, TopsOwed,
           ChildrenDone,
                Children, TargetsOf
<1>3. QED
  BY <1>1, <1>2

(* A build that ends with 0 has nothing left to make.                      *)
LEMMA SuccessAtTheEnd ==
    BooksInv /\ WalkInv /\ CycleInv /\ SuccessInv => SuccessMeansBuilt
<1> SUFFICES ASSUME BooksInv, WalkInv, CycleInv, SuccessInv,
                    main = "done", exit_status = 0, ~interrupted, ~cleanup_error
             PROVE  \A n \in Closure(Range(build.tops), KnownKids) :
                        tm.state[n] \in Finished
  BY DEF SuccessMeansBuilt
<1>1. /\ build \in Builds /\ tm \in Attributes /\ jobs = 0
      /\ tm.candidates = <<>> /\ tm.top_targets_left = <<>> /\ ~CleanupError(tm)
      /\ tm.next_candidate = "find" /\ \A n \in Node : tm.state[n] # FAILED
  BY EngineType DEF CycleInv, SuccessInv, EndKnows, FailuresCount
<1>2. \A n \in Node : ~InFlight(n)
  BY <1>1, NoJobs
<1>3. Range(tm.candidates) = {} /\ Range(tm.top_targets_left) = {}
  BY <1>1 DEF Range
<1> DEFINE S == {n \in Node : tm.state[n] = PENDING}
<1>4. ASSUME NEW n \in S PROVE \E k \in S : n \in tm.waiting_parents[k]
  <2>1. n \in Node /\ Waits(n)
    BY <1>1, <1>3, <1>4 DEF CycleInv, PendingOwed, Walking, OnHand
  <2>2. PICK k \in Node : n \in tm.waiting_parents[k]
    BY <2>1 DEF Waits
  <2>3. tm.state[k] # FAILED /\ ~(main \in {"look", "wait"})
    BY <1>1
  <2>4. tm.state[k] = PENDING
    BY <1>1, <2>2, <2>3, LeftOver
  <2>5. QED
    BY <2>2, <2>4
<1>5. S = {}
  <2>1. ASSUME S # {} PROVE FALSE
    <3>1. Circle(S) /\ S \in SUBSET Node
      BY <1>4, <2>1 DEF Circle
    <3>2. PICK n \in S : n \in tm.pending_children
      <4> HIDE DEF S
      <4>1. QED
        BY <3>1 DEF SuccessInv, CirclesPend
    <3>3. QED
      BY <1>1, <3>2 DEF CleanupError
  <2>2. QED
    BY <2>1
<1>6. ASSUME NEW n \in Node, tm.state[n] # NO_STATE PROVE tm.state[n] \in Finished
  <2>1. tm.state[n] \in NO_STATE .. FAILED /\ tm.state[n] # PENDING /\ tm.state[n] # FAILED
    BY <1>1, <1>5, AttributesDef
  <2>2. tm.state[n] # EXECUTING
    BY <1>2 DEF CycleInv, ActiveOwed
  <2>3. QED
    BY <1>6, <2>1, <2>2 DEF Finished
<1> DEFINE D == {n \in Node : tm.state[n] \in Finished}
<1>7. Range(build.tops) \subseteq D
  <2>1. Range(build.tops) \subseteq Node
    BY <1>1, BuildType, EntriesOfList
  <2>2. QED
    BY <1>3, <1>6, <2>1 DEF SuccessInv, TopsOwed
<1>8. ASSUME NEW n \in D PROVE KnownKids(n) \subseteq D
  <2>1. n \in Node /\ tm.state[n] \in Active
    BY <1>8 DEF Finished, Active
  <2>2. \A k \in Range(Children(tm, n)) : tm.state[k] \in Finished
    BY <2>1 DEF SuccessInv, ChildrenDone
  <2>3. Range(Children(tm, n)) \subseteq Node
    BY <1>1, <2>1, ChildrenType
  <2>4. QED
    BY <2>2, <2>3 DEF KnownKids
<1>9. Closure(Range(build.tops), KnownKids) \subseteq D
  <2> HIDE DEF D
  <2>1. D \in SUBSET Node
    BY DEF D
  <2>2. QED
    BY <1>7, <1>8, <2>1 DEF Closure
<1>10. QED
  BY <1>9

(* The inductive invariant of a build that would return 0.                 *)
THEOREM SuccessInvariance == Spec => []SuccessInv
<1>1. Init => SuccessInv
  BY SuccessInit
<1>2. BooksInv /\ WalkInv /\ CycleInv /\ SuccessInv /\ [Next]_vars => SuccessInv'
  BY SuccessStep
<1>3. QED
  BY <1>1, <1>2, BooksInvariance, WalkInvariance, CycleInvariance, PTL DEF Spec

(* When scons returns 0 to blade, with no signal and no error of           *)
(* cleanup(), every target that blade has asked for, and all that it is    *)
(* known to be built from, is up to date or has been executed by this      *)
(* build.                                                                  *)
THEOREM SuccessIsComplete == Spec => []SuccessMeansBuilt
<1>1. BooksInv /\ WalkInv /\ CycleInv /\ SuccessInv => SuccessMeansBuilt
  BY SuccessAtTheEnd
<1>2. QED
  BY <1>1, BooksInvariance, WalkInvariance, CycleInvariance, SuccessInvariance,
     PTL

=============================================================================
