-------------------------- MODULE ThreadPoolProofs --------------------------
(***************************************************************************)
(* Proofs about ThreadPool, for every number of workers, every queue and   *)
(* everything that the owner and the closures may do with them.            *)
(***************************************************************************)
EXTENDS ThreadPool, FiniteSetTheorems, FunctionTheorems, TLAPS

(* Where an item is in a sequence.                                         *)
PlacesIn(s, item) == {i \in DOMAIN s : s[i] = item}

(* A sequence has finitely many places.                                    *)
LEMMA PlacesFinite ==
    ASSUME NEW S, NEW s \in Seq(S), NEW e
    PROVE  IsFiniteSet(PlacesIn(s, e)) /\ Cardinality(PlacesIn(s, e)) \in Nat
<1>1. Len(s) \in Nat /\ DOMAIN s = 1 .. Len(s)
  OBVIOUS
<1>2. IsFiniteSet(1 .. Len(s))
  BY <1>1, FS_Interval
<1>3. PlacesIn(s, e) \in SUBSET (1 .. Len(s))
  BY <1>1 DEF PlacesIn
<1>4. IsFiniteSet(PlacesIn(s, e))
  BY <1>2, <1>3, FS_Subset
<1>5. QED
  BY <1>4, FS_CardinalityType

(* q_.push: the new item has one place more, the others have their places. *)
LEMMA PlacesAfterAppend ==
    ASSUME NEW S, NEW s \in Seq(S), NEW x \in S, NEW e
    PROVE  Cardinality(PlacesIn(Append(s, x), e)) =
               Cardinality(PlacesIn(s, e)) + (IF x = e THEN 1 ELSE 0)
<1>1. /\ Len(s) \in Nat /\ DOMAIN s = 1 .. Len(s)
      /\ DOMAIN Append(s, x) = 1 .. (Len(s) + 1)
      /\ Append(s, x)[Len(s) + 1] = x
      /\ \A i \in 1 .. Len(s) : Append(s, x)[i] = s[i]
  OBVIOUS
<1>2. Len(s) + 1 \notin PlacesIn(s, e)
  BY <1>1 DEF PlacesIn
<1>3. CASE x = e
  <2>1. PlacesIn(Append(s, x), e) = PlacesIn(s, e) \cup {Len(s) + 1}
    BY <1>1, <1>3 DEF PlacesIn
  <2>2. QED
    BY <2>1, <1>2, <1>3, PlacesFinite, FS_AddElement
<1>4. CASE x # e
  <2>1. PlacesIn(Append(s, x), e) = PlacesIn(s, e)
    BY <1>1, <1>4 DEF PlacesIn
  <2>2. QED
    BY <2>1, <1>4, PlacesFinite
<1>5. QED
  BY <1>3, <1>4

(* q_.pop: every item moves up by one place, and the first one is gone.    *)
LEMMA PlacesAfterTail ==
    ASSUME NEW S, NEW s \in Seq(S), s # <<>>, NEW e
    PROVE  Cardinality(PlacesIn(s, e)) =
               Cardinality(PlacesIn(Tail(s), e)) + (IF Head(s) = e THEN 1 ELSE 0)
<1> DEFINE P == PlacesIn(s, e)
           Q == PlacesIn(Tail(s), e)
           f == [i \in Q |-> i + 1]
<1>1. /\ Len(s) \in Nat /\ Len(s) > 0 /\ DOMAIN s = 1 .. Len(s)
      /\ Tail(s) \in Seq(S) /\ DOMAIN Tail(s) = 1 .. (Len(s) - 1)
      /\ \A i \in 1 .. (Len(s) - 1) : Tail(s)[i] = s[i + 1]
      /\ Head(s) = s[1]
  OBVIOUS
<1>2. IsFiniteSet(P) /\ IsFiniteSet(Q) /\ Cardinality(P) \in Nat /\ Cardinality(Q) \in Nat
  BY <1>1, PlacesFinite
<1>3. f \in Bijection(Q, P \ {1})
  <2>1. \A i \in Q : i \in Nat /\ i + 1 \in P \ {1}
    BY <1>1 DEF PlacesIn
  <2>2. \A j \in P \ {1} : j - 1 \in Q /\ (j - 1) + 1 = j
    <3>1. SUFFICES ASSUME NEW j \in P, j # 1 PROVE j - 1 \in Q /\ (j - 1) + 1 = j
      OBVIOUS
    <3>2. j \in 1 .. Len(s) /\ s[j] = e
      BY <1>1 DEF PlacesIn
    <3>3. j - 1 \in 1 .. (Len(s) - 1) /\ (j - 1) + 1 = j
      BY <3>1, <3>2, <1>1
    <3>4. QED
      BY <3>2, <3>3, <1>1 DEF PlacesIn
  <2>3. f \in [Q -> P \ {1}]
    BY <2>1
  <2>4. \A i, j \in Q : f[i] = f[j] => i = j
    BY <2>1
  <2>5. \A j \in P \ {1} : \E i \in Q : f[i] = j
    BY <2>2
  <2>6. QED
    BY <2>3, <2>4, <2>5, Fun_IsBij
<1>4. Cardinality(P \ {1}) = Cardinality(Q)
  BY <1>2, <1>3, FS_Bijection DEF ExistsBijection
<1>5. Cardinality(P \ {1}) = IF 1 \in P THEN Cardinality(P) - 1 ELSE Cardinality(P)
  BY <1>2, FS_RemoveElement
<1>6. 1 \in P <=> Head(s) = e
  BY <1>1 DEF PlacesIn
<1>7. QED
  BY <1>2, <1>4, <1>5, <1>6

(* The plan of the owner and the closures.                                 *)
LEMMA PlanType ==
    ASSUME TypeOK
    PROVE  /\ plan.added \in Seq(Closure)
           /\ plan.does \in [Closure -> {"push", "pop", "count", "add", "nothing"}]
           /\ plan.adds \in [Closure -> Closure]
           /\ plan.kind \in {"unbounded", "fixed"}
           /\ plan.max_size \in Nat \ {0}
  BY PoolAssumption DEF TypeOK

(* The sets whose sizes Conserved and NullsCounted compare are finite.     *)
LEMMA FiniteParts ==
    ASSUME TypeOK
    PROVE  /\ \A c : IsFiniteSet(Places(c)) /\ Cardinality(Places(c)) \in Nat
           /\ \A c : IsFiniteSet(HeldBy(c)) /\ Cardinality(HeldBy(c)) \in Nat
           /\ \A c : IsFiniteSet(AddedByOwner(c)) /\ Cardinality(AddedByOwner(c)) \in Nat
           /\ IsFiniteSet(Left) /\ Cardinality(Left) \in Nat
           /\ Cardinality(Worker) \in Nat \ {0}
<1>1. \A c : IsFiniteSet(Places(c)) /\ Cardinality(Places(c)) \in Nat
  <2>1. TAKE c
  <2>2. Places(c) = PlacesIn(q_, c) /\ q_ \in Seq(Closure \cup {NULL})
    BY DEF Places, PlacesIn, TypeOK
  <2>3. QED
    BY <2>2, PlacesFinite
<1>2. \A c : IsFiniteSet(HeldBy(c))
  <2>1. \A c : HeldBy(c) \in SUBSET Worker
    BY DEF HeldBy
  <2>2. QED
    BY <2>1, PoolAssumption, FS_Subset
<1>3. \A c : IsFiniteSet(AddedByOwner(c))
  <2>1. TAKE c
  <2>2. IsFiniteSet(PlacesIn(plan.added, c))
    BY PlanType, PlacesFinite
  <2>3. AddedByOwner(c) \in SUBSET PlacesIn(plan.added, c)
    BY DEF AddedByOwner, PlacesIn
  <2>4. QED
    BY <2>2, <2>3, FS_Subset
<1>4. IsFiniteSet(Left)
  BY PoolAssumption, FS_Subset DEF Left
<1>5. Cardinality(Worker) \in Nat \ {0}
  BY PoolAssumption, FS_CardinalityType, FS_EmptySet
<1>6. QED
  BY <1>1, <1>2, <1>3, <1>4, <1>5, FS_CardinalityType

(* A new pool has nothing in its queue and nothing added.                  *)
LEMMA InitEstablishes == Init => PoolInv
<1> SUFFICES ASSUME Init PROVE PoolInv
  OBVIOUS
<1> USE DEF Init
<1>1. TypeOK
  <2>1. Cardinality({c \in Closure : plan.does[c] = "count"}) \in Nat
    BY PoolAssumption, FS_Subset, FS_CardinalityType
  <2>2. <<>> \in Seq(Closure \cup {NULL})
    OBVIOUS
  <2>3. QED
    BY <2>1, <2>2 DEF TypeOK, Monitor
<1>2. InHand
  BY DEF InHand
<1>3. /\ \A c : Places(c) = {}
      /\ \A c \in Closure : HeldBy(c) = {} /\ AddedByOwner(c) = {}
      /\ Left = {}
  <2>1. \A i \in DOMAIN plan.added : i \in Nat /\ i > 0
    BY <1>1, PlanType
  <2>2. QED
    BY <2>1, PoolAssumption DEF Places, HeldBy, AddedByOwner, Left, NULL
<1>4. \A c \in Closure : AddedByClosures(c) = {}
  <2>1. TAKE c \in Closure
  <2>2. \A d \in Adders(c) : {d} \X (1 .. executed[d]) = {}
    BY DEF Adders
  <2>3. QED
    BY <2>2 DEF AddedByClosures
<1>5. FinitelyAdded
  BY <1>4, FS_EmptySet DEF FinitelyAdded
<1>6. Conserved
  <2>1. Cardinality({}) = 0
    BY FS_EmptySet
  <2>2. SUFFICES ASSUME NEW c \in Closure
                 PROVE  Cardinality(Places(c)) + Cardinality(HeldBy(c)) + executed[c] = Added(c)
    BY DEF Conserved
  <2>3. /\ Cardinality(Places(c)) = 0 /\ Cardinality(HeldBy(c)) = 0
        /\ Cardinality(AddedByOwner(c)) = 0 /\ Cardinality(AddedByClosures(c)) = 0
    BY <1>3, <1>4, <2>1, Zenon
  <2>4. executed[c] = 0
    OBVIOUS
  <2>5. QED
    BY <2>3, <2>4 DEF Added
<1>7. QueueInBounds
  BY <1>1, PlanType DEF QueueInBounds
<1>8. NullsCounted
  <2>1. Cardinality({}) = 0
    BY FS_EmptySet
  <2>2. 0 <= Len(plan.added)
    BY <1>1, PlanType
  <2>3. Cardinality(Places(NULL)) = 0 /\ Cardinality(Left) = 0
    BY <1>3, <2>1, Zenon
  <2>4. QED
    BY <2>2, <2>3 DEF NullsCounted, Ended
<1>9. NullsBehind
  BY DEF NullsBehind
<1>10. QED
  BY <1>1, <1>2, <1>5, <1>6, <1>7, <1>8, <1>9 DEF PoolInv

(* Signal and Wait move threads in and out of one set.                     *)
LEMMA WaitingType ==
    ASSUME TypeOK, NEW m \in Monitor, NEW t \in Worker \cup {Owner},
           Signal(m) \/ Unlock(m) \/ Wait(m, t)
    PROVE  waiting' \in [Monitor -> SUBSET (Worker \cup {Owner})]
  BY DEF TypeOK, Signal, Unlock, Wait

(* Every step keeps the types, and what a worker has in its hands.         *)
LEMMA NextTypeOK == PoolInv /\ [Next]_vars => TypeOK' /\ InHand'
<1> SUFFICES ASSUME PoolInv, [Next]_vars PROVE TypeOK' /\ InHand'
  OBVIOUS
<1> DEFINE WaitType == [Monitor -> SUBSET (Worker \cup {Owner})]
<1>0. TypeOK /\ InHand
  BY DEF PoolInv
<1>P. /\ plan.added \in Seq(Closure)
      /\ plan.adds \in [Closure -> Closure]
  BY <1>0, PlanType
<1>W. /\ waiting \in WaitType
      /\ \A m \in Monitor, t \in Worker \cup {Owner} :
            Signal(m) \/ Unlock(m) \/ Wait(m, t) => waiting' \in WaitType
  BY <1>0, WaitingType DEF TypeOK
<1>M. "pool" \in Monitor /\ "queue" \in Monitor /\ "counter" \in Monitor
  BY DEF Monitor
<1> HIDE DEF WaitType
<1>T. ASSUME plan' = plan, q_' \in Seq(Closure \cup {NULL}),
             signal_at_unlock_' \subseteq Monitor, queue_' \in Int, count_' \in Int,
             waiting' \in WaitType,
             at' \in [Worker -> {"new", "get", "run", "left"}],
             closure' \in [Worker -> Closure \cup {NULL}],
             owner' \in {"add", "wait", "delete", "join", "done", "abort"},
             next' \in Nat, executed' \in [Closure -> Nat], late' \subseteq Closure
      PROVE  TypeOK'
  BY <1>0, <1>T DEF TypeOK, WaitType
<1>1. ASSUME NEW w \in Worker, at[w] = "run", Return(w)
      PROVE  /\ at' \in [Worker -> {"new", "get", "run", "left"}]
             /\ closure' \in [Worker -> Closure \cup {NULL}]
             /\ executed' \in [Closure -> Nat]
             /\ closure[w] \in Closure
             /\ InHand'
  BY <1>0, <1>1 DEF Return, TypeOK, InHand
<1>2. ASSUME NEW w \in Worker, Work(w) PROVE TypeOK' /\ InHand'
  <2>1. CASE Get(w)
    <3>1. waiting' \in WaitType
      BY <2>1, <1>W, <1>M DEF Get
    <3>2. CASE q_ = <<>>
      BY <1>0, <1>M, <1>T, <2>1, <3>1, <3>2 DEF Get, TypeOK, InHand
    <3>3. CASE q_ # <<>>
      <4>1. Head(q_) \in Closure \cup {NULL} /\ Tail(q_) \in Seq(Closure \cup {NULL})
        BY <1>0, <3>3 DEF TypeOK
      <4>2. /\ q_' = Tail(q_)
            /\ closure' = [closure EXCEPT ![w] = Head(q_)]
            /\ at' = [at EXCEPT ![w] = IF Head(q_) = NULL THEN "left" ELSE "run"]
        BY <2>1, <3>3 DEF Get
      <4>3. /\ at' \in [Worker -> {"new", "get", "run", "left"}]
            /\ closure' \in [Worker -> Closure \cup {NULL}]
            /\ InHand'
        BY <1>0, <4>1, <4>2 DEF TypeOK, InHand
      <4>4. TypeOK'
        BY <1>0, <1>M, <1>T, <2>1, <3>1, <4>1, <4>2, <4>3 DEF Get, TypeOK
      <4>5. QED
        BY <4>3, <4>4
    <3>4. QED
      BY <3>2, <3>3
  <2>2. CASE ExecuteNothing(w)
    BY <1>0, <1>1, <1>T, <1>W, <2>2 DEF ExecuteNothing, Runs, TypeOK
  <2>3. CASE ExecuteAdd(w)
    <3>1. closure[w] \in Closure
      BY <1>0, <1>1, <2>3 DEF ExecuteAdd, Runs
    <3>2. q_' \in Seq(Closure \cup {NULL}) /\ late' \subseteq Closure
      BY <1>0, <1>P, <3>1, <2>3 DEF ExecuteAdd, TypeOK
    <3>3. waiting' \in WaitType
      BY <2>3, <1>W, <1>M DEF ExecuteAdd
    <3>4. QED
      BY <1>0, <1>1, <1>T, <2>3, <3>2, <3>3 DEF ExecuteAdd, Runs, TypeOK
  <2>4. CASE ExecuteCount(w)
    <3>1. waiting' \in WaitType
      BY <2>4, <1>W, <1>M DEF ExecuteCount
    <3>2. QED
      BY <1>0, <1>1, <1>T, <2>4, <3>1 DEF ExecuteCount, Runs, TypeOK
  <2>5. CASE PushUnbounded(w)
    <3>1. waiting' \in WaitType
      BY <2>5, <1>W, <1>M DEF PushUnbounded
    <3>2. QED
      BY <1>0, <1>1, <1>T, <2>5, <3>1 DEF PushUnbounded, Runs, TypeOK
  <2>6. CASE PopUnbounded(w)
    <3>1. waiting' \in WaitType
      BY <2>6, <1>W, <1>M DEF PopUnbounded
    <3>2. QED
      BY <1>0, <1>1, <1>T, <2>6, <3>1 DEF PopUnbounded, Runs, TypeOK, InHand
  <2>7. CASE PushFixed(w)
    <3>1. waiting' \in WaitType
      BY <2>7, <1>W, <1>M DEF PushFixed
    <3>2. QED
      BY <1>0, <1>1, <1>T, <2>7, <3>1 DEF PushFixed, Runs, TypeOK, InHand
  <2>8. CASE PopFixed(w)
    <3>1. waiting' \in WaitType
      BY <2>8, <1>W, <1>M DEF PopFixed
    <3>2. QED
      BY <1>0, <1>1, <1>T, <2>8, <3>1 DEF PopFixed, Runs, TypeOK, InHand
  <2>9. QED
    BY <1>2, <2>1, <2>2, <2>3, <2>4, <2>5, <2>6, <2>7, <2>8 DEF Work
<1>3. CASE StartWorkers
  <2>1. \A w \in Worker : closure[w] = NULL
    BY <1>0, <1>3 DEF StartWorkers, InHand
  <2>2. QED
    BY <1>0, <1>3, <2>1 DEF StartWorkers, TypeOK, InHand
<1>4. CASE Add
  <2>1. q_' \in Seq(Closure \cup {NULL}) /\ next' \in Nat /\ waiting' \in WaitType
    <3>1. CASE next < Len(plan.added)
      <4>1. plan.added[next + 1] \in Closure
        BY <1>0, <1>P, <3>1 DEF TypeOK
      <4>2. q_' = Append(q_, plan.added[next + 1]) /\ Unlock("pool") /\ next' = next + 1
        BY <1>4, <3>1 DEF Add, Put
      <4>3. q_' \in Seq(Closure \cup {NULL}) /\ next' \in Nat
        BY <1>0, <4>1, <4>2 DEF TypeOK
      <4>4. QED
        BY <1>M, <1>W, <4>2, <4>3
    <3>2. CASE ~(next < Len(plan.added))
      BY <1>0, <1>4, <1>W, <3>2 DEF Add, TypeOK
    <3>3. QED
      BY <3>1, <3>2
  <2>2. QED
    BY <1>0, <1>4, <1>T, <2>1 DEF Add, TypeOK, InHand
<1>5. CASE WaitForCounter
  <2>1. waiting' \in WaitType
    BY <1>5, <1>W, <1>M DEF WaitForCounter
  <2>2. QED
    BY <1>0, <1>M, <1>T, <1>5, <2>1 DEF WaitForCounter, TypeOK, InHand
<1>6. CASE AddNull
  <2>1. q_' \in Seq(Closure \cup {NULL}) /\ next' \in Nat /\ waiting' \in WaitType
    <3>1. CASE next < Cardinality(Worker)
      <4>1. q_' = Append(q_, NULL) /\ Unlock("pool") /\ next' = next + 1
        BY <1>6, <3>1 DEF AddNull, Put
      <4>2. q_' \in Seq(Closure \cup {NULL}) /\ next' \in Nat
        BY <1>0, <4>1 DEF TypeOK
      <4>3. QED
        BY <1>M, <1>W, <4>1, <4>2
    <3>2. CASE ~(next < Cardinality(Worker))
      BY <1>0, <1>6, <1>W, <3>2 DEF AddNull, TypeOK
    <3>3. QED
      BY <3>1, <3>2
  <2>2. QED
    BY <1>0, <1>6, <1>T, <2>1 DEF AddNull, TypeOK, InHand
<1>7. CASE Join
  BY <1>0, <1>7 DEF Join, TypeOK, InHand
<1>8. ASSUME NEW m \in Monitor, NEW t \in Worker \cup {Owner}, SpuriousWakeup(m, t)
      PROVE  TypeOK' /\ InHand'
  BY <1>0, <1>8 DEF SpuriousWakeup, TypeOK, InHand
<1>9. CASE UNCHANGED vars
  BY <1>0, <1>9 DEF vars, TypeOK, InHand
<1>10. QED
  BY <1>2, <1>3, <1>4, <1>5, <1>6, <1>7, <1>8, <1>9 DEF Next, Own

(* The executions that have added a closure, as a function of how often    *)
(* each closure has been executed.                                         *)
AddersIn(p, c) == {d \in Closure : p.does[d] = "add" /\ p.adds[d] = c}
AddedIn(p, ex, c) == UNION {{d} \X (1 .. ex[d]) : d \in AddersIn(p, c)}

(* What a closure that was executed has added.                             *)
LEMMA AddedInElements ==
    ASSUME NEW p, NEW ex, NEW c, NEW x
    PROVE  x \in AddedIn(p, ex, c) <=>
               \E d \in AddersIn(p, c) : \E k \in 1 .. ex[d] : x = <<d, k>>
  BY DEF AddedIn

(* One closure has been executed once more.                                *)
OneMore(ex, ex2, d) ==
    /\ ex \in [Closure -> Nat] /\ d \in Closure
    /\ ex2 = [ex EXCEPT ![d] = @ + 1]

(* One more execution of a closure is one more addition, of what it adds.  *)
LEMMA AddedAfterExecute ==
    ASSUME NEW p, NEW ex, NEW ex2, NEW d, NEW c, OneMore(ex, ex2, d)
    PROVE  /\ d \in AddersIn(p, c) =>
                 /\ AddedIn(p, ex2, c) = AddedIn(p, ex, c) \cup {<<d, ex[d] + 1>>}
                 /\ <<d, ex[d] + 1>> \notin AddedIn(p, ex, c)
           /\ d \notin AddersIn(p, c) => AddedIn(p, ex2, c) = AddedIn(p, ex, c)
<1>1. /\ ex[d] \in Nat /\ ex2[d] = ex[d] + 1
      /\ 1 .. ex2[d] = (1 .. ex[d]) \cup {ex[d] + 1}
      /\ ex[d] + 1 \notin 1 .. ex[d]
      /\ \A b \in Closure : b # d => ex2[b] = ex[b]
  BY DEF OneMore
<1>2. AddersIn(p, c) \subseteq Closure
  BY DEF AddersIn
<1>3. d \notin AddersIn(p, c) => AddedIn(p, ex2, c) = AddedIn(p, ex, c)
  <2>1. SUFFICES ASSUME d \notin AddersIn(p, c), NEW x
                 PROVE  x \in AddedIn(p, ex2, c) <=> x \in AddedIn(p, ex, c)
    OBVIOUS
  <2>2. \A b \in AddersIn(p, c) : ex2[b] = ex[b]
    BY <1>1, <1>2, <2>1
  <2>3. QED
    BY <2>2, AddedInElements
<1>4. ASSUME d \in AddersIn(p, c)
      PROVE  AddedIn(p, ex2, c) = AddedIn(p, ex, c) \cup {<<d, ex[d] + 1>>}
  <2>1. SUFFICES ASSUME NEW x
                 PROVE  x \in AddedIn(p, ex2, c) <=>
                            x \in AddedIn(p, ex, c) \/ x = <<d, ex[d] + 1>>
    OBVIOUS
  <2>2. \A b \in AddersIn(p, c) : b # d => ex2[b] = ex[b]
    BY <1>1, <1>2
  <2>3. QED
    BY <1>1, <1>4, <2>2, AddedInElements
<1>5. <<d, ex[d] + 1>> \notin AddedIn(p, ex, c)
  BY <1>1, AddedInElements
<1>6. QED
  BY <1>3, <1>4, <1>5

(* A worker takes an item into its empty hands.                            *)
LEMMA HeldAfterGet ==
    ASSUME TypeOK, NEW w \in Worker, closure[w] = NULL,
           NEW x, closure' = [closure EXCEPT ![w] = x], NEW c \in Closure
    PROVE  Cardinality(HeldBy(c)') = Cardinality(HeldBy(c)) + (IF x = c THEN 1 ELSE 0)
<1>1. IsFiniteSet(HeldBy(c)) /\ Cardinality(HeldBy(c)) \in Nat
  BY FiniteParts
<1>2. w \notin HeldBy(c)
  BY PoolAssumption DEF HeldBy
<1>3. CASE x = c
  <2>1. HeldBy(c)' = HeldBy(c) \cup {w}
    BY <1>3 DEF HeldBy, TypeOK
  <2>2. QED
    BY <2>1, <1>1, <1>2, <1>3, FS_AddElement
<1>4. CASE x # c
  <2>1. HeldBy(c)' = HeldBy(c)
    BY <1>2, <1>4 DEF HeldBy, TypeOK
  <2>2. QED
    BY <2>1, <1>1, <1>4
<1>5. QED
  BY <1>3, <1>4

(* When Execute returns the closure has left the hands of its worker and   *)
(* is executed.                                                            *)
LEMMA HeldAfterReturn ==
    ASSUME TypeOK, NEW w \in Worker, closure[w] \in Closure, Return(w), NEW c \in Closure
    PROVE  Cardinality(HeldBy(c)') + executed'[c] = Cardinality(HeldBy(c)) + executed[c]
<1>1. IsFiniteSet(HeldBy(c)) /\ Cardinality(HeldBy(c)) \in Nat /\ executed[c] \in Nat
  BY FiniteParts DEF TypeOK
<1>2. CASE c = closure[w]
  <2>1. HeldBy(c)' = HeldBy(c) \ {w} /\ w \in HeldBy(c)
    BY <1>2, PoolAssumption DEF HeldBy, TypeOK, Return
  <2>2. Cardinality(HeldBy(c)') = Cardinality(HeldBy(c)) - 1
    BY <2>1, <1>1, FS_RemoveElement
  <2>3. executed'[c] = executed[c] + 1
    BY <1>2 DEF Return, TypeOK
  <2>4. QED
    BY <2>2, <2>3, <1>1
<1>3. CASE c # closure[w]
  <2>1. HeldBy(c)' = HeldBy(c)
    BY <1>3, PoolAssumption DEF HeldBy, TypeOK, Return
  <2>2. executed'[c] = executed[c]
    BY <1>3 DEF Return, TypeOK
  <2>3. QED
    BY <2>1, <2>2
<1>4. QED
  BY <1>2, <1>3

(* Put and Get, in terms of the places in q_.                              *)
LEMMA PlacesAfterPut ==
    ASSUME TypeOK, NEW x \in Closure \cup {NULL}, q_' = Append(q_, x), NEW c
    PROVE  Cardinality(Places(c)') = Cardinality(Places(c)) + (IF x = c THEN 1 ELSE 0)
<1>1. q_ \in Seq(Closure \cup {NULL})
  BY DEF TypeOK
<1>2. Cardinality(PlacesIn(Append(q_, x), c)) =
          Cardinality(PlacesIn(q_, c)) + (IF x = c THEN 1 ELSE 0)
  BY <1>1, PlacesAfterAppend
<1>3. Places(c) = PlacesIn(q_, c) /\ Places(c)' = PlacesIn(Append(q_, x), c)
  BY DEF Places, PlacesIn
<1>4. QED
  BY <1>2, <1>3, Zenon

(* Taking the head takes one place away.                                   *)
LEMMA PlacesAfterGet ==
    ASSUME TypeOK, q_ # <<>>, q_' = Tail(q_), NEW c
    PROVE  /\ Cardinality(Places(c)) = Cardinality(Places(c)') + (IF Head(q_) = c THEN 1 ELSE 0)
           /\ Cardinality(Places(c)') \in Nat
<1>1. q_ \in Seq(Closure \cup {NULL})
  BY DEF TypeOK
<1>2. Cardinality(PlacesIn(q_, c)) =
          Cardinality(PlacesIn(Tail(q_), c)) + (IF Head(q_) = c THEN 1 ELSE 0)
  BY <1>1, PlacesAfterTail
<1>3. Cardinality(PlacesIn(Tail(q_), c)) \in Nat
  <2>1. Tail(q_) \in Seq(Closure \cup {NULL})
    BY <1>1
  <2>2. QED
    BY <2>1, PlacesFinite
<1>4. Places(c) = PlacesIn(q_, c) /\ Places(c)' = PlacesIn(Tail(q_), c)
  BY DEF Places, PlacesIn
<1>5. QED
  BY <1>2, <1>3, <1>4, Zenon

(* The sizes that Conserved adds up, before and after a step.              *)
LEMMA Counts ==
    ASSUME PoolInv, TypeOK', plan' = plan, NEW c \in Closure
    PROVE  /\ AddedByClosures(c) = AddedIn(plan, executed, c)
           /\ AddedByClosures(c)' = AddedIn(plan, executed', c)
           /\ IsFiniteSet(AddedByClosures(c))
           /\ Cardinality(AddedByClosures(c)) \in Nat
           /\ Cardinality(AddedByOwner(c)) \in Nat
           /\ Cardinality(Places(c)) \in Nat
           /\ Cardinality(HeldBy(c)) \in Nat /\ executed[c] \in Nat
           /\ Cardinality(Places(c)) + Cardinality(HeldBy(c)) + executed[c] =
                 Cardinality(AddedByOwner(c)) + Cardinality(AddedByClosures(c))
<1>1. /\ AddedByClosures(c) = AddedIn(plan, executed, c)
      /\ AddedByClosures(c)' = AddedIn(plan, executed', c)
  BY DEF AddedByClosures, AddedIn, Adders, AddersIn
<1>2. IsFiniteSet(AddedByClosures(c))
  BY DEF PoolInv, FinitelyAdded
<1>3. Cardinality(AddedByClosures(c)) \in Nat
  BY <1>2, FS_CardinalityType
<1>4. TypeOK
  BY DEF PoolInv
<1>5. /\ Cardinality(AddedByOwner(c)) \in Nat /\ Cardinality(Places(c)) \in Nat
      /\ Cardinality(HeldBy(c)) \in Nat
  BY <1>4, FiniteParts
<1>6. executed[c] \in Nat
  BY <1>4 DEF TypeOK
<1>7. QED
  BY <1>1, <1>2, <1>3, <1>5, <1>6 DEF PoolInv, Conserved, Added

(* A step that leaves the closures where they are.                         *)
LEMMA ConservedIdle ==
    ASSUME PoolInv, TypeOK', UNCHANGED <<plan, q_, closure, executed>>,
           \A c \in Closure : AddedByOwner(c)' = AddedByOwner(c)
    PROVE  Conserved' /\ FinitelyAdded'
<1>1. \A c \in Closure : /\ Places(c)' = Places(c) /\ HeldBy(c)' = HeldBy(c)
                         /\ AddedByClosures(c)' = AddedByClosures(c)
  BY DEF Places, HeldBy, AddedByClosures, Adders
<1>2. QED
  BY <1>1 DEF PoolInv, Conserved, FinitelyAdded, Added

(* What the owner has added changes only while it adds.                    *)
LEMMA OwnerDone ==
    ASSUME plan' = plan, (owner = "add" <=> owner' = "add"),
           owner = "add" => next' = next, NEW c
    PROVE  AddedByOwner(c)' = AddedByOwner(c)
  BY DEF AddedByOwner

(* Put(closure) by the owner.                                              *)
LEMMA ConservedPut ==
    ASSUME PoolInv, TypeOK', Add, next < Len(plan.added)
    PROVE  Conserved' /\ FinitelyAdded'
<1> DEFINE x == plan.added[next + 1]
<1>1. /\ q_' = Append(q_, x) /\ next' = next + 1 /\ owner = "add" /\ owner' = "add"
      /\ UNCHANGED <<plan, closure, executed>>
  BY DEF Add, Put
<1>2. TypeOK /\ q_ \in Seq(Closure \cup {NULL}) /\ next \in Nat
  BY DEF PoolInv, TypeOK
<1>3. plan.added \in Seq(Closure) /\ x \in Closure /\ next + 1 \in DOMAIN plan.added
  BY <1>2, PlanType
<1>4. ASSUME NEW c \in Closure
      PROVE  /\ Cardinality(Places(c)') + Cardinality(HeldBy(c)') + executed'[c] =
                   Cardinality(AddedByOwner(c)') + Cardinality(AddedByClosures(c)')
             /\ IsFiniteSet(AddedByClosures(c)')
  <2>1. HeldBy(c)' = HeldBy(c) /\ AddedByClosures(c)' = AddedByClosures(c)
    BY <1>1 DEF HeldBy, AddedByClosures, Adders
  <2>2. Cardinality(Places(c)') = Cardinality(Places(c)) + (IF x = c THEN 1 ELSE 0)
    BY <1>1, <1>2, <1>3, PlacesAfterPut
  <2>3. Cardinality(AddedByOwner(c)') = Cardinality(AddedByOwner(c)) + (IF x = c THEN 1 ELSE 0)
    <3>1. IsFiniteSet(AddedByOwner(c)) /\ Cardinality(AddedByOwner(c)) \in Nat
      BY <1>2, FiniteParts
    <3>2. \A i \in DOMAIN plan.added : i \in Nat
      BY <1>3
    <3>3. next + 1 \notin AddedByOwner(c)
      BY <1>1, <1>2 DEF AddedByOwner
    <3>4. CASE x = c
      <4>1. AddedByOwner(c)' = AddedByOwner(c) \cup {next + 1}
        BY <1>1, <1>2, <1>3, <3>2, <3>4 DEF AddedByOwner
      <4>2. QED
        BY <4>1, <3>1, <3>3, <3>4, FS_AddElement
    <3>5. CASE x # c
      <4>1. AddedByOwner(c)' = AddedByOwner(c)
        BY <1>1, <1>2, <1>3, <3>2, <3>5 DEF AddedByOwner
      <4>2. QED
        BY <4>1, <3>1, <3>5
    <3>6. QED
      BY <3>4, <3>5
  <2>4. QED
    BY <1>1, <2>1, <2>2, <2>3, Counts
<1>5. QED
  BY <1>4 DEF Conserved, FinitelyAdded, Added

(* Put(NULL) by the destructor.                                            *)
LEMMA ConservedPutNull ==
    ASSUME PoolInv, TypeOK', AddNull, next < Cardinality(Worker)
    PROVE  Conserved' /\ FinitelyAdded'
<1>1. /\ q_' = Append(q_, NULL) /\ owner # "add" /\ owner' # "add"
      /\ UNCHANGED <<plan, closure, executed>>
  BY DEF AddNull, Put
<1>2. q_ \in Seq(Closure \cup {NULL})
  BY DEF PoolInv, TypeOK
<1>3. ASSUME NEW c \in Closure
      PROVE  /\ Cardinality(Places(c)') + Cardinality(HeldBy(c)') + executed'[c] =
                   Cardinality(AddedByOwner(c)') + Cardinality(AddedByClosures(c)')
             /\ IsFiniteSet(AddedByClosures(c)')
  <2>1. HeldBy(c)' = HeldBy(c) /\ AddedByClosures(c)' = AddedByClosures(c)
    BY <1>1 DEF HeldBy, AddedByClosures, Adders
  <2>2. AddedByOwner(c)' = AddedByOwner(c)
    BY <1>1, OwnerDone
  <2>3. NULL # c
    BY PoolAssumption
  <2>4. Cardinality(Places(c)') = Cardinality(Places(c))
    <3>1. TypeOK /\ NULL \in Closure \cup {NULL}
      BY DEF PoolInv
    <3>2. Cardinality(Places(c)') = Cardinality(Places(c)) + (IF NULL = c THEN 1 ELSE 0)
      BY <1>1, <3>1, PlacesAfterPut
    <3>3. Cardinality(Places(c)) \in Nat
      BY <3>1, FiniteParts
    <3>4. QED
      BY <2>3, <3>2, <3>3
  <2>5. QED
    BY <1>1, <2>1, <2>2, <2>4, Counts
<1>4. QED
  BY <1>3 DEF Conserved, FinitelyAdded, Added

(* Get: from the queue into the hands of a worker.                         *)
LEMMA ConservedGet ==
    ASSUME PoolInv, TypeOK', NEW w \in Worker, Get(w), q_ # <<>>
    PROVE  Conserved' /\ FinitelyAdded'
<1>1. /\ q_' = Tail(q_) /\ closure' = [closure EXCEPT ![w] = Head(q_)]
      /\ UNCHANGED <<plan, executed, owner, next>>
  BY DEF Get
<1>2. TypeOK /\ q_ \in Seq(Closure \cup {NULL}) /\ closure[w] = NULL
  BY DEF PoolInv, TypeOK, InHand, Get
<1>3. ASSUME NEW c \in Closure
      PROVE  /\ Cardinality(Places(c)') + Cardinality(HeldBy(c)') + executed'[c] =
                   Cardinality(AddedByOwner(c)') + Cardinality(AddedByClosures(c)')
             /\ IsFiniteSet(AddedByClosures(c)')
  <2>1. AddedByOwner(c)' = AddedByOwner(c) /\ AddedByClosures(c)' = AddedByClosures(c)
    BY <1>1 DEF AddedByOwner, AddedByClosures, Adders
  <2>2. Cardinality(HeldBy(c)') = Cardinality(HeldBy(c)) + (IF Head(q_) = c THEN 1 ELSE 0)
    BY <1>1, <1>2, HeldAfterGet
  <2>3. /\ Cardinality(Places(c)) = Cardinality(Places(c)') + (IF Head(q_) = c THEN 1 ELSE 0)
        /\ Cardinality(Places(c)') \in Nat
    BY <1>1, <1>2, PlacesAfterGet
  <2>4. QED
    BY <1>1, <2>1, <2>2, <2>3, Counts
<1>4. QED
  BY <1>3 DEF Conserved, FinitelyAdded, Added

(* Execute returns: one more addition if the closure has added another.    *)
LEMMA AddedAfterReturn ==
    ASSUME PoolInv, TypeOK', plan' = plan, NEW w \in Worker,
           closure[w] \in Closure, Return(w), NEW c \in Closure
    PROVE  /\ IsFiniteSet(AddedByClosures(c)')
           /\ Cardinality(AddedByClosures(c)') =
                 Cardinality(AddedByClosures(c)) +
                     (IF closure[w] \in AddersIn(plan, c) THEN 1 ELSE 0)
<1> DEFINE d == closure[w]
           A == AddedIn(plan, executed, c)
           B == AddedIn(plan, executed', c)
           x == <<d, executed[d] + 1>>
<1>1. executed \in [Closure -> Nat] /\ executed' = [executed EXCEPT ![d] = @ + 1]
  BY DEF PoolInv, TypeOK, Return
<1>2. /\ d \in AddersIn(plan, c) => B = A \cup {x} /\ x \notin A
      /\ d \notin AddersIn(plan, c) => B = A
  <2>1. OneMore(executed, executed', d)
    BY <1>1 DEF OneMore
  <2> HIDE DEF d
  <2>2. QED
    BY <2>1, AddedAfterExecute
<1>3. AddedByClosures(c) = A /\ AddedByClosures(c)' = B
  BY Counts
<1>4. IsFiniteSet(A) /\ Cardinality(A) \in Nat
  BY <1>3, Counts
<1> HIDE DEF A, B, x
<1>5. /\ IsFiniteSet(B)
      /\ Cardinality(B) = Cardinality(A) + (IF d \in AddersIn(plan, c) THEN 1 ELSE 0)
  <2>1. CASE d \in AddersIn(plan, c)
    BY <2>1, <1>2, <1>4, FS_AddElement
  <2>2. CASE d \notin AddersIn(plan, c)
    BY <2>2, <1>2, <1>4
  <2>3. QED
    BY <2>1, <2>2
<1>6. QED
  BY <1>3, <1>5, Zenon

(* The return of a closure that adds none.                                 *)
LEMMA ConservedReturn ==
    ASSUME PoolInv, TypeOK', NEW w \in Worker, at[w] = "run", Return(w),
           plan.does[closure[w]] # "add", UNCHANGED <<plan, q_, owner, next>>
    PROVE  Conserved' /\ FinitelyAdded'
<1>1. TypeOK /\ closure[w] \in Closure /\ executed \in [Closure -> Nat]
  BY DEF PoolInv, TypeOK, InHand
<1>2. ASSUME NEW c \in Closure
      PROVE  /\ Cardinality(Places(c)') + Cardinality(HeldBy(c)') + executed'[c] =
                   Cardinality(AddedByOwner(c)') + Cardinality(AddedByClosures(c)')
             /\ IsFiniteSet(AddedByClosures(c)')
  <2>1. AddedByOwner(c)' = AddedByOwner(c) /\ Places(c)' = Places(c)
    BY DEF AddedByOwner, Places
  <2>2. /\ IsFiniteSet(AddedByClosures(c)')
        /\ Cardinality(AddedByClosures(c)') = Cardinality(AddedByClosures(c)) + 0
    <3>1. closure[w] \notin AddersIn(plan, c)
      BY DEF AddersIn
    <3>2. QED
      BY <1>1, <3>1, AddedAfterReturn
  <2>3. Cardinality(HeldBy(c)') + executed'[c] = Cardinality(HeldBy(c)) + executed[c]
    BY <1>1, HeldAfterReturn
  <2>4. Cardinality(HeldBy(c)') \in Nat /\ executed'[c] \in Nat
    <3>1. HeldBy(c)' \in SUBSET Worker
      BY DEF HeldBy
    <3>2. QED
      BY <3>1, PoolAssumption, FS_Subset, FS_CardinalityType DEF TypeOK
  <2>5. QED
    BY <2>1, <2>2, <2>3, <2>4, Counts
<1>3. QED
  BY <1>2 DEF Conserved, FinitelyAdded, Added

(* The return of a closure that has added another one.                     *)
LEMMA ConservedAdd ==
    ASSUME PoolInv, TypeOK', NEW w \in Worker, ExecuteAdd(w)
    PROVE  Conserved' /\ FinitelyAdded'
<1> DEFINE d == closure[w]
           x == plan.adds[closure[w]]
<1>1. /\ at[w] = "run" /\ plan.does[d] = "add" /\ Return(w)
      /\ q_' = Append(q_, x) /\ UNCHANGED <<plan, owner, next>>
  BY DEF ExecuteAdd, Runs
<1>2. /\ TypeOK /\ d \in Closure /\ executed \in [Closure -> Nat]
      /\ q_ \in Seq(Closure \cup {NULL})
  BY <1>1 DEF PoolInv, TypeOK, InHand
<1>3. x \in Closure
  BY <1>2, PlanType
<1>4. ASSUME NEW c \in Closure
      PROVE  /\ Cardinality(Places(c)') + Cardinality(HeldBy(c)') + executed'[c] =
                   Cardinality(AddedByOwner(c)') + Cardinality(AddedByClosures(c)')
             /\ IsFiniteSet(AddedByClosures(c)')
  <2>1. AddedByOwner(c)' = AddedByOwner(c)
    BY <1>1 DEF AddedByOwner
  <2>2. Cardinality(Places(c)') = Cardinality(Places(c)) + (IF x = c THEN 1 ELSE 0)
    BY <1>1, <1>2, <1>3, PlacesAfterPut
  <2>3. Cardinality(HeldBy(c)') + executed'[c] = Cardinality(HeldBy(c)) + executed[c]
    BY <1>1, <1>2, HeldAfterReturn
  <2>4. Cardinality(HeldBy(c)') \in Nat /\ executed'[c] \in Nat
    <3>1. HeldBy(c)' \in SUBSET Worker
      BY DEF HeldBy
    <3>2. QED
      BY <3>1, PoolAssumption, FS_Subset, FS_CardinalityType DEF TypeOK
  <2>5. /\ IsFiniteSet(AddedByClosures(c)')
        /\ Cardinality(AddedByClosures(c)') =
              Cardinality(AddedByClosures(c)) + (IF x = c THEN 1 ELSE 0)
    <3>1. d \in AddersIn(plan, c) <=> x = c
      BY <1>1, <1>2 DEF AddersIn
    <3>2. QED
      BY <1>1, <1>2, <3>1, AddedAfterReturn
  <2>6. /\ Cardinality(Places(c)) + Cardinality(HeldBy(c)) + executed[c] =
              Cardinality(AddedByOwner(c)) + Cardinality(AddedByClosures(c))
        /\ Cardinality(Places(c)) \in Nat /\ Cardinality(HeldBy(c)) \in Nat
        /\ Cardinality(AddedByOwner(c)) \in Nat
        /\ Cardinality(AddedByClosures(c)) \in Nat /\ executed[c] \in Nat
    BY <1>1, Counts
  <2> HIDE DEF x
  <2>7. QED
    BY <2>1, <2>2, <2>3, <2>4, <2>5, <2>6
<1>5. QED
  BY <1>4 DEF Conserved, FinitelyAdded, Added

(* No step loses or duplicates a closure.                                  *)
LEMMA NextConserved == PoolInv /\ [Next]_vars => Conserved' /\ FinitelyAdded'
<1> SUFFICES ASSUME PoolInv, [Next]_vars PROVE Conserved' /\ FinitelyAdded'
  OBVIOUS
<1>0. TypeOK /\ TypeOK'
  BY NextTypeOK DEF PoolInv
<1>1. ASSUME UNCHANGED <<plan, q_, closure, executed, owner, next>>
      PROVE  Conserved' /\ FinitelyAdded'
  BY <1>0, <1>1, ConservedIdle, OwnerDone
<1>2. ASSUME NEW w \in Worker, Work(w) PROVE Conserved' /\ FinitelyAdded'
  <2>1. CASE Get(w)
    <3>1. CASE q_ = <<>>
      BY <1>1, <2>1, <3>1 DEF Get
    <3>2. CASE q_ # <<>>
      BY <1>0, <2>1, <3>2, ConservedGet
    <3>3. QED
      BY <3>1, <3>2
  <2>2. CASE ExecuteAdd(w)
    BY <1>0, <2>2, ConservedAdd
  <2>3. CASE \/ ExecuteNothing(w) \/ ExecuteCount(w) \/ PushUnbounded(w)
             \/ PopUnbounded(w) \/ PushFixed(w) \/ PopFixed(w)
    <3>1. /\ at[w] = "run" /\ plan.does[closure[w]] # "add"
          /\ UNCHANGED <<plan, q_, owner, next>>
          /\ Return(w) \/ UNCHANGED <<closure, executed>>
      BY <2>3 DEF ExecuteNothing, ExecuteCount, PushUnbounded, PopUnbounded,
         PushFixed, PopFixed, Runs
    <3>2. QED
      BY <1>0, <1>1, <3>1, ConservedReturn
  <2>4. QED
    BY <1>2, <2>1, <2>2, <2>3 DEF Work
<1>3. CASE Add
  <2>1. CASE next < Len(plan.added)
    BY <1>0, <1>3, <2>1, ConservedPut
  <2>2. CASE ~(next < Len(plan.added))
    <3>1. /\ UNCHANGED <<plan, q_, closure, executed>>
          /\ owner = "add" /\ owner' # "add"
      BY <1>3, <2>2 DEF Add
    <3>2. next = Len(plan.added)
      BY <1>0, <2>2, <3>1, PlanType DEF PoolInv, NullsCounted, TypeOK
    <3>3. \A i \in DOMAIN plan.added : i <= next
      BY <1>0, <3>2, PlanType
    <3>4. \A c \in Closure : AddedByOwner(c)' = AddedByOwner(c)
      BY <3>1, <3>3 DEF AddedByOwner
    <3>5. QED
      BY <1>0, <3>1, <3>4, ConservedIdle
  <2>3. QED
    BY <2>1, <2>2
<1>4. CASE AddNull
  <2>1. CASE next < Cardinality(Worker)
    BY <1>0, <1>4, <2>1, ConservedPutNull
  <2>2. CASE ~(next < Cardinality(Worker))
    <3>1. /\ UNCHANGED <<plan, q_, closure, executed>>
          /\ owner # "add" /\ owner' # "add"
      BY <1>4, <2>2 DEF AddNull
    <3>2. QED
      BY <1>0, <3>1, ConservedIdle, OwnerDone
  <2>3. QED
    BY <2>1, <2>2
<1>5. CASE WaitForCounter \/ Join
  <2>1. /\ UNCHANGED <<plan, q_, closure, executed>>
        /\ owner # "add" /\ owner' # "add"
    BY <1>5 DEF WaitForCounter, Join
  <2>2. QED
    BY <1>0, <2>1, ConservedIdle, OwnerDone
<1>6. CASE StartWorkers
  BY <1>1, <1>6 DEF StartWorkers
<1>7. ASSUME NEW m \in Monitor, NEW t \in Worker \cup {Owner}, SpuriousWakeup(m, t)
      PROVE  Conserved' /\ FinitelyAdded'
  BY <1>1, <1>7 DEF SpuriousWakeup
<1>8. CASE UNCHANGED vars
  BY <1>1, <1>8 DEF vars
<1>9. QED
  BY <1>2, <1>3, <1>4, <1>5, <1>6, <1>7, <1>8 DEF Next, Own

(* A thread pushes only where it has just seen room, and pops only what it *)
(* has just seen, whoever woke it.                                         *)
LEMMA NextInBounds == PoolInv /\ [Next]_vars => QueueInBounds'
<1> SUFFICES ASSUME PoolInv, [Next]_vars PROVE QueueInBounds'
  OBVIOUS
<1>0. /\ TypeOK /\ QueueInBounds /\ queue_ \in Int /\ plan.max_size \in Nat
      /\ plan.kind \in {"unbounded", "fixed"}
  BY PlanType DEF PoolInv, TypeOK
<1>1. ASSUME UNCHANGED <<plan, queue_>> PROVE QueueInBounds'
  BY <1>0, <1>1 DEF QueueInBounds
<1>2. ASSUME NEW w \in Worker, Work(w) PROVE QueueInBounds'
  <2>1. CASE Get(w) \/ ExecuteNothing(w) \/ ExecuteAdd(w) \/ ExecuteCount(w)
    BY <1>1, <2>1 DEF Get, ExecuteNothing, ExecuteAdd, ExecuteCount
  <2>2. CASE PushUnbounded(w)
    BY <1>0, <2>2 DEF PushUnbounded, QueueInBounds
  <2>3. CASE PopUnbounded(w)
    BY <1>0, <2>3 DEF PopUnbounded, QueueInBounds
  <2>4. CASE PushFixed(w)
    BY <1>0, <2>4 DEF PushFixed, Full, QueueInBounds
  <2>5. CASE PopFixed(w)
    BY <1>0, <2>5 DEF PopFixed, QueueInBounds
  <2>6. QED
    BY <1>2, <2>1, <2>2, <2>3, <2>4, <2>5 DEF Work
<1>3. CASE Own
  BY <1>1, <1>3 DEF Own, StartWorkers, Add, WaitForCounter, AddNull, Join
<1>4. ASSUME NEW m \in Monitor, NEW t \in Worker \cup {Owner}, SpuriousWakeup(m, t)
      PROVE  QueueInBounds'
  BY <1>1, <1>4 DEF SpuriousWakeup
<1>5. QED
  BY <1>1, <1>2, <1>3, <1>4 DEF Next, vars

(* What the sizes in NullsCounted say.                                     *)
LEMMA NullFacts ==
    ASSUME PoolInv
    PROVE  /\ owner \in {"add", "wait"} \/ next = 0 => Places(NULL) = {} /\ Left = {}
           /\ owner = "join" => next > 0
           /\ Ended => \A w \in Worker : at[w] = "left"
<1>1. TypeOK /\ NullsCounted
  BY DEF PoolInv
<1>2. /\ IsFiniteSet(Places(NULL)) /\ Cardinality(Places(NULL)) \in Nat
      /\ IsFiniteSet(Left) /\ Cardinality(Left) \in Nat
      /\ Cardinality(Worker) \in Nat \ {0}
  BY <1>1, FiniteParts
<1>3. owner \in {"add", "wait"} \/ next = 0 =>
          Cardinality(Places(NULL)) = 0 /\ Cardinality(Left) = 0
  BY <1>1, <1>2 DEF NullsCounted
<1>4. owner \in {"add", "wait"} \/ next = 0 => Places(NULL) = {} /\ Left = {}
  BY <1>2, <1>3, FS_EmptySet
<1>5. owner = "join" => next > 0
  BY <1>1, <1>2 DEF NullsCounted
<1>6. Ended => \A w \in Worker : at[w] = "left"
  BY <1>1 DEF NullsCounted, Left
<1>7. QED
  BY <1>4, <1>5, <1>6

(* A worker that leaves has taken one NULL from the queue.                 *)
LEMMA NextNullsCounted == PoolInv /\ [Next]_vars => NullsCounted'
<1> SUFFICES ASSUME PoolInv, [Next]_vars PROVE NullsCounted'
  OBVIOUS
<1>0. /\ TypeOK /\ TypeOK' /\ NullsCounted
      /\ owner \in {"add", "wait", "delete", "join", "done", "abort"} /\ next \in Nat
  BY NextTypeOK DEF PoolInv, TypeOK
<1>F. /\ IsFiniteSet(Places(NULL)) /\ Cardinality(Places(NULL)) \in Nat
      /\ IsFiniteSet(Left) /\ Cardinality(Left) \in Nat
      /\ Cardinality(Worker) \in Nat \ {0}
      /\ Len(plan.added) \in Nat
  BY <1>0, FiniteParts, PlanType
<1>1. ASSUME UNCHANGED <<plan, q_, owner, next>>, Left' = Left
      PROVE  NullsCounted'
  BY <1>0, <1>1 DEF NullsCounted, Places, Ended
<1>2. ASSUME NEW w \in Worker, Work(w) PROVE NullsCounted'
  <2>0. ~Ended /\ UNCHANGED <<plan, owner, next>>
    <3>1. at[w] \in {"get", "run"}
      BY <1>2 DEF Work, Get, ExecuteNothing, ExecuteAdd, ExecuteCount,
         PushUnbounded, PopUnbounded, PushFixed, PopFixed, Runs
    <3>2. ~Ended
      BY <3>1, NullFacts
    <3>3. UNCHANGED <<plan, owner, next>>
      BY <1>2 DEF Work, Get, ExecuteNothing, ExecuteAdd, ExecuteCount,
         PushUnbounded, PopUnbounded, PushFixed, PopFixed
    <3>4. QED
      BY <3>2, <3>3
  <2>1. CASE Get(w)
    <3>1. CASE q_ = <<>>
      BY <1>1, <2>0, <2>1, <3>1 DEF Get, Left
    <3>2. CASE q_ # <<>>
      <4>1. /\ Cardinality(Places(NULL)) = Cardinality(Places(NULL)') +
                  (IF Head(q_) = NULL THEN 1 ELSE 0)
            /\ Cardinality(Places(NULL)') \in Nat
        BY <1>0, <2>1, <3>2, PlacesAfterGet DEF Get
      <4>2. Cardinality(Left') = Cardinality(Left) + (IF Head(q_) = NULL THEN 1 ELSE 0)
        <5>1. CASE Head(q_) = NULL
          <6>1. Left' = Left \cup {w} /\ w \notin Left
            BY <1>0, <2>1, <3>2, <5>1 DEF Get, Left, TypeOK
          <6>2. QED
            BY <6>1, <5>1, <1>F, FS_AddElement
        <5>2. CASE Head(q_) # NULL
          <6>1. Left' = Left
            BY <1>0, <2>1, <3>2, <5>2 DEF Get, Left, TypeOK
          <6>2. QED
            BY <6>1, <5>2, <1>F
        <5>3. QED
          BY <5>1, <5>2
      <4>3. Cardinality(Places(NULL)') + Cardinality(Left') =
                Cardinality(Places(NULL)) + Cardinality(Left)
        BY <1>F, <4>1, <4>2
      <4>4. QED
        BY <1>0, <2>0, <4>3 DEF NullsCounted, Ended
    <3>3. QED
      BY <3>1, <3>2
  <2>2. CASE ExecuteAdd(w)
    <3>1. closure[w] \in Closure /\ plan.adds[closure[w]] \in Closure
      BY <1>0, <2>2, PlanType DEF ExecuteAdd, Runs, PoolInv, InHand, TypeOK
    <3>2. Cardinality(Places(NULL)') = Cardinality(Places(NULL)) +
              (IF plan.adds[closure[w]] = NULL THEN 1 ELSE 0)
      BY <1>0, <2>2, <3>1, PlacesAfterPut DEF ExecuteAdd
    <3>3. plan.adds[closure[w]] # NULL
      BY <3>1, PoolAssumption
    <3>4. Left' = Left
      BY <1>0, <2>2 DEF ExecuteAdd, Runs, Return, Left, TypeOK
    <3>5. Cardinality(Places(NULL)') + Cardinality(Left') =
              Cardinality(Places(NULL)) + Cardinality(Left)
      BY <1>F, <3>2, <3>3, <3>4
    <3>6. QED
      BY <1>0, <2>0, <3>5 DEF NullsCounted, Ended
  <2>3. CASE \/ ExecuteNothing(w) \/ ExecuteCount(w) \/ PushUnbounded(w)
             \/ PopUnbounded(w) \/ PushFixed(w) \/ PopFixed(w)
    <3>1. /\ at[w] = "run" /\ q_' = q_
          /\ at' = [at EXCEPT ![w] = "get"] \/ at' = at
      BY <2>3 DEF ExecuteNothing, ExecuteCount, PushUnbounded, PopUnbounded,
         PushFixed, PopFixed, Runs, Return
    <3>2. Left' = Left
      BY <1>0, <3>1 DEF Left, TypeOK
    <3>3. QED
      BY <1>1, <2>0, <3>1, <3>2
  <2>4. QED
    BY <1>2, <2>1, <2>2, <2>3 DEF Work
<1>3. CASE StartWorkers
  <2>1. Left' = Left
    BY <1>0, <1>3 DEF StartWorkers, Left, TypeOK
  <2>2. QED
    BY <1>1, <1>3, <2>1 DEF StartWorkers
<1>4. CASE Add
  <2>1. Left' = Left /\ plan' = plan /\ owner = "add"
    BY <1>4 DEF Add, Left
  <2>2. CASE next < Len(plan.added)
    <3>1. plan.added[next + 1] \in Closure
      BY <1>0, <2>2, PlanType
    <3>2. Cardinality(Places(NULL)') = Cardinality(Places(NULL)) +
              (IF plan.added[next + 1] = NULL THEN 1 ELSE 0)
      BY <1>0, <1>4, <2>2, <3>1, PlacesAfterPut DEF Add, Put
    <3>3. Cardinality(Places(NULL)') = Cardinality(Places(NULL))
      BY <1>F, <3>1, <3>2, PoolAssumption
    <3>4. next' = next + 1 /\ owner' = "add"
      BY <1>4, <2>1, <2>2 DEF Add
    <3>5. Cardinality(Places(NULL)') + Cardinality(Left') = 0
      BY <1>0, <2>1, <3>3 DEF NullsCounted
    <3>6. QED
      BY <1>0, <1>F, <2>1, <2>2, <3>4, <3>5 DEF NullsCounted, Ended
  <2>3. CASE ~(next < Len(plan.added))
    <3>1. /\ q_' = q_ /\ next' = 0 /\ owner' \in {"wait", "delete"}
      BY <1>4, <2>3 DEF Add
    <3>2. Cardinality(Places(NULL)') + Cardinality(Left') = 0
      BY <1>0, <2>1, <3>1 DEF NullsCounted, Places
    <3>3. QED
      BY <1>0, <1>F, <3>1, <3>2 DEF NullsCounted, Ended
  <2>4. QED
    BY <2>2, <2>3
<1>5. CASE WaitForCounter
  <2>1. /\ UNCHANGED <<plan, q_, next>> /\ Left' = Left
        /\ owner = "wait" /\ owner' \in {"wait", "delete"}
    BY <1>5 DEF WaitForCounter, Left
  <2>2. Cardinality(Places(NULL)') + Cardinality(Left') = 0 /\ next = 0
    BY <1>0, <2>1 DEF NullsCounted, Places
  <2>3. QED
    BY <1>0, <1>F, <2>1, <2>2 DEF NullsCounted, Ended
<1>6. CASE AddNull
  <2>1. Left' = Left /\ plan' = plan /\ owner = "delete"
    BY <1>6 DEF AddNull, Left
  <2>2. CASE next < Cardinality(Worker)
    <3>1. q_' = Append(q_, NULL) /\ next' = next + 1 /\ owner' = "delete"
      BY <1>6, <2>1, <2>2 DEF AddNull, Put
    <3>2. Cardinality(Places(NULL)') = Cardinality(Places(NULL)) + 1
      <4>1. NULL \in Closure \cup {NULL}
        OBVIOUS
      <4>2. Cardinality(Places(NULL)') = Cardinality(Places(NULL)) +
                (IF NULL = NULL THEN 1 ELSE 0)
        BY <1>0, <3>1, <4>1, PlacesAfterPut
      <4>3. QED
        BY <4>2
    <3>3. Cardinality(Places(NULL)') + Cardinality(Left') = next + 1
      BY <1>0, <1>F, <2>1, <3>2 DEF NullsCounted
    <3>4. QED
      BY <1>0, <1>F, <2>2, <3>1, <3>3 DEF NullsCounted, Ended
  <2>3. CASE ~(next < Cardinality(Worker))
    <3>1. UNCHANGED <<q_, next>> /\ owner' = "join"
      BY <1>6, <2>3 DEF AddNull
    <3>2. Cardinality(Places(NULL)') + Cardinality(Left') = next
      BY <1>0, <2>1, <3>1 DEF NullsCounted, Places
    <3>3. next = Cardinality(Worker)
      BY <1>0, <1>F, <2>1, <2>3 DEF NullsCounted
    <3>4. QED
      BY <1>0, <3>1, <3>2, <3>3 DEF NullsCounted, Ended
  <2>4. QED
    BY <2>2, <2>3
<1>7. CASE Join
  <2>1. /\ UNCHANGED <<plan, q_, next>> /\ Left' = Left /\ Left = Worker
        /\ owner = "join" /\ owner' \in {"done", "abort"}
        /\ owner' = "abort" => q_ # <<>>
    BY <1>7 DEF Join, Left
  <2>2. Cardinality(Places(NULL)') + Cardinality(Left') = next
    BY <1>0, <2>1 DEF NullsCounted, Places
  <2>3. QED
    BY <1>0, <2>1, <2>2 DEF NullsCounted, Ended
<1>8. ASSUME NEW m \in Monitor, NEW t \in Worker \cup {Owner}, SpuriousWakeup(m, t)
      PROVE  NullsCounted'
  BY <1>1, <1>8 DEF SpuriousWakeup, Left
<1>9. CASE UNCHANGED vars
  BY <1>1, <1>9 DEF vars, Left
<1>10. QED
  BY <1>2, <1>3, <1>4, <1>5, <1>6, <1>7, <1>8, <1>9 DEF Next, Own

(* The queue keeps its order: nothing but late closures gets behind a NULL.*)
LEMMA NextNullsBehind == PoolInv /\ [Next]_vars => NullsBehind'
<1> SUFFICES ASSUME PoolInv, [Next]_vars PROVE NullsBehind'
  OBVIOUS
<1>0. TypeOK /\ NullsBehind /\ q_ \in Seq(Closure \cup {NULL}) /\ next \in Nat
  BY DEF PoolInv, TypeOK
<1>1. ASSUME UNCHANGED <<q_, late>>, Left' = Left PROVE NullsBehind'
  BY <1>0, <1>1 DEF NullsBehind, Places
<1>2. ASSUME NEW x \in Closure \cup {NULL}, q_' = Append(q_, x),
             Left' = Left, late \subseteq late',
             \/ x \in late' \cup {NULL}
             \/ Places(NULL) = {} /\ Left = {}
      PROVE  NullsBehind'
  <2>1. /\ Len(q_) \in Nat /\ DOMAIN q_ = 1 .. Len(q_)
        /\ DOMAIN q_' = 1 .. (Len(q_) + 1)
        /\ q_'[Len(q_) + 1] = x
        /\ \A i \in 1 .. Len(q_) : q_'[i] = q_[i]
    BY <1>0, <1>2
  <2>2. SUFFICES ASSUME NEW j \in DOMAIN q_', q_'[j] \notin late' \cup {NULL}
                 PROVE  Left = {} /\ \A i \in DOMAIN q_' : q_'[i] = NULL => j < i
    BY <1>2 DEF NullsBehind, Places
  <2>3. CASE j = Len(q_) + 1
    <3>1. x \notin late' \cup {NULL}
      BY <2>1, <2>2, <2>3
    <3>2. Places(NULL) = {} /\ Left = {}
      BY <1>2, <3>1
    <3>3. \A i \in DOMAIN q_' : q_'[i] # NULL
      BY <2>1, <3>1, <3>2 DEF Places
    <3>4. QED
      BY <3>2, <3>3
  <2>4. CASE j \in 1 .. Len(q_)
    <3>1. q_[j] \notin late \cup {NULL}
      BY <1>2, <2>1, <2>2, <2>4
    <3>2. Left = {} /\ \A i \in Places(NULL) : j < i
      BY <1>0, <2>1, <2>4, <3>1 DEF NullsBehind
    <3>3. QED
      BY <2>1, <2>4, <3>2 DEF Places
  <2>5. QED
    BY <2>1, <2>3, <2>4
<1>3. ASSUME NEW w \in Worker, Work(w) PROVE NullsBehind'
  <2>1. CASE Get(w)
    <3>1. CASE q_ = <<>>
      BY <1>1, <2>1, <3>1 DEF Get, Left
    <3>2. CASE q_ # <<>>
      <4>1. /\ Len(q_) \in Nat /\ Len(q_) > 0 /\ DOMAIN q_ = 1 .. Len(q_)
            /\ q_' = Tail(q_) /\ late' = late
            /\ DOMAIN q_' = 1 .. (Len(q_) - 1)
            /\ \A i \in 1 .. (Len(q_) - 1) : q_'[i] = q_[i + 1]
            /\ Head(q_) = q_[1]
        <5>1. q_' = Tail(q_) /\ late' = late
          BY <2>1, <3>2 DEF Get
        <5>2. QED
          BY <1>0, <3>2, <5>1
      <4>2. SUFFICES ASSUME NEW j \in DOMAIN q_', q_'[j] \notin late' \cup {NULL}
                     PROVE  Left' = {} /\ \A i \in DOMAIN q_' : q_'[i] = NULL => j < i
        BY DEF NullsBehind, Places
      <4>3. j + 1 \in DOMAIN q_ /\ q_[j + 1] \notin late \cup {NULL} /\ j \in Nat /\ j >= 1
        BY <4>1, <4>2
      <4>4. Left = {} /\ \A i \in DOMAIN q_ : q_[i] = NULL => j + 1 < i
        BY <1>0, <4>3 DEF NullsBehind, Places
      <4>5. Head(q_) # NULL
        BY <4>1, <4>3, <4>4
      <4>6. Left' = {}
        BY <1>0, <2>1, <3>2, <4>4, <4>5 DEF Get, Left, TypeOK
      <4>7. ASSUME NEW i \in DOMAIN q_', q_'[i] = NULL PROVE j < i
        <5>1. i \in Nat /\ i + 1 \in DOMAIN q_ /\ q_[i + 1] = NULL
          BY <4>1, <4>7
        <5>2. QED
          BY <4>3, <4>4, <5>1
      <4>8. QED
        BY <4>6, <4>7
    <3>3. QED
      BY <3>1, <3>2
  <2>2. CASE ExecuteAdd(w)
    <3>1. closure[w] \in Closure /\ plan.adds[closure[w]] \in Closure
      BY <1>0, <2>2, PlanType DEF ExecuteAdd, Runs, PoolInv, InHand, TypeOK
    <3>2. Left' = Left
      BY <1>0, <2>2 DEF ExecuteAdd, Runs, Return, Left, TypeOK
    <3>3. owner \notin {"done", "abort"}
      BY <2>2, NullFacts DEF ExecuteAdd, Runs, Ended
    <3>4. CASE owner \in {"delete", "join"} /\ next > 0
      BY <1>2, <2>2, <3>1, <3>2, <3>4 DEF ExecuteAdd
    <3>5. CASE ~(owner \in {"delete", "join"} /\ next > 0)
      <4>1. owner \in {"add", "wait"} \/ next = 0
        BY <1>0, <3>3, <3>5 DEF TypeOK
      <4>2. Places(NULL) = {} /\ Left = {}
        BY <4>1, NullFacts
      <4>3. q_' = Append(q_, plan.adds[closure[w]]) /\ late' = late
        BY <2>2, <3>5 DEF ExecuteAdd
      <4>4. QED
        BY <1>2, <3>1, <3>2, <4>2, <4>3
    <3>6. QED
      BY <3>4, <3>5
  <2>3. CASE \/ ExecuteNothing(w) \/ ExecuteCount(w) \/ PushUnbounded(w)
             \/ PopUnbounded(w) \/ PushFixed(w) \/ PopFixed(w)
    <3>1. /\ at[w] = "run" /\ UNCHANGED <<q_, late>>
          /\ at' = [at EXCEPT ![w] = "get"] \/ at' = at
      BY <2>3 DEF ExecuteNothing, ExecuteCount, PushUnbounded, PopUnbounded,
         PushFixed, PopFixed, Runs, Return
    <3>2. Left' = Left
      BY <1>0, <3>1 DEF Left, TypeOK
    <3>3. QED
      BY <1>1, <3>1, <3>2
  <2>4. QED
    BY <1>3, <2>1, <2>2, <2>3 DEF Work
<1>4. CASE StartWorkers
  <2>1. Left' = Left
    BY <1>0, <1>4 DEF StartWorkers, Left, TypeOK
  <2>2. QED
    BY <1>1, <1>4, <2>1 DEF StartWorkers
<1>5. CASE Add
  <2>1. Left' = Left /\ late' = late /\ owner = "add"
    BY <1>5 DEF Add, Left
  <2>2. CASE next < Len(plan.added)
    <3>1. plan.added[next + 1] \in Closure
      BY <1>0, <2>2, PlanType
    <3>2. Places(NULL) = {} /\ Left = {}
      BY <2>1, NullFacts
    <3>3. QED
      BY <1>2, <1>5, <2>1, <2>2, <3>1, <3>2 DEF Add, Put
  <2>3. CASE ~(next < Len(plan.added))
    BY <1>1, <1>5, <2>1, <2>3 DEF Add
  <2>4. QED
    BY <2>2, <2>3
<1>6. CASE AddNull
  <2>1. Left' = Left /\ late' = late
    BY <1>6 DEF AddNull, Left
  <2>2. CASE next < Cardinality(Worker)
    <3>1. q_' = Append(q_, NULL)
      BY <1>6, <2>2 DEF AddNull, Put
    <3>2. QED
      BY <1>2, <2>1, <3>1
  <2>3. CASE ~(next < Cardinality(Worker))
    BY <1>1, <1>6, <2>1, <2>3 DEF AddNull
  <2>4. QED
    BY <2>2, <2>3
<1>7. CASE WaitForCounter \/ Join
  BY <1>1, <1>7 DEF WaitForCounter, Join, Left
<1>8. ASSUME NEW m \in Monitor, NEW t \in Worker \cup {Owner}, SpuriousWakeup(m, t)
      PROVE  NullsBehind'
  BY <1>1, <1>8 DEF SpuriousWakeup, Left
<1>9. CASE UNCHANGED vars
  BY <1>1, <1>9 DEF vars, Left
<1>10. QED
  BY <1>3, <1>4, <1>5, <1>6, <1>7, <1>8, <1>9 DEF Next, Own

(* The inductive invariant holds in every state of a pool.                 *)
THEOREM Invariance == Spec => []PoolInv
<1>1. PoolInv /\ [Next]_vars => PoolInv'
  BY NextTypeOK, NextConserved, NextInBounds, NextNullsCounted, NextNullsBehind
     DEF PoolInv
<1>2. QED
  BY InitEstablishes, <1>1, PTL DEF Spec

(* Put, Get and Execute neither lose a closure nor run one twice, however  *)
(* many threads add and however often closures add others.                 *)
THEOREM ClosuresAreConserved == Spec => []Conserved
  BY Invariance, PTL DEF PoolInv

(* Nobody pushes into a full FixedSizeConQueue or pops from an empty one.  *)
THEOREM QueueStaysInBounds == Spec => []QueueInBounds
  BY Invariance, PTL DEF PoolInv

(* ~ThreadPool returns when everything that was added before its first     *)
(* NULL has been executed, and the CHECK of the queue fails only on        *)
(* closures added later.                                                   *)
THEOREM DestructorWaitsForAll == Spec => []AllExecuted
<1>1. PoolInv => AllExecuted
  <2> SUFFICES ASSUME PoolInv, Ended
               PROVE  /\ \A c \in Closure \ late : executed[c] = Added(c)
                      /\ owner = "abort" => late # {}
    BY DEF AllExecuted, Ended
  <2>1. /\ TypeOK /\ InHand /\ NullsCounted /\ NullsBehind /\ Conserved
        /\ q_ \in Seq(Closure \cup {NULL})
    BY DEF PoolInv, TypeOK
  <2>2. Left = Worker /\ Worker # {} /\ \A w \in Worker : at[w] = "left"
    BY <2>1, PoolAssumption DEF NullsCounted, Left
  <2>3. \A j \in DOMAIN q_ : q_[j] \in late \cup {NULL}
    BY <2>1, <2>2 DEF NullsBehind
  <2>4. ASSUME NEW c \in Closure \ late PROVE executed[c] = Added(c)
    <3>1. c # NULL /\ c \in Closure
      BY PoolAssumption
    <3>2. Places(c) = {} /\ HeldBy(c) = {}
      BY <2>1, <2>2, <2>3, <3>1 DEF Places, HeldBy, InHand
    <3>3. Cardinality({}) = 0
      BY FS_EmptySet
    <3>4. Cardinality(Places(c)) = 0 /\ Cardinality(HeldBy(c)) = 0
      BY <3>2, <3>3, Zenon
    <3>5. executed[c] \in Nat
      BY <2>1 DEF TypeOK
    <3>6. Cardinality(Places(c)) + Cardinality(HeldBy(c)) + executed[c] = Added(c)
      BY <2>1 DEF Conserved
    <3>7. QED
      BY <3>4, <3>5, <3>6
  <2>5. ASSUME owner = "abort" PROVE late # {}
    <3>1. /\ Cardinality(Places(NULL)) \in Nat /\ IsFiniteSet(Places(NULL))
          /\ Cardinality(Worker) \in Nat
      BY <2>1, FiniteParts
    <3>2. Cardinality(Places(NULL)) + Cardinality(Worker) = Cardinality(Worker)
      BY <2>1, <2>2, <2>5 DEF NullsCounted
    <3>3. Cardinality(Places(NULL)) = 0
      BY <3>1, <3>2
    <3>4. Places(NULL) = {}
      BY <3>1, <3>3, FS_EmptySet
    <3>5. 1 \in DOMAIN q_
      BY <2>1, <2>5 DEF NullsCounted
    <3>6. QED
      BY <2>3, <3>4, <3>5 DEF Places
  <2>6. QED
    BY <2>4, <2>5
<1>2. QED
  BY Invariance, <1>1, PTL
=============================================================================
