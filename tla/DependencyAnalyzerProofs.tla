---------------------- MODULE DependencyAnalyzerProofs ----------------------
(***************************************************************************)
(* Proofs about the two steps of dependency_analyzer.analyze_deps, for any *)
(* targets, graphs and types: DependencyAnalyzer, the expansion, and then  *)
(* TopologicalSort; and about AnalyzeDeps, the one after the other.        *)
(***************************************************************************)
EXTENDS AnalyzeDeps, SequenceTheorems, FiniteSetTheorems, TLAPS

(* Entries of a list, by index and as a set.                               *)
LEMMA InRange ==
    ASSUME NEW T, NEW s \in Seq(T)
    PROVE  /\ \A x : x \in Range(s) <=> \E i \in 1 .. Len(s) : s[i] = x
           /\ IsInjective(s) <=> \A i, j \in 1 .. Len(s) : s[i] = s[j] => i = j
           /\ Range(s) \subseteq T
           /\ Len(s) \in Nat
  BY DEF Range, IsInjective

(* list.remove on a list without duplicates.                               *)
LEMMA RemoveFirstProperties ==
    ASSUME NEW T, NEW list \in Seq(T), IsInjective(list), NEW k \in 1 .. Len(list)
    PROVE  /\ RemoveFirst(list, list[k]) \in Seq(T)
           /\ Len(RemoveFirst(list, list[k])) = Len(list) - 1
           /\ \A i \in 1 .. Len(list) - 1 :
                 RemoveFirst(list, list[k])[i] = IF i < k THEN list[i] ELSE list[i + 1]
<1> DEFINE nd == list[k]
           I == {i \in 1 .. Len(list) : list[i] = nd}
<1>1. I = {k}
  BY DEF IsInjective
<1>2. Min(I) = k
  BY <1>1 DEF Min
<1>3. RemoveFirst(list, nd) = RemoveAt(list, k)
  BY <1>1, <1>2 DEF RemoveFirst, SelectInSeq
<1>4. RemoveAt(list, k) = SubSeq(list, 1, k - 1) \o SubSeq(list, k + 1, Len(list))
  BY DEF RemoveAt
<1> DEFINE A == SubSeq(list, 1, k - 1)
           B == SubSeq(list, k + 1, Len(list))
<1>5. /\ A \in Seq(T)
      /\ Len(A) = k - 1
      /\ \A i \in 1 .. k - 1 : A[i] = list[i]
  OBVIOUS
<1>6. /\ B \in Seq(T)
      /\ Len(B) = Len(list) - k
      /\ \A i \in 1 .. Len(list) - k : B[i] = list[k + i]
  OBVIOUS
<1>7. RemoveFirst(list, nd) = A \o B
  BY <1>3, <1>4
<1> HIDE DEF A, B, nd
<1>8. /\ A \o B \in Seq(T)
      /\ Len(A \o B) = Len(A) + Len(B)
      /\ \A i \in 1 .. Len(A) + Len(B) :
            (A \o B)[i] = IF i <= Len(A) THEN A[i] ELSE B[i - Len(A)]
  BY <1>5, <1>6, ConcatProperties
<1> DEFINE C == A \o B
<1> HIDE DEF C
<1>9. ASSUME NEW i \in 1 .. Len(list) - 1
      PROVE  C[i] = IF i < k THEN list[i] ELSE list[i + 1]
  <2>1. CASE i < k
    <3>1. i \in 1 .. k - 1 /\ i <= k - 1
          /\ i \in 1 .. (k - 1) + (Len(list) - k)
      BY <2>1
    <3>2. C[i] = A[i]
      BY <1>5, <1>6, <1>8, <3>1 DEF C
    <3>3. QED
      BY <1>5, <2>1, <3>1, <3>2
  <2>2. CASE ~ (i < k)
    <3>1. i - (k - 1) \in 1 .. Len(list) - k /\ ~ (i <= k - 1)
          /\ i \in 1 .. (k - 1) + (Len(list) - k)
      BY <2>2
    <3>2. B[i - (k - 1)] = list[k + (i - (k - 1))]
      BY <1>6, <3>1
    <3>3. k + (i - (k - 1)) = i + 1
      OBVIOUS
    <3>4. C[i] = B[i - (k - 1)]
      BY <1>5, <1>6, <1>8, <3>1 DEF C
    <3>5. QED
      BY <2>2, <3>2, <3>3, <3>4
  <2>3. QED
    BY <2>1, <2>2
<1>10. C \in Seq(T) /\ Len(C) = Len(list) - 1
  BY <1>5, <1>6, <1>8 DEF C
<1>11. QED
  BY <1>7, <1>9, <1>10 DEF C, nd

(* An entry that the list did not hold.                                    *)
LEMMA Push ==
    ASSUME NEW T, NEW s \in Seq(T), IsInjective(s), NEW d \in T, d \notin Range(s)
    PROVE  /\ Append(s, d) \in Seq(T)
           /\ Len(Append(s, d)) = Len(s) + 1
           /\ Append(s, d)[Len(s) + 1] = d
           /\ \A i \in 1 .. Len(s) : Append(s, d)[i] = s[i]
           /\ IsInjective(Append(s, d))
           /\ Range(Append(s, d)) = Range(s) \cup {d}
<1> DEFINE m == Append(s, d)
<1>1. /\ m \in Seq(T) /\ Len(m) = Len(s) + 1 /\ m[Len(s) + 1] = d
      /\ \A i \in 1 .. Len(s) : m[i] = s[i]
  OBVIOUS
<1> HIDE DEF m
<1>2. 1 .. Len(m) = 1 .. Len(s) \cup {Len(s) + 1} /\ Len(s) \in Nat
  BY <1>1
<1>3. Range(m) = Range(s) \cup {d}
  BY <1>1, <1>2 DEF Range
<1>4. IsInjective(m)
  BY <1>1, <1>2 DEF Range, IsInjective
<1>5. QED
  BY <1>1, <1>3, <1>4 DEF m

(* Moving an entry to the end keeps the others in their order.             *)
LEMMA MoveToEndProperties ==
    ASSUME NEW T, NEW list \in Seq(T), IsInjective(list), NEW nd \in T
    PROVE  /\ MoveToEnd(list, nd) \in Seq(T)
           /\ IsInjective(MoveToEnd(list, nd))
           /\ Range(MoveToEnd(list, nd)) = Range(list) \cup {nd}
           /\ \A a \in Range(list) \ {nd} : Before(MoveToEnd(list, nd), a, nd)
           /\ \A a, b \in T : a # nd /\ b # nd /\ Before(list, a, b)
                                => Before(MoveToEnd(list, nd), a, b)
<1> DEFINE r == RemoveFirst(list, nd)
           m == MoveToEnd(list, nd)
<1>1. /\ r \in Seq(T) /\ nd \notin Range(r) /\ IsInjective(r)
      /\ Range(r) = Range(list) \ {nd}
      /\ \A a, b \in T : a # nd /\ b # nd /\ Before(list, a, b) => Before(r, a, b)
  <2>1. CASE nd \notin Range(list)
    <3>1. r = list
      BY <2>1 DEF RemoveFirst, Range
    <3>2. QED
      BY <2>1, <3>1
  <2>2. CASE nd \in Range(list)
    <3>1. PICK k \in 1 .. Len(list) : list[k] = nd
      BY <2>2 DEF Range
    <3>2. /\ r \in Seq(T)
          /\ Len(r) = Len(list) - 1
          /\ \A i \in 1 .. Len(list) - 1 : r[i] = IF i < k THEN list[i] ELSE list[i + 1]
      BY <3>1, RemoveFirstProperties
    <3> HIDE DEF r
    <3> DEFINE at(i) == IF i < k THEN i ELSE i - 1
    <3>3. ASSUME NEW i \in 1 .. Len(list), i # k
          PROVE  at(i) \in 1 .. Len(r) /\ r[at(i)] = list[i]
      BY <3>2, <3>3
    <3>4. Range(r) = Range(list) \ {nd}
      <4>1. ASSUME NEW i \in 1 .. Len(r) PROVE r[i] \in Range(list) \ {nd}
        BY <3>1, <3>2, <4>1 DEF Range, IsInjective
      <4>2. ASSUME NEW a \in Range(list) \ {nd} PROVE a \in Range(r)
        <5>1. PICK i \in 1 .. Len(list) : list[i] = a
          BY DEF Range
        <5>2. i # k
          BY <3>1, <5>1, <4>2
        <5>3. at(i) \in DOMAIN r /\ r[at(i)] = a
          BY <3>2, <3>3, <5>1, <5>2
        <5>4. QED
          BY <5>3 DEF Range
      <4>3. QED
        BY <3>2, <4>1, <4>2, InRange
    <3>5. IsInjective(r)
      <4> SUFFICES ASSUME NEW i \in 1 .. Len(r), NEW j \in 1 .. Len(r), r[i] = r[j]
                   PROVE  i = j
        BY <3>2, InRange
      <4> DEFINE from(n) == IF n < k THEN n ELSE n + 1
      <4>1. /\ from(i) \in 1 .. Len(list) /\ from(j) \in 1 .. Len(list)
            /\ list[from(i)] = r[i] /\ list[from(j)] = r[j]
        BY <3>2
      <4>2. from(i) = from(j)
        BY <4>1, InRange
      <4>3. QED
        BY <4>2
    <3>6. ASSUME NEW a \in T, NEW b \in T, a # nd, b # nd, Before(list, a, b)
          PROVE  Before(r, a, b)
      <4>1. PICK i, j \in 1 .. Len(list) : i < j /\ list[i] = a /\ list[j] = b
        BY <3>6 DEF Before
      <4>2. i # k /\ j # k
        BY <3>1, <3>6, <4>1
      <4>3. at(i) < at(j)
        BY <4>1, <4>2
      <4>4. QED
        BY <3>3, <4>1, <4>2, <4>3 DEF Before
    <3>7. QED
      BY <3>2, <3>4, <3>5, <3>6
  <2>3. QED
    BY <2>1, <2>2
<1> HIDE DEF r
<1>2. m = Append(r, nd)
  BY DEF MoveToEnd, r
<1>3. /\ m \in Seq(T)
      /\ Len(m) = Len(r) + 1
      /\ m[Len(r) + 1] = nd
      /\ \A i \in 1 .. Len(r) : m[i] = r[i]
      /\ IsInjective(m)
      /\ Range(m) = Range(r) \cup {nd}
  BY <1>1, <1>2, Push
<1> HIDE DEF m
<1>4. 1 .. Len(m) = 1 .. Len(r) \cup {Len(r) + 1} /\ Len(r) \in Nat
  BY <1>1, <1>3
<1>7. ASSUME NEW a \in Range(r) PROVE Before(m, a, nd)
  <2>1. PICK i \in 1 .. Len(r) : r[i] = a
    BY <1>1 DEF Range
  <2>2. m[i] = a /\ i \in 1 .. Len(m) /\ i < Len(r) + 1 /\ Len(r) + 1 \in 1 .. Len(m)
    BY <1>3, <1>4, <2>1
  <2>3. QED
    BY <1>3, <2>2 DEF Before
<1>8. ASSUME NEW a, NEW b, Before(r, a, b) PROVE Before(m, a, b)
  BY <1>3, <1>4, <1>8 DEF Before
<1>9. QED
  BY <1>1, <1>3, <1>7, <1>8 DEF m

(* The first of the entries to append, and the rest.                       *)
LEMMA TailProperties ==
    ASSUME NEW T, NEW s \in Seq(T), s # <<>>, IsInjective(s)
    PROVE  /\ Head(s) \in T /\ Tail(s) \in Seq(T)
           /\ IsInjective(Tail(s))
           /\ Range(s) = Range(Tail(s)) \cup {Head(s)}
           /\ Head(s) \notin Range(Tail(s))
           /\ \A b : Before(s, Head(s), b) => b \in Range(Tail(s))
           /\ \A a, b : a # Head(s) /\ Before(s, a, b) => Before(Tail(s), a, b)
<1> DEFINE t == Tail(s)
<1>1. /\ Head(s) = s[1] /\ s[1] \in T /\ 1 \in 1 .. Len(s)
      /\ t \in Seq(T) /\ Len(s) \in Nat /\ Len(t) = Len(s) - 1
      /\ \A i \in 1 .. Len(s) - 1 : t[i] = s[i + 1]
  OBVIOUS
<1> HIDE DEF t
<1>2. \A i \in 2 .. Len(s) : i - 1 \in 1 .. Len(t) /\ t[i - 1] = s[i]
  BY <1>1
<1>3. IsInjective(t)
  <2> SUFFICES ASSUME NEW i \in 1 .. Len(t), NEW j \in 1 .. Len(t), t[i] = t[j]
               PROVE  i = j
    BY <1>1 DEF IsInjective
  <2>1. QED
    BY <1>1 DEF IsInjective
<1>4. \A i \in 1 .. Len(s) : i = 1 \/ i \in 2 .. Len(s)
  BY <1>1
<1>5. Range(s) = Range(t) \cup {s[1]}
  <2>1. ASSUME NEW i \in 1 .. Len(s) PROVE s[i] \in Range(t) \cup {s[1]}
    BY <1>1, <1>2, <1>4, <2>1 DEF Range
  <2>2. ASSUME NEW i \in 1 .. Len(t) PROVE t[i] \in Range(s)
    BY <1>1, <2>2 DEF Range
  <2>3. QED
    BY <1>1, <2>1, <2>2 DEF Range
<1>6. s[1] \notin Range(t)
  BY <1>1 DEF Range, IsInjective
<1>7. ASSUME NEW b, Before(s, s[1], b) PROVE b \in Range(t)
  <2>1. PICK i, j \in 1 .. Len(s) : i < j /\ s[j] = b
    BY <1>7 DEF Before
  <2>2. j \in 2 .. Len(s)
    BY <1>1, <2>1
  <2>3. QED
    BY <1>1, <1>2, <2>1, <2>2 DEF Range
<1>8. ASSUME NEW a, NEW b, a # s[1], Before(s, a, b) PROVE Before(t, a, b)
  <2>1. PICK i, j \in 1 .. Len(s) : i < j /\ s[i] = a /\ s[j] = b
    BY <1>8 DEF Before
  <2>2. i \in 2 .. Len(s) /\ j \in 2 .. Len(s) /\ i - 1 < j - 1
    BY <1>1, <1>8, <2>1
  <2>3. QED
    BY <1>1, <1>2, <2>1, <2>2 DEF Before
<1>9. QED
  BY <1>1, <1>3, <1>5, <1>6, <1>7, <1>8 DEF t

(* A target in front of its expansion.                                     *)
LEMMA ConsProperties ==
    ASSUME NEW T, NEW s \in Seq(T), IsInjective(s), NEW d \in T, d \notin Range(s)
    PROVE  /\ <<d>> \o s \in Seq(T)
           /\ IsInjective(<<d>> \o s)
           /\ Range(<<d>> \o s) = Range(s) \cup {d}
           /\ \A b \in Range(s) : Before(<<d>> \o s, d, b)
           /\ \A a, b : Before(s, a, b) => Before(<<d>> \o s, a, b)
<1> DEFINE c == <<d>> \o s
<1>1. /\ c \in Seq(T) /\ Len(s) \in Nat /\ Len(c) = Len(s) + 1
      /\ c[1] = d /\ \A i \in 1 .. Len(s) : c[i + 1] = s[i]
  OBVIOUS
<1> HIDE DEF c
<1>2. \A i \in 1 .. Len(c) : i = 1 \/ (i - 1 \in 1 .. Len(s) /\ c[i] = s[i - 1])
  BY <1>1
<1>3. \A i \in 1 .. Len(s) : i + 1 \in 1 .. Len(c) /\ 1 < i + 1
  BY <1>1
<1>4. Range(c) = Range(s) \cup {d}
  <2>1. ASSUME NEW x \in Range(c) PROVE x \in Range(s) \cup {d}
    <3>1. PICK i \in 1 .. Len(c) : c[i] = x
      BY <1>1, InRange
    <3>2. i = 1 \/ (i - 1 \in 1 .. Len(s) /\ x = s[i - 1])
      BY <1>2, <3>1
    <3>3. QED
      BY <1>1, <3>1, <3>2, InRange
  <2>2. ASSUME NEW x \in Range(s) PROVE x \in Range(c)
    <3>1. PICK i \in 1 .. Len(s) : s[i] = x
      BY InRange
    <3>2. i + 1 \in 1 .. Len(c) /\ c[i + 1] = x
      BY <1>1, <1>3, <3>1
    <3>3. QED
      BY <1>1, <3>2, InRange
  <2>3. d \in Range(c)
    <3>1. 1 \in 1 .. Len(c)
      BY <1>1
    <3>2. QED
      BY <1>1, <3>1, InRange
  <2>4. QED
    BY <2>1, <2>2, <2>3
<1>5. IsInjective(c)
  <2> SUFFICES ASSUME NEW i \in 1 .. Len(c), NEW j \in 1 .. Len(c), c[i] = c[j]
               PROVE  i = j
    BY <1>1, InRange
  <2>1. ASSUME NEW k \in 1 .. Len(c), k # 1 PROVE c[k] # d
    <3>1. k - 1 \in 1 .. Len(s) /\ c[k] = s[k - 1]
      BY <1>2, <2>1
    <3>2. QED
      BY <3>1, InRange
  <2>2. CASE i = 1 \/ j = 1
    BY <1>1, <2>1, <2>2
  <2>3. CASE i # 1 /\ j # 1
    <3>1. i - 1 \in 1 .. Len(s) /\ j - 1 \in 1 .. Len(s) /\ s[i - 1] = s[j - 1]
      BY <1>2, <2>3
    <3>2. i - 1 = j - 1
      BY <3>1, InRange
    <3>3. QED
      BY <3>2
  <2>4. QED
    BY <2>2, <2>3
<1>6. ASSUME NEW b \in Range(s) PROVE Before(c, d, b)
  <2>1. PICK i \in 1 .. Len(s) : s[i] = b
    BY <1>1 DEF Range
  <2>2. QED
    BY <1>1, <1>3, <2>1 DEF Before
<1>7. ASSUME NEW a, NEW b, Before(s, a, b) PROVE Before(c, a, b)
  <2>1. PICK i, j \in 1 .. Len(s) : i < j /\ s[i] = a /\ s[j] = b
    BY <1>7 DEF Before
  <2>2. i + 1 < j + 1
    BY <2>1
  <2>3. QED
    BY <1>1, <1>3, <2>1, <2>2 DEF Before
<1>8. QED
  BY <1>1, <1>4, <1>5, <1>6, <1>7 DEF c

(* The innermost call, and what is left when it returns.                   *)
LEMMA CallStack ==
    ASSUME NEW T, NEW s \in Seq(T), s # <<>>
    PROVE  /\ Len(s) \in Nat \ {0}
           /\ Last(s) = s[Len(s)] /\ Last(s) \in T /\ Last(s) \in Range(s)
           /\ Front(s) \in Seq(T)
           /\ Len(Front(s)) = Len(s) - 1
           /\ \A i \in 1 .. Len(s) - 1 : Front(s)[i] = s[i]
<1>1. Len(s) \in Nat \ {0} /\ s[Len(s)] \in T
  OBVIOUS
<1>2. Len(s) \in 1 .. Len(s)
  BY <1>1
<1>3. Last(s) \in Range(s)
  BY <1>2, InRange DEF Last
<1>4. /\ Front(s) \in Seq(T)
      /\ Len(Front(s)) = Len(s) - 1
      /\ \A i \in 1 .. Len(s) - 1 : Front(s)[i] = s[i]
  <2>1. \A k \in 1 .. Len(s) : /\ SubSeq(s, 1, k - 1) \in Seq(T)
                              /\ Len(SubSeq(s, 1, k - 1)) = k - 1
                              /\ \A i \in 1 .. k - 1 : SubSeq(s, 1, k - 1)[i] = s[i]
    OBVIOUS
  <2>2. QED
    BY <1>2, <2>1 DEF Front
<1>5. QED
  BY <1>1, <1>3, <1>4 DEF Last

(* What is left of the stack when the innermost call returns.              *)
LEMMA Pop ==
    ASSUME NEW T, NEW s \in Seq(T), s # <<>>, IsInjective(s)
    PROVE  /\ IsInjective(Front(s))
           /\ \A x \in Range(Front(s)) : x \in Range(s) /\ x # Last(s)
<1> DEFINE f == Front(s)
           n == Len(s)
<1>1. /\ n \in Nat \ {0} /\ Last(s) = s[n]
      /\ f \in Seq(T) /\ Len(f) = n - 1
      /\ \A i \in 1 .. n - 1 : f[i] = s[i]
  BY CallStack
<1>2. \A i, j \in 1 .. n : s[i] = s[j] => i = j
  BY InRange
<1>3. \A i \in 1 .. n - 1 : i \in 1 .. n /\ i # n /\ n \in 1 .. n
  BY <1>1
<1> HIDE DEF f, n
<1>4. IsInjective(f)
  BY <1>1, <1>2, <1>3, InRange
<1>5. ASSUME NEW x \in Range(f) PROVE x \in Range(s) /\ x # Last(s)
  <2>1. PICK i \in 1 .. n - 1 : x = s[i]
    BY <1>1, InRange
  <2>2. x # s[n]
    BY <1>2, <1>3, <2>1
  <2>3. QED
    BY <1>1, <1>3, <2>1, <2>2, InRange DEF n
<1>6. QED
  BY <1>4, <1>5 DEF f

(* A call that has not returned reads the dependencies of the BUILD file,  *)
(* never an expansion.                                                     *)
LEMMA CallReadsDeps ==
    ASSUME AnalyzerInv, root_targets # <<>>, NEW c, c = Last(root_targets)
    PROVE  /\ c \in Targets /\ c \in Range(root_targets)
           /\ c \notin cached /\ c \in Unreached
           /\ expanded_deps[c] = deps[c]
           /\ Coming(c) = Range(new_deps_piece)
           /\ \A t \in Targets \ {c} : Coming(t) = {}
<1>1. c \in Targets /\ c \in Range(root_targets)
  BY CallStack DEF AnalyzerInv, TypeOK
<1>2. c \notin cached
  BY <1>1 DEF AnalyzerInv, CallsInv
<1>3. c \in Unreached /\ expanded_deps[c] = deps[c]
  BY <1>1, <1>2 DEF AnalyzerInv, ResultInv
<1>4. QED
  BY <1>1, <1>2, <1>3 DEF Coming

(* Between two pieces nothing is on its way to a list.                     *)
LEMMA NothingComing ==
    ASSUME AnalyzerInv, new_deps_piece = <<>>, NEW t
    PROVE  Coming(t) = {}
  BY DEF Coming, Range

(* Before the first call the cache and the lists are empty.                *)
LEMMA InitAnalyzerInv == Init => AnalyzerInv
<1> SUFFICES ASSUME Init PROVE AnalyzerInv
  OBVIOUS
<1> USE DEF Init
<1>1. TypeOK
  BY AnalyzerAssumption DEF TypeOK
<1>2. Range(<<>>) = {} /\ IsInjective(<<>>)
  BY DEF Range, IsInjective
<1>3. CallsInv
  BY <1>2 DEF CallsInv
<1>4. \A t \in Targets : Coming(t) = {}
  BY DEF Coming
<1>5. ListsInv
  BY <1>1, <1>2, <1>4 DEF ListsInv, Linkable, TypeOK
<1>6. CacheInv
  BY DEF CacheInv
<1>7. ResultInv
  BY DEF ResultInv, Unreached
<1>8. QED
  BY <1>1, <1>3, <1>5, <1>6, <1>7 DEF AnalyzerInv

(* Steps that touch neither a list nor the cache.                          *)
LEMMA ListsKept ==
    ASSUME AnalyzerInv,
           UNCHANGED <<deps, next, new_deps_list, new_deps_piece, cached, deps_map_cache>>,
           \A t \in Targets : Coming(t)' = Coming(t)
    PROVE  ListsInv' /\ CacheInv'
<1>1. ListsInv'
  BY DEF AnalyzerInv, ListsInv, Linkable, Direct, ClosedUnderDeps
<1>2. CacheInv'
  BY DEF AnalyzerInv, CacheInv, Linkable, AllDepsOf, Direct, ClosedUnderDeps
<1>3. QED
  BY <1>1, <1>2

(* The loop of _expand_deps moves on.                                      *)
LEMMA NextTargetInv ==
    ASSUME AnalyzerInv, NEW t \in Targets, NextTarget(t)
    PROVE  AnalyzerInv'
<1> USE DEF NextTarget
<1>1. root_targets = <<>> /\ new_deps_piece = <<>> /\ t \in todo
  BY DEF AnalyzerInv, CallsInv
<1>2. Unreached' = Unreached
  BY DEF Unreached
<1>3. \A u \in Targets : Coming(u) = {} /\ Coming(u)' = {}
  BY <1>1 DEF Coming, Range
<1>4. ListsInv' /\ CacheInv'
  BY <1>3, ListsKept
<1>5. TypeOK'
  BY DEF AnalyzerInv, TypeOK
<1>6. ResultInv'
  BY <1>2 DEF AnalyzerInv, ResultInv, LoopExists, Direct
<1>7. CallsInv'
  <2>1. CASE t \in cached
    BY <1>1, <2>1 DEF AnalyzerInv, CallsInv, Range, IsInjective
  <2>2. CASE t \notin cached
    <3>1. root_targets' = <<t>> /\ Len(<<t>>) = 1 /\ <<t>>[1] = t
      BY <2>2
    <3>2. Range(<<t>>) = {t} /\ IsInjective(<<t>>)
      BY DEF Range, IsInjective
    <3>3. QED
      BY <1>1, <2>2, <3>1, <3>2 DEF AnalyzerInv, CallsInv
  <2>3. QED
    BY <2>1, <2>2
<1>8. QED
  BY <1>4, <1>5, <1>6, <1>7 DEF AnalyzerInv

(* A dependency among the calls closes a loop of the graph: the targets of *)
(* the calls from it on.                                                   *)
LEMMA LoopDependencyInv ==
    ASSUME AnalyzerInv, NEW c \in Targets, NEW d \in Names, LoopDependency(c, d)
    PROVE  AnalyzerInv'
<1> USE DEF LoopDependency, At
<1> DEFINE n == Len(root_targets)
<1>1. root_targets \in Seq(Targets) /\ root_targets # <<>> /\ n \in Nat \ {0}
      /\ c = root_targets[n]
  BY CallStack DEF AnalyzerInv, TypeOK
<1>2. PICK k \in 1 .. n : root_targets[k] = d
  BY <1>1, InRange
<1> DEFINE S == {root_targets[i] : i \in k .. n}
<1>3. S \in SUBSET Targets /\ S # {}
  BY <1>1, <1>2
<1>4. ASSUME NEW i \in k .. n PROVE Direct(root_targets[i]) \cap S # {}
  <2>1. CASE i = n
    <3>1. d \in Direct(c)
      <4>1. expanded_deps[c] = deps[c] /\ deps[c] \in Seq(Names) /\ next[c] \in Nat \ {0}
        BY <1>1, CallReadsDeps DEF AnalyzerInv, TypeOK
      <4>2. QED
        BY <4>1, InRange DEF Direct
    <3>2. d \in S
      BY <1>1, <1>2
    <3>3. QED
      BY <1>1, <2>1, <3>1, <3>2
  <2>2. CASE i # n
    <3>1. i \in 1 .. n - 1 /\ i + 1 \in k .. n /\ root_targets[i] \in Targets
      BY <1>1, <1>2, <2>2
    <3>2. /\ next[root_targets[i]] <= Len(deps[root_targets[i]])
          /\ deps[root_targets[i]][next[root_targets[i]]] = root_targets[i + 1]
      BY <3>1 DEF AnalyzerInv, CallsInv
    <3>3. deps[root_targets[i]] \in Seq(Names) /\ next[root_targets[i]] \in Nat \ {0}
      BY <3>1 DEF AnalyzerInv, TypeOK
    <3>4. root_targets[i + 1] \in Direct(root_targets[i])
      BY <3>2, <3>3, InRange DEF Direct
    <3>5. QED
      BY <3>1, <3>4
  <2>3. QED
    BY <2>1, <2>2
<1>5. LoopExists'
  <2>1. \A t \in S : Direct(t) \cap S # {}
    BY <1>4
  <2>2. LoopExists
    BY <1>3, <2>1 DEF LoopExists
  <2>3. QED
    BY <2>2 DEF LoopExists, Direct
<1>6. \A t \in Targets : Coming(t)' = Coming(t)
  BY DEF Coming
<1>7. ListsInv' /\ CacheInv'
  BY <1>6, ListsKept
<1>8. ResultInv'
  BY <1>5 DEF AnalyzerInv, ResultInv, Unreached
<1>9. QED
  BY <1>7, <1>8 DEF AnalyzerInv, TypeOK, CallsInv

(* A dependency that is no key of targets.                                 *)
LEMMA MissingTargetInv ==
    ASSUME AnalyzerInv, NEW c \in Targets, NEW d \in Names, MissingTarget(c, d)
    PROVE  AnalyzerInv'
<1> USE DEF MissingTarget, At
<1>1. expanded_deps[c] = deps[c] /\ deps[c] \in Seq(Names) /\ next[c] \in Nat \ {0}
  BY CallReadsDeps DEF AnalyzerInv, TypeOK
<1>2. d \in Direct(c)
  BY <1>1, InRange DEF Direct
<1>3. \A t \in Targets : Coming(t)' = Coming(t)
  BY DEF Coming
<1>4. ListsInv' /\ CacheInv'
  BY <1>3, ListsKept
<1>5. ResultInv'
  BY <1>2 DEF AnalyzerInv, ResultInv, Unreached, LoopExists, Direct
<1>6. QED
  BY <1>4, <1>5 DEF AnalyzerInv, TypeOK, CallsInv

(* A recursive call extends the path of calls.                             *)
LEMMA FindAllDepsInv ==
    ASSUME AnalyzerInv, NEW c \in Targets, NEW d \in Names, FindAllDeps(c, d)
    PROVE  AnalyzerInv'
<1> USE DEF FindAllDeps, At
<1> DEFINE n == Len(root_targets)
<1>1. root_targets \in Seq(Targets) /\ n \in Nat \ {0} /\ c = root_targets[n]
      /\ expanded_deps[c] = deps[c]
  BY CallStack, CallReadsDeps DEF AnalyzerInv, TypeOK
<1>2. /\ root_targets' \in Seq(Targets)
      /\ Len(root_targets') = n + 1
      /\ root_targets'[n + 1] = d
      /\ \A i \in 1 .. n : root_targets'[i] = root_targets[i]
      /\ IsInjective(root_targets')
      /\ Range(root_targets') = Range(root_targets) \cup {d}
  BY <1>1, Push DEF AnalyzerInv, CallsInv
<1>3. TypeOK'
  BY <1>2 DEF AnalyzerInv, TypeOK
<1>4. \A t \in Targets : Coming(t) = {} /\ Coming(t)' = {}
  BY DEF Coming, Range
<1>5. ListsInv' /\ CacheInv'
  BY <1>4, ListsKept
<1>6. ResultInv'
  BY DEF AnalyzerInv, ResultInv, Unreached, LoopExists, Direct
<1>7. CallsInv'
  <2>3. ASSUME NEW i \in 1 .. n
        PROVE  /\ next[root_targets'[i]] <= Len(deps[root_targets'[i]])
               /\ deps[root_targets'[i]][next[root_targets'[i]]] = root_targets'[i + 1]
    <3>1. CASE i = n
      BY <1>1, <1>2, <3>1
    <3>2. CASE i # n
      <4>1. i \in 1 .. n - 1 /\ i + 1 \in 1 .. n
        BY <1>1, <3>2
      <4>2. QED
        BY <1>2, <4>1 DEF AnalyzerInv, CallsInv
    <3>3. QED
      BY <3>1, <3>2
  <2>4. root_targets' # <<>> /\ root_targets'[1] = root_targets[1]
    BY <1>1, <1>2
  <2>5. Len(root_targets') - 1 = n
    BY <1>1, <1>2
  <2>6. target_id' = {root_targets'[1]} /\ todo' \cap target_id' = {}
        /\ (target_id' = {} \/ \E t \in Targets : target_id' = {t})
    BY <2>4 DEF AnalyzerInv, CallsInv
  <2>7. Range(root_targets') \cap cached' = {}
    BY <1>2 DEF AnalyzerInv, CallsInv
  <2>8. QED
    BY <1>2, <2>3, <2>4, <2>5, <2>6, <2>7 DEF CallsInv
<1>8. QED
  BY <1>3, <1>5, <1>6, <1>7 DEF AnalyzerInv

(* A cached expansion, with its target in front, is what is missing from   *)
(* the list.                                                               *)
LEMMA TakePieceInv ==
    ASSUME AnalyzerInv, NEW c \in Targets, NEW d \in Names, TakePiece(c, d)
    PROVE  AnalyzerInv'
<1> USE DEF TakePiece, At
<1> DEFINE s == deps_map_cache[d]
<1>1. /\ d \in Targets /\ s \in Seq(Targets)
      /\ next[c] \in Nat \ {0} /\ deps[c] \in Seq(Names) /\ expanded_deps[c] = deps[c]
      /\ c \in Targets /\ \A t \in Targets \ {c} : Coming(t) = {}
  BY CallReadsDeps DEF AnalyzerInv, TypeOK
<1>2. AllDepsOf(d, s) /\ Linkable(s) /\ Range(s) \subseteq cached
  BY DEF AnalyzerInv, CacheInv
<1>3. d \notin Range(s)
  <2>1. {d} \in SUBSET cached /\ {d} # {}
    OBVIOUS
  <2>2. \E t \in {d} : Range(deps_map_cache[t]) \cap {d} = {}
    BY <2>1 DEF AnalyzerInv, CacheInv
  <2>3. QED
    BY <2>2
<1> HIDE DEF s
<1>4. new_deps_piece' = <<d>> \o s
  BY DEF s
<1>5. /\ new_deps_piece' \in Seq(Targets)
      /\ IsInjective(new_deps_piece')
      /\ Range(new_deps_piece') = Range(s) \cup {d}
      /\ \A b \in Range(s) : Before(new_deps_piece', d, b)
      /\ \A a, b : Before(s, a, b) => Before(new_deps_piece', a, b)
  <2> HIDE DEF TakePiece, At
  <2> DEFINE q == <<d>> \o s
  <2>1. /\ q \in Seq(Targets)
        /\ IsInjective(q)
        /\ Range(q) = Range(s) \cup {d}
        /\ \A b \in Range(s) : Before(q, d, b)
        /\ \A a, b : Before(s, a, b) => Before(q, a, b)
    <3>1. s \in Seq(Targets) /\ IsInjective(s) /\ d \in Targets /\ d \notin Range(s)
      BY <1>1, <1>2, <1>3 DEF Linkable
    <3>2. QED
      BY ONLY <3>1, ConsProperties
  <2> HIDE DEF q
  <2>2. new_deps_piece' = q
    BY <1>4 DEF q
  <2>3. QED
    BY <2>1, <2>2
<1>6. Linkable(new_deps_piece')
  <2>1. ASSUME NEW a \in Range(new_deps_piece'), NEW b \in Direct(a)
        PROVE  Before(new_deps_piece', a, b)
    <3>1. CASE a = d
      BY <1>2, <1>5, <2>1, <3>1 DEF AllDepsOf
    <3>2. CASE a \in Range(s)
      BY <1>2, <1>5, <2>1, <3>2 DEF Linkable
    <3>3. QED
      BY <1>5, <3>1, <3>2
  <2>2. QED
    BY <1>5, <2>1 DEF Linkable
<1>7. TypeOK'
  <2>1. next' \in [Targets -> Nat \ {0}]
    <3>1. next \in [Targets -> Nat \ {0}]
      BY DEF AnalyzerInv, TypeOK
    <3>2. next' = [next EXCEPT ![c] = @ + 1]
      OBVIOUS
    <3> HIDE DEF TakePiece, At
    <3>3. QED
      BY <3>1, <3>2
  <2>2. QED
    BY <1>5, <2>1 DEF AnalyzerInv, TypeOK
<1>8. /\ Coming(c) = {} /\ Coming(c)' = Range(s) \cup {d}
      /\ \A t \in Targets \ {c} : Coming(t)' = {}
  <2>1. Coming(c) = {}
    BY NothingComing
  <2>2. QED
    BY <1>5, <2>1 DEF Coming
<1>9. d \in Direct(c) /\ d = deps[c][next[c]]
  BY <1>1, InRange DEF Direct
<1>10. next'[c] = next[c] + 1 /\ \A t \in Targets \ {c} : next'[t] = next[t]
  BY DEF AnalyzerInv, TypeOK
<1>11. CallsInv'
  <2>1. ASSUME NEW i \in 1 .. Len(root_targets) - 1
        PROVE  root_targets[i] \in Targets \ {c}
    <3> DEFINE n == Len(root_targets)
    <3>1. root_targets \in Seq(Targets) /\ IsInjective(root_targets)
          /\ c = root_targets[n] /\ n \in Nat \ {0}
      BY CallStack DEF AnalyzerInv, TypeOK, CallsInv
    <3> HIDE DEF TakePiece, At
    <3>2. i \in 1 .. n /\ n \in 1 .. n /\ i # n
      <4> HIDE DEF n
      <4>1. i \in 1 .. n - 1
        BY DEF n
      <4>2. QED
        BY ONLY <3>1, <4>1
    <3>3. root_targets[i] # root_targets[n]
      BY <3>1, <3>2, InRange
    <3>4. root_targets[i] \in Targets
      BY <3>1, <3>2
    <3>5. QED
      BY <3>1, <3>3, <3>4
  <2>2. QED
    BY <1>10, <2>1 DEF AnalyzerInv, CallsInv
<1>12. ListsInv'
  <2>1. Linkable(new_deps_piece)' /\ Range(new_deps_piece') \subseteq cached'
    BY <1>2, <1>5, <1>6 DEF Linkable, Direct
  <2>2. ASSUME NEW t \in Targets
        PROVE  /\ IsInjective(new_deps_list[t])
               /\ Range(new_deps_list[t]) \subseteq cached
               /\ \A a \in Range(new_deps_list[t]) : \A b \in Direct(a) :
                     b \in Coming(t)' \/ Before(new_deps_list[t], a, b)
    <3>1. Coming(t) = {}
      BY <1>1, <1>8
    <3>2. QED
      BY <3>1 DEF AnalyzerInv, ListsInv
  <2>3. ASSUME NEW t \in Targets, NEW j \in 1 .. Len(deps[t]), j < next'[t]
        PROVE  deps[t][j] \in Range(new_deps_list[t]) \cup Coming(t)'
    <3>1. CASE t = c /\ j = next[c]
      BY <1>8, <1>9, <3>1
    <3>2. CASE ~ (t = c /\ j = next[c])
      <4>1. j < next[t]
        BY <1>1, <1>10, <2>3, <3>2
      <4>2. deps[t][j] \in Range(new_deps_list[t]) \cup Coming(t)
        BY <4>1 DEF AnalyzerInv, ListsInv
      <4>3. Coming(t) = {}
        BY <1>1, <1>8
      <4>4. QED
        BY <4>2, <4>3
    <3>3. QED
      BY <3>1, <3>2
  <2>4. ASSUME NEW t \in Targets, NEW S \in SUBSET Names,
               Direct(t) \subseteq S, ClosedUnderDeps(S)
        PROVE  Range(new_deps_list[t]) \cup Coming(t)' \subseteq S
    <3>1. Range(new_deps_list[t]) \subseteq S
      BY <2>4 DEF AnalyzerInv, ListsInv
    <3>2. CASE t = c
      <4>1. d \in S /\ Direct(d) \subseteq S
        BY <1>1, <1>9, <2>4, <3>2 DEF ClosedUnderDeps
      <4>2. Range(s) \subseteq S
        BY <1>2, <2>4, <4>1 DEF AllDepsOf
      <4>3. QED
        BY <1>8, <3>1, <3>2, <4>1, <4>2
    <3>3. CASE t # c
      BY <1>8, <3>1, <3>3
    <3>4. QED
      BY <3>2, <3>3
  <2>5. QED
    BY <2>1, <2>2, <2>3, <2>4 DEF ListsInv, Direct, ClosedUnderDeps
<1>13. CacheInv'
  BY DEF AnalyzerInv, CacheInv, Linkable, AllDepsOf, Direct, ClosedUnderDeps
<1>14. ResultInv'
  BY DEF AnalyzerInv, ResultInv, Unreached, LoopExists, Direct
<1>15. QED
  BY <1>7, <1>11, <1>12, <1>13, <1>14 DEF AnalyzerInv

(* Moving the next entry to the end of the list.                           *)
LEMMA AppendPieceInv ==
    ASSUME AnalyzerInv, NEW c \in Targets, AppendPiece(c)
    PROVE  AnalyzerInv'
<1> USE DEF AppendPiece
<1> DEFINE h == Head(new_deps_piece)
           l == new_deps_list[c]
           m == new_deps_list'[c]
<1>1. new_deps_piece \in Seq(Targets) /\ IsInjective(new_deps_piece)
      /\ root_targets # <<>> /\ l \in Seq(Targets) /\ IsInjective(l)
  BY DEF AnalyzerInv, TypeOK, CallsInv, ListsInv, Linkable
<1>2. /\ h \in Targets /\ new_deps_piece' \in Seq(Targets)
      /\ IsInjective(new_deps_piece')
      /\ Range(new_deps_piece) = Range(new_deps_piece') \cup {h}
      /\ h \notin Range(new_deps_piece')
      /\ \A b : Before(new_deps_piece, h, b) => b \in Range(new_deps_piece')
      /\ \A a, b : a # h /\ Before(new_deps_piece, a, b) => Before(new_deps_piece', a, b)
  BY <1>1, TailProperties
<1> HIDE DEF h
<1>3. m = MoveToEnd(l, h) /\ \A t \in Targets \ {c} : new_deps_list'[t] = new_deps_list[t]
  BY DEF h, AnalyzerInv, TypeOK
<1>4. /\ m \in Seq(Targets)
      /\ IsInjective(m)
      /\ Range(m) = Range(l) \cup {h}
      /\ \A a \in Range(l) \ {h} : Before(m, a, h)
      /\ \A a, b \in Targets : a # h /\ b # h /\ Before(l, a, b) => Before(m, a, b)
  <2> HIDE DEF AppendPiece
  <2> DEFINE q == MoveToEnd(l, h)
  <2> HIDE DEF l
  <2>1. /\ q \in Seq(Targets)
        /\ IsInjective(q)
        /\ Range(q) = Range(l) \cup {h}
        /\ \A a \in Range(l) \ {h} : Before(q, a, h)
        /\ \A a, b \in Targets : a # h /\ b # h /\ Before(l, a, b) => Before(q, a, b)
    <3>1. l \in Seq(Targets) /\ IsInjective(l) /\ h \in Targets
      BY <1>1, <1>2 DEF l
    <3>2. QED
      BY ONLY <3>1, MoveToEndProperties
  <2> HIDE DEF q, m
  <2>2. m = q
    BY <1>3 DEF q, l
  <2>3. QED
    BY <2>1, <2>2
<1>5. /\ Coming(c) = Range(new_deps_piece') \cup {h} /\ Coming(c)' = Range(new_deps_piece')
      /\ \A t \in Targets \ {c} : Coming(t) = {} /\ Coming(t)' = {}
  <2>1. Coming(c) = Range(new_deps_piece) /\ \A t \in Targets \ {c} : Coming(t) = {}
    BY <1>1, CallReadsDeps
  <2>2. QED
    BY <1>1, <1>2, <2>1 DEF Coming
<1>6. TypeOK'
  <2>1. new_deps_list' \in [Targets -> Seq(Targets)]
    BY <1>3, <1>4 DEF AnalyzerInv, TypeOK
  <2>2. QED
    BY <1>2, <2>1 DEF AnalyzerInv, TypeOK
<1>7. CallsInv'
  BY <1>1 DEF AnalyzerInv, CallsInv
<1> HIDE DEF l, m
<1>8. ASSUME NEW a \in Range(m), NEW b \in Direct(a)
      PROVE  b \in Range(new_deps_piece') \/ Before(m, a, b)
  <2>1. CASE a = h
    <3>1. Before(new_deps_piece, a, b)
      BY <1>2, <1>8, <2>1 DEF AnalyzerInv, ListsInv, Linkable
    <3>2. QED
      BY <1>2, <2>1, <3>1
  <2>2. CASE a # h
    <3>1. a \in Range(l) \ {h}
      BY <1>4, <2>2
    <3>2. b \in Coming(c) \/ Before(l, a, b)
      BY <1>8, <3>1 DEF AnalyzerInv, ListsInv, l
    <3>3. CASE b = h
      BY <1>4, <3>1, <3>3
    <3>4. CASE b # h /\ b \in Coming(c)
      BY <1>5, <3>4
    <3>5. CASE b # h /\ Before(l, a, b)
      <4>1. a \in Targets /\ b \in Targets
        BY <1>1, <3>5 DEF Before
      <4>2. QED
        BY <1>4, <2>2, <3>5, <4>1
    <3>6. QED
      BY <3>2, <3>3, <3>4, <3>5
  <2>3. QED
    BY <2>1, <2>2
<1>9. ListsInv'
  <2>1. Linkable(new_deps_piece)' /\ Range(new_deps_piece') \subseteq cached
    BY <1>2 DEF AnalyzerInv, ListsInv, Linkable, Direct
  <2>2. h \in cached
    BY <1>2 DEF AnalyzerInv, ListsInv
  <2>3. ASSUME NEW t \in Targets
        PROVE  Range(new_deps_list'[t]) \cup Coming(t)' = Range(new_deps_list[t]) \cup Coming(t)
    <3>1. CASE t = c
      BY <1>4, <1>5, <3>1 DEF l, m
    <3>2. CASE t # c
      BY <1>3, <1>5, <3>2
    <3>3. QED
      BY <3>1, <3>2
  <2>4. ASSUME NEW t \in Targets
        PROVE  /\ IsInjective(new_deps_list'[t])
               /\ Range(new_deps_list'[t]) \subseteq cached
               /\ \A a \in Range(new_deps_list'[t]) : \A b \in Direct(a) :
                     b \in Coming(t)' \/ Before(new_deps_list'[t], a, b)
    <3>1. CASE t = c
      <4>1. Range(l) \subseteq cached
        BY DEF AnalyzerInv, ListsInv, l
      <4>2. QED
        BY <1>4, <1>5, <1>8, <2>2, <3>1, <4>1 DEF m
    <3>2. CASE t # c
      BY <1>3, <1>5, <3>2 DEF AnalyzerInv, ListsInv
    <3>3. QED
      BY <3>1, <3>2
  <2>5. ASSUME NEW t \in Targets, NEW j \in 1 .. Len(deps[t]), j < next[t]
        PROVE  deps[t][j] \in Range(new_deps_list'[t]) \cup Coming(t)'
    <3>1. deps[t][j] \in Range(new_deps_list[t]) \cup Coming(t)
      BY <2>5 DEF AnalyzerInv, ListsInv
    <3>2. QED
      BY <2>3, <3>1
  <2>6. ASSUME NEW t \in Targets, NEW S \in SUBSET Names,
               Direct(t) \subseteq S, ClosedUnderDeps(S)
        PROVE  Range(new_deps_list'[t]) \cup Coming(t)' \subseteq S
    <3>1. Range(new_deps_list[t]) \cup Coming(t) \subseteq S
      BY <2>6 DEF AnalyzerInv, ListsInv
    <3>2. QED
      BY <2>3, <3>1
  <2>7. QED
    BY <2>1, <2>4, <2>5, <2>6 DEF ListsInv, Direct, ClosedUnderDeps
<1>10. CacheInv'
  BY DEF AnalyzerInv, CacheInv, Linkable, AllDepsOf, Direct, ClosedUnderDeps
<1>11. ResultInv'
  BY DEF AnalyzerInv, ResultInv, Unreached, LoopExists, Direct
<1>12. QED
  BY <1>6, <1>7, <1>9, <1>10, <1>11 DEF AnalyzerInv

(* A list that is complete goes into the cache; its target depends on      *)
(* cached targets only.                                                    *)
LEMMA ReturnListInv ==
    ASSUME AnalyzerInv, NEW c \in Targets, ReturnList(c)
    PROVE  AnalyzerInv'
<1> USE DEF ReturnList
<1> DEFINE n == Len(root_targets)
           l == new_deps_list[c]
<1>1. /\ c \in Targets /\ c \in Range(root_targets) /\ c \notin cached /\ c \in Unreached
      /\ expanded_deps[c] = deps[c]
      /\ \A t \in Targets : Coming(t) = {} /\ Coming(t)' = {}
  <2>1. \A t \in Targets : Coming(t)' = {}
    BY DEF Coming, Range
  <2>2. QED
    BY <2>1, CallReadsDeps, NothingComing
<1>2. /\ root_targets \in Seq(Targets) /\ IsInjective(root_targets)
      /\ n \in Nat \ {0} /\ c = root_targets[n]
      /\ root_targets' \in Seq(Targets)
      /\ Len(root_targets') = n - 1
      /\ \A i \in 1 .. n - 1 : root_targets'[i] = root_targets[i]
  BY CallStack DEF AnalyzerInv, TypeOK, CallsInv
<1>3. deps_map_cache'[c] = l /\ \A t \in Targets \ {c} : deps_map_cache'[t] = deps_map_cache[t]
  BY DEF AnalyzerInv, TypeOK
<1>4. TypeOK'
  BY <1>2 DEF AnalyzerInv, TypeOK
<1>5. /\ IsInjective(l) /\ Range(l) \subseteq cached
      /\ \A a \in Range(l) : \A b \in Direct(a) : Before(l, a, b)
      /\ \A S \in SUBSET Names : Direct(c) \subseteq S /\ ClosedUnderDeps(S) => Range(l) \subseteq S
  BY <1>1 DEF AnalyzerInv, ListsInv
<1>6. Direct(c) \subseteq Range(l)
  <2>1. ASSUME NEW d \in Direct(c) PROVE d \in Range(l)
    <3>1. deps[c] \in Seq(Names) /\ next[c] \in Nat
      BY DEF AnalyzerInv, TypeOK
    <3>2. PICK j \in 1 .. Len(deps[c]) : deps[c][j] = d
      BY <2>1, <3>1, InRange DEF Direct
    <3>3. j < next[c]
      BY <1>1, <3>1
    <3>4. QED
      BY <1>1, <3>2, <3>3 DEF AnalyzerInv, ListsInv
  <2>2. QED
    BY <2>1
<1>7. ClosedUnderDeps(Range(l))
  <2>1. l \in Seq(Targets)
    BY DEF AnalyzerInv, TypeOK
  <2>2. ASSUME NEW a, NEW b, Before(l, a, b) PROVE b \in Range(l)
    BY <2>1, <2>2, InRange DEF Before
  <2>3. QED
    BY <1>5, <2>2 DEF ClosedUnderDeps
<1> HIDE DEF l
<1>8. CacheInv'
  <2>1. ASSUME NEW t \in cached'
        PROVE  /\ AllDepsOf(t, deps_map_cache'[t])
               /\ Linkable(deps_map_cache'[t])
               /\ Range(deps_map_cache'[t]) \subseteq cached
    <3>1. CASE t = c
      BY <1>3, <1>5, <1>6, <1>7, <3>1 DEF AllDepsOf, Linkable
    <3>2. CASE t # c
      <4>1. t \in cached /\ t \in Targets
        BY <2>1, <3>2 DEF AnalyzerInv, TypeOK
      <4>2. deps_map_cache'[t] = deps_map_cache[t]
        BY <1>3, <3>2, <4>1
      <4>3. QED
        BY <4>1, <4>2 DEF AnalyzerInv, CacheInv
    <3>3. QED
      BY <3>1, <3>2
  <2>2. ASSUME NEW S \in SUBSET cached', S # {}
        PROVE  \E t \in S : Range(deps_map_cache'[t]) \cap S = {}
    <3>1. CASE S = {c}
      BY <1>1, <1>3, <1>5, <3>1
    <3>2. CASE S # {c}
      <4>1. S \ {c} \in SUBSET cached /\ S \ {c} # {}
        BY <2>2, <3>2
      <4>2. PICK t \in S \ {c} : Range(deps_map_cache[t]) \cap (S \ {c}) = {}
        BY <4>1 DEF AnalyzerInv, CacheInv
      <4>3. t \in cached /\ t \in Targets /\ c \notin Range(deps_map_cache[t])
        BY <1>1, <4>1 DEF AnalyzerInv, CacheInv, TypeOK
      <4>4. deps_map_cache'[t] = deps_map_cache[t]
        BY <1>3, <4>2, <4>3
      <4>5. Range(deps_map_cache'[t]) \cap S = {}
        BY <4>2, <4>3, <4>4
      <4>6. QED
        BY <4>5
    <3>3. QED
      BY <3>1, <3>2
  <2>3. QED
    BY <2>1, <2>2 DEF CacheInv, AllDepsOf, Linkable, Direct, ClosedUnderDeps
<1>9. ListsInv'
  <2>1. ASSUME NEW t \in Targets PROVE Coming(t)' = Coming(t)
    BY <1>1
  <2>2. QED
    BY <2>1 DEF AnalyzerInv, ListsInv, Linkable, Direct, ClosedUnderDeps
<1>10. ResultInv'
  BY <1>1, <1>3 DEF AnalyzerInv, ResultInv, Unreached, LoopExists, Direct
<1>11. CallsInv'
  <2>1. Range(root_targets') \subseteq Range(root_targets) \ {c}
    BY <1>2, Pop
  <2>2. IsInjective(root_targets')
    BY <1>2, Pop
  <2>3. ASSUME NEW i \in 1 .. Len(root_targets') - 1
        PROVE  /\ next[root_targets'[i]] <= Len(deps[root_targets'[i]])
               /\ deps[root_targets'[i]][next[root_targets'[i]]] = root_targets'[i + 1]
    <3>1. i \in 1 .. n - 1 /\ i + 1 \in 1 .. n - 1
      BY <1>2
    <3>2. QED
      BY <1>2, <3>1 DEF AnalyzerInv, CallsInv
  <2>4. CASE n = 1
    <3>1. root_targets' = <<>>
      BY <1>2, <2>4
    <3>2. target_id = {c}
      BY <1>2, <2>4 DEF AnalyzerInv, CallsInv
    <3>3. QED
      BY <2>1, <2>2, <2>3, <3>1, <3>2 DEF AnalyzerInv, CallsInv
  <2>5. CASE n # 1
    <3>1. root_targets' # <<>> /\ root_targets'[1] = root_targets[1]
      BY <1>2, <2>5
    <3>2. target_id' = {root_targets'[1]}
      BY <3>1 DEF AnalyzerInv, CallsInv
    <3>3. QED
      BY <2>1, <2>2, <2>3, <3>1, <3>2 DEF AnalyzerInv, CallsInv
  <2>6. QED
    BY <2>4, <2>5
<1>12. QED
  BY <1>4, <1>8, <1>9, <1>10, <1>11 DEF AnalyzerInv

(* The expansion and the options of the target the loop is at.             *)
LEMMA ExpandTargetInv ==
    ASSUME AnalyzerInv, NEW t \in Targets, ExpandTarget(t)
    PROVE  AnalyzerInv'
<1> USE DEF ExpandTarget
<1>1. t \in cached /\ t \notin todo /\ Unreached = todo \cup {t} /\ Unreached' = todo
  BY DEF AnalyzerInv, CallsInv, Unreached
<1>2. \A u \in Targets : Coming(u)' = Coming(u)
  BY DEF Coming
<1>3. ListsInv' /\ CacheInv'
  BY <1>2, ListsKept
<1>4. ASSUME NEW u \in Targets, NEW d \in Targets PROVE Imposes(u, d) \subseteq Options
  BY DEF Imposes, Options
<1>5. TypeOK'
  <2>1. data' \in [Targets -> SUBSET Options]
    BY <1>4 DEF AnalyzerInv, TypeOK
  <2>2. expanded_deps' \in [Targets -> Seq(Names)]
    BY AnalyzerAssumption, SeqMonotonic DEF AnalyzerInv, TypeOK
  <2>3. QED
    BY <2>1, <2>2 DEF AnalyzerInv, TypeOK
<1>6. CallsInv'
  BY DEF AnalyzerInv, CallsInv
<1>7. ASSUME NEW u \in Targets
      PROVE  IF u \in Unreached' THEN expanded_deps'[u] = deps[u]
             ELSE u \in cached /\ expanded_deps'[u] = deps_map_cache[u]
  BY <1>1 DEF AnalyzerInv, ResultInv, TypeOK
<1>8. ASSUME NEW d \in Targets, NEW o \in Options
      PROVE  o \in data'[d] <=>
                 \E u \in Targets \ Unreached' :
                     d \in Range(deps_map_cache[u]) /\ o \in Imposes(u, d)
  <2>1. o \in data'[d] <=> \/ o \in data[d]
                           \/ d \in Range(deps_map_cache[t]) /\ o \in Imposes(t, d)
    BY DEF AnalyzerInv, TypeOK
  <2>2. o \in data[d] <=>
            \E u \in Targets \ Unreached :
                d \in Range(deps_map_cache[u]) /\ o \in Imposes(u, d)
    BY DEF AnalyzerInv, ResultInv
  <2>3. Targets \ Unreached' = (Targets \ Unreached) \cup {t}
    BY <1>1
  <2>4. QED
    BY <2>1, <2>2, <2>3
<1>9. ResultInv'
  <2>1. (outcome = "running")'
    OBVIOUS
  <2>2. QED
    BY <1>7, <1>8, <2>1 DEF ResultInv, Imposes
<1>10. QED
  BY <1>3, <1>5, <1>6, <1>9 DEF AnalyzerInv

(* Every step keeps the invariant.                                         *)
LEMMA NextAnalyzerInv == AnalyzerInv /\ [Next]_vars => AnalyzerInv'
<1> SUFFICES ASSUME AnalyzerInv, [Next]_vars PROVE AnalyzerInv'
  OBVIOUS
<1>1. CASE Expanded \/ Terminated \/ UNCHANGED vars
  <2>1. /\ UNCHANGED <<deps, expanded_deps, data, todo, target_id, root_targets, next,
                       new_deps_list, new_deps_piece, cached, deps_map_cache>>
        /\ \/ outcome' = outcome
           \/ outcome' = "done" /\ Unreached = {}
    BY <1>1 DEF Expanded, Terminated, vars, Unreached
  <2>2. \A t \in Targets : Coming(t)' = Coming(t)
    BY <2>1 DEF Coming
  <2>3. ListsInv' /\ CacheInv'
    BY <2>1, <2>2, ListsKept
  <2>4. TypeOK' /\ CallsInv'
    BY <2>1 DEF AnalyzerInv, TypeOK, CallsInv
  <2>5. ResultInv'
    BY <2>1 DEF AnalyzerInv, ResultInv, Unreached, LoopExists, Direct, Imposes
  <2>6. QED
    BY <2>3, <2>4, <2>5 DEF AnalyzerInv
<1>2. QED
  BY <1>1, NextTargetInv, AppendPieceInv, ReturnListInv, ExpandTargetInv,
     LoopDependencyInv, MissingTargetInv, FindAllDepsInv, TakePieceInv DEF Next

(* The recursion, its cache and its lists are in order at every step.      *)
THEOREM Invariance == Spec => []AnalyzerInv
  BY InitAnalyzerInv, NextAnalyzerInv, PTL DEF Spec

(* At the end every target is cached, and its expansion is what the cache  *)
(* holds.                                                                  *)
LEMMA WhenDone ==
    ASSUME AnalyzerInv, outcome = "done", NEW t \in Targets
    PROVE  t \in cached /\ expanded_deps[t] = deps_map_cache[t]
  BY DEF AnalyzerInv, ResultInv

(* _expand_deps replaces the dependencies of a target by all that it needs *)
(* and nothing else, however the dictionary is walked.                     *)
THEOREM ExpansionsAreClosures == Spec => []ExpansionIsClosure
<1>1. AnalyzerInv => ExpansionIsClosure
  BY WhenDone DEF ExpansionIsClosure, AnalyzerInv, CacheInv
<1>2. QED
  BY Invariance, <1>1, PTL

(* The de-duplication of _find_all_deps leaves every target in front of    *)
(* what it depends on.                                                     *)
THEOREM ExpansionsLink == Spec => []LinkOrder
<1>1. AnalyzerInv => LinkOrder
  BY WhenDone DEF LinkOrder, AnalyzerInv, CacheInv
<1>2. QED
  BY Invariance, <1>1, PTL

(* Every set of expanded targets has one that depends on none of the set.  *)
LEMMA LoopsLeaveNothing == AnalyzerInv => LoopsFound
<1> SUFFICES ASSUME AnalyzerInv PROVE LoopsFound
  OBVIOUS
<1>1. ASSUME outcome = "done", NEW S \in SUBSET Targets, S # {}
      PROVE  \E t \in S : Range(expanded_deps[t]) \cap S = {}
  <2>1. S \in SUBSET cached
    BY <1>1, WhenDone
  <2>2. PICK t \in S : Range(deps_map_cache[t]) \cap S = {}
    BY <1>1, <2>1 DEF AnalyzerInv, CacheInv
  <2>3. QED
    BY <1>1, <2>2, WhenDone
<1>2. QED
  BY <1>1 DEF LoopsFound, AnalyzerInv, ResultInv

(* _find_all_deps reports a loop exactly when it meets one, and what it    *)
(* lets through satisfies what TopologicalSort needs to sort everything.   *)
THEOREM LoopsAreFound == Spec => []LoopsFound
  BY Invariance, LoopsLeaveNothing, PTL

(* The options of a target are those of everything that depends on it.     *)
THEOREM OptionsAreComplete == Spec => []OptionsReachAll
<1>1. AnalyzerInv => OptionsReachAll
  <2> SUFFICES ASSUME AnalyzerInv, outcome = "done", NEW d \in Targets, NEW o \in Options
               PROVE  o \in data[d] <=>
                          \E t \in Targets : d \in Range(expanded_deps[t]) /\ o \in Imposes(t, d)
    BY DEF OptionsReachAll
  <2>1. Targets \ Unreached = Targets
    BY DEF AnalyzerInv, ResultInv
  <2>2. o \in data[d] <=>
            \E t \in Targets : d \in Range(deps_map_cache[t]) /\ o \in Imposes(t, d)
    BY <2>1 DEF AnalyzerInv, ResultInv
  <2>3. QED
    BY <2>2, WhenDone
<1>2. QED
  BY Invariance, <1>1, PTL

-----------------------------------------------------------------------------
(* _topological_sort, which puts the expanded targets in order.            *)

(* What a count of zero says.                                              *)
LEMMA CountedWaiting ==
    ASSUME SortInv, NEW y \in Keys
    PROVE  /\ IsFiniteSet(Waiting(y))
           /\ numpreds[y] \in Nat
           /\ numpreds[y] = 0 <=> Waiting(y) = {}
<1>1. Waiting(y) \subseteq Keys
  BY DEF Waiting, SortInv, SortTypeOK
<1>2. IsFiniteSet(Waiting(y))
  BY <1>1, FS_Subset, PairlistsAssumption
<1>3. numpreds[y] = Cardinality(Waiting(y))
  BY DEF SortInv
<1>4. QED
  BY <1>2, <1>3, FS_CardinalityType, FS_EmptySet

(* Appending to answer changes neither what precedes nor what was taken.   *)
LEMMA Collect ==
    ASSUME SortTypeOK, NEW x \in Keys, answer' = Append(answer, x), pos' = pos
    PROVE  /\ answer' \in Seq(Keys)
           /\ Len(answer') = Len(answer) + 1
           /\ answer'[Len(answer) + 1] = x
           /\ \A i \in 1 .. Len(answer) : answer'[i] = answer[i]
           /\ Taken' = Taken
           /\ Listed' = Listed \cup {x}
<1>1. /\ answer' \in Seq(Keys)
      /\ Len(answer') = Len(answer) + 1
      /\ answer'[Len(answer) + 1] = x
      /\ \A i \in 1 .. Len(answer) : answer'[i] = answer[i]
  BY DEF SortTypeOK
<1>2. Len(answer) \in Nat /\ pos \in 0 .. Len(answer)
  BY DEF SortTypeOK
<1>3. Taken' = Taken
  BY <1>1, <1>2 DEF Taken
<1>4. 1 .. Len(answer') = (1 .. Len(answer)) \cup {Len(answer) + 1}
  BY <1>1, <1>2
<1>5. Listed' = Listed \cup {x}
  BY <1>1, <1>2, <1>4 DEF Listed
<1>6. QED
  BY <1>1, <1>3, <1>5

(* The counting loop leaves the number of its dependencies with each       *)
(* target.                                                                 *)
LEMMA InitSortInv == SortInit => SortInv
<1> SUFFICES ASSUME SortInit PROVE SortInv
  OBVIOUS
<1> USE DEF SortInit
<1>1. pairlist \in [Keys -> SUBSET Keys]
  BY PairlistsAssumption
<1>2. ASSUME NEW y \in Keys PROVE Cardinality(pairlist[y]) \in Nat
  BY <1>1, FS_Subset, FS_CardinalityType, PairlistsAssumption
<1>3. Taken = {} /\ Listed = {}
  BY DEF Taken, Listed
<1>4. ASSUME NEW y \in Keys PROVE Waiting(y) = pairlist[y]
  BY <1>3 DEF Waiting
<1>5. DependenciesFirst
  BY DEF DependenciesFirst
<1>6. SortTypeOK
  BY <1>1, <1>2 DEF SortTypeOK
<1>7. QED
  BY <1>3, <1>4, <1>5, <1>6 DEF SortInv

(* The two ways a target is collected keep the list in order.              *)
LEMMA CollectFree ==
    ASSUME SortInv, NEW x \in Keys, x \notin Listed,
           pairlist[x] \subseteq Listed,
           answer' = Append(answer, x), pos' = pos, pairlist' = pairlist
    PROVE  DependenciesFirst'
<1>1. SortTypeOK
  BY DEF SortInv
<1>2. /\ answer' \in Seq(Keys)
      /\ Len(answer') = Len(answer) + 1
      /\ answer'[Len(answer) + 1] = x
      /\ \A i \in 1 .. Len(answer) : answer'[i] = answer[i]
  BY <1>1, Collect
<1>3. Len(answer) \in Nat
  BY <1>1 DEF SortTypeOK
<1>4. DependenciesFirst
  BY DEF SortInv
<1>5. \A i, j \in 1 .. Len(answer') : answer'[i] = answer'[j] => i = j
  BY <1>2, <1>3, <1>4 DEF DependenciesFirst, Listed
<1>6. ASSUME NEW i \in 1 .. Len(answer'), NEW d \in pairlist[answer'[i]]
      PROVE  \E j \in 1 .. i - 1 : answer'[j] = d
  <2>1. CASE i \in 1 .. Len(answer)
    <3>1. PICK j \in 1 .. i - 1 : answer[j] = d
      BY <1>2, <1>4, <1>6, <2>1 DEF DependenciesFirst
    <3>2. j \in 1 .. Len(answer)
      BY <1>3, <2>1
    <3>3. QED
      BY <1>2, <3>1, <3>2
  <2>2. CASE i = Len(answer) + 1
    <3>1. PICK j \in 1 .. Len(answer) : answer[j] = d
      BY <1>2, <1>6, <2>2 DEF Listed
    <3>2. QED
      BY <1>2, <1>3, <2>2, <3>1
  <2>3. QED
    BY <1>2, <1>3, <2>1, <2>2
<1>7. QED
  BY <1>5, <1>6 DEF DependenciesFirst

(* Collecting, taking and knocking down keep every count exact.            *)
LEMMA NextSortInv == SortInv /\ [SortNext]_sortVars => SortInv'
<1> SUFFICES ASSUME SortInv, [SortNext]_sortVars PROVE SortInv'
  OBVIOUS
<1>0. SortTypeOK /\ DependenciesFirst /\ Len(answer) \in Nat
  BY DEF SortInv, SortTypeOK
<1>1. ASSUME NEW x \in Keys, Filter(x) PROVE SortInv'
  <2> USE <1>1 DEF Filter
  <2>1. pos = 0 /\ pending = {} /\ Taken = {}
    BY DEF SortInv, Taken
  <2>2. pairlist[x] = {}
    BY CountedWaiting, <2>1 DEF Waiting
  <2>3. DependenciesFirst'
    BY <2>2, CollectFree
  <2>4. Taken' = Taken /\ Listed' = Listed \cup {x}
        /\ answer' \in Seq(Keys) /\ Len(answer') = Len(answer) + 1
    BY <1>0, Collect
  <2>5. ASSUME NEW y \in Keys PROVE Waiting(y)' = Waiting(y)
    BY <2>1, <2>4 DEF Waiting
  <2>6. SortTypeOK'
    BY <1>0, <2>1, <2>4 DEF SortTypeOK
  <2>7. QED
    <3>1. \A y \in Keys : numpreds'[y] = Cardinality(Waiting(y)')
      BY <2>5 DEF SortInv
    <3>2. \A y \in Listed' : numpreds'[y] = 0
      BY <2>4 DEF SortInv
    <3>3. keys' = Keys \ Taken'
      BY <2>4 DEF SortInv
    <3>4. QED
      BY <2>1, <2>3, <2>6, <3>1, <3>2, <3>3 DEF SortInv, DependenciesFirst
<1>2. CASE Filtered
  <2> USE <1>2 DEF Filtered
  <2>1. Taken' = Taken /\ Listed' = Listed /\ DependenciesFirst'
    BY <1>0 DEF Taken, Listed, DependenciesFirst
  <2>2. ASSUME NEW y \in Keys PROVE Waiting(y)' = Waiting(y)
    BY <2>1 DEF Waiting
  <2>3. QED
    BY <1>0, <2>1, <2>2 DEF SortInv, SortTypeOK, DependenciesFirst
<1>3. CASE Take
  <2> USE <1>3 DEF Take
  <2> DEFINE x == answer[pos + 1]
  <2>1. pos \in Nat /\ pos + 1 \in 1 .. Len(answer) /\ x \in Keys /\ pending = {}
    BY <1>0 DEF SortTypeOK, SortInv
  <2>2. x \notin Taken
    BY <1>0, <2>1 DEF Taken, SortInv
  <2>3. 1 .. pos' = (1 .. pos) \cup {pos + 1}
    BY <2>1
  <2>4. Taken' = Taken \cup {x} /\ Listed' = Listed /\ DependenciesFirst'
    BY <1>0, <2>3 DEF Taken, Listed, DependenciesFirst
  <2>5. ASSUME NEW y \in Keys PROVE Waiting(y)' = Waiting(y)
    BY <2>1, <2>2, <2>4 DEF Waiting, Successors
  <2>6. SortTypeOK'
    BY <1>0, <2>1 DEF SortTypeOK, Successors
  <2>7. keys' = Keys \ Taken'
    BY <2>4 DEF SortInv
  <2>8. pos' > 0 /\ \A y \in pending' : answer[pos'] \in pairlist[y]
    BY <2>1 DEF Successors
  <2>9. QED
    BY <2>4, <2>5, <2>6, <2>7, <2>8 DEF SortInv, DependenciesFirst
<1>4. ASSUME NEW y \in Keys, Knock(y) PROVE SortInv'
  <2> USE <1>4 DEF Knock
  <2> DEFINE x == answer[pos]
  <2>1. /\ pos \in 1 .. Len(answer) /\ x \in pairlist[y]
    BY <1>0 DEF SortInv, SortTypeOK
  <2>2. x \in Waiting(y)
    BY <2>1 DEF Waiting
  <2>3. numpreds[y] # 0 /\ numpreds[y] \in Nat /\ IsFiniteSet(Waiting(y))
    BY <2>2, CountedWaiting
  <2>4. y \notin Listed
    BY <2>3 DEF SortInv
  <2>5. /\ answer' \in Seq(Keys)
        /\ Len(answer') \in Nat /\ Len(answer) <= Len(answer')
        /\ \A i \in 1 .. Len(answer) : answer'[i] = answer[i]
        /\ Taken' = Taken
        /\ Listed' = IF numpreds[y] - 1 = 0 THEN Listed \cup {y} ELSE Listed
    <3>1. CASE numpreds[y] - 1 = 0
      BY <1>0, <3>1, Collect
    <3>2. CASE numpreds[y] - 1 # 0
      BY <1>0, <3>2 DEF SortTypeOK, Taken, Listed
    <3>3. QED
      BY <3>1, <3>2
  <2>6. Waiting(y)' = Waiting(y) \ {x}
    BY <2>1, <2>5 DEF Waiting, Taken
  <2>7. ASSUME NEW z \in Keys, z # y PROVE Waiting(z)' = Waiting(z)
    BY <2>1, <2>5, <2>7 DEF Waiting
  <2>8. numpreds'[y] = numpreds[y] - 1 /\ \A z \in Keys \ {y} : numpreds'[z] = numpreds[z]
    BY <1>0 DEF SortTypeOK
  <2>9. Cardinality(Waiting(y)') = numpreds[y] - 1
    <3>1. Cardinality(Waiting(y)) = numpreds[y]
      BY DEF SortInv
    <3>2. Cardinality(Waiting(y) \ {x}) = Cardinality(Waiting(y)) - 1
      BY <2>2, <2>3, FS_RemoveElement
    <3>3. QED
      BY <2>6, <3>1, <3>2
  <2>10. \A z \in Keys : numpreds'[z] = Cardinality(Waiting(z)')
    BY <2>7, <2>8, <2>9 DEF SortInv
  <2>11. SortTypeOK'
    BY <1>0, <2>1, <2>3, <2>5 DEF SortTypeOK
  <2>12. DependenciesFirst'
    <3>1. CASE numpreds[y] - 1 = 0
      <4>1. Waiting(y) \ {x} = {}
        BY <2>3, <2>6, <2>9, <3>1, FS_RemoveElement, FS_EmptySet
      <4>2. pairlist[y] \subseteq Taken
        BY <2>1, <4>1 DEF Waiting, Taken
      <4>3. Taken \subseteq Listed
        BY <1>0, <2>1 DEF Taken, Listed
      <4>4. QED
        BY <2>4, <3>1, <4>2, <4>3, CollectFree
    <3>2. CASE numpreds[y] - 1 # 0
      BY <1>0, <3>2 DEF DependenciesFirst
    <3>3. QED
      BY <3>1, <3>2
  <2>13. \A z \in Listed' : numpreds'[z] = 0
    BY <1>0, <2>4, <2>5, <2>8 DEF SortInv, Listed, SortTypeOK
  <2>14. \A z \in Keys : numpreds'[z] = 0 => z \in Listed'
    BY <2>5, <2>8 DEF SortInv
  <2>15. answer'[pos'] = x /\ keys' = Keys \ Taken'
    BY <2>1, <2>5 DEF SortInv
  <2>16. QED
    BY <2>1, <2>10, <2>11, <2>12, <2>13, <2>14, <2>15 DEF SortInv, DependenciesFirst
<1>5. CASE Knocked \/ Return \/ Sorted \/ UNCHANGED sortVars
  <2>1. UNCHANGED <<pairlist, keys, numpreds, answer, pos, pending>>
    BY <1>5 DEF Knocked, Return, Sorted, sortVars
  <2>2. Taken' = Taken /\ Listed' = Listed
    BY <2>1 DEF Taken, Listed
  <2>3. ASSUME NEW y \in Keys PROVE Waiting(y)' = Waiting(y)
    BY <2>1, <2>2 DEF Waiting
  <2>4. DependenciesFirst'
    BY <1>0, <2>1 DEF DependenciesFirst
  <2>5. QED
    BY <1>0, <1>5, <2>1, <2>2, <2>3, <2>4
       DEF SortInv, SortTypeOK, DependenciesFirst, Knocked, Return, Sorted, sortVars
<1>6. QED
  BY <1>1, <1>2, <1>3, <1>4, <1>5 DEF SortNext

(* The counts are those of the dependencies still to be taken, and what is *)
(* collected is exactly what has none left.                                *)
THEOREM SortInvariance == SortSpec => []SortInv
  BY InitSortInv, NextSortInv, PTL DEF SortSpec

(* The order _topological_sort returns never puts a target before one it   *)
(* depends on, nor twice.                                                  *)
THEOREM RulesInOrder == SortSpec => []DependenciesFirst
  BY SortInvariance, PTL DEF SortInv

(* The assertion and the deletion in the loop of _topological_sort never   *)
(* fail, whatever the dependencies are.                                    *)
THEOREM AssertionHolds == SortSpec => []TakenAreFree
<1>1. SortInv => TakenAreFree
  <2> SUFFICES ASSUME SortInv PROVE TakenAreFree
    OBVIOUS
  <2>1. \A t \in Keys : numpreds[t] >= 0
    BY CountedWaiting
  <2>2. ASSUME pos < Len(answer)
        PROVE  numpreds[answer[pos + 1]] = 0 /\ answer[pos + 1] \in keys
    <3>1. pos + 1 \in 1 .. Len(answer) /\ pos \in Nat /\ answer[pos + 1] \in Keys
      BY <2>2 DEF SortInv, SortTypeOK
    <3>2. answer[pos + 1] \notin Taken
      BY <3>1 DEF SortInv, Taken
    <3>3. QED
      BY <3>1, <3>2 DEF SortInv, Listed
  <2>3. QED
    BY <2>1, <2>2 DEF TakenAreFree
<1>2. QED
  BY SortInvariance, <1>1, PTL

(* When no loop was let through, every target of the build gets its rules. *)
LEMMA SortIsComplete == SortInv => NoneLeftOut
<1> SUFFICES ASSUME SortInv, phase = "done", Acyclic, Keys \ Listed # {}
             PROVE  FALSE
  BY DEF NoneLeftOut, SortInv, SortTypeOK, Listed
<1>1. PICK t \in Keys \ Listed : pairlist[t] \cap (Keys \ Listed) = {}
  BY DEF Acyclic
<1>2. pairlist[t] \subseteq Taken /\ pending = {}
  BY <1>1 DEF SortInv, SortTypeOK, Taken, Listed
<1>3. numpreds[t] = 0
  BY <1>2, CountedWaiting DEF Waiting
<1>4. QED
  BY <1>1, <1>3 DEF SortInv

(* _topological_sort leaves a target out only if the dependencies it is    *)
(* given have a loop.                                                      *)
THEOREM EveryTargetIsSorted == SortSpec => []NoneLeftOut
  BY SortInvariance, SortIsComplete, PTL

-----------------------------------------------------------------------------
(* analyze_deps: the sort works on what the expansion has left.            *)

Handed ==
    /\ outcome = "done"
    /\ pairlist = [t \in Targets |-> Range(expanded_deps[t])]

AnalysisInv ==
    /\ AnalyzerInv
    /\ \/ phase = "idle" /\ keys = Targets /\ answer = <<>> /\ pos = 0 /\ pending = {}
       \/ phase # "idle" /\ SortInv /\ Handed

(* The call of _topological_sort finds what its counting loop needs.       *)
LEMMA StartSortInv == AnalysisInv /\ StartSort => AnalysisInv'
<1> SUFFICES ASSUME AnalysisInv, StartSort PROVE AnalysisInv'
  OBVIOUS
<1>1. AnalyzerInv'
  <2>1. UNCHANGED vars
    BY DEF StartSort
  <2>2. QED
    BY <2>1, NextAnalyzerInv DEF AnalysisInv
<1>2. pairlist' \in Pairlists
  <2>1. \A t \in Targets : Range(expanded_deps[t]) \subseteq Targets
    BY WhenDone DEF AnalysisInv, StartSort, AnalyzerInv, CacheInv, TypeOK
  <2>2. QED
    BY <2>1, SameTargets DEF StartSort
<1>3. SortInit'
  BY <1>2, SameTargets DEF SortInit, StartSort, AnalysisInv
<1>4. SortInit' => SortInv'
  BY InitSortInv, PTL
<1>5. Handed' /\ phase' # "idle"
  BY DEF Handed, StartSort, vars
<1>6. QED
  BY <1>1, <1>3, <1>4, <1>5 DEF AnalysisInv

LEMMA NextAnalysisInv == AnalysisInv /\ [AnalysisNext]_analysis => AnalysisInv'
<1> SUFFICES ASSUME AnalysisInv, [AnalysisNext]_analysis PROVE AnalysisInv'
  OBVIOUS
<1>1. CASE UNCHANGED sortVars /\ [Next]_vars
  <2>1. AnalyzerInv'
    BY <1>1, NextAnalyzerInv DEF AnalysisInv
  <2>2. CASE phase = "idle"
    BY <1>1, <2>1, <2>2 DEF AnalysisInv, sortVars
  <2>3. CASE phase # "idle"
    <3>1. SortInv' /\ SortInv
      BY <1>1, <2>3, NextSortInv DEF AnalysisInv
    <3>2. UNCHANGED <<outcome, expanded_deps, pairlist, phase>>
      BY <1>1, <2>3
         DEF AnalysisInv, Handed, Next, vars, sortVars, NextTarget, At, AppendPiece,
             ReturnList, ExpandTarget, LoopDependency, MissingTarget, FindAllDeps,
             TakePiece, Expanded, Terminated
    <3>3. QED
      BY <2>1, <2>3, <3>1, <3>2 DEF AnalysisInv, Handed
  <2>4. QED
    BY <2>2, <2>3
<1>2. CASE Sort
  <2>1. phase # "idle" /\ phase' # "idle" /\ pairlist' = pairlist /\ UNCHANGED vars
    BY <1>2 DEF Sort, SortNext, Filter, Knock, Filtered, Take, Knocked, Return, Sorted,
                sortVars
  <2>2. AnalyzerInv'
    BY <2>1, NextAnalyzerInv DEF AnalysisInv
  <2>3. SortInv'
    BY <1>2, <2>1, NextSortInv DEF Sort, AnalysisInv
  <2>4. QED
    BY <2>1, <2>2, <2>3 DEF AnalysisInv, Handed, vars
<1>3. QED
  BY <1>1, <1>2, StartSortInv DEF AnalysisNext, Expand, analysis

(* analyze_deps gives back every target, each after all that its BUILD     *)
(* file names, whatever the graph and the order of the dictionaries: a     *)
(* loop has ended the program before.                                      *)
THEOREM AnalysisIsComplete == AnalysisSpec => []EveryTargetInOrder
<1>1. AnalysisInit => AnalysisInv
  BY InitAnalyzerInv DEF AnalysisInit, AnalysisInv
<1>2. AnalysisInv => EveryTargetInOrder
  <2> SUFFICES ASSUME AnalysisInv, phase = "done" PROVE EveryTargetInOrder
    BY DEF EveryTargetInOrder
  <2>1. SortInv /\ Handed /\ AnalyzerInv
    BY DEF AnalysisInv
  <2>2. Acyclic
    BY <2>1, LoopsLeaveNothing, SameTargets DEF Acyclic, LoopsFound, Handed
  <2>3. Listed = Targets
    BY <2>1, <2>2, SortIsComplete, SameTargets DEF NoneLeftOut
  <2>4. ASSUME NEW i \in 1 .. Len(answer) PROVE Direct(answer[i]) \subseteq pairlist[answer[i]]
    <3>1. answer[i] \in Targets
      BY <2>3 DEF Listed
    <3>2. QED
      BY <2>1, <3>1, WhenDone DEF Handed, AnalyzerInv, CacheInv, AllDepsOf
  <2>5. QED
    BY <2>1, <2>3, <2>4 DEF EveryTargetInOrder, SortInv, DependenciesFirst
<1>3. QED
  BY <1>1, <1>2, NextAnalysisInv, PTL DEF AnalysisSpec
=============================================================================
