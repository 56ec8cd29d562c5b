------------------------- MODULE LazyInstanceProofs -------------------------
(***************************************************************************)
(* Proofs about LazyInstance, for any set of objects of every kind, for    *)
(* any number of threads, and for everything that constructors may use and *)
(* destructors may ask for.                                                *)
(*                                                                         *)
(* The calls of a thread are a sequence of records.  The first part says   *)
(* once what each action does to them, in terms of Depth, Obj, Pc and      *)
(* Todo; the second part says what it does to the rest of the state, and   *)
(* StepCases that there are no other steps; the third part proves the      *)
(* conjuncts of LazyInv one by one; the last part draws the conclusions.   *)
(***************************************************************************)
EXTENDS LazyInstance, FiniteSetTheorems, TLAPS

(* A call, as TypeOK has it.                                               *)
Calling == [obj : Object, pc : PCs, todo : SUBSET Object]

(* What the types say of the calls, of the objects and of the stack.       *)
CallsKnown ==
    \A t \in Thread : \A i \in 1 .. Depth(t) : Obj(t, i) \in Object
UsesKnown ==
    \A o \in Object : \A u \in program.uses[o] :
        u \in Object /\ program.kind[u] # "static"
StackKnown ==
    Height \in Nat /\ \A i \in 1 .. Height : Entry(i) \in Object

(* Call i of thread s is where it was.                                     *)
Stays(s, i) ==
    /\ Obj(s, i)' = Obj(s, i)
    /\ Pc(s, i)' = Pc(s, i)
    /\ Todo(s, i)' = Todo(s, i)

(* The innermost call of thread t, the n-th, for o, goes on from p to q.   *)
Moves(t, n, o, p, q) ==
    /\ n = Depth(t) /\ n \in Nat /\ n >= 1
    /\ Obj(t, n) = o /\ Pc(t, n) = p
    /\ \A s \in Thread : Depth(s) \in Nat /\ Depth(s)' = Depth(s)
    /\ \A s \in Thread : \A i \in 1 .. Depth(s) : (s # t \/ i # n) => Stays(s, i)
    /\ Obj(t, n)' = o /\ Pc(t, n)' = q

(* Thread t, which was idle, begins at q with o.                           *)
Begins(t, o, q) ==
    /\ Depth(t) = 0 /\ Depth(t)' = 1
    /\ \A s \in Thread :
          Depth(s) \in Nat /\ (s # t => Depth(s)' = Depth(s))
    /\ \A s \in Thread : \A i \in 1 .. Depth(s) : Stays(s, i)
    /\ Obj(t, 1)' = o /\ Pc(t, 1)' = q
    /\ \A s \in Thread : \A i \in 1 .. Depth(s)' :
          i \in 1 .. Depth(s) \/ (s = t /\ i = 1)

(* The innermost call of thread t, at p for o, uses u, ...                 *)
Uses(t, n, o, p, u) ==
    /\ n = Depth(t) /\ n \in Nat /\ n >= 1 /\ Depth(t)' = n + 1
    /\ Obj(t, n) = o /\ Pc(t, n) = p
    /\ \A s \in Thread :
          Depth(s) \in Nat /\ (s # t => Depth(s)' = Depth(s))
    /\ \A s \in Thread : \A i \in 1 .. Depth(s) :
          Obj(s, i)' = Obj(s, i) /\ Pc(s, i)' = Pc(s, i)
    /\ Obj(t, n + 1)' = u /\ Pc(t, n + 1)' = "load"
    /\ \A s \in Thread : \A i \in 1 .. Depth(s)' :
          i \in 1 .. Depth(s) \/ (s = t /\ i = n + 1)

(* ... and has it behind it.                                               *)
Takes(t, n, u) ==
    /\ u \in Todo(t, n) /\ Todo(t, n)' = Todo(t, n) \ {u}
    /\ \A s \in Thread : \A i \in 1 .. Depth(s) :
          (s # t \/ i # n) => Todo(s, i)' = Todo(s, i)

(* The innermost call of thread t, at p for o, ends.                       *)
Ends(t, n, o, p) ==
    /\ n = Depth(t) /\ n \in Nat /\ n >= 1 /\ Depth(t)' = n - 1
    /\ Obj(t, n) = o /\ Pc(t, n) = p
    /\ \A s \in Thread :
          Depth(s) \in Nat /\ (s # t => Depth(s)' = Depth(s))
    /\ \A s \in Thread : \A i \in 1 .. Depth(s)' :
          i \in 1 .. Depth(s) /\ Stays(s, i)

Typed == frames' \in [Thread -> Seq(Calling)]

(* A call that goes to another place moves, and nothing else does.         *)
LEMMA GotoMoves ==
    ASSUME TypeOK, NEW t \in Thread, NEW n, n = Depth(t), NEW o, NEW p,
           NEW q \in PCs,
           At(t, o, p), Goto(t, q)
    PROVE  Typed /\ Moves(t, n, o, p, q)
<1> DEFINE m == Len(frames[t])
<1>0. m = n  BY DEF Depth
<1>1. frames \in [Thread -> Seq(Calling)]  BY DEF TypeOK, Calling
<1>2. m \in Nat /\ m >= 1 /\ frames[t] \in Seq(Calling) /\ frames[t][m] \in Calling
    BY <1>1 DEF At, Top
<1>3. frames' = [frames EXCEPT ![t] = [frames[t] EXCEPT ![m] =
                                           [frames[t][m] EXCEPT !.pc = q]]]
    BY DEF Goto
<1>4. [frames[t][m] EXCEPT !.pc = q] = Frame(o, q, Top(t).todo)
    BY <1>2 DEF Calling, Frame, At, Top
<1>5. Frame(o, q, Top(t).todo) \in Calling
    BY <1>2, <1>4 DEF Calling
<1>6. frames'[t] = [frames[t] EXCEPT ![m] = Frame(o, q, Top(t).todo)]
    BY <1>1, <1>3, <1>4
<1>7. frames'[t] \in Seq(Calling) /\ Len(frames'[t]) = m
    BY <1>2, <1>5, <1>6
<1>8. \A s \in Thread : s # t => frames'[s] = frames[s]  BY <1>1, <1>3
<1>9. \A i \in 1 .. m : frames'[t][i] = IF i = m THEN Frame(o, q, Top(t).todo) ELSE frames[t][i]
    BY <1>2, <1>6
<1>10. Typed  BY <1>1, <1>3, <1>7, <1>8 DEF Typed
<1>11. frames[t][m].obj = o /\ frames[t][m].pc = p  BY DEF At, Top
<1>12. frames'[t][m].obj = o /\ frames'[t][m].pc = q  BY <1>2, <1>9 DEF Frame
<1>13. \A s \in Thread : Len(frames[s]) \in Nat  BY <1>1
<1> QED  BY <1>0, <1>2, <1>7, <1>8, <1>9, <1>10, <1>11, <1>12, <1>13
         DEF Moves, Stays, Depth, Obj, Pc, Todo

(* The frame of a call becomes that of its constructor.                    *)
LEMMA StartMoves ==
    ASSUME TypeOK, NEW t \in Thread, NEW n, n = Depth(t), NEW o \in Object,
           NEW T \in SUBSET Object,
           At(t, o, "new"),
           frames' = [frames EXCEPT ![t][Len(frames[t])] = Frame(o, "construct", T)]
    PROVE  /\ Typed /\ Moves(t, n, o, "new", "construct")
           /\ Todo(t, n)' = T
<1> DEFINE m == Len(frames[t])
           f == Frame(o, "construct", T)
<1>0. m = n  BY DEF Depth
<1>1. frames \in [Thread -> Seq(Calling)]  BY DEF TypeOK, Calling
<1>2. m \in Nat /\ m >= 1 /\ frames[t] \in Seq(Calling) /\ frames[t][m] \in Calling
    BY <1>1 DEF At
<1>3. f \in Calling  BY DEF Frame, Calling, PCs
<1>4. f.obj = o /\ f.pc = "construct" /\ f.todo = T  BY DEF Frame
<1> HIDE DEF f
<1>5. frames' = [frames EXCEPT ![t] = [frames[t] EXCEPT ![m] = f]]  BY DEF f
<1>6. frames'[t] = [frames[t] EXCEPT ![m] = f]  BY <1>1, <1>5
<1>7. frames'[t] \in Seq(Calling) /\ Len(frames'[t]) = m  BY <1>2, <1>3, <1>6
<1>8. \A s \in Thread : s # t => frames'[s] = frames[s]  BY <1>1, <1>5
<1>9. \A i \in 1 .. m : frames'[t][i] = IF i = m THEN f ELSE frames[t][i]
    BY <1>2, <1>6
<1>10. Typed  BY <1>1, <1>5, <1>7, <1>8 DEF Typed
<1>11. frames[t][m].obj = o /\ frames[t][m].pc = "new"  BY DEF At, Top
<1>12. \A s \in Thread : Len(frames[s]) \in Nat  BY <1>1
<1> QED  BY <1>0, <1>2, <1>4, <1>7, <1>8, <1>9, <1>10, <1>11, <1>12
         DEF Moves, Stays, Depth, Obj, Pc, Todo

(* The first call of a thread that was idle.                               *)
LEMMA PushBegins ==
    ASSUME TypeOK, NEW t \in Thread, NEW o, NEW q, NEW T,
           Frame(o, q, T) \in Calling,
           frames[t] = <<>>, Push(t, Frame(o, q, T))
    PROVE  Typed /\ Begins(t, o, q)
<1> DEFINE f == Frame(o, q, T)
<1>1. frames \in [Thread -> Seq(Calling)]  BY DEF TypeOK, Calling
<1>2. f.obj = o /\ f.pc = q  BY DEF Frame
<1> HIDE DEF f
<1>3. frames' = [frames EXCEPT ![t] = Append(frames[t], f)]  BY DEF Push, f
<1>4. frames'[t] = Append(frames[t], f)  BY <1>1, <1>3
<1>5. \A s \in Thread : s # t => frames'[s] = frames[s]  BY <1>1, <1>3
<1>6. f \in Calling  BY DEF f
<1>7. Typed  BY <1>1, <1>3, <1>4, <1>5, <1>6 DEF Typed
<1>8. Len(frames[t]) = 0 /\ \A s \in Thread : Len(frames[s]) \in Nat  BY <1>1
<1>9. Len(frames'[t]) = 1 /\ frames'[t][1] = f  BY <1>1, <1>4, <1>6, <1>8
<1>10. \A s \in Thread : \A i \in 1 .. Len(frames'[s]) :
          i \in 1 .. Len(frames[s]) \/ (s = t /\ i = 1)
  <2>1. \A s \in Thread : s # t => Len(frames'[s]) = Len(frames[s])  BY <1>5
  <2>2. \A i \in 1 .. Len(frames'[t]) : i = 1  BY <1>9
  <2> QED  BY <2>1, <2>2
<1>11. \A i \in 1 .. Len(frames[t]) : FALSE  BY <1>8
<1> QED
    BY <1>2, <1>5, <1>7, <1>8, <1>9, <1>10, <1>11
       DEF Begins, Stays, Depth, Obj, Pc, Todo

(* The innermost call is taken away.                                       *)
LEMMA PopEnds ==
    ASSUME TypeOK, NEW t \in Thread, NEW n, n = Depth(t), NEW o, NEW p,
           At(t, o, p), Pop(t)
    PROVE  Typed /\ Ends(t, n, o, p)
<1>1. frames \in [Thread -> Seq(Calling)]  BY DEF TypeOK, Calling
<1>2. frames'[t] = SubSeq(frames[t], 1, Len(frames[t]) - 1)  BY <1>1 DEF Pop
<1>3. \A s \in Thread : s # t => frames'[s] = frames[s]  BY <1>1 DEF Pop
<1>4. Len(frames[t]) \in Nat /\ Len(frames[t]) >= 1 /\ frames[t] \in Seq(Calling)
    BY <1>1 DEF At
<1>5. Len(frames'[t]) = Len(frames[t]) - 1 /\ frames'[t] \in Seq(Calling)
    BY <1>2, <1>4
<1>6. \A i \in 1 .. Len(frames'[t]) : frames'[t][i] = frames[t][i]
    BY <1>2, <1>4, <1>5
<1>7. Typed  BY <1>1, <1>3, <1>5 DEF Typed, Pop
<1>8. /\ frames[t][Len(frames[t])].obj = o /\ frames[t][Len(frames[t])].pc = p
      /\ \A s \in Thread : Len(frames[s]) \in Nat
    BY <1>1 DEF At, Top
<1>9. \A s \in Thread : \A i \in 1 .. Len(frames'[s]) :
          i \in 1 .. Len(frames[s]) /\ frames'[s][i] = frames[s][i]
    BY <1>3, <1>4, <1>5, <1>6, <1>8
<1>10. \A s \in Thread : s # t => Len(frames'[s]) = Len(frames[s])  BY <1>3
<1> QED
    BY <1>4, <1>5, <1>7, <1>8, <1>9, <1>10
       DEF Ends, Stays, Depth, Obj, Pc, Todo

(* A call whose list of uses changes.                                      *)
LEMMA WithTodo ==
    ASSUME NEW c \in Calling, NEW T \in SUBSET Object
    PROVE  [c EXCEPT !.todo = T] = Frame(c.obj, c.pc, T)
BY DEF Calling, Frame

(* A constructor or a destructor calls, and has this use behind it.        *)
LEMMA UseFrames ==
    ASSUME TypeOK, NEW t \in Thread, NEW n, n = Depth(t), NEW o \in Object,
           NEW u \in Object,
           NEW p, Use(t, o, u), At(t, o, p)
    PROVE  Typed /\ Uses(t, n, o, p, u) /\ Takes(t, n, u)
<1> DEFINE m == Len(frames[t])
           f == Frame(o, Top(t).pc, Top(t).todo \ {u})
           g == Frame(u, "load", {})
<1>0. m = n  BY DEF Depth
<1>1. frames \in [Thread -> Seq(Calling)]  BY DEF TypeOK, Calling
<1>2. m \in Nat /\ m >= 1 /\ frames[t] \in Seq(Calling) /\ frames[t][m] \in Calling
    BY <1>1 DEF Use, At, Top
<1>3. frames'[t] = Append([frames[t] EXCEPT ![m] =
                            [frames[t][m] EXCEPT !.todo = Top(t).todo \ {u}]], g)
    BY <1>1 DEF Use
<1>4. frames[t][m].obj = o /\ Top(t) = frames[t][m]  BY DEF Use, At, Top
<1>41. [frames[t][m] EXCEPT !.todo = Top(t).todo \ {u}] = f
  <2>1. Top(t).todo \ {u} \in SUBSET Object  BY <1>2, <1>4 DEF Calling
  <2>2. [frames[t][m] EXCEPT !.todo = Top(t).todo \ {u}]
            = Frame(frames[t][m].obj, frames[t][m].pc, Top(t).todo \ {u})
      BY <1>2, <2>1, WithTodo
  <2> QED  BY <2>2, <1>4, Zenon
<1>51. f \in Calling  BY <1>2, <1>4 DEF Calling, Frame
<1>52. g \in Calling  BY DEF Calling, Frame, PCs
<1>5. f \in Calling /\ g \in Calling  BY <1>51, <1>52
<1>6. frames'[t] = Append([frames[t] EXCEPT ![m] = f], g)  BY <1>3, <1>41
<1>7. [frames[t] EXCEPT ![m] = f] \in Seq(Calling) /\ Len([frames[t] EXCEPT ![m] = f]) = m
    BY <1>2, <1>5
<1>8. frames'[t] \in Seq(Calling) /\ Len(frames'[t]) = m + 1
    BY <1>5, <1>6, <1>7
<1>9. /\ \A i \in 1 .. m : frames'[t][i] = IF i = m THEN f ELSE frames[t][i]
      /\ frames'[t][m + 1] = g
    BY <1>2, <1>5, <1>6, <1>7
<1>10. \A s \in Thread : s # t => frames'[s] = frames[s]  BY <1>1 DEF Use
<1>11. Typed  BY <1>1, <1>8, <1>10 DEF Typed, Use
<1>12. f.obj = o /\ f.pc = p /\ f.todo = frames[t][m].todo \ {u} /\ g.obj = u /\ g.pc = "load"
    BY <1>4 DEF Frame, At
<1>13. frames[t][m].obj = o /\ frames[t][m].pc = p /\ \A s \in Thread : Len(frames[s]) \in Nat
    BY <1>1, <1>4 DEF At
<1> HIDE DEF f, g
<1>14. \A s \in Thread : \A i \in 1 .. Len(frames[s]) :
          /\ frames'[s][i].obj = frames[s][i].obj /\ frames'[s][i].pc = frames[s][i].pc
          /\ (s # t \/ i # m) => frames'[s][i].todo = frames[s][i].todo
    BY <1>2, <1>9, <1>10, <1>12, <1>13
<1>15. \A s \in Thread : \A i \in 1 .. Len(frames'[s]) :
          i \in 1 .. Len(frames[s]) \/ (s = t /\ i = m + 1)
    BY <1>2, <1>8, <1>10, <1>13
<1>16. Uses(t, n, o, p, u)
    BY <1>2, <1>8, <1>9, <1>10, <1>12, <1>13, <1>14, <1>15, <1>0
       DEF Uses, Depth, Obj, Pc
<1>17. frames'[t][m].todo = frames[t][m].todo \ {u}  BY <1>2, <1>9, <1>12
<1>18. u \in frames[t][m].todo  BY DEF Use, Top
<1>19. Takes(t, n, u)  BY <1>0, <1>14, <1>17, <1>18 DEF Takes, Depth, Todo
<1> QED  BY <1>11, <1>16, <1>19

(* Calls, programs and the stack name objects.                             *)
LEMMA KnownObjects ==
    ASSUME TypeOK
    PROVE  CallsKnown /\ UsesKnown /\ StackKnown
<1>1. ASSUME NEW t \in Thread, NEW i \in 1 .. Len(frames[t])
     PROVE  Obj(t, i) \in Object
  <2>1. frames[t] \in Seq(Calling)  BY DEF TypeOK, Calling
  <2>2. frames[t][i] \in Calling  BY <2>1
  <2> QED  BY <2>2 DEF Calling, Obj
<1>2. CallsKnown  BY <1>1 DEF CallsKnown, Depth
<1>3. UsesKnown  BY LazyAssumption DEF TypeOK, UsesKnown
<1>4. StackKnown  BY DEF TypeOK, StackKnown, Height, Entry
<1> QED  BY <1>2, <1>3, <1>4

-----------------------------------------------------------------------------
(* What each step does to the calls.                                       *)
LEMMA CallFrames ==
    ASSUME TypeOK, NEW t \in Thread, NEW o \in Object, Call(t, o)
    PROVE  Typed /\ Begins(t, o, "load")
<1>1. Frame(o, "load", {}) \in Calling  BY DEF Frame, Calling, PCs
<1> QED  BY <1>1, PushBegins DEF Call

LEMMA LoadFrames ==
    ASSUME TypeOK, NEW t \in Thread, NEW n, n = Depth(t), NEW o \in Object,
           Load(t, o)
    PROVE  Typed /\ Moves(t, n, o, "load", IF state_[o] = "CREATED" THEN "return" ELSE "cas")
<1>1. (IF state_[o] = "CREATED" THEN "return" ELSE "cas") \in PCs  BY DEF PCs
<1> QED  BY <1>1, GotoMoves DEF Load

LEMMA SwapFrames ==
    ASSUME TypeOK, NEW t \in Thread, NEW n, n = Depth(t), NEW o \in Object,
           CompareAndSwap(t, o)
    PROVE  Typed /\ Moves(t, n, o, "cas", IF state_[o] = "EMPTY" THEN "new" ELSE "spin")
<1>1. "new" \in PCs /\ "spin" \in PCs  BY DEF PCs
<1> QED  BY <1>1, GotoMoves DEF CompareAndSwap

LEMMA SpinFrames ==
    ASSUME TypeOK, NEW t \in Thread, NEW n, n = Depth(t), NEW o \in Object,
           Spin(t, o)
    PROVE  Typed /\ Moves(t, n, o, "spin", IF state_[o] = "CREATED" THEN "return" ELSE "return_null")
<1>1. (IF state_[o] = "CREATED" THEN "return" ELSE "return_null") \in PCs
    BY DEF PCs
<1> QED  BY <1>1, GotoMoves DEF Spin

LEMMA NewFrames ==
    ASSUME TypeOK, NEW t \in Thread, NEW n, n = Depth(t), NEW o \in Object,
           New(t, o)
    PROVE  /\ Typed
           /\ o \in dead_ => Moves(t, n, o, "new", "store_null")
           /\ o \notin dead_ => /\ Moves(t, n, o, "new", "construct")
                               /\ Todo(t, n)' = program.uses[o]
<1>1. CASE o \in dead_
  <2>1. "store_null" \in PCs  BY DEF PCs
  <2> QED  BY <1>1, <2>1, GotoMoves DEF New
<1>2. CASE o \notin dead_
  <2>1. program.uses[o] \in SUBSET Object  BY LazyAssumption DEF TypeOK
  <2>2. /\ At(t, o, "new")
        /\ frames' = [frames EXCEPT ![t][Len(frames[t])] =
                          Frame(o, "construct", program.uses[o])]
      BY <1>2 DEF New
  <2> QED  BY <1>2, <2>1, <2>2, StartMoves
<1> QED  BY <1>1, <1>2

LEMMA ConstructedFrames ==
    ASSUME TypeOK, NEW t \in Thread, NEW n, n = Depth(t), NEW o \in Object,
           Constructed(t, o)
    PROVE  Typed /\ Moves(t, n, o, "construct", "store")
<1>1. "store" \in PCs  BY DEF PCs
<1> QED  BY <1>1, GotoMoves DEF Constructed

LEMMA StoreFrames ==
    ASSUME TypeOK, NEW t \in Thread, NEW n, n = Depth(t), NEW o \in Object,
           Store(t, o)
    PROVE  /\ Typed
           /\ Moves(t, n, o, "store", IF Leaks(program.kind[o]) THEN "return" ELSE "register")
<1>1. (IF Leaks(program.kind[o]) THEN "return" ELSE "register") \in PCs
    BY DEF PCs
<1> QED  BY <1>1, GotoMoves DEF Store

LEMMA StoreNullFrames ==
    ASSUME TypeOK, NEW t \in Thread, NEW n, n = Depth(t), NEW o \in Object,
           StoreNull(t, o)
    PROVE  Typed /\ Moves(t, n, o, "store_null", "return_null")
<1>1. "return_null" \in PCs  BY DEF PCs
<1> QED  BY <1>1, GotoMoves DEF StoreNull

LEMMA RegisterFrames ==
    ASSUME TypeOK, NEW t \in Thread, NEW n, n = Depth(t), NEW o \in Object,
           RegisterCallback(t, o)
    PROVE  Typed /\ Moves(t, n, o, "register", "return")
<1>1. "return" \in PCs  BY DEF PCs
<1> QED  BY <1>1, GotoMoves DEF RegisterCallback

LEMMA ReturnFrames ==
    ASSUME TypeOK, NEW t \in Thread, NEW n, n = Depth(t), NEW o \in Object,
           Return(t, o)
    PROVE  Typed /\ \E p \in {"return", "return_null"} : Ends(t, n, o, p)
BY PopEnds DEF Return

LEMMA CallBackFrames ==
    ASSUME TypeOK, NEW o \in Object, CallBack(o)
    PROVE  Typed /\ Begins(Main, o, "destruct")
<1>1. program.asks[o] \subseteq Object /\ Main \in Thread
    BY LazyAssumption DEF TypeOK
<1>2. Frame(o, "destruct", program.asks[o]) \in Calling
    BY <1>1 DEF Frame, Calling, PCs
<1> QED  BY <1>1, <1>2, PushBegins DEF CallBack

LEMMA DestructedFrames ==
    ASSUME TypeOK, NEW n, n = Depth(Main), NEW o \in Object, Destructed(o)
    PROVE  Typed /\ Ends(Main, n, o, "destruct")
BY PopEnds, LazyAssumption DEF Destructed

-----------------------------------------------------------------------------
(* One step of a thread or of the exit, without the sequences: what moves, *)
(* and what it changes for its object.                                     *)
Sets(new, old, o, v) ==
    /\ new[o] = v
    /\ \A x \in Object : x # o => new[x] = old[x]

(* A call goes on to wait for the object or to return it.                  *)
Waits(t, n, o, p, q) ==
    /\ Moves(t, n, o, p, q)
    /\ p \in {"load", "cas", "spin"} /\ q \in {"cas", "spin", "return", "return_null"}
    /\ q = "return" => state_[o] = "CREATED"
    /\ q = "cas" => state_[o] # "CREATED"
    /\ q = "spin" => p = "cas" /\ state_[o] # "EMPTY"
    /\ q = "return_null" => p = "spin" /\ state_[o] = "EMPTY"
    /\ UNCHANGED <<program, state_, dead_, object, stack_, lock_, phase,
                   overtaken, gone>>

(* Load() only waits or finds the object.                                  *)
LEMMA LoadStep ==
    ASSUME TypeOK, NEW t \in Thread, NEW n, n = Depth(t), NEW o \in Object,
           Load(t, o)
    PROVE  \E p, q : Waits(t, n, o, p, q)
<1>1. Waits(t, n, o, "load", IF state_[o] = "CREATED" THEN "return" ELSE "cas")
    BY LoadFrames DEF Load, Waits
<1> QED  BY <1>1

(* So does the loop of the threads that do not create it.                  *)
LEMMA SpinStep ==
    ASSUME TypeOK, NEW t \in Thread, NEW n, n = Depth(t), NEW o \in Object,
           Spin(t, o)
    PROVE  \E p, q : Waits(t, n, o, p, q)
<1>1. state_[o] # "CREATED" => state_[o] = "EMPTY"
    BY DEF TypeOK, Spin
<1>2. Waits(t, n, o, "spin", IF state_[o] = "CREATED" THEN "return" ELSE "return_null")
    BY <1>1, SpinFrames DEF Spin, Waits
<1> QED  BY <1>2

(* The thread that found EMPTY creates the object.                         *)
Swaps(t, n, o) ==
    /\ Moves(t, n, o, "cas", "new")
    /\ state_[o] = "EMPTY" /\ Sets(state_', state_, o, "CREATING")
    /\ UNCHANGED <<program, dead_, object, stack_, lock_, phase, overtaken,
                   gone>>

(* NeedsInstance(): the swap, or the wait.                                 *)
LEMMA SwapStep ==
    ASSUME TypeOK, NEW t \in Thread, NEW n, n = Depth(t), NEW o \in Object,
           CompareAndSwap(t, o)
    PROVE  Swaps(t, n, o) \/ \E p, q : Waits(t, n, o, p, q)
<1>1. CASE state_[o] = "EMPTY"
  <2>1. Sets(state_', state_, o, "CREATING")
      BY <1>1 DEF CompareAndSwap, TypeOK, Sets
  <2> QED  BY <1>1, <2>1, SwapFrames DEF CompareAndSwap, Swaps
<1>2. CASE state_[o] # "EMPTY"
  <2>1. Waits(t, n, o, "cas", "spin")
      BY <1>2, SwapFrames DEF CompareAndSwap, Waits
  <2> QED  BY <2>1
<1> QED  BY <1>1, <1>2

(* Traits::New of an object that is not to be revived, ...                 *)
Refuses(t, n, o) ==
    /\ Moves(t, n, o, "new", "store_null")
    /\ o \in dead_
    /\ \A x \in dead_' : x \in dead_
    /\ UNCHANGED <<program, state_, object, stack_, lock_, phase, overtaken,
                   gone>>

(* ... and of every other one.                                             *)
Starts(t, n, o) ==
    /\ Moves(t, n, o, "new", "construct")
    /\ Todo(t, n)' = program.uses[o]
    /\ Sets(object', object, o, "building")
    /\ \A x \in dead_' : x \in dead_ \/ (x = o /\ program.kind[o] = "static")
    /\ UNCHANGED <<program, state_, stack_, lock_, phase, overtaken, gone>>

(* Traits::New refuses or starts the constructor.                          *)
LEMMA NewStep ==
    ASSUME TypeOK, NEW t \in Thread, NEW n, n = Depth(t), NEW o \in Object,
           New(t, o)
    PROVE  Refuses(t, n, o) \/ Starts(t, n, o)
<1>1. CASE o \in dead_
    BY <1>1, NewFrames DEF New, Refuses
<1>2. CASE o \notin dead_
  <2>1. Sets(object', object, o, "building")
      BY <1>2 DEF New, TypeOK, Sets
  <2>2. \A x \in dead_' : x \in dead_ \/ (x = o /\ program.kind[o] = "static")
      BY DEF New
  <2> QED  BY <1>2, <2>1, <2>2, NewFrames DEF New, Starts
<1> QED  BY <1>1, <1>2

Asks(t, n, o, u) ==
    /\ u \in Object /\ Takes(t, n, u)
    /\ \E p \in {"construct", "destruct"} : Uses(t, n, o, p, u)
    /\ UNCHANGED <<program, state_, dead_, object, stack_, lock_, phase,
                   overtaken, gone>>

(* A constructor or a destructor asks for another object.                  *)
LEMMA UseStep ==
    ASSUME TypeOK, NEW t \in Thread, NEW n, n = Depth(t), NEW o \in Object,
           NEW u \in Object, Use(t, o, u)
    PROVE  Asks(t, n, o, u)
<1>1. Takes(t, n, u) /\ \E p \in {"construct", "destruct"} : Uses(t, n, o, p, u)
    BY UseFrames DEF Use
<1> QED  BY <1>1 DEF Use, Asks

Finishes(t, n, o) ==
    /\ Moves(t, n, o, "construct", "store")
    /\ Todo(t, n) = {}
    /\ Sets(object', object, o, "live")
    /\ UNCHANGED <<program, state_, dead_, stack_, lock_, phase, overtaken,
                   gone>>

(* The constructor has returned.                                           *)
LEMMA ConstructedStep ==
    ASSUME TypeOK, NEW t \in Thread, NEW n, n = Depth(t), NEW o \in Object,
           Constructed(t, o)
    PROVE  Finishes(t, n, o)
<1>1. Sets(object', object, o, "live")  BY DEF Constructed, TypeOK, Sets
<1>2. Todo(t, n) = {}  BY DEF Constructed, Top, Todo, Depth
<1> QED  BY <1>1, <1>2, ConstructedFrames DEF Constructed, Finishes

Stores(t, n, o) ==
    /\ \/ Moves(t, n, o, "store", "return") /\ Leaks(program.kind[o])
       \/ Moves(t, n, o, "store", "register") /\ ~Leaks(program.kind[o])
    /\ Sets(state_', state_, o, "CREATED")
    /\ UNCHANGED <<program, dead_, object, stack_, lock_, phase, overtaken,
                   gone>>

(* The object is published.                                                *)
LEMMA StoreStep ==
    ASSUME TypeOK, NEW t \in Thread, NEW n, n = Depth(t), NEW o \in Object,
           Store(t, o)
    PROVE  Stores(t, n, o)
<1>1. Sets(state_', state_, o, "CREATED")  BY DEF Store, TypeOK, Sets
<1> QED  BY <1>1, StoreFrames DEF Store, Stores

StoresNull(t, n, o) ==
    /\ Moves(t, n, o, "store_null", "return_null")
    /\ Sets(state_', state_, o, "EMPTY")
    /\ UNCHANGED <<program, dead_, object, stack_, lock_, phase, overtaken,
                   gone>>

(* There is none to be published.                                          *)
LEMMA StoreNullStep ==
    ASSUME TypeOK, NEW t \in Thread, NEW n, n = Depth(t), NEW o \in Object,
           StoreNull(t, o)
    PROVE  StoresNull(t, n, o)
<1>1. Sets(state_', state_, o, "EMPTY")  BY DEF StoreNull, TypeOK, Sets
<1> QED  BY <1>1, StoreNullFrames DEF StoreNull, StoresNull

Registers(t, n, o) ==
    /\ Moves(t, n, o, "register", "return")
    /\ lock_ = Nobody
    /\ Height' = Height + 1 /\ Entry(1)' = o
    /\ \A i \in 1 .. Height : Entry(i + 1)' = Entry(i)
    /\ \A i \in 1 .. Height' : i = 1 \/ (i - 1 \in 1 .. Height /\ Entry(i)' = Entry(i - 1))
    /\ \A u \in overtaken : u \in overtaken'
    /\ \A u \in program.uses[o] :
          Leaks(program.kind[u]) \/ u \in overtaken' \/ \E i \in 1 .. Height : Entry(i) = u
    /\ UNCHANGED <<program, state_, dead_, object, lock_, phase, gone>>

(* The callback becomes the first of the stack.                            *)
LEMMA RegisterStep ==
    ASSUME TypeOK, NEW t \in Thread, NEW n, n = Depth(t), NEW o \in Object,
           RegisterCallback(t, o)
    PROVE  Registers(t, n, o)
<1>1. /\ Height' = Height + 1 /\ Entry(1)' = o
      /\ \A i \in 1 .. Height : Entry(i + 1)' = Entry(i)
      /\ \A i \in 1 .. Height' : i = 1 \/ (i - 1 \in 1 .. Height /\ Entry(i)' = Entry(i - 1))
    BY DEF RegisterCallback, TypeOK, Height, Entry
<1>2. \A u \in program.uses[o] :
          Leaks(program.kind[u]) \/ u \in overtaken' \/ \E i \in 1 .. Height : Entry(i) = u
  <2>1. DOMAIN stack_ = 1 .. Height  BY DEF TypeOK, Height
  <2>2. overtaken' = overtaken \cup
            {u \in program.uses[o] \ Registered : ~Leaks(program.kind[u])}
      BY DEF RegisterCallback
  <2> QED  BY <2>1, <2>2 DEF Registered, Entry
<1>3. \A u \in overtaken : u \in overtaken'  BY DEF RegisterCallback
<1> QED  BY <1>1, <1>2, <1>3, RegisterFrames DEF RegisterCallback, Registers

Gives(t, n, o, p) ==
    /\ p \in {"return", "return_null"} /\ Ends(t, n, o, p)
    /\ UNCHANGED <<program, state_, dead_, object, stack_, lock_, phase,
                   overtaken, gone>>

(* A call returns.                                                         *)
LEMMA ReturnStep ==
    ASSUME TypeOK, NEW t \in Thread, NEW n, n = Depth(t), NEW o \in Object,
           Return(t, o)
    PROVE  \E p : Gives(t, n, o, p)
BY ReturnFrames DEF Return, Gives

Wants(t, o) ==
    /\ phase = "run" /\ Begins(t, o, "load")
    /\ UNCHANGED <<program, state_, dead_, object, stack_, lock_, phase,
                   overtaken, gone>>

(* A thread of the program calls.                                          *)
LEMMA CallStep ==
    ASSUME TypeOK, NEW t \in Thread, NEW o \in Object, Call(t, o)
    PROVE  Wants(t, o)
BY CallFrames DEF Call, Wants

CallsBack(o) ==
    /\ phase = "exit" /\ Begins(Main, o, "destruct")
    /\ Height >= 1 /\ o = Entry(1) /\ Height' = Height - 1
    /\ \A i \in 1 .. Height' : i + 1 \in 1 .. Height /\ Entry(i)' = Entry(i + 1)
    /\ \A i \in 1 .. Height : i = 1 \/ (i - 1 \in 1 .. Height' /\ Entry(i - 1)' = Entry(i))
    /\ Sets(object', object, o, "dying")
    /\ Sets(state_', state_, o, IF IsLazy(program.kind[o]) THEN state_[o] ELSE "EMPTY")
    /\ \A x \in dead_' : x \in dead_ \/ (x = o /\ program.kind[o] = "static")
    /\ UNCHANGED <<program, lock_, phase, overtaken, gone>>

(* The first callback of the stack is taken from it and runs.              *)
LEMMA CallBackStep ==
    ASSUME TypeOK, NEW o \in Object, CallBack(o)
    PROVE  CallsBack(o)
<1>1. /\ Height >= 1 /\ o = Entry(1) /\ Height' = Height - 1
      /\ \A i \in 1 .. Height' : i + 1 \in 1 .. Height /\ Entry(i)' = Entry(i + 1)
      /\ \A i \in 1 .. Height : i = 1 \/ (i - 1 \in 1 .. Height' /\ Entry(i - 1)' = Entry(i))
    BY DEF CallBack, TypeOK, Height, Entry
<1>2. Sets(object', object, o, "dying")  BY DEF CallBack, TypeOK, Sets
<1>3. Sets(state_', state_, o, IF IsLazy(program.kind[o]) THEN state_[o] ELSE "EMPTY")
    BY DEF CallBack, TypeOK, Sets
<1>4. \A x \in dead_' : x \in dead_ \/ (x = o /\ program.kind[o] = "static")
    BY DEF CallBack
<1> QED  BY <1>1, <1>2, <1>3, <1>4, CallBackFrames DEF CallBack, CallsBack

Destroys(n, o) ==
    /\ Ends(Main, n, o, "destruct")
    /\ Sets(object', object, o, "none")
    /\ Sets(state_', state_, o, IF IsLazy(program.kind[o]) THEN "EMPTY" ELSE state_[o])
    /\ gone' = gone \cup {o}
    /\ UNCHANGED <<program, dead_, stack_, lock_, phase, overtaken>>

(* The destructor has returned.                                            *)
LEMMA DestructedStep ==
    ASSUME TypeOK, NEW n, n = Depth(Main), NEW o \in Object, Destructed(o)
    PROVE  Destroys(n, o)
<1>1. Sets(object', object, o, "none")  BY DEF Destructed, TypeOK, Sets
<1>2. Sets(state_', state_, o, IF IsLazy(program.kind[o]) THEN "EMPTY" ELSE state_[o])
    BY DEF Destructed, TypeOK, Sets
<1> QED  BY <1>1, <1>2, DestructedFrames DEF Destructed, Destroys

(* What does not concern one object.                                       *)
Idle ==
    /\ \A t \in Thread : Depth(t) = 0 /\ Depth(t)' = 0
    /\ UNCHANGED <<program, state_, object, stack_, gone>>
    /\ \A x \in dead_' : x \in dead_
    /\ \/ phase = "run" /\ phase' = "run" /\ UNCHANGED <<lock_, overtaken>>
       \/ phase = "run" /\ phase' = "exit" /\ lock_' = Main /\ UNCHANGED overtaken
       \/ /\ phase = "exit" /\ phase' # "exit" /\ lock_' = Nobody
          /\ overtaken' = {} /\ Height = 0

(* The exit begins when no thread calls.                                   *)
LEMMA ProcessStep ==
    ASSUME ProcessCallbacksNow
    PROVE  Idle
BY DEF ProcessCallbacksNow, Idle, Depth

(* A static-memory object may be revived when no thread calls.             *)
LEMMA ResurrectStep ==
    ASSUME NEW o \in Object, Resurrect(o)
    PROVE  Idle
BY DEF Resurrect, Idle, Depth

(* The exit ends with an empty stack.                                      *)
LEMMA ProcessedStep ==
    ASSUME ExitIsAlone, Processed
    PROVE  Idle
BY DEF Processed, ExitIsAlone, Idle, Depth, Height

(* A stuttering step, as the parts of the invariant see it.                *)
Nothing ==
    UNCHANGED <<program, state_, dead_, object, frames, stack_, lock_, phase,
                overtaken, gone>>

(* Every step is one of a thread ...                                       *)
ThreadStep(t, n, o) ==
    \/ Wants(t, o) \/ (\E p, q : Waits(t, n, o, p, q)) \/ Swaps(t, n, o)
    \/ Refuses(t, n, o) \/ Starts(t, n, o) \/ (\E u : Asks(t, n, o, u))
    \/ Finishes(t, n, o) \/ Stores(t, n, o) \/ StoresNull(t, n, o) \/ Registers(t, n, o)
    \/ (\E p : Gives(t, n, o, p))

(* ... or begins or ends the exit, calls back, or does nothing.            *)
LEMMA StepCases ==
    ASSUME LazyInv, [Next]_vars
    PROVE  \/ Nothing \/ Idle
           \/ \E o \in Object : CallsBack(o) \/ \E n : Destroys(n, o)
           \/ \E t \in Thread : \E n : \E o \in Object : ThreadStep(t, n, o)
<1>1. TypeOK /\ ExitIsAlone  BY DEF LazyInv
<1>2. CASE UNCHANGED vars  BY <1>2 DEF vars, Nothing
<1>3. CASE Exit
    BY <1>1, <1>3, ProcessStep, ProcessedStep, CallBackStep, DestructedStep
       DEF Exit
<1>4. ASSUME NEW t \in Thread, NEW n, n = Depth(t), Step(t)
     PROVE  \E o \in Object : ThreadStep(t, n, o)
    BY <1>1, <1>4, LoadStep, SwapStep, SpinStep, NewStep, UseStep,
       ConstructedStep,
       StoreStep, StoreNullStep, RegisterStep, ReturnStep DEF Step, ThreadStep
<1>5. ASSUME NEW t \in Thread, NEW o \in Object, Call(t, o)
     PROVE  ThreadStep(t, 0, o)
    BY <1>1, <1>5, CallStep DEF ThreadStep
<1>6. CASE \E o \in Object : Resurrect(o)  BY <1>6, ResurrectStep
<1> QED  BY <1>2, <1>3, <1>4, <1>5, <1>6 DEF Next

-----------------------------------------------------------------------------
(* The lock and the other threads at exit.                                 *)
LEMMA NextExitIsAlone ==
    ASSUME LazyInv, [Next]_vars
    PROVE  ExitIsAlone'
<1>0. ExitIsAlone /\ Main \in Thread
    BY LazyAssumption, KnownObjects DEF LazyInv
<1>1. CASE Nothing
    BY <1>0, <1>1 DEF ExitIsAlone, Depth, Obj, Pc, Todo, Nothing
<1>2. CASE Idle
    BY <1>0, <1>2 DEF ExitIsAlone, Idle
<1>3. ASSUME NEW o \in Object, CallsBack(o)
     PROVE  ExitIsAlone'
    BY <1>0, <1>3 DEF ExitIsAlone, CallsBack, Begins, Stays, Sets
<1>4. ASSUME NEW n, NEW o \in Object, Destroys(n, o)
     PROVE  ExitIsAlone'
    BY <1>0, <1>4 DEF ExitIsAlone, Destroys, Ends, Stays, Sets
<1>5. ASSUME NEW t \in Thread, NEW o \in Object, Wants(t, o)
     PROVE  ExitIsAlone'
    BY <1>0, <1>5 DEF ExitIsAlone, Wants, Begins, Stays
<1>6. ASSUME NEW t \in Thread, NEW n, NEW o \in Object,
            NEW p, NEW q, Waits(t, n, o, p, q)
     PROVE  ExitIsAlone'
    BY <1>0, <1>6 DEF ExitIsAlone, Waits, Moves, Stays
<1>7. ASSUME NEW t \in Thread, NEW n, NEW o \in Object, Swaps(t, n, o)
     PROVE  ExitIsAlone'
    BY <1>0, <1>7 DEF ExitIsAlone, Swaps, Moves, Stays, Sets
<1>8. ASSUME NEW t \in Thread, NEW n, NEW o \in Object, Refuses(t, n, o)
     PROVE  ExitIsAlone'
    BY <1>0, <1>8 DEF ExitIsAlone, Refuses, Moves, Stays
<1>9. ASSUME NEW t \in Thread, NEW n, NEW o \in Object, Starts(t, n, o)
     PROVE  ExitIsAlone'
    BY <1>0, <1>9 DEF ExitIsAlone, Starts, Moves, Stays, Sets
<1>10. ASSUME NEW t \in Thread, NEW n, NEW o \in Object,
             NEW u, Asks(t, n, o, u)
     PROVE  ExitIsAlone'
    BY <1>0, <1>10 DEF ExitIsAlone, Asks, Uses
<1>11. ASSUME NEW t \in Thread, NEW n, NEW o \in Object, Finishes(t, n, o)
     PROVE  ExitIsAlone'
    BY <1>0, <1>11 DEF ExitIsAlone, Finishes, Moves, Stays, Sets
<1>12. ASSUME NEW t \in Thread, NEW n, NEW o \in Object, Stores(t, n, o)
     PROVE  ExitIsAlone'
    BY <1>0, <1>12 DEF ExitIsAlone, Stores, Moves, Stays, Sets
<1>13. ASSUME NEW t \in Thread, NEW n, NEW o \in Object, StoresNull(t, n, o)
     PROVE  ExitIsAlone'
    BY <1>0, <1>13 DEF ExitIsAlone, StoresNull, Moves, Stays, Sets
<1>14. ASSUME NEW t \in Thread, NEW n, NEW o \in Object, Registers(t, n, o)
     PROVE  ExitIsAlone'
    BY <1>0, <1>14 DEF ExitIsAlone, Registers, Moves, Stays
<1>15. ASSUME NEW t \in Thread, NEW n, NEW o \in Object,
             NEW p, Gives(t, n, o, p)
     PROVE  ExitIsAlone'
    BY <1>0, <1>15 DEF ExitIsAlone, Gives, Ends, Stays
<1> QED
    BY <1>1, <1>2, <1>3, <1>4, <1>5, <1>6, <1>7, <1>8, <1>9, <1>10,
       <1>11, <1>12, <1>13, <1>14, <1>15, StepCases DEF ThreadStep

(* Who calls whom.                                                         *)
LEMMA NextNested ==
    ASSUME LazyInv, [Next]_vars
    PROVE  Nested'
<1>0. Nested /\ ExitIsAlone /\ Main \in Thread
    BY LazyAssumption, KnownObjects DEF LazyInv
<1>1. CASE Nothing
    BY <1>0, <1>1 DEF Nested, NestedAt, Depth, Obj, Pc, Todo, Nothing
<1>2. CASE Idle
    BY <1>0, <1>2 DEF Nested, NestedAt, Idle, ExitIsAlone
<1>3. ASSUME NEW o \in Object, CallsBack(o)
     PROVE  Nested'
    BY <1>0, <1>3
       DEF Nested, NestedAt, CallsBack, Begins, Stays, Sets, ExitIsAlone
<1>4. ASSUME NEW n, NEW o \in Object, Destroys(n, o)
     PROVE  Nested'
    BY <1>0, <1>4 DEF Nested, NestedAt, Destroys, Ends, Stays, Sets
<1>5. ASSUME NEW t \in Thread, NEW o \in Object, Wants(t, o)
     PROVE  Nested'
    BY <1>0, <1>5 DEF Nested, NestedAt, Wants, Begins, Stays
<1>6. ASSUME NEW t \in Thread, NEW n, NEW o \in Object,
            NEW p, NEW q, Waits(t, n, o, p, q)
     PROVE  Nested'
    BY <1>0, <1>6 DEF Nested, NestedAt, Waits, Moves, Stays
<1>7. ASSUME NEW t \in Thread, NEW n, NEW o \in Object, Swaps(t, n, o)
     PROVE  Nested'
    BY <1>0, <1>7 DEF Nested, NestedAt, Swaps, Moves, Stays, Sets
<1>8. ASSUME NEW t \in Thread, NEW n, NEW o \in Object, Refuses(t, n, o)
     PROVE  Nested'
    BY <1>0, <1>8 DEF Nested, NestedAt, Refuses, Moves, Stays
<1>9. ASSUME NEW t \in Thread, NEW n, NEW o \in Object, Starts(t, n, o)
     PROVE  Nested'
    BY <1>0, <1>9 DEF Nested, NestedAt, Starts, Moves, Stays, Sets
<1>10. ASSUME NEW t \in Thread, NEW n, NEW o \in Object,
             NEW u, Asks(t, n, o, u)
     PROVE  Nested'
    BY <1>0, <1>10 DEF Nested, NestedAt, Asks, Uses
<1>11. ASSUME NEW t \in Thread, NEW n, NEW o \in Object, Finishes(t, n, o)
     PROVE  Nested'
    BY <1>0, <1>11 DEF Nested, NestedAt, Finishes, Moves, Stays, Sets
<1>12. ASSUME NEW t \in Thread, NEW n, NEW o \in Object, Stores(t, n, o)
     PROVE  Nested'
    BY <1>0, <1>12 DEF Nested, NestedAt, Stores, Moves, Stays, Sets
<1>13. ASSUME NEW t \in Thread, NEW n, NEW o \in Object, StoresNull(t, n, o)
     PROVE  Nested'
    BY <1>0, <1>13 DEF Nested, NestedAt, StoresNull, Moves, Stays, Sets
<1>14. ASSUME NEW t \in Thread, NEW n, NEW o \in Object, Registers(t, n, o)
     PROVE  Nested'
    BY <1>0, <1>14 DEF Nested, NestedAt, Registers, Moves, Stays
<1>15. ASSUME NEW t \in Thread, NEW n, NEW o \in Object,
             NEW p, Gives(t, n, o, p)
     PROVE  Nested'
    BY <1>0, <1>15 DEF Nested, NestedAt, Gives, Ends, Stays
<1> QED
    BY <1>1, <1>2, <1>3, <1>4, <1>5, <1>6, <1>7, <1>8, <1>9, <1>10,
       <1>11, <1>12, <1>13, <1>14, <1>15, StepCases DEF ThreadStep

(* What the calls know of the state.                                       *)
LEMMA NextCallsKnowState ==
    ASSUME LazyInv, [Next]_vars
    PROVE  CallsKnowState'
<1>0. CallsKnowState /\ Nested /\ ExitIsAlone /\ OneCreator
      /\ CallsKnown /\ Main \in Thread
    BY LazyAssumption, KnownObjects DEF LazyInv
<1>1. CASE Nothing
    BY <1>0, <1>1
       DEF CallsKnowState, StateAt, Creating, Depth, Obj, Pc, Todo, Nothing
<1>2. CASE Idle
    BY <1>0, <1>2 DEF CallsKnowState, StateAt, Creating, Idle
<1>3. ASSUME NEW o \in Object, CallsBack(o)
     PROVE  CallsKnowState'
    BY <1>0, <1>3
       DEF CallsKnowState, StateAt, Creating, CallsBack, Begins, Stays,
           Sets, ExitIsAlone
<1>4. ASSUME NEW n, NEW o \in Object, Destroys(n, o)
     PROVE  CallsKnowState'
    BY <1>0, <1>4
       DEF CallsKnowState, StateAt, Creating, Destroys, Ends, Stays, Sets,
           ExitIsAlone, Nested, NestedAt, CallsKnown
<1>5. ASSUME NEW t \in Thread, NEW o \in Object, Wants(t, o)
     PROVE  CallsKnowState'
    BY <1>0, <1>5 DEF CallsKnowState, StateAt, Creating, Wants, Begins, Stays
<1>6. ASSUME NEW t \in Thread, NEW n, NEW o \in Object,
            NEW p, NEW q, Waits(t, n, o, p, q)
     PROVE  CallsKnowState'
    BY <1>0, <1>6 DEF CallsKnowState, StateAt, Creating, Waits, Moves, Stays
<1>7. ASSUME NEW t \in Thread, NEW n, NEW o \in Object, Swaps(t, n, o)
     PROVE  CallsKnowState'
    BY <1>0, <1>7
       DEF CallsKnowState, StateAt, Creating, Swaps, Moves, Stays, Sets,
           CallsKnown
<1>8. ASSUME NEW t \in Thread, NEW n, NEW o \in Object, Refuses(t, n, o)
     PROVE  CallsKnowState'
    BY <1>0, <1>8 DEF CallsKnowState, StateAt, Creating, Refuses, Moves, Stays
<1>9. ASSUME NEW t \in Thread, NEW n, NEW o \in Object, Starts(t, n, o)
     PROVE  CallsKnowState'
    BY <1>0, <1>9
       DEF CallsKnowState, StateAt, Creating, Starts, Moves, Stays, Sets
<1>10. ASSUME NEW t \in Thread, NEW n, NEW o \in Object,
             NEW u, Asks(t, n, o, u)
     PROVE  CallsKnowState'
    BY <1>0, <1>10 DEF CallsKnowState, StateAt, Creating, Asks, Uses
<1>11. ASSUME NEW t \in Thread, NEW n, NEW o \in Object, Finishes(t, n, o)
     PROVE  CallsKnowState'
    BY <1>0, <1>11
       DEF CallsKnowState, StateAt, Creating, Finishes, Moves, Stays, Sets
<1>12. ASSUME NEW t \in Thread, NEW n, NEW o \in Object, Stores(t, n, o)
     PROVE  CallsKnowState'
    BY <1>0, <1>12
       DEF CallsKnowState, StateAt, Creating, Stores, Moves, Stays, Sets,
           CallsKnown, OneCreator, Making
<1>13. ASSUME NEW t \in Thread, NEW n, NEW o \in Object, StoresNull(t, n, o)
     PROVE  CallsKnowState'
    BY <1>0, <1>13
       DEF CallsKnowState, StateAt, Creating, StoresNull, Moves, Stays,
           Sets, CallsKnown, OneCreator, Making
<1>14. ASSUME NEW t \in Thread, NEW n, NEW o \in Object, Registers(t, n, o)
     PROVE  CallsKnowState'
    BY <1>0, <1>14
       DEF CallsKnowState, StateAt, Creating, Registers, Moves, Stays
<1>15. ASSUME NEW t \in Thread, NEW n, NEW o \in Object,
             NEW p, Gives(t, n, o, p)
     PROVE  CallsKnowState'
    BY <1>0, <1>15 DEF CallsKnowState, StateAt, Creating, Gives, Ends, Stays
<1> QED
    BY <1>1, <1>2, <1>3, <1>4, <1>5, <1>6, <1>7, <1>8, <1>9, <1>10,
       <1>11, <1>12, <1>13, <1>14, <1>15, StepCases DEF ThreadStep

(* There is one creator.                                                   *)
LEMMA NextOneCreator ==
    ASSUME LazyInv, [Next]_vars
    PROVE  OneCreator'
<1>0. CallsKnowState /\ OneCreator /\ Main \in Thread
    BY LazyAssumption, KnownObjects DEF LazyInv
<1>1. CASE Nothing
    BY <1>0, <1>1
       DEF OneCreator, Making, Creating, Depth, Obj, Pc, Todo, Nothing
<1>2. CASE Idle
    BY <1>0, <1>2 DEF OneCreator, Making, Creating, Idle
<1>3. ASSUME NEW o \in Object, CallsBack(o)
     PROVE  OneCreator'
    BY <1>0, <1>3
       DEF OneCreator, Making, Creating, CallsBack, Begins, Stays, Sets
<1>4. ASSUME NEW n, NEW o \in Object, Destroys(n, o)
     PROVE  OneCreator'
    BY <1>0, <1>4 DEF OneCreator, Making, Creating, Destroys, Ends, Stays, Sets
<1>5. ASSUME NEW t \in Thread, NEW o \in Object, Wants(t, o)
     PROVE  OneCreator'
    BY <1>0, <1>5 DEF OneCreator, Making, Creating, Wants, Begins, Stays
<1>6. ASSUME NEW t \in Thread, NEW n, NEW o \in Object,
            NEW p, NEW q, Waits(t, n, o, p, q)
     PROVE  OneCreator'
    BY <1>0, <1>6 DEF OneCreator, Making, Creating, Waits, Moves, Stays
<1>7. ASSUME NEW t \in Thread, NEW n, NEW o \in Object, Swaps(t, n, o)
     PROVE  OneCreator'
    BY <1>0, <1>7
       DEF OneCreator, Making, Creating, Swaps, Moves, Stays, Sets,
           CallsKnowState, StateAt
<1>8. ASSUME NEW t \in Thread, NEW n, NEW o \in Object, Refuses(t, n, o)
     PROVE  OneCreator'
    BY <1>0, <1>8 DEF OneCreator, Making, Creating, Refuses, Moves, Stays
<1>9. ASSUME NEW t \in Thread, NEW n, NEW o \in Object, Starts(t, n, o)
     PROVE  OneCreator'
    BY <1>0, <1>9 DEF OneCreator, Making, Creating, Starts, Moves, Stays, Sets
<1>10. ASSUME NEW t \in Thread, NEW n, NEW o \in Object,
             NEW u, Asks(t, n, o, u)
     PROVE  OneCreator'
    BY <1>0, <1>10 DEF OneCreator, Making, Creating, Asks, Uses
<1>11. ASSUME NEW t \in Thread, NEW n, NEW o \in Object, Finishes(t, n, o)
     PROVE  OneCreator'
    BY <1>0, <1>11
       DEF OneCreator, Making, Creating, Finishes, Moves, Stays, Sets
<1>12. ASSUME NEW t \in Thread, NEW n, NEW o \in Object, Stores(t, n, o)
     PROVE  OneCreator'
    BY <1>0, <1>12 DEF OneCreator, Making, Creating, Stores, Moves, Stays, Sets
<1>13. ASSUME NEW t \in Thread, NEW n, NEW o \in Object, StoresNull(t, n, o)
     PROVE  OneCreator'
    BY <1>0, <1>13
       DEF OneCreator, Making, Creating, StoresNull, Moves, Stays, Sets
<1>14. ASSUME NEW t \in Thread, NEW n, NEW o \in Object, Registers(t, n, o)
     PROVE  OneCreator'
    BY <1>0, <1>14 DEF OneCreator, Making, Creating, Registers, Moves, Stays
<1>15. ASSUME NEW t \in Thread, NEW n, NEW o \in Object,
             NEW p, Gives(t, n, o, p)
     PROVE  OneCreator'
    BY <1>0, <1>15 DEF OneCreator, Making, Creating, Gives, Ends, Stays
<1> QED
    BY <1>1, <1>2, <1>3, <1>4, <1>5, <1>6, <1>7, <1>8, <1>9, <1>10,
       <1>11, <1>12, <1>13, <1>14, <1>15, StepCases DEF ThreadStep

(* What the calls know of the memory.                                      *)
LEMMA NextCallsKnowMemory ==
    ASSUME LazyInv, [Next]_vars
    PROVE  CallsKnowMemory'
<1>0. CallsKnowState /\ CallsKnowMemory /\ OneCreator /\ StateOfMemory
      /\ ExitIsAlone /\ Nested /\ CallsKnown /\ Main \in Thread
    BY LazyAssumption, KnownObjects DEF LazyInv
<1>1. CASE Nothing
    BY <1>0, <1>1 DEF CallsKnowMemory, MemoryAt, Depth, Obj, Pc, Todo, Nothing
<1>2. CASE Idle
    BY <1>0, <1>2 DEF CallsKnowMemory, MemoryAt, Idle
<1>3. ASSUME NEW o \in Object, CallsBack(o)
     PROVE  CallsKnowMemory'
    BY <1>0, <1>3
       DEF CallsKnowMemory, MemoryAt, CallsBack, Begins, Stays, Sets,
           ExitIsAlone
<1>4. ASSUME NEW n, NEW o \in Object, Destroys(n, o)
     PROVE  CallsKnowMemory'
    BY <1>0, <1>4
       DEF CallsKnowMemory, MemoryAt, Destroys, Ends, Stays, Sets,
           ExitIsAlone, Nested, NestedAt
<1>5. ASSUME NEW t \in Thread, NEW o \in Object, Wants(t, o)
     PROVE  CallsKnowMemory'
    BY <1>0, <1>5 DEF CallsKnowMemory, MemoryAt, Wants, Begins, Stays
<1>6. ASSUME NEW t \in Thread, NEW n, NEW o \in Object,
            NEW p, NEW q, Waits(t, n, o, p, q)
     PROVE  CallsKnowMemory'
    BY <1>0, <1>6 DEF CallsKnowMemory, MemoryAt, Waits, Moves, Stays
<1>7. ASSUME NEW t \in Thread, NEW n, NEW o \in Object, Swaps(t, n, o)
     PROVE  CallsKnowMemory'
    BY <1>0, <1>7
       DEF CallsKnowMemory, MemoryAt, Swaps, Moves, Stays, Sets,
           CallsKnowState, StateAt, Creating, StateOfMemory
<1>8. ASSUME NEW t \in Thread, NEW n, NEW o \in Object, Refuses(t, n, o)
     PROVE  CallsKnowMemory'
    BY <1>0, <1>8 DEF CallsKnowMemory, MemoryAt, Refuses, Moves, Stays
<1>9. ASSUME NEW t \in Thread, NEW n, NEW o \in Object, Starts(t, n, o)
     PROVE  CallsKnowMemory'
    BY <1>0, <1>9
       DEF CallsKnowMemory, MemoryAt, Starts, Moves, Stays, Sets,
           OneCreator, Making, Creating, CallsKnown
<1>10. ASSUME NEW t \in Thread, NEW n, NEW o \in Object,
             NEW u, Asks(t, n, o, u)
     PROVE  CallsKnowMemory'
    BY <1>0, <1>10 DEF CallsKnowMemory, MemoryAt, Asks, Uses
<1>11. ASSUME NEW t \in Thread, NEW n, NEW o \in Object, Finishes(t, n, o)
     PROVE  CallsKnowMemory'
    BY <1>0, <1>11
       DEF CallsKnowMemory, MemoryAt, Finishes, Moves, Stays, Sets,
           OneCreator, Making, Creating, CallsKnown
<1>12. ASSUME NEW t \in Thread, NEW n, NEW o \in Object, Stores(t, n, o)
     PROVE  CallsKnowMemory'
    BY <1>0, <1>12 DEF CallsKnowMemory, MemoryAt, Stores, Moves, Stays, Sets
<1>13. ASSUME NEW t \in Thread, NEW n, NEW o \in Object, StoresNull(t, n, o)
     PROVE  CallsKnowMemory'
    BY <1>0, <1>13
       DEF CallsKnowMemory, MemoryAt, StoresNull, Moves, Stays, Sets
<1>14. ASSUME NEW t \in Thread, NEW n, NEW o \in Object, Registers(t, n, o)
     PROVE  CallsKnowMemory'
    BY <1>0, <1>14 DEF CallsKnowMemory, MemoryAt, Registers, Moves, Stays
<1>15. ASSUME NEW t \in Thread, NEW n, NEW o \in Object,
             NEW p, Gives(t, n, o, p)
     PROVE  CallsKnowMemory'
    BY <1>0, <1>15 DEF CallsKnowMemory, MemoryAt, Gives, Ends, Stays
<1> QED
    BY <1>1, <1>2, <1>3, <1>4, <1>5, <1>6, <1>7, <1>8, <1>9, <1>10,
       <1>11, <1>12, <1>13, <1>14, <1>15, StepCases DEF ThreadStep

(* An object that is being created has a creator.                          *)
LEMMA NextHasCreator ==
    ASSUME LazyInv, [Next]_vars
    PROVE  HasCreator'
<1>0. HasCreator /\ CallsKnowState /\ ExitIsAlone /\ Nested /\ CallsKnown /\ Main \in Thread
    BY LazyAssumption, KnownObjects DEF LazyInv
<1>1. CASE Nothing
    BY <1>0, <1>1
       DEF HasCreator, Someone, Creating, Depth, Obj, Pc, Todo, Nothing
<1>2. CASE Idle
    BY <1>0, <1>2 DEF HasCreator, Someone, Creating, Idle
<1>3. ASSUME NEW o \in Object, CallsBack(o)
     PROVE  HasCreator'
    BY <1>0, <1>3
       DEF HasCreator, Someone, Creating, CallsBack, Begins, Stays, Sets
<1>4. ASSUME NEW n, NEW o \in Object, Destroys(n, o)
     PROVE  HasCreator'
    BY <1>0, <1>4
       DEF HasCreator, Someone, Creating, Destroys, Ends, Stays, Sets,
           ExitIsAlone, Nested, NestedAt
<1>5. ASSUME NEW t \in Thread, NEW o \in Object, Wants(t, o)
     PROVE  HasCreator'
    BY <1>0, <1>5 DEF HasCreator, Someone, Creating, Wants, Begins, Stays
<1>6. ASSUME NEW t \in Thread, NEW n, NEW o \in Object,
            NEW p, NEW q, Waits(t, n, o, p, q)
     PROVE  HasCreator'
    BY <1>0, <1>6 DEF HasCreator, Someone, Creating, Waits, Moves, Stays
<1>7. ASSUME NEW t \in Thread, NEW n, NEW o \in Object, Swaps(t, n, o)
     PROVE  HasCreator'
    BY <1>0, <1>7 DEF HasCreator, Someone, Creating, Swaps, Moves, Stays, Sets
<1>8. ASSUME NEW t \in Thread, NEW n, NEW o \in Object, Refuses(t, n, o)
     PROVE  HasCreator'
    BY <1>0, <1>8 DEF HasCreator, Someone, Creating, Refuses, Moves, Stays
<1>9. ASSUME NEW t \in Thread, NEW n, NEW o \in Object, Starts(t, n, o)
     PROVE  HasCreator'
    BY <1>0, <1>9 DEF HasCreator, Someone, Creating, Starts, Moves, Stays, Sets
<1>10. ASSUME NEW t \in Thread, NEW n, NEW o \in Object,
             NEW u, Asks(t, n, o, u)
     PROVE  HasCreator'
    BY <1>0, <1>10 DEF HasCreator, Someone, Creating, Asks, Uses
<1>11. ASSUME NEW t \in Thread, NEW n, NEW o \in Object, Finishes(t, n, o)
     PROVE  HasCreator'
    BY <1>0, <1>11
       DEF HasCreator, Someone, Creating, Finishes, Moves, Stays, Sets
<1>12. ASSUME NEW t \in Thread, NEW n, NEW o \in Object, Stores(t, n, o)
     PROVE  HasCreator'
    BY <1>0, <1>12
       DEF HasCreator, Someone, Creating, Stores, Moves, Stays, Sets,
           CallsKnown
<1>13. ASSUME NEW t \in Thread, NEW n, NEW o \in Object, StoresNull(t, n, o)
     PROVE  HasCreator'
    BY <1>0, <1>13
       DEF HasCreator, Someone, Creating, StoresNull, Moves, Stays, Sets,
           CallsKnown
<1>14. ASSUME NEW t \in Thread, NEW n, NEW o \in Object, Registers(t, n, o)
     PROVE  HasCreator'
    BY <1>0, <1>14 DEF HasCreator, Someone, Creating, Registers, Moves, Stays
<1>15. ASSUME NEW t \in Thread, NEW n, NEW o \in Object,
             NEW p, Gives(t, n, o, p)
     PROVE  HasCreator'
    BY <1>0, <1>15 DEF HasCreator, Someone, Creating, Gives, Ends, Stays
<1> QED
    BY <1>1, <1>2, <1>3, <1>4, <1>5, <1>6, <1>7, <1>8, <1>9, <1>10,
       <1>11, <1>12, <1>13, <1>14, <1>15, StepCases DEF ThreadStep

(* What the state tells of the memory.                                     *)
LEMMA NextStateOfMemory ==
    ASSUME LazyInv, [Next]_vars
    PROVE  StateOfMemory'
<1>0. StateOfMemory /\ CallsKnowState /\ CallsKnowMemory /\ DyingOrRevived
      /\ ExitIsAlone /\ Nested /\ CallsKnown /\ Main \in Thread
    BY LazyAssumption, KnownObjects DEF LazyInv
<1>1. CASE Nothing
    BY <1>0, <1>1 DEF StateOfMemory, Destroying, Depth, Obj, Pc, Todo, Nothing
<1>2. CASE Idle
    BY <1>0, <1>2 DEF StateOfMemory, Destroying, Idle
<1>3. ASSUME NEW o \in Object, CallsBack(o)
     PROVE  StateOfMemory'
    BY <1>0, <1>3
       DEF StateOfMemory, Destroying, CallsBack, Begins, Stays, Sets,
           ExitIsAlone
<1>4. ASSUME NEW n, NEW o \in Object, Destroys(n, o)
     PROVE  StateOfMemory'
    BY <1>0, <1>4
       DEF StateOfMemory, Destroying, Destroys, Ends, Stays, Sets,
           ExitIsAlone, Nested, NestedAt, DyingOrRevived
<1>5. ASSUME NEW t \in Thread, NEW o \in Object, Wants(t, o)
     PROVE  StateOfMemory'
    BY <1>0, <1>5 DEF StateOfMemory, Destroying, Wants, Begins, Stays
<1>6. ASSUME NEW t \in Thread, NEW n, NEW o \in Object,
            NEW p, NEW q, Waits(t, n, o, p, q)
     PROVE  StateOfMemory'
    BY <1>0, <1>6 DEF StateOfMemory, Destroying, Waits, Moves, Stays
<1>7. ASSUME NEW t \in Thread, NEW n, NEW o \in Object, Swaps(t, n, o)
     PROVE  StateOfMemory'
    BY <1>0, <1>7 DEF StateOfMemory, Destroying, Swaps, Moves, Stays, Sets
<1>8. ASSUME NEW t \in Thread, NEW n, NEW o \in Object, Refuses(t, n, o)
     PROVE  StateOfMemory'
    BY <1>0, <1>8 DEF StateOfMemory, Destroying, Refuses, Moves, Stays
<1>9. ASSUME NEW t \in Thread, NEW n, NEW o \in Object, Starts(t, n, o)
     PROVE  StateOfMemory'
    BY <1>0, <1>9
       DEF StateOfMemory, Destroying, Starts, Moves, Stays, Sets,
           CallsKnowState, StateAt, Creating
<1>10. ASSUME NEW t \in Thread, NEW n, NEW o \in Object,
             NEW u, Asks(t, n, o, u)
     PROVE  StateOfMemory'
    BY <1>0, <1>10 DEF StateOfMemory, Destroying, Asks, Uses
<1>11. ASSUME NEW t \in Thread, NEW n, NEW o \in Object, Finishes(t, n, o)
     PROVE  StateOfMemory'
    BY <1>0, <1>11
       DEF StateOfMemory, Destroying, Finishes, Moves, Stays, Sets,
           CallsKnowState, StateAt, Creating
<1>12. ASSUME NEW t \in Thread, NEW n, NEW o \in Object, Stores(t, n, o)
     PROVE  StateOfMemory'
    BY <1>0, <1>12
       DEF StateOfMemory, Destroying, Stores, Moves, Stays, Sets,
           CallsKnowMemory, MemoryAt
<1>13. ASSUME NEW t \in Thread, NEW n, NEW o \in Object, StoresNull(t, n, o)
     PROVE  StateOfMemory'
    BY <1>0, <1>13
       DEF StateOfMemory, Destroying, StoresNull, Moves, Stays, Sets,
           CallsKnowMemory, MemoryAt
<1>14. ASSUME NEW t \in Thread, NEW n, NEW o \in Object, Registers(t, n, o)
     PROVE  StateOfMemory'
    BY <1>0, <1>14 DEF StateOfMemory, Destroying, Registers, Moves, Stays
<1>15. ASSUME NEW t \in Thread, NEW n, NEW o \in Object,
             NEW p, Gives(t, n, o, p)
     PROVE  StateOfMemory'
    BY <1>0, <1>15 DEF StateOfMemory, Destroying, Gives, Ends, Stays
<1> QED
    BY <1>1, <1>2, <1>3, <1>4, <1>5, <1>6, <1>7, <1>8, <1>9, <1>10,
       <1>11, <1>12, <1>13, <1>14, <1>15, StepCases DEF ThreadStep

(* What is being destroyed.                                                *)
LEMMA NextDyingOrRevived ==
    ASSUME LazyInv, [Next]_vars
    PROVE  DyingOrRevived'
<1>0. DyingOrRevived /\ CallsKnowMemory /\ StackHoldsLive
      /\ ExitIsAlone /\ Nested /\ Main # Nobody /\ CallsKnown /\ Main \in Thread
    BY LazyAssumption, KnownObjects DEF LazyInv
<1>1. CASE Nothing
    BY <1>0, <1>1 DEF DyingOrRevived, Destroying, Depth, Obj, Pc, Todo, Nothing
<1>2. CASE Idle
    BY <1>0, <1>2 DEF DyingOrRevived, Destroying, Idle
<1>3. ASSUME NEW o \in Object, CallsBack(o)
     PROVE  DyingOrRevived'
    BY <1>0, <1>3
       DEF DyingOrRevived, Destroying, CallsBack, Begins, Stays, Sets,
           ExitIsAlone, StackHoldsLive
<1>4. ASSUME NEW n, NEW o \in Object, Destroys(n, o)
     PROVE  DyingOrRevived'
    BY <1>0, <1>4
       DEF DyingOrRevived, Destroying, Destroys, Ends, Stays, Sets,
           ExitIsAlone, Nested, NestedAt
<1>5. ASSUME NEW t \in Thread, NEW o \in Object, Wants(t, o)
     PROVE  DyingOrRevived'
    BY <1>0, <1>5 DEF DyingOrRevived, Destroying, Wants, Begins, Stays
<1>6. ASSUME NEW t \in Thread, NEW n, NEW o \in Object,
            NEW p, NEW q, Waits(t, n, o, p, q)
     PROVE  DyingOrRevived'
    BY <1>0, <1>6 DEF DyingOrRevived, Destroying, Waits, Moves, Stays
<1>7. ASSUME NEW t \in Thread, NEW n, NEW o \in Object, Swaps(t, n, o)
     PROVE  DyingOrRevived'
    BY <1>0, <1>7 DEF DyingOrRevived, Destroying, Swaps, Moves, Stays, Sets
<1>8. ASSUME NEW t \in Thread, NEW n, NEW o \in Object, Refuses(t, n, o)
     PROVE  DyingOrRevived'
    BY <1>0, <1>8 DEF DyingOrRevived, Destroying, Refuses, Moves, Stays
<1>9. ASSUME NEW t \in Thread, NEW n, NEW o \in Object, Starts(t, n, o)
     PROVE  DyingOrRevived'
    BY <1>0, <1>9
       DEF DyingOrRevived, Destroying, Starts, Moves, Stays, Sets,
           ExitIsAlone, Nested, NestedAt
<1>10. ASSUME NEW t \in Thread, NEW n, NEW o \in Object,
             NEW u, Asks(t, n, o, u)
     PROVE  DyingOrRevived'
    BY <1>0, <1>10 DEF DyingOrRevived, Destroying, Asks, Uses
<1>11. ASSUME NEW t \in Thread, NEW n, NEW o \in Object, Finishes(t, n, o)
     PROVE  DyingOrRevived'
    BY <1>0, <1>11
       DEF DyingOrRevived, Destroying, Finishes, Moves, Stays, Sets,
           ExitIsAlone, Nested, NestedAt, CallsKnowMemory, MemoryAt
<1>12. ASSUME NEW t \in Thread, NEW n, NEW o \in Object, Stores(t, n, o)
     PROVE  DyingOrRevived'
    BY <1>0, <1>12 DEF DyingOrRevived, Destroying, Stores, Moves, Stays, Sets
<1>13. ASSUME NEW t \in Thread, NEW n, NEW o \in Object, StoresNull(t, n, o)
     PROVE  DyingOrRevived'
    BY <1>0, <1>13
       DEF DyingOrRevived, Destroying, StoresNull, Moves, Stays, Sets
<1>14. ASSUME NEW t \in Thread, NEW n, NEW o \in Object, Registers(t, n, o)
     PROVE  DyingOrRevived'
    BY <1>0, <1>14
       DEF DyingOrRevived, Destroying, Registers, Moves, Stays,
           ExitIsAlone, Nested, NestedAt
<1>15. ASSUME NEW t \in Thread, NEW n, NEW o \in Object,
             NEW p, Gives(t, n, o, p)
     PROVE  DyingOrRevived'
    BY <1>0, <1>15 DEF DyingOrRevived, Destroying, Gives, Ends, Stays
<1> QED
    BY <1>1, <1>2, <1>3, <1>4, <1>5, <1>6, <1>7, <1>8, <1>9, <1>10,
       <1>11, <1>12, <1>13, <1>14, <1>15, StepCases DEF ThreadStep

(* Who gets NULL.                                                          *)
LEMMA NextNullOnlyDestroyed ==
    ASSUME LazyInv, [Next]_vars
    PROVE  NullOnlyDestroyed'
<1>0. NullOnlyDestroyed /\ DeadIsDestroyed /\ OneCreator /\ ExitIsAlone /\ Nested
      /\ CallsKnown /\ Main \in Thread
    BY LazyAssumption, KnownObjects DEF LazyInv
<1>1. CASE Nothing
    BY <1>0, <1>1
       DEF NullOnlyDestroyed, NullAt, Destroyed, Destroying, CallsKnown,
           Depth, Obj, Pc, Todo, Nothing
<1>2. CASE Idle
    BY <1>0, <1>2
       DEF NullOnlyDestroyed, NullAt, Destroyed, Destroying, CallsKnown,
           Idle
<1>3. ASSUME NEW o \in Object, CallsBack(o)
     PROVE  NullOnlyDestroyed'
    BY <1>0, <1>3
       DEF NullOnlyDestroyed, NullAt, Destroyed, Destroying, CallsKnown,
           CallsBack, Begins, Stays, Sets, ExitIsAlone
<1>4. ASSUME NEW n, NEW o \in Object, Destroys(n, o)
     PROVE  NullOnlyDestroyed'
    BY <1>0, <1>4
       DEF NullOnlyDestroyed, NullAt, Destroyed, Destroying, CallsKnown,
           Destroys, Ends, Stays, Sets, ExitIsAlone, Nested, NestedAt
<1>5. ASSUME NEW t \in Thread, NEW o \in Object, Wants(t, o)
     PROVE  NullOnlyDestroyed'
    BY <1>0, <1>5
       DEF NullOnlyDestroyed, NullAt, Destroyed, Destroying, CallsKnown,
           Wants, Begins, Stays
<1>6. ASSUME NEW t \in Thread, NEW n, NEW o \in Object,
            NEW p, NEW q, Waits(t, n, o, p, q)
     PROVE  NullOnlyDestroyed'
    BY <1>0, <1>6
       DEF NullOnlyDestroyed, NullAt, Destroyed, Destroying, CallsKnown,
           Waits, Moves, Stays
<1>7. ASSUME NEW t \in Thread, NEW n, NEW o \in Object, Swaps(t, n, o)
     PROVE  NullOnlyDestroyed'
    BY <1>0, <1>7
       DEF NullOnlyDestroyed, NullAt, Destroyed, Destroying, CallsKnown,
           Swaps, Moves, Stays, Sets, DeadIsDestroyed
<1>8. ASSUME NEW t \in Thread, NEW n, NEW o \in Object, Refuses(t, n, o)
     PROVE  NullOnlyDestroyed'
    BY <1>0, <1>8
       DEF NullOnlyDestroyed, NullAt, Destroyed, Destroying, CallsKnown,
           Refuses, Moves, Stays, DeadIsDestroyed
<1>9. ASSUME NEW t \in Thread, NEW n, NEW o \in Object, Starts(t, n, o)
     PROVE  NullOnlyDestroyed'
    BY <1>0, <1>9
       DEF NullOnlyDestroyed, NullAt, Destroyed, Destroying, CallsKnown,
           Starts, Moves, Stays, Sets, OneCreator, Making, Creating
<1>10. ASSUME NEW t \in Thread, NEW n, NEW o \in Object,
             NEW u, Asks(t, n, o, u)
     PROVE  NullOnlyDestroyed'
    BY <1>0, <1>10
       DEF NullOnlyDestroyed, NullAt, Destroyed, Destroying, CallsKnown,
           Asks, Uses
<1>11. ASSUME NEW t \in Thread, NEW n, NEW o \in Object, Finishes(t, n, o)
     PROVE  NullOnlyDestroyed'
    BY <1>0, <1>11
       DEF NullOnlyDestroyed, NullAt, Destroyed, Destroying, CallsKnown,
           Finishes, Moves, Stays, Sets
<1>12. ASSUME NEW t \in Thread, NEW n, NEW o \in Object, Stores(t, n, o)
     PROVE  NullOnlyDestroyed'
    BY <1>0, <1>12
       DEF NullOnlyDestroyed, NullAt, Destroyed, Destroying, CallsKnown,
           Stores, Moves, Stays, Sets
<1>13. ASSUME NEW t \in Thread, NEW n, NEW o \in Object, StoresNull(t, n, o)
     PROVE  NullOnlyDestroyed'
    BY <1>0, <1>13
       DEF NullOnlyDestroyed, NullAt, Destroyed, Destroying, CallsKnown,
           StoresNull, Moves, Stays, Sets
<1>14. ASSUME NEW t \in Thread, NEW n, NEW o \in Object, Registers(t, n, o)
     PROVE  NullOnlyDestroyed'
    BY <1>0, <1>14
       DEF NullOnlyDestroyed, NullAt, Destroyed, Destroying, CallsKnown,
           Registers, Moves, Stays
<1>15. ASSUME NEW t \in Thread, NEW n, NEW o \in Object,
             NEW p, Gives(t, n, o, p)
     PROVE  NullOnlyDestroyed'
    BY <1>0, <1>15
       DEF NullOnlyDestroyed, NullAt, Destroyed, Destroying, CallsKnown,
           Gives, Ends, Stays
<1> QED
    BY <1>1, <1>2, <1>3, <1>4, <1>5, <1>6, <1>7, <1>8, <1>9, <1>10,
       <1>11, <1>12, <1>13, <1>14, <1>15, StepCases DEF ThreadStep

(* What is not to be revived.                                              *)
LEMMA NextDeadIsDestroyed ==
    ASSUME LazyInv, [Next]_vars
    PROVE  DeadIsDestroyed'
<1>0. DeadIsDestroyed /\ NullOnlyDestroyed /\ CallsKnowState
      /\ dead_ \subseteq Object /\ CallsKnown /\ Main \in Thread
    BY LazyAssumption, KnownObjects DEF LazyInv, TypeOK
<1>1. CASE Nothing
    BY <1>0, <1>1
       DEF DeadIsDestroyed, Destroyed, Destroying, Depth, Obj, Pc, Todo,
           Nothing
<1>2. CASE Idle
    BY <1>0, <1>2 DEF DeadIsDestroyed, Destroyed, Destroying, Idle
<1>3. ASSUME NEW o \in Object, CallsBack(o)
     PROVE  DeadIsDestroyed'
    BY <1>0, <1>3
       DEF DeadIsDestroyed, Destroyed, Destroying, CallsBack, Begins,
           Stays, Sets
<1>4. ASSUME NEW n, NEW o \in Object, Destroys(n, o)
     PROVE  DeadIsDestroyed'
    BY <1>0, <1>4
       DEF DeadIsDestroyed, Destroyed, Destroying, Destroys, Ends, Stays,
           Sets
<1>5. ASSUME NEW t \in Thread, NEW o \in Object, Wants(t, o)
     PROVE  DeadIsDestroyed'
    BY <1>0, <1>5
       DEF DeadIsDestroyed, Destroyed, Destroying, Wants, Begins, Stays
<1>6. ASSUME NEW t \in Thread, NEW n, NEW o \in Object,
            NEW p, NEW q, Waits(t, n, o, p, q)
     PROVE  DeadIsDestroyed'
    BY <1>0, <1>6
       DEF DeadIsDestroyed, Destroyed, Destroying, Waits, Moves, Stays
<1>7. ASSUME NEW t \in Thread, NEW n, NEW o \in Object, Swaps(t, n, o)
     PROVE  DeadIsDestroyed'
    BY <1>0, <1>7
       DEF DeadIsDestroyed, Destroyed, Destroying, Swaps, Moves, Stays,
           Sets
<1>8. ASSUME NEW t \in Thread, NEW n, NEW o \in Object, Refuses(t, n, o)
     PROVE  DeadIsDestroyed'
    BY <1>0, <1>8
       DEF DeadIsDestroyed, Destroyed, Destroying, Refuses, Moves, Stays
<1>9. ASSUME NEW t \in Thread, NEW n, NEW o \in Object, Starts(t, n, o)
     PROVE  DeadIsDestroyed'
    BY <1>0, <1>9
       DEF DeadIsDestroyed, Destroyed, Destroying, Starts, Moves, Stays,
           Sets, CallsKnowState, StateAt, Creating
<1>10. ASSUME NEW t \in Thread, NEW n, NEW o \in Object,
             NEW u, Asks(t, n, o, u)
     PROVE  DeadIsDestroyed'
    BY <1>0, <1>10 DEF DeadIsDestroyed, Destroyed, Destroying, Asks, Uses
<1>11. ASSUME NEW t \in Thread, NEW n, NEW o \in Object, Finishes(t, n, o)
     PROVE  DeadIsDestroyed'
    BY <1>0, <1>11
       DEF DeadIsDestroyed, Destroyed, Destroying, Finishes, Moves, Stays,
           Sets
<1>12. ASSUME NEW t \in Thread, NEW n, NEW o \in Object, Stores(t, n, o)
     PROVE  DeadIsDestroyed'
    BY <1>0, <1>12
       DEF DeadIsDestroyed, Destroyed, Destroying, Stores, Moves, Stays,
           Sets
<1>13. ASSUME NEW t \in Thread, NEW n, NEW o \in Object, StoresNull(t, n, o)
     PROVE  DeadIsDestroyed'
    BY <1>0, <1>13
       DEF DeadIsDestroyed, Destroyed, Destroying, StoresNull, Moves,
           Stays, Sets, NullOnlyDestroyed, NullAt
<1>14. ASSUME NEW t \in Thread, NEW n, NEW o \in Object, Registers(t, n, o)
     PROVE  DeadIsDestroyed'
    BY <1>0, <1>14
       DEF DeadIsDestroyed, Destroyed, Destroying, Registers, Moves, Stays
<1>15. ASSUME NEW t \in Thread, NEW n, NEW o \in Object,
             NEW p, Gives(t, n, o, p)
     PROVE  DeadIsDestroyed'
    BY <1>0, <1>15
       DEF DeadIsDestroyed, Destroyed, Destroying, Gives, Ends, Stays
<1> QED
    BY <1>1, <1>2, <1>3, <1>4, <1>5, <1>6, <1>7, <1>8, <1>9, <1>10,
       <1>11, <1>12, <1>13, <1>14, <1>15, StepCases DEF ThreadStep

(* Every callback is in the stack once, ...                                *)
LEMMA NextStackHoldsOnce ==
    ASSUME LazyInv, [Next]_vars
    PROVE  StackHoldsOnce'
<1>0. StackHoldsOnce /\ StackHoldsLive /\ StackKnown
    BY LazyAssumption, KnownObjects DEF LazyInv
<1>1. CASE Nothing
    BY <1>0, <1>1
       DEF StackHoldsOnce, Depth, Obj, Pc, Todo, Nothing, Height, Entry
<1>2. CASE Idle
    BY <1>0, <1>2 DEF StackHoldsOnce, Idle, Height, Entry
<1>3. ASSUME NEW o \in Object, CallsBack(o)
     PROVE  StackHoldsOnce'
    BY <1>0, <1>3
       DEF StackHoldsOnce, CallsBack, Begins, Stays, Sets, StackKnown
<1>4. ASSUME NEW n, NEW o \in Object, Destroys(n, o)
     PROVE  StackHoldsOnce'
    BY <1>0, <1>4
       DEF StackHoldsOnce, Destroys, Ends, Stays, Sets, Height, Entry
<1>5. ASSUME NEW t \in Thread, NEW o \in Object, Wants(t, o)
     PROVE  StackHoldsOnce'
    BY <1>0, <1>5 DEF StackHoldsOnce, Wants, Begins, Stays, Height, Entry
<1>6. ASSUME NEW t \in Thread, NEW n, NEW o \in Object,
            NEW p, NEW q, Waits(t, n, o, p, q)
     PROVE  StackHoldsOnce'
    BY <1>0, <1>6 DEF StackHoldsOnce, Waits, Moves, Stays, Height, Entry
<1>7. ASSUME NEW t \in Thread, NEW n, NEW o \in Object, Swaps(t, n, o)
     PROVE  StackHoldsOnce'
    BY <1>0, <1>7 DEF StackHoldsOnce, Swaps, Moves, Stays, Sets, Height, Entry
<1>8. ASSUME NEW t \in Thread, NEW n, NEW o \in Object, Refuses(t, n, o)
     PROVE  StackHoldsOnce'
    BY <1>0, <1>8 DEF StackHoldsOnce, Refuses, Moves, Stays, Height, Entry
<1>9. ASSUME NEW t \in Thread, NEW n, NEW o \in Object, Starts(t, n, o)
     PROVE  StackHoldsOnce'
    BY <1>0, <1>9 DEF StackHoldsOnce, Starts, Moves, Stays, Sets, Height, Entry
<1>10. ASSUME NEW t \in Thread, NEW n, NEW o \in Object,
             NEW u, Asks(t, n, o, u)
     PROVE  StackHoldsOnce'
    BY <1>0, <1>10 DEF StackHoldsOnce, Asks, Uses, Height, Entry
<1>11. ASSUME NEW t \in Thread, NEW n, NEW o \in Object, Finishes(t, n, o)
     PROVE  StackHoldsOnce'
    BY <1>0, <1>11
       DEF StackHoldsOnce, Finishes, Moves, Stays, Sets, Height, Entry
<1>12. ASSUME NEW t \in Thread, NEW n, NEW o \in Object, Stores(t, n, o)
     PROVE  StackHoldsOnce'
    BY <1>0, <1>12
       DEF StackHoldsOnce, Stores, Moves, Stays, Sets, Height, Entry
<1>13. ASSUME NEW t \in Thread, NEW n, NEW o \in Object, StoresNull(t, n, o)
     PROVE  StackHoldsOnce'
    BY <1>0, <1>13
       DEF StackHoldsOnce, StoresNull, Moves, Stays, Sets, Height, Entry
<1>14. ASSUME NEW t \in Thread, NEW n, NEW o \in Object, Registers(t, n, o)
     PROVE  StackHoldsOnce'
    BY <1>0, <1>14
       DEF StackHoldsOnce, Registers, Moves, Stays, StackHoldsLive,
           Someone, StackKnown
<1>15. ASSUME NEW t \in Thread, NEW n, NEW o \in Object,
             NEW p, Gives(t, n, o, p)
     PROVE  StackHoldsOnce'
    BY <1>0, <1>15 DEF StackHoldsOnce, Gives, Ends, Stays, Height, Entry
<1> QED
    BY <1>1, <1>2, <1>3, <1>4, <1>5, <1>6, <1>7, <1>8, <1>9, <1>10,
       <1>11, <1>12, <1>13, <1>14, <1>15, StepCases DEF ThreadStep

(* ... namely those of the live objects, ...                               *)
LEMMA NextStackHoldsLive ==
    ASSUME LazyInv, [Next]_vars
    PROVE  StackHoldsLive'
<1>0. StackHoldsLive /\ StackHoldsOnce /\ CallsKnowState /\ CallsKnowMemory
      /\ OneCreator /\ DyingOrRevived /\ ExitIsAlone /\ Nested
      /\ StackKnown /\ CallsKnown /\ Main \in Thread
    BY LazyAssumption, KnownObjects DEF LazyInv
<1>1. CASE Nothing
    BY <1>0, <1>1
       DEF StackHoldsLive, Someone, Depth, Obj, Pc, Todo, Nothing, Height,
           Entry
<1>2. CASE Idle
    BY <1>0, <1>2 DEF StackHoldsLive, Someone, Idle, Height, Entry
<1>3. ASSUME NEW o \in Object, CallsBack(o)
     PROVE  StackHoldsLive'
    BY <1>0, <1>3
       DEF StackHoldsLive, Someone, CallsBack, Begins, Stays, Sets,
           StackHoldsOnce, ExitIsAlone, StackKnown
<1>4. ASSUME NEW n, NEW o \in Object, Destroys(n, o)
     PROVE  StackHoldsLive'
    BY <1>0, <1>4
       DEF StackHoldsLive, Someone, Destroys, Ends, Stays, Sets, Height,
           Entry, ExitIsAlone, Nested, NestedAt, DyingOrRevived, Destroying
<1>5. ASSUME NEW t \in Thread, NEW o \in Object, Wants(t, o)
     PROVE  StackHoldsLive'
    BY <1>0, <1>5
       DEF StackHoldsLive, Someone, Wants, Begins, Stays, Height, Entry
<1>6. ASSUME NEW t \in Thread, NEW n, NEW o \in Object,
            NEW p, NEW q, Waits(t, n, o, p, q)
     PROVE  StackHoldsLive'
    BY <1>0, <1>6
       DEF StackHoldsLive, Someone, Waits, Moves, Stays, Height, Entry
<1>7. ASSUME NEW t \in Thread, NEW n, NEW o \in Object, Swaps(t, n, o)
     PROVE  StackHoldsLive'
    BY <1>0, <1>7
       DEF StackHoldsLive, Someone, Swaps, Moves, Stays, Sets, Height,
           Entry
<1>8. ASSUME NEW t \in Thread, NEW n, NEW o \in Object, Refuses(t, n, o)
     PROVE  StackHoldsLive'
    BY <1>0, <1>8
       DEF StackHoldsLive, Someone, Refuses, Moves, Stays, Height, Entry
<1>9. ASSUME NEW t \in Thread, NEW n, NEW o \in Object, Starts(t, n, o)
     PROVE  StackHoldsLive'
    BY <1>0, <1>9
       DEF StackHoldsLive, Someone, Starts, Moves, Stays, Sets, Height,
           Entry, CallsKnowMemory, MemoryAt
<1>10. ASSUME NEW t \in Thread, NEW n, NEW o \in Object,
             NEW u, Asks(t, n, o, u)
     PROVE  StackHoldsLive'
    BY <1>0, <1>10 DEF StackHoldsLive, Someone, Asks, Uses, Height, Entry
<1>11. ASSUME NEW t \in Thread, NEW n, NEW o \in Object, Finishes(t, n, o)
     PROVE  StackHoldsLive'
    BY <1>0, <1>11
       DEF StackHoldsLive, Someone, Finishes, Moves, Stays, Sets, Height,
           Entry, CallsKnowMemory, MemoryAt
<1>12. ASSUME NEW t \in Thread, NEW n, NEW o \in Object, Stores(t, n, o)
     PROVE  StackHoldsLive'
    BY <1>0, <1>12
       DEF StackHoldsLive, Someone, Stores, Moves, Stays, Sets, Height,
           Entry
<1>13. ASSUME NEW t \in Thread, NEW n, NEW o \in Object, StoresNull(t, n, o)
     PROVE  StackHoldsLive'
    BY <1>0, <1>13
       DEF StackHoldsLive, Someone, StoresNull, Moves, Stays, Sets, Height,
           Entry
<1>14. ASSUME NEW t \in Thread, NEW n, NEW o \in Object, Registers(t, n, o)
     PROVE  StackHoldsLive'
    BY <1>0, <1>14
       DEF StackHoldsLive, Someone, Registers, Moves, Stays, StackKnown,
           CallsKnowMemory, MemoryAt, CallsKnowState, StateAt, OneCreator,
           Making, Creating
<1>15. ASSUME NEW t \in Thread, NEW n, NEW o \in Object,
             NEW p, Gives(t, n, o, p)
     PROVE  StackHoldsLive'
    BY <1>0, <1>15
       DEF StackHoldsLive, Someone, Gives, Ends, Stays, Height, Entry
<1> QED
    BY <1>1, <1>2, <1>3, <1>4, <1>5, <1>6, <1>7, <1>8, <1>9, <1>10,
       <1>11, <1>12, <1>13, <1>14, <1>15, StepCases DEF ThreadStep

(* ... and in the order of their use.                                      *)
LEMMA NextStackInOrder ==
    ASSUME LazyInv, [Next]_vars
    PROVE  StackInOrder'
<1>0. StackInOrder /\ StackKnown
    BY LazyAssumption, KnownObjects DEF LazyInv
<1>1. CASE Nothing
    BY <1>0, <1>1
       DEF StackInOrder, Depth, Obj, Pc, Todo, Nothing, Height, Entry
<1>2. CASE Idle
    BY <1>0, <1>2 DEF StackInOrder, Idle, Height, Entry
<1>3. ASSUME NEW o \in Object, CallsBack(o)
     PROVE  StackInOrder'
    BY <1>0, <1>3 DEF StackInOrder, CallsBack, Begins, Stays, Sets, StackKnown
<1>4. ASSUME NEW n, NEW o \in Object, Destroys(n, o)
     PROVE  StackInOrder'
    BY <1>0, <1>4 DEF StackInOrder, Destroys, Ends, Stays, Sets, Height, Entry
<1>5. ASSUME NEW t \in Thread, NEW o \in Object, Wants(t, o)
     PROVE  StackInOrder'
    BY <1>0, <1>5 DEF StackInOrder, Wants, Begins, Stays, Height, Entry
<1>6. ASSUME NEW t \in Thread, NEW n, NEW o \in Object,
            NEW p, NEW q, Waits(t, n, o, p, q)
     PROVE  StackInOrder'
    BY <1>0, <1>6 DEF StackInOrder, Waits, Moves, Stays, Height, Entry
<1>7. ASSUME NEW t \in Thread, NEW n, NEW o \in Object, Swaps(t, n, o)
     PROVE  StackInOrder'
    BY <1>0, <1>7 DEF StackInOrder, Swaps, Moves, Stays, Sets, Height, Entry
<1>8. ASSUME NEW t \in Thread, NEW n, NEW o \in Object, Refuses(t, n, o)
     PROVE  StackInOrder'
    BY <1>0, <1>8 DEF StackInOrder, Refuses, Moves, Stays, Height, Entry
<1>9. ASSUME NEW t \in Thread, NEW n, NEW o \in Object, Starts(t, n, o)
     PROVE  StackInOrder'
    BY <1>0, <1>9 DEF StackInOrder, Starts, Moves, Stays, Sets, Height, Entry
<1>10. ASSUME NEW t \in Thread, NEW n, NEW o \in Object,
             NEW u, Asks(t, n, o, u)
     PROVE  StackInOrder'
    BY <1>0, <1>10 DEF StackInOrder, Asks, Uses, Height, Entry
<1>11. ASSUME NEW t \in Thread, NEW n, NEW o \in Object, Finishes(t, n, o)
     PROVE  StackInOrder'
    BY <1>0, <1>11
       DEF StackInOrder, Finishes, Moves, Stays, Sets, Height, Entry
<1>12. ASSUME NEW t \in Thread, NEW n, NEW o \in Object, Stores(t, n, o)
     PROVE  StackInOrder'
    BY <1>0, <1>12 DEF StackInOrder, Stores, Moves, Stays, Sets, Height, Entry
<1>13. ASSUME NEW t \in Thread, NEW n, NEW o \in Object, StoresNull(t, n, o)
     PROVE  StackInOrder'
    BY <1>0, <1>13
       DEF StackInOrder, StoresNull, Moves, Stays, Sets, Height, Entry
<1>14. ASSUME NEW t \in Thread, NEW n, NEW o \in Object, Registers(t, n, o)
     PROVE  StackInOrder'
  <2>1. ASSUME NEW i \in 1 .. Height', NEW u \in program.uses[Entry(i)'],
               ~Leaks(program.kind[u]), u \notin overtaken'
       PROVE  \E j \in (i + 1) .. Height' : Entry(j)' = u
    <3>1. Height \in Nat /\ Height' = Height + 1
        BY <1>0, <1>14 DEF StackKnown, Registers
    <3>2. CASE i = 1
      <4>1. PICK k \in 1 .. Height : Entry(k) = u
          BY <1>14, <2>1, <3>2 DEF Registers
      <4>2. k + 1 \in 2 .. Height' /\ Entry(k + 1)' = u
          BY <1>14, <3>1, <4>1 DEF Registers
      <4> QED  BY <3>2, <4>2
    <3>3. CASE i # 1
      <4>1. i - 1 \in 1 .. Height /\ Entry(i)' = Entry(i - 1) /\ u \notin overtaken
          BY <1>14, <2>1, <3>3 DEF Registers
      <4>2. PICK k \in i .. Height : Entry(k) = u
          BY <1>0, <2>1, <3>1, <4>1 DEF StackInOrder
      <4>3. k + 1 \in (i + 1) .. Height' /\ Entry(k + 1)' = u
          BY <1>14, <3>1, <4>1, <4>2 DEF Registers
      <4> QED  BY <4>3
    <3> QED  BY <3>2, <3>3
  <2> QED  BY <1>14, <2>1 DEF Registers, StackInOrder
<1>15. ASSUME NEW t \in Thread, NEW n, NEW o \in Object,
             NEW p, Gives(t, n, o, p)
     PROVE  StackInOrder'
    BY <1>0, <1>15 DEF StackInOrder, Gives, Ends, Stays, Height, Entry
<1> QED
    BY <1>1, <1>2, <1>3, <1>4, <1>5, <1>6, <1>7, <1>8, <1>9, <1>10,
       <1>11, <1>12, <1>13, <1>14, <1>15, StepCases DEF ThreadStep

(* A constructor has what it used.                                         *)
LEMMA NextUsedIsLive ==
    ASSUME LazyInv, [Next]_vars
    PROVE  UsedIsLive'
<1>0. UsedIsLive /\ CallsKnowState /\ CallsKnowMemory /\ StateOfMemory
      /\ NullOnlyDestroyed /\ ExitIsAlone /\ Nested /\ UsesKnown
      /\ CallsKnown /\ Main \in Thread
    BY LazyAssumption, KnownObjects DEF LazyInv
<1>1. CASE Nothing
    BY <1>0, <1>1 DEF UsedIsLive, LiveAt, Depth, Obj, Pc, Todo, Nothing
<1>2. CASE Idle
    BY <1>0, <1>2 DEF UsedIsLive, LiveAt, Idle
<1>3. ASSUME NEW o \in Object, CallsBack(o)
     PROVE  UsedIsLive'
    BY <1>0, <1>3 DEF UsedIsLive, LiveAt, CallsBack, Begins, Stays, Sets
<1>4. ASSUME NEW n, NEW o \in Object, Destroys(n, o)
     PROVE  UsedIsLive'
    BY <1>0, <1>4
       DEF UsedIsLive, LiveAt, Destroys, Ends, Stays, Sets, ExitIsAlone,
           Nested, NestedAt
<1>5. ASSUME NEW t \in Thread, NEW o \in Object, Wants(t, o)
     PROVE  UsedIsLive'
    BY <1>0, <1>5 DEF UsedIsLive, LiveAt, Wants, Begins, Stays
<1>6. ASSUME NEW t \in Thread, NEW n, NEW o \in Object,
            NEW p, NEW q, Waits(t, n, o, p, q)
     PROVE  UsedIsLive'
    BY <1>0, <1>6 DEF UsedIsLive, LiveAt, Waits, Moves, Stays
<1>7. ASSUME NEW t \in Thread, NEW n, NEW o \in Object, Swaps(t, n, o)
     PROVE  UsedIsLive'
    BY <1>0, <1>7 DEF UsedIsLive, LiveAt, Swaps, Moves, Stays, Sets
<1>8. ASSUME NEW t \in Thread, NEW n, NEW o \in Object, Refuses(t, n, o)
     PROVE  UsedIsLive'
    BY <1>0, <1>8 DEF UsedIsLive, LiveAt, Refuses, Moves, Stays
<1>9. ASSUME NEW t \in Thread, NEW n, NEW o \in Object, Starts(t, n, o)
     PROVE  UsedIsLive'
    BY <1>0, <1>9
       DEF UsedIsLive, LiveAt, Starts, Moves, Stays, Sets, CallsKnowMemory,
           MemoryAt, UsesKnown, CallsKnown
<1>10. ASSUME NEW t \in Thread, NEW n, NEW o \in Object,
             NEW u, Asks(t, n, o, u)
     PROVE  UsedIsLive'
    BY <1>0, <1>10 DEF UsedIsLive, LiveAt, Asks, Uses, Takes
<1>11. ASSUME NEW t \in Thread, NEW n, NEW o \in Object, Finishes(t, n, o)
     PROVE  UsedIsLive'
    BY <1>0, <1>11
       DEF UsedIsLive, LiveAt, Finishes, Moves, Stays, Sets, UsesKnown,
           CallsKnown
<1>12. ASSUME NEW t \in Thread, NEW n, NEW o \in Object, Stores(t, n, o)
     PROVE  UsedIsLive'
    BY <1>0, <1>12 DEF UsedIsLive, LiveAt, Stores, Moves, Stays, Sets
<1>13. ASSUME NEW t \in Thread, NEW n, NEW o \in Object, StoresNull(t, n, o)
     PROVE  UsedIsLive'
    BY <1>0, <1>13 DEF UsedIsLive, LiveAt, StoresNull, Moves, Stays, Sets
<1>14. ASSUME NEW t \in Thread, NEW n, NEW o \in Object, Registers(t, n, o)
     PROVE  UsedIsLive'
    BY <1>0, <1>14 DEF UsedIsLive, LiveAt, Registers, Moves, Stays
<1>15. ASSUME NEW t \in Thread, NEW n, NEW o \in Object,
             NEW p, Gives(t, n, o, p)
     PROVE  UsedIsLive'
    BY <1>0, <1>15
       DEF UsedIsLive, LiveAt, Gives, Ends, Stays, CallsKnowState, StateAt,
           StateOfMemory, Destroying, Nested, NestedAt, NullOnlyDestroyed,
           NullAt, CallsKnown, UsesKnown
<1> QED
    BY <1>1, <1>2, <1>3, <1>4, <1>5, <1>6, <1>7, <1>8, <1>9, <1>10,
       <1>11, <1>12, <1>13, <1>14, <1>15, StepCases DEF ThreadStep

(* What a destructor asks for.                                             *)
LEMMA NextAskedIsCreated ==
    ASSUME LazyInv, [Next]_vars
    PROVE  AskedIsCreated'
<1>0. AskedIsCreated /\ UsedOutlivesUser /\ DyingOrRevived /\ StateOfMemory
      /\ HasCreator /\ ExitIsAlone /\ Nested /\ Main # Nobody /\ CallsKnown /\ Main \in Thread
      /\ \A x \in Object : state_[x] \in {"EMPTY", "CREATING", "CREATED"}
    BY LazyAssumption, KnownObjects DEF LazyInv, TypeOK
<1>1. CASE Nothing
    BY <1>0, <1>1
       DEF AskedIsCreated, ExitIsAlone, Nested, NestedAt, Depth, Obj, Pc,
           Todo, Nothing
<1>2. CASE Idle
    BY <1>0, <1>2 DEF AskedIsCreated, ExitIsAlone, Nested, NestedAt, Idle
<1>3. ASSUME NEW o \in Object, CallsBack(o)
     PROVE  AskedIsCreated'
    BY <1>0, <1>3
       DEF AskedIsCreated, ExitIsAlone, Nested, NestedAt, CallsBack,
           Begins, Stays, Sets
<1>4. ASSUME NEW n, NEW o \in Object, Destroys(n, o)
     PROVE  AskedIsCreated'
    BY <1>0, <1>4
       DEF AskedIsCreated, ExitIsAlone, Nested, NestedAt, Destroys, Ends,
           Stays, Sets
<1>5. ASSUME NEW t \in Thread, NEW o \in Object, Wants(t, o)
     PROVE  AskedIsCreated'
    BY <1>0, <1>5
       DEF AskedIsCreated, ExitIsAlone, Nested, NestedAt, Wants, Begins,
           Stays
<1>6. ASSUME NEW t \in Thread, NEW n, NEW o \in Object,
            NEW p, NEW q, Waits(t, n, o, p, q)
     PROVE  AskedIsCreated'
    BY <1>0, <1>6
       DEF AskedIsCreated, ExitIsAlone, Nested, NestedAt, Waits, Moves,
           Stays
<1>7. ASSUME NEW t \in Thread, NEW n, NEW o \in Object, Swaps(t, n, o)
     PROVE  AskedIsCreated'
    BY <1>0, <1>7
       DEF AskedIsCreated, ExitIsAlone, Nested, NestedAt, Swaps, Moves,
           Stays, Sets
<1>8. ASSUME NEW t \in Thread, NEW n, NEW o \in Object, Refuses(t, n, o)
     PROVE  AskedIsCreated'
    BY <1>0, <1>8
       DEF AskedIsCreated, ExitIsAlone, Nested, NestedAt, Refuses, Moves,
           Stays
<1>9. ASSUME NEW t \in Thread, NEW n, NEW o \in Object, Starts(t, n, o)
     PROVE  AskedIsCreated'
    BY <1>0, <1>9
       DEF AskedIsCreated, ExitIsAlone, Nested, NestedAt, Starts, Moves,
           Stays, Sets
<1>10. ASSUME NEW t \in Thread, NEW n, NEW o \in Object,
             NEW u, Asks(t, n, o, u)
     PROVE  AskedIsCreated'
  <2>0. PICK p \in {"construct", "destruct"} : Uses(t, n, o, p, u)
      BY <1>10 DEF Asks
  <2> SUFFICES ASSUME phase = "exit", Depth(Main)' >= 2,
                      Obj(Main, 2)' \in program.uses[Obj(Main, 1)'] \ overtaken
               PROVE  state_[Obj(Main, 2)'] = "CREATED" /\ Pc(Main, 2)' \in {"load", "return"}
      BY <1>10 DEF AskedIsCreated, Asks
  <2>1. t = Main
      BY <1>0, <2>0 DEF ExitIsAlone, Uses
  <2>2. CASE n >= 2
      BY <1>0, <2>0, <2>1, <2>2 DEF AskedIsCreated, Nested, NestedAt, Uses
  <2>3. CASE n = 1
    <3>1. /\ Depth(Main) = 1 /\ Obj(Main, 1) = o /\ Obj(Main, 1)' = o
          /\ Obj(Main, 2)' = u /\ Pc(Main, 2)' = "load"
        BY <2>0, <2>1, <2>3 DEF Uses
    <3>2. Destroying(o)
        BY <1>0, <3>1 DEF Nested, NestedAt, Destroying
    <3>3. ~Leaks(program.kind[o]) /\ object[o] = "dying"
        BY <1>0, <3>1, <3>2 DEF DyingOrRevived
    <3>4. \A x, pcs : Someone(x, pcs) => "destruct" \in pcs
        BY <1>0, <3>1 DEF Someone, ExitIsAlone, Nested, NestedAt
    <3>5. ~Someone(o, {"store", "register"}) /\ ~Someone(u, Creating)
        BY <3>4 DEF Creating
    <3>6. u \in Object /\ u \in program.uses[o] /\ u \notin overtaken
        BY <1>10, <3>1 DEF Asks
    <3>7. object[u] = "live"
        BY <1>0, <3>3, <3>5, <3>6 DEF UsedOutlivesUser
    <3>8. state_[u] = "CREATED"
        BY <1>0, <3>5, <3>6, <3>7 DEF HasCreator, StateOfMemory
    <3> QED  BY <3>1, <3>8
  <2> QED  BY <2>0, <2>2, <2>3 DEF Uses
<1>11. ASSUME NEW t \in Thread, NEW n, NEW o \in Object, Finishes(t, n, o)
     PROVE  AskedIsCreated'
    BY <1>0, <1>11
       DEF AskedIsCreated, ExitIsAlone, Nested, NestedAt, Finishes, Moves,
           Stays, Sets
<1>12. ASSUME NEW t \in Thread, NEW n, NEW o \in Object, Stores(t, n, o)
     PROVE  AskedIsCreated'
    BY <1>0, <1>12
       DEF AskedIsCreated, ExitIsAlone, Nested, NestedAt, Stores, Moves,
           Stays, Sets
<1>13. ASSUME NEW t \in Thread, NEW n, NEW o \in Object, StoresNull(t, n, o)
     PROVE  AskedIsCreated'
    BY <1>0, <1>13
       DEF AskedIsCreated, ExitIsAlone, Nested, NestedAt, StoresNull,
           Moves, Stays, Sets
<1>14. ASSUME NEW t \in Thread, NEW n, NEW o \in Object, Registers(t, n, o)
     PROVE  AskedIsCreated'
    BY <1>0, <1>14
       DEF AskedIsCreated, ExitIsAlone, Nested, NestedAt, Registers, Moves,
           Stays
<1>15. ASSUME NEW t \in Thread, NEW n, NEW o \in Object,
             NEW p, Gives(t, n, o, p)
     PROVE  AskedIsCreated'
    BY <1>0, <1>15
       DEF AskedIsCreated, ExitIsAlone, Nested, NestedAt, Gives, Ends,
           Stays
<1> QED
    BY <1>1, <1>2, <1>3, <1>4, <1>5, <1>6, <1>7, <1>8, <1>9, <1>10,
       <1>11, <1>12, <1>13, <1>14, <1>15, StepCases DEF ThreadStep

(* The used outlives its user.                                             *)
LEMMA NextUsedOutlivesUser ==
    ASSUME LazyInv, [Next]_vars
    PROVE  UsedOutlivesUser'
<1>0. UsedOutlivesUser /\ UsedIsLive /\ CallsKnowMemory /\ StateOfMemory /\ DyingOrRevived
      /\ StackHoldsOnce /\ StackHoldsLive /\ StackInOrder /\ StackKnown /\ UsesKnown
      /\ ExitIsAlone /\ Nested /\ Main # Nobody /\ CallsKnown /\ Main \in Thread
      /\ phase \in {"run", "exit", "done"}
    BY LazyAssumption, KnownObjects DEF LazyInv, TypeOK
<1>1. CASE Nothing
    BY <1>0, <1>1 DEF UsedOutlivesUser, Someone, Depth, Obj, Pc, Todo, Nothing
<1>2. CASE Idle
    BY <1>0, <1>2
       DEF UsedOutlivesUser, Someone, Idle, StackHoldsLive, StateOfMemory,
           Destroying
<1>3. ASSUME NEW o \in Object, CallsBack(o)
     PROVE  UsedOutlivesUser'
    BY <1>0, <1>3
       DEF UsedOutlivesUser, Someone, CallsBack, Begins, Stays, Sets,
           StackHoldsLive, StackHoldsOnce, StackInOrder, StackKnown,
           StateOfMemory, Destroying, UsesKnown, ExitIsAlone
<1>4. ASSUME NEW n, NEW o \in Object, Destroys(n, o)
     PROVE  UsedOutlivesUser'
    BY <1>0, <1>4
       DEF UsedOutlivesUser, Someone, Destroys, Ends, Stays, Sets,
           DyingOrRevived, Destroying, ExitIsAlone, Nested, NestedAt,
           UsesKnown
<1>5. ASSUME NEW t \in Thread, NEW o \in Object, Wants(t, o)
     PROVE  UsedOutlivesUser'
    BY <1>0, <1>5 DEF UsedOutlivesUser, Someone, Wants, Begins, Stays
<1>6. ASSUME NEW t \in Thread, NEW n, NEW o \in Object,
            NEW p, NEW q, Waits(t, n, o, p, q)
     PROVE  UsedOutlivesUser'
    BY <1>0, <1>6 DEF UsedOutlivesUser, Someone, Waits, Moves, Stays
<1>7. ASSUME NEW t \in Thread, NEW n, NEW o \in Object, Swaps(t, n, o)
     PROVE  UsedOutlivesUser'
    BY <1>0, <1>7 DEF UsedOutlivesUser, Someone, Swaps, Moves, Stays, Sets
<1>8. ASSUME NEW t \in Thread, NEW n, NEW o \in Object, Refuses(t, n, o)
     PROVE  UsedOutlivesUser'
    BY <1>0, <1>8 DEF UsedOutlivesUser, Someone, Refuses, Moves, Stays
<1>9. ASSUME NEW t \in Thread, NEW n, NEW o \in Object, Starts(t, n, o)
     PROVE  UsedOutlivesUser'
    BY <1>0, <1>9
       DEF UsedOutlivesUser, Someone, Starts, Moves, Stays, Sets,
           CallsKnowMemory, MemoryAt, UsesKnown
<1>10. ASSUME NEW t \in Thread, NEW n, NEW o \in Object,
             NEW u, Asks(t, n, o, u)
     PROVE  UsedOutlivesUser'
    BY <1>0, <1>10 DEF UsedOutlivesUser, Someone, Asks, Uses
<1>11. ASSUME NEW t \in Thread, NEW n, NEW o \in Object, Finishes(t, n, o)
     PROVE  UsedOutlivesUser'
  <2>1. Someone(o, {"store", "register"})'
      BY <1>11 DEF Finishes, Moves, Someone
  <2>2. \A x \in Object : x # o =>
            (Someone(x, {"store", "register"})' <=> Someone(x, {"store", "register"}))
      BY <1>11 DEF Finishes, Moves, Stays, Someone
  <2>3. phase # "exit" => \A u \in program.uses[o] : object[u] = "live"
      BY <1>0, <1>11 DEF Finishes, Moves, UsedIsLive, LiveAt, ExitIsAlone
  <2>4. \A u \in Object : object[u] = "live" => object'[u] = "live"
      BY <1>11 DEF Finishes, Sets
  <2> QED
      BY <1>0, <1>11, <2>1, <2>2, <2>3, <2>4
         DEF UsedOutlivesUser, UsesKnown, Finishes, Sets
<1>12. ASSUME NEW t \in Thread, NEW n, NEW o \in Object, Stores(t, n, o)
     PROVE  UsedOutlivesUser'
    BY <1>0, <1>12 DEF UsedOutlivesUser, Someone, Stores, Moves, Stays, Sets
<1>13. ASSUME NEW t \in Thread, NEW n, NEW o \in Object, StoresNull(t, n, o)
     PROVE  UsedOutlivesUser'
    BY <1>0, <1>13
       DEF UsedOutlivesUser, Someone, StoresNull, Moves, Stays, Sets
<1>14. ASSUME NEW t \in Thread, NEW n, NEW o \in Object, Registers(t, n, o)
     PROVE  UsedOutlivesUser'
    BY <1>0, <1>14
       DEF UsedOutlivesUser, Someone, Registers, Moves, Stays, ExitIsAlone
<1>15. ASSUME NEW t \in Thread, NEW n, NEW o \in Object,
             NEW p, Gives(t, n, o, p)
     PROVE  UsedOutlivesUser'
    BY <1>0, <1>15 DEF UsedOutlivesUser, Someone, Gives, Ends, Stays
<1> QED
    BY <1>1, <1>2, <1>3, <1>4, <1>5, <1>6, <1>7, <1>8, <1>9, <1>10,
       <1>11, <1>12, <1>13, <1>14, <1>15, StepCases DEF ThreadStep

(* The types, action by action.                                            *)
LEMMA NextTypeOK ==
    ASSUME TypeOK, [Next]_vars
    PROVE  TypeOK'
<1> DEFINE TypedSo == frames' \in [Thread -> Seq([obj : Object, pc : PCs,
                                                  todo : SUBSET Object])]
<1>0. Typed => TypedSo  BY DEF Typed, Calling
<1> HIDE DEF TypedSo
<1>1. CASE UNCHANGED vars
    BY <1>1 DEF vars, TypeOK
<1>2. ASSUME NEW t \in Thread, NEW o \in Object, Call(t, o)
     PROVE  TypeOK'
  <2>1. TypedSo  BY <1>0, <1>2, CallFrames
  <2>2. calls' \in 0 .. MaxCalls
      BY <1>2, LazyAssumption DEF Call, TypeOK
  <2> QED  BY <1>2, <2>1, <2>2 DEF Call, TypeOK, TypedSo
<1>3. ASSUME NEW t \in Thread, NEW o \in Object, Load(t, o)
     PROVE  TypeOK'
  <2>1. TypedSo  BY <1>0, <1>3, LoadFrames
  <2> QED  BY <1>3, <2>1 DEF Load, TypeOK, TypedSo
<1>4. ASSUME NEW t \in Thread, NEW o \in Object, CompareAndSwap(t, o)
     PROVE  TypeOK'
  <2>1. TypedSo  BY <1>0, <1>4, SwapFrames
  <2>2. state_' \in [Object -> {"EMPTY", "CREATING", "CREATED"}]
      BY <1>4 DEF CompareAndSwap, TypeOK
  <2> QED  BY <1>4, <2>1, <2>2 DEF CompareAndSwap, TypeOK, TypedSo
<1>5. ASSUME NEW t \in Thread, NEW o \in Object, Spin(t, o)
     PROVE  TypeOK'
  <2>1. TypedSo  BY <1>0, <1>5, SpinFrames
  <2> QED  BY <1>5, <2>1 DEF Spin, TypeOK, TypedSo
<1>6. ASSUME NEW t \in Thread, NEW o \in Object, New(t, o)
     PROVE  TypeOK'
  <2>1. TypedSo  BY <1>0, <1>6, NewFrames
  <2>2. object' \in [Object -> {"none", "building", "live", "dying"}]
      BY <1>6 DEF New, TypeOK
  <2>3. dead_' \subseteq Object
      BY <1>6, LazyAssumption DEF New, TypeOK
  <2> QED  BY <1>6, <2>1, <2>2, <2>3 DEF New, TypeOK, TypedSo
<1>7. ASSUME NEW t \in Thread, NEW o \in Object, NEW u \in Object,
            Use(t, o, u)
     PROVE  TypeOK'
  <2>1. PICK p : At(t, o, p)  BY <1>7 DEF Use
  <2>2. TypedSo  BY <1>0, <1>7, <2>1, UseFrames
  <2> QED  BY <1>7, <2>2 DEF Use, TypeOK, TypedSo
<1>8. ASSUME NEW t \in Thread, NEW o \in Object, Constructed(t, o)
     PROVE  TypeOK'
  <2>1. TypedSo  BY <1>0, <1>8, ConstructedFrames
  <2>2. object' \in [Object -> {"none", "building", "live", "dying"}]
      BY <1>8 DEF Constructed, TypeOK
  <2> QED  BY <1>8, <2>1, <2>2 DEF Constructed, TypeOK, TypedSo
<1>9. ASSUME NEW t \in Thread, NEW o \in Object, Store(t, o)
     PROVE  TypeOK'
  <2>1. TypedSo  BY <1>0, <1>9, StoreFrames
  <2>2. state_' \in [Object -> {"EMPTY", "CREATING", "CREATED"}]
      BY <1>9 DEF Store, TypeOK
  <2> QED  BY <1>9, <2>1, <2>2 DEF Store, TypeOK, TypedSo
<1>10. ASSUME NEW t \in Thread, NEW o \in Object, StoreNull(t, o)
     PROVE  TypeOK'
  <2>1. TypedSo  BY <1>0, <1>10, StoreNullFrames
  <2>2. state_' \in [Object -> {"EMPTY", "CREATING", "CREATED"}]
      BY <1>10 DEF StoreNull, TypeOK
  <2> QED  BY <1>10, <2>1, <2>2 DEF StoreNull, TypeOK, TypedSo
<1>11. ASSUME NEW t \in Thread, NEW o \in Object, RegisterCallback(t, o)
     PROVE  TypeOK'
  <2>1. TypedSo  BY <1>0, <1>11, RegisterFrames
  <2>2. stack_' \in Seq(Object)
      BY <1>11 DEF RegisterCallback, TypeOK
  <2>3. overtaken' \subseteq Object
      BY <1>11, LazyAssumption DEF RegisterCallback, TypeOK
  <2> QED  BY <1>11, <2>1, <2>2, <2>3 DEF RegisterCallback, TypeOK, TypedSo
<1>12. ASSUME NEW t \in Thread, NEW o \in Object, Return(t, o)
     PROVE  TypeOK'
  <2>1. TypedSo  BY <1>0, <1>12, ReturnFrames
  <2> QED  BY <1>12, <2>1 DEF Return, TypeOK, TypedSo
<1>13. CASE ProcessCallbacksNow
    BY <1>13 DEF ProcessCallbacksNow, TypeOK
<1>14. ASSUME NEW o \in Object, CallBack(o)
     PROVE  TypeOK'
  <2>1. TypedSo  BY <1>0, <1>14, CallBackFrames
  <2>2. stack_' \in Seq(Object)
      BY <1>14 DEF CallBack, TypeOK
  <2>3. state_' \in [Object -> {"EMPTY", "CREATING", "CREATED"}]
      BY <1>14 DEF CallBack, TypeOK
  <2>4. object' \in [Object -> {"none", "building", "live", "dying"}]
      BY <1>14 DEF CallBack, TypeOK
  <2>5. dead_' \subseteq Object
      BY <1>14, LazyAssumption DEF CallBack, TypeOK
  <2> QED  BY <1>14, <2>1, <2>2, <2>3, <2>4, <2>5 DEF CallBack, TypeOK, TypedSo
<1>15. ASSUME NEW o \in Object, Destructed(o)
     PROVE  TypeOK'
  <2>1. TypedSo  BY <1>0, <1>15, DestructedFrames
  <2>2. state_' \in [Object -> {"EMPTY", "CREATING", "CREATED"}]
      BY <1>15 DEF Destructed, TypeOK
  <2>3. object' \in [Object -> {"none", "building", "live", "dying"}]
      BY <1>15 DEF Destructed, TypeOK
  <2>4. gone' \subseteq Object
      BY <1>15 DEF Destructed, TypeOK
  <2> QED  BY <1>15, <2>1, <2>2, <2>3, <2>4 DEF Destructed, TypeOK, TypedSo
<1>16. CASE Processed
  <2>1. calls' \in 0 .. MaxCalls
      BY <1>16, LazyAssumption DEF Processed, TypeOK
  <2>2. round' \in 1 .. MaxRounds
      BY <1>16, LazyAssumption DEF Processed, TypeOK
  <2>3. phase' \in {"run", "exit", "done"}
      BY <1>16 DEF Processed
  <2> QED  BY <1>16, <2>1, <2>2, <2>3 DEF Processed, TypeOK
<1>17. ASSUME NEW o \in Object, Resurrect(o)
     PROVE  TypeOK'
    BY <1>17 DEF Resurrect, TypeOK
<1> QED
    BY <1>1, <1>2, <1>3, <1>4, <1>5, <1>6, <1>7, <1>8, <1>9, <1>10,
       <1>11, <1>12, <1>13, <1>14, <1>15, <1>16, <1>17 DEF Next, Step,
       Exit

-----------------------------------------------------------------------------
(* No calls, no objects, an empty stack.                                   *)
LEMMA InitLazyInv == Init => LazyInv
<1> SUFFICES ASSUME Init PROVE LazyInv  OBVIOUS
<1>1. TypeOK
  <2>1. frames \in [Thread -> Seq([obj : Object, pc : PCs, todo : SUBSET Object])]
      BY DEF Init
  <2>2. stack_ \in Seq(Object)  BY DEF Init
  <2>3. calls \in 0 .. MaxCalls /\ round \in 1 .. MaxRounds
      BY LazyAssumption DEF Init
  <2> QED  BY <2>1, <2>2, <2>3 DEF Init, TypeOK
<1>2. /\ \A t \in Thread : Depth(t) = 0 /\ \A i \in 1 .. Depth(t) : FALSE
      /\ Height = 0 /\ \A i \in 1 .. Height : FALSE
      /\ Main \in Thread
    BY LazyAssumption DEF Init, Depth, Height
<1>3. /\ \A o \in Object : state_[o] = "EMPTY" /\ object[o] = "none"
      /\ dead_ = {} /\ lock_ = Nobody /\ phase = "run"
    BY DEF Init
<1>4. ExitIsAlone /\ Nested /\ CallsKnowState /\ OneCreator /\ HasCreator
    BY <1>2, <1>3
       DEF ExitIsAlone, Nested, CallsKnowState, OneCreator, HasCreator
<1>5. CallsKnowMemory /\ StateOfMemory /\ DyingOrRevived
    BY <1>2, <1>3
       DEF CallsKnowMemory, StateOfMemory, DyingOrRevived, Destroying
<1>6. NullOnlyDestroyed /\ DeadIsDestroyed
    BY <1>2, <1>3 DEF NullOnlyDestroyed, DeadIsDestroyed
<1>7. StackHoldsOnce /\ StackHoldsLive /\ StackInOrder
    BY <1>2, <1>3 DEF StackHoldsOnce, StackHoldsLive, StackInOrder
<1>8. UsedIsLive /\ UsedOutlivesUser /\ AskedIsCreated
    BY <1>2, <1>3 DEF UsedIsLive, UsedOutlivesUser, AskedIsCreated
<1> QED  BY <1>1, <1>4, <1>5, <1>6, <1>7, <1>8 DEF LazyInv

(* The parts together.                                                     *)
LEMMA NextLazyInv == LazyInv /\ [Next]_vars => LazyInv'
<1> SUFFICES ASSUME LazyInv, [Next]_vars PROVE LazyInv'  OBVIOUS
<1>1. TypeOK'  BY NextTypeOK DEF LazyInv
<1> QED
    BY <1>1, NextExitIsAlone, NextNested, NextCallsKnowState, NextOneCreator,
       NextHasCreator, NextCallsKnowMemory, NextStateOfMemory,
       NextDyingOrRevived, NextNullOnlyDestroyed, NextDeadIsDestroyed,
       NextStackHoldsOnce, NextStackHoldsLive, NextStackInOrder,
       NextUsedIsLive, NextUsedOutlivesUser, NextAskedIsCreated
       DEF LazyInv

(* The invariant of LazyInstance, Singleton and AtExitManager: who creates *)
(* an object, what its state, its memory and the stack of callbacks hold.  *)
THEOREM Invariance == Spec => []LazyInv
BY InitLazyInv, NextLazyInv, PTL DEF Spec

(* The state says what the memory holds when a call returns.               *)
LEMMA LiveWhenReturned == LazyInv => ReturnsLive
<1> SUFFICES ASSUME LazyInv, NEW o \in Object
             PROVE  /\ Someone(o, {"return"}) =>
                          \/ object[o] = "live"
                          \/ IsLazy(program.kind[o]) /\ Someone(o, {"destruct"})
                    /\ Someone(o, {"return_null"}) =>
                          /\ program.kind[o] = "static"
                          /\ o \in gone \/ Someone(o, {"destruct"})
    BY DEF ReturnsLive
<1>1. Destroying(o) => Someone(o, {"destruct"})
  <2>1. Main \in Thread /\ Depth(Main) \in Nat
      BY LazyAssumption DEF LazyInv, TypeOK, Depth
  <2> QED  BY <2>1 DEF Destroying, Someone
<1>2. ASSUME Someone(o, {"return"})
     PROVE  \/ object[o] = "live"
            \/ IsLazy(program.kind[o]) /\ Someone(o, {"destruct"})
  <2>1. state_[o] = "CREATED"
      BY <1>2 DEF Someone, LazyInv, CallsKnowState, StateAt
  <2> QED  BY <1>1, <2>1 DEF LazyInv, StateOfMemory
<1>3. ASSUME Someone(o, {"return_null"})
     PROVE  program.kind[o] = "static" /\ (o \in gone \/ Someone(o, {"destruct"}))
  <2>1. program.kind[o] = "static" /\ Destroyed(o)
      BY <1>3 DEF Someone, LazyInv, NullOnlyDestroyed, NullAt
  <2> QED  BY <1>1, <2>1 DEF Destroyed
<1> QED  BY <1>2, <1>3

(* Pointer() and get() of LazyInstance and Singleton give every thread an  *)
(* object whose constructor has returned and whose destructor has not been *)
(* called; only what asks during its own destruction gets something else.  *)
THEOREM CallersGetLiveObjects == Spec => []ReturnsLive
BY Invariance, LiveWhenReturned, PTL

(* One place in the stack for what is live, none for the rest.             *)
LEMMA OnceInTheStack == LazyInv => RegisteredOnce
<1> SUFFICES ASSUME LazyInv, NEW o \in Object
             PROVE  Cardinality({i \in DOMAIN stack_ : stack_[i] = o}) =
                        IF /\ object[o] = "live" /\ ~Leaks(program.kind[o])
                           /\ ~Someone(o, {"store", "register"})
                        THEN 1 ELSE 0
    BY DEF RegisteredOnce
<1> DEFINE S == {i \in DOMAIN stack_ : stack_[i] = o}
           In == /\ object[o] = "live" /\ ~Leaks(program.kind[o])
                 /\ ~Someone(o, {"store", "register"})
<1>1. DOMAIN stack_ = 1 .. Height /\ \A i : Entry(i) = stack_[i]
    BY DEF LazyInv, TypeOK, Height, Entry
<1>2. In <=> \E i \in 1 .. Height : Entry(i) = o
    BY DEF LazyInv, StackHoldsLive
<1> HIDE DEF In
<1>3. CASE In
  <2>1. PICK i \in 1 .. Height : Entry(i) = o  BY <1>2, <1>3
  <2>2. S = {i}  BY <1>1, <2>1 DEF LazyInv, StackHoldsOnce
  <2>3. Cardinality({i}) = 1  BY FS_Singleton
  <2>4. Cardinality(S) = 1  BY <2>2, <2>3, Zenon
  <2> HIDE DEF S
  <2>5. Cardinality(S) = IF In THEN 1 ELSE 0  BY <1>3, <2>4
  <2> QED  BY <2>5 DEF S, In
<1>4. CASE ~In
  <2>1. S = {}  BY <1>1, <1>2, <1>4
  <2>2. Cardinality({}) = 0  BY FS_EmptySet
  <2>3. Cardinality(S) = 0  BY <2>1, <2>2, Zenon
  <2> HIDE DEF S
  <2>4. Cardinality(S) = IF In THEN 1 ELSE 0  BY <1>4, <2>3
  <2> QED  BY <2>4 DEF S, In
<1> QED  BY <1>3, <1>4

(* CompleteInstance() and get() register every object that is not leaky    *)
(* with the AtExitManager exactly once, whichever threads race to it and   *)
(* however often the callbacks are processed.                              *)
THEOREM CallbacksRegisteredOnce == Spec => []RegisteredOnce
BY Invariance, OnceInTheStack, PTL

(* The LIFO order in which the AtExitManager destroys: what a constructor  *)
(* used is alive as long as its object, unless it was overtaken between    *)
(* the Release_Store and the registration.                                 *)
THEOREM UsedObjectsOutliveUsers == Spec => []UsedOutlivesUser
<1>1. LazyInv => UsedOutlivesUser  BY DEF LazyInv
<1> QED  BY <1>1, Invariance, PTL

(* What was used is found: its call does not come to register.             *)
LEMMA HangsOnNewUse == LazyInv => HangsOnlyOnNewUse
<1> SUFFICES ASSUME LazyInv, Hangs,
                    Obj(Main, 2) \in program.uses[Obj(Main, 1)] \ overtaken
             PROVE  FALSE
    BY DEF HangsOnlyOnNewUse
<1>1. PICK n : n = Depth(Main)  OBVIOUS
<1>2. n \in Nat /\ n >= 1 /\ Pc(Main, n) = "register"
    BY <1>1, LazyAssumption DEF Hangs, LazyInv, TypeOK, At, Top, Depth, Pc
<1>3. phase = "exit" /\ Main \in Thread  BY LazyAssumption DEF Hangs
<1>4. Pc(Main, 1) = "destruct"
    BY <1>1, <1>2, <1>3 DEF LazyInv, Nested, NestedAt
<1>5. n >= 2  BY <1>2, <1>4
<1>6. Pc(Main, 2) \in {"load", "return"}
    BY <1>1, <1>3, <1>5 DEF LazyInv, AskedIsCreated
<1>7. n = 2  BY <1>1, <1>2, <1>3, <1>5, <1>6 DEF LazyInv, Nested, NestedAt
<1> QED  BY <1>2, <1>6, <1>7

(* ProcessCallbacksNow() runs the callbacks under its lock: it waits for   *)
(* itself only when a destructor asks for an object that its constructor   *)
(* had not used, or one that was overtaken.                                *)
THEOREM ExitHangsOnlyOnNewUse == Spec => []HangsOnlyOnNewUse
BY Invariance, HangsOnNewUse, PTL
=============================================================================
