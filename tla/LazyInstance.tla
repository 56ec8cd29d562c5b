---------------------------- MODULE LazyInstance ----------------------------
(***************************************************************************)
(* Objects that are created on first use, by whichever thread comes first, *)
(* and destroyed at exit: LazyInstance (base/lazy_instance), Singleton     *)
(* with its traits (base/singleton.h) and AtExitManager (base/at_exit).    *)
(* A constructor may use other such objects, and a destructor may ask for  *)
(* them again.  A thread is a stack of calls of Pointer() or get(), of     *)
(* constructors and of destructors; each step is one access to shared      *)
(* state, in the order of the program, as on x86.                          *)
(***************************************************************************)
EXTENDS Naturals, Sequences, FiniteSets

CONSTANTS Object, Thread,
          Main,        \* the thread that processes the callbacks at exit
          Programs,    \* what the objects are: see LazyAssumption
          MaxCalls,    \* bound: calls of the threads between two exits
          MaxRounds    \* bound: how often the callbacks are processed

(* "lazy" and "leaky" are LazyInstances with the default and the leaky     *)
(* traits, "singleton", "leaky_singleton" and "static" the Singletons with *)
(* theirs.                                                                 *)
Kind == {"lazy", "leaky", "singleton", "leaky_singleton", "static"}
IsLazy(k) == k \in {"lazy", "leaky"}
Leaks(k) == k \in {"leaky", "leaky_singleton"}

Nobody == "nobody"

ASSUME LazyAssumption ==
    /\ IsFiniteSet(Object) /\ Main \in Thread /\ Nobody \notin Thread
    /\ MaxCalls \in Nat /\ MaxRounds \in Nat \ {0}
    /\ \A p \in Programs :
          /\ p.kind \in [Object -> Kind]
          /\ p.uses \in [Object -> SUBSET Object]      \* by the constructor
          /\ p.asks \in [Object -> SUBSET Object]      \* by the destructor
          /\ \A o \in Object : \A u \in p.uses[o] : p.kind[u] # "static"

VARIABLES program,
          state_,     \* "EMPTY", "CREATING" or "CREATED"; of a singleton
                      \* instance_: 0, kBeingCreatedMarker or the pointer
          dead_,      \* the static-memory objects that are not to be revived
          object,     \* what the memory holds: "none", "building", "live" or
                      \* "dying"
          frames,     \* the calls of each thread, the innermost last
          stack_,     \* of the AtExitManager: objects, the last one first
          lock_,      \* who holds its lock
          calls, round,
          phase,      \* "run", "exit" or "done"
          overtaken,  \* history: created objects whose user was registered
                      \* before them
          gone        \* history: objects that have been destroyed

vars == <<program, state_, dead_, object, frames, stack_, lock_, calls, round,
          phase, overtaken, gone>>

Init ==
    /\ program \in Programs
    /\ state_ = [o \in Object |-> "EMPTY"]
    /\ dead_ = {}
    /\ object = [o \in Object |-> "none"]
    /\ frames = [t \in Thread |-> <<>>]
    /\ stack_ = <<>>
    /\ lock_ = Nobody
    /\ calls = 0 /\ round = 1
    /\ phase = "run"
    /\ overtaken = {} /\ gone = {}

Frame(o, pc, todo) == [obj |-> o, pc |-> pc, todo |-> todo]

Top(t) == frames[t][Len(frames[t])]

Push(t, f) == frames' = [frames EXCEPT ![t] = Append(@, f)]
Goto(t, pc) == frames' = [frames EXCEPT ![t][Len(frames[t])].pc = pc]
Pop(t) == frames' = [frames EXCEPT ![t] = SubSeq(@, 1, Len(@) - 1)]

(* Thread t is at pc of a call for object o.                               *)
At(t, o, pc) == frames[t] # <<>> /\ Top(t).obj = o /\ Top(t).pc = pc

(* A thread of the program wants an object.                                *)
Call(t, o) ==
    /\ phase = "run" /\ calls < MaxCalls
    /\ frames[t] = <<>>
    /\ Push(t, Frame(o, "load", {}))
    /\ calls' = calls + 1
    /\ UNCHANGED <<program, state_, dead_, object, stack_, lock_, round, phase,
                   overtaken, gone>>

(* Pointer(), get(): the fast path.                                        *)
Load(t, o) ==
    /\ At(t, o, "load")
    /\ Goto(t, IF state_[o] = "CREATED" THEN "return" ELSE "cas")
    /\ UNCHANGED <<program, state_, dead_, object, stack_, lock_, calls, round,
                   phase, overtaken, gone>>

(* Mutant: the state is loaded and then stored, not compared and swapped.  *)
LoadAndStore(t, o) ==
    /\ At(t, o, "cas")
    /\ state_' = [state_ EXCEPT ![o] = "CREATING"]
    /\ Goto(t, "new")
    /\ UNCHANGED <<program, dead_, object, stack_, lock_, calls, round, phase,
                   overtaken, gone>>

(* NeedsInstance(), get(): the first thread creates the object, the others *)
(* spin.                                                                   *)
CompareAndSwap(t, o) ==
    /\ At(t, o, "cas")
    /\ IF state_[o] = "EMPTY"
       THEN state_' = [state_ EXCEPT ![o] = "CREATING"] /\ Goto(t, "new")
       ELSE state_' = state_ /\ Goto(t, "spin")
    /\ UNCHANGED <<program, dead_, object, stack_, lock_, calls, round, phase,
                   overtaken, gone>>

(* The loop of a singleton ends when the marker is gone, even if New()     *)
(* returned NULL; that of a LazyInstance when there is an instance.        *)
Spin(t, o) ==
    /\ At(t, o, "spin")
    /\ IF IsLazy(program.kind[o]) THEN state_[o] = "CREATED"
       ELSE state_[o] # "CREATING"
    /\ Goto(t, IF state_[o] = "CREATED" THEN "return" ELSE "return_null")
    /\ UNCHANGED <<program, state_, dead_, object, stack_, lock_, calls, round,
                   phase, overtaken, gone>>

(* Traits::New: the constructor starts, unless the object is not to be     *)
(* revived, ...                                                            *)
New(t, o) ==
    /\ At(t, o, "new")
    /\ IF o \in dead_
       THEN Goto(t, "store_null") /\ object' = object
       ELSE /\ frames' = [frames EXCEPT ![t][Len(frames[t])] =
                              Frame(o, "construct", program.uses[o])]
            /\ object' = [object EXCEPT ![o] = "building"]
    /\ dead_' = IF program.kind[o] = "static" THEN dead_ \cup {o} ELSE dead_
    /\ UNCHANGED <<program, state_, stack_, lock_, calls, round, phase,
                   overtaken, gone>>

(* ... uses other objects, as a destructor does, ...                       *)
Use(t, o, u) ==
    /\ At(t, o, "construct") \/ At(t, o, "destruct")
    /\ u \in Top(t).todo
    /\ frames' = [frames EXCEPT ![t] =
           Append([frames[t] EXCEPT ![Len(frames[t])].todo = Top(t).todo \ {u}],
                  Frame(u, "load", {}))]
    /\ UNCHANGED <<program, state_, dead_, object, stack_, lock_, calls, round,
                   phase, overtaken, gone>>

(* ... and returns.                                                        *)
Constructed(t, o) ==
    /\ At(t, o, "construct")
    /\ Top(t).todo = {}
    /\ object' = [object EXCEPT ![o] = "live"]
    /\ Goto(t, "store")
    /\ UNCHANGED <<program, state_, dead_, stack_, lock_, calls, round, phase,
                   overtaken, gone>>

(* Mutant: every object is registered, leaky or not.                       *)
StoreAll(t, o) ==
    /\ At(t, o, "store")
    /\ state_' = [state_ EXCEPT ![o] = "CREATED"]
    /\ Goto(t, "register")
    /\ UNCHANGED <<program, dead_, object, stack_, lock_, calls, round, phase,
                   overtaken, gone>>

(* CompleteInstance(), get(): Release_Store, ...                           *)
Store(t, o) ==
    /\ At(t, o, "store")
    /\ state_' = [state_ EXCEPT ![o] = "CREATED"]
    /\ Goto(t, IF Leaks(program.kind[o]) THEN "return" ELSE "register")
    /\ UNCHANGED <<program, dead_, object, stack_, lock_, calls, round, phase,
                   overtaken, gone>>

(* Mutant: the marker stays when New() returns NULL.                       *)
StoreNothing(t, o) ==
    /\ At(t, o, "store_null")
    /\ state_' = state_
    /\ Goto(t, "return_null")
    /\ UNCHANGED <<program, dead_, object, stack_, lock_, calls, round, phase,
                   overtaken, gone>>

StoreNull(t, o) ==
    /\ At(t, o, "store_null")
    /\ state_' = [state_ EXCEPT ![o] = "EMPTY"]
    /\ Goto(t, "return_null")
    /\ UNCHANGED <<program, dead_, object, stack_, lock_, calls, round, phase,
                   overtaken, gone>>

Registered == {stack_[i] : i \in DOMAIN stack_}

(* Mutant: a queue, the first one registered is destroyed first.           *)
RegisterLast(t, o) ==
    /\ At(t, o, "register")
    /\ lock_ = Nobody
    /\ stack_' = Append(stack_, o)
    /\ overtaken' = overtaken \cup
           {u \in program.uses[o] \ Registered : ~Leaks(program.kind[u])}
    /\ Goto(t, "return")
    /\ UNCHANGED <<program, state_, dead_, object, lock_, calls, round, phase,
                   gone>>

(* ... and RegisterCallback(), under the lock of the manager.              *)
RegisterCallback(t, o) ==
    /\ At(t, o, "register")
    /\ lock_ = Nobody
    /\ stack_' = <<o>> \o stack_
    /\ overtaken' = overtaken \cup
           {u \in program.uses[o] \ Registered : ~Leaks(program.kind[u])}
    /\ Goto(t, "return")
    /\ UNCHANGED <<program, state_, dead_, object, lock_, calls, round, phase,
                   gone>>

Return(t, o) ==
    /\ At(t, o, "return") \/ At(t, o, "return_null")
    /\ Pop(t)
    /\ UNCHANGED <<program, state_, dead_, object, stack_, lock_, calls, round,
                   phase, overtaken, gone>>

(* ProcessCallbacksNow(), called by itself or by ~AtExitManager when no    *)
(* other thread uses the objects.  It keeps the lock to its end.           *)
ProcessCallbacksNow ==
    /\ phase = "run"
    /\ \A t \in Thread : frames[t] = <<>>
    /\ phase' = "exit"
    /\ lock_' = Main
    /\ UNCHANGED <<program, state_, dead_, object, frames, stack_, calls, round,
                   overtaken, gone>>

(* OnExit(): a singleton is taken away before Delete, ...                  *)
CallBack(o) ==
    /\ phase = "exit"
    /\ frames[Main] = <<>>
    /\ stack_ # <<>> /\ o = Head(stack_)
    /\ stack_' = Tail(stack_)
    /\ object' = [object EXCEPT ![o] = "dying"]
    /\ state_' = IF IsLazy(program.kind[o]) THEN state_
                 ELSE [state_ EXCEPT ![o] = "EMPTY"]
    /\ dead_' = IF program.kind[o] = "static" THEN dead_ \cup {o} ELSE dead_
    /\ Push(Main, Frame(o, "destruct", program.asks[o]))
    /\ UNCHANGED <<program, lock_, calls, round, phase, overtaken, gone>>

(* ... a LazyInstance after it.                                            *)
Destructed(o) ==
    /\ At(Main, o, "destruct")
    /\ Top(Main).todo = {}
    /\ object' = [object EXCEPT ![o] = "none"]
    /\ state_' = IF IsLazy(program.kind[o])
                 THEN [state_ EXCEPT ![o] = "EMPTY"] ELSE state_
    /\ gone' = gone \cup {o}
    /\ Pop(Main)
    /\ UNCHANGED <<program, dead_, stack_, lock_, calls, round, phase,
                   overtaken>>

(* The stack is empty: the program goes on, or it ends.                    *)
Processed ==
    /\ phase = "exit"
    /\ frames[Main] = <<>>
    /\ stack_ = <<>>
    /\ lock_' = Nobody
    /\ overtaken' = {}
    /\ IF round < MaxRounds
       THEN phase' = "run" /\ round' = round + 1 /\ calls' = 0
       ELSE phase' = "done" /\ UNCHANGED <<round, calls>>
    /\ UNCHANGED <<program, state_, dead_, object, frames, stack_, gone>>

(* StaticMemorySingletonTraits::Resurrect(), "exposed for unittesting".    *)
Resurrect(o) ==
    /\ phase = "run"
    /\ \A t \in Thread : frames[t] = <<>>
    /\ o \in dead_ /\ object[o] = "none"
    /\ dead_' = dead_ \ {o}
    /\ UNCHANGED <<program, state_, object, frames, stack_, lock_, calls, round,
                   phase, overtaken, gone>>

Step(t) ==
    \E o \in Object :
        \/ Load(t, o) \/ CompareAndSwap(t, o) \/ Spin(t, o)
        \/ New(t, o) \/ Constructed(t, o)
        \/ \E u \in Object : Use(t, o, u)
        \/ Store(t, o) \/ StoreNull(t, o) \/ RegisterCallback(t, o)
        \/ Return(t, o)

Exit ==
    \/ ProcessCallbacksNow \/ Processed
    \/ \E o \in Object : CallBack(o) \/ Destructed(o)

Next ==
    \/ Exit
    \/ \E t \in Thread : Step(t)
    \/ \E t \in Thread, o \in Object : Call(t, o)
    \/ \E o \in Object : Resurrect(o)

(* The scheduler runs every thread, and the program comes to its exit.     *)
Spec ==
    /\ Init /\ [][Next]_vars
    /\ WF_vars(Exit)
    /\ \A t \in Thread : WF_vars(Step(t))

-----------------------------------------------------------------------------

PCs == {"load", "cas", "spin", "new", "construct", "store", "store_null",
        "register", "return", "return_null", "destruct"}

TypeOK ==
    /\ program \in Programs
    /\ state_ \in [Object -> {"EMPTY", "CREATING", "CREATED"}]
    /\ dead_ \subseteq Object
    /\ object \in [Object -> {"none", "building", "live", "dying"}]
    /\ frames \in [Thread -> Seq([obj : Object, pc : PCs, todo : SUBSET Object])]
    /\ stack_ \in Seq(Object)
    /\ lock_ \in {Nobody, Main}
    /\ calls \in 0 .. MaxCalls /\ round \in 1 .. MaxRounds
    /\ phase \in {"run", "exit", "done"}
    /\ overtaken \subseteq Object /\ gone \subseteq Object

(* The calls of a thread, the innermost has the number Depth(t).           *)
Depth(t) == Len(frames[t])
Obj(t, i) == frames[t][i].obj
Pc(t, i) == frames[t][i].pc
Todo(t, i) == frames[t][i].todo

Someone(o, pcs) ==
    \E t \in Thread : \E i \in 1 .. Depth(t) :
        Obj(t, i) = o /\ Pc(t, i) \in pcs

(* Pointer(), get(): what a thread gets is an object whose constructor has *)
(* returned and whose destructor has not been called, whichever thread     *)
(* created it; NULL only of a static-memory singleton that was destroyed.  *)
(* Only a destructor that asks for the object it destroys gets that one,   *)
(* of a LazyInstance, or NULL, of a static-memory singleton.               *)
ReturnsLive ==
    \A o \in Object :
        /\ Someone(o, {"return"}) =>
              \/ object[o] = "live"
              \/ IsLazy(program.kind[o]) /\ Someone(o, {"destruct"})
        /\ Someone(o, {"return_null"}) =>
              /\ program.kind[o] = "static"
              /\ o \in gone \/ Someone(o, {"destruct"})

(* CompleteInstance(), RegisterCallback(): whatever the threads do, every  *)
(* object that is to be destroyed has its callback in the stack exactly    *)
(* once, or its creator is about to register it.                           *)
RegisteredOnce ==
    \A o \in Object :
        Cardinality({i \in DOMAIN stack_ : stack_[i] = o}) =
            IF /\ object[o] = "live" /\ ~Leaks(program.kind[o])
               /\ ~Someone(o, {"store", "register"})
            THEN 1 ELSE 0

(* The LIFO order of the callbacks: the objects that a constructor used    *)
(* are alive as long as its object is, unless its callback was registered  *)
(* between the Release_Store of the other one and its registration.  (An   *)
(* object that a destructor creates hangs before it is registered.)        *)
UsedOutlivesUser ==
    \A o \in Object : \A u \in program.uses[o] :
        (/\ object[o] \in {"live", "dying"} /\ ~Leaks(program.kind[o])
         /\ phase = "exit" => ~Someone(o, {"store", "register"}))
        => object[u] = "live" \/ u \in overtaken

(* A callback waits for the lock that its caller holds.                    *)
Hangs ==
    /\ phase = "exit"
    /\ \E o \in Object : At(Main, o, "register")

(* ProcessCallbacksNow() calls back under its lock: it hangs only when a   *)
(* destructor asked for an object that its constructor had not used, or    *)
(* that was overtaken.                                                     *)
HangsOnlyOnNewUse ==
    Hangs => \/ Obj(Main, 2) \notin program.uses[Obj(Main, 1)]
             \/ Obj(Main, 2) \in overtaken

(* Every call returns and the exit ends, or hangs as above: no thread      *)
(* spins for an object that nobody creates.                                *)
EndsOrHangs == <>(phase = "done" \/ Hangs)

-----------------------------------------------------------------------------
(* The inductive invariant behind the four invariants above.               *)

Creating == {"new", "construct", "store", "store_null"}
Making == Creating \cup {"register"}

(* The callback that runs is for o.                                        *)
Destroying(o) ==
    /\ Depth(Main) >= 1
    /\ Pc(Main, 1) = "destruct" /\ Obj(Main, 1) = o

Destroyed(o) == o \in gone \/ Destroying(o)

(* At exit only Main runs, under the manager's lock, ...                   *)
ExitIsAlone ==
    /\ lock_ = IF phase = "exit" THEN Main ELSE Nobody
    /\ phase = "exit" => \A t \in Thread \ {Main} : Depth(t) = 0
    /\ phase = "done" => \A t \in Thread : Depth(t) = 0

(* ... in a destructor; only it and constructors call.                     *)
NestedAt(t, i) ==
    /\ i < Depth(t) => Pc(t, i) \in {"construct", "destruct"}
    /\ Pc(t, i) = "destruct" <=> (phase = "exit" /\ i = 1)
Nested ==
    \A t \in Thread : \A i \in 1 .. Depth(t) : NestedAt(t, i)

(* Whoever swapped EMPTY for CREATING, and only he, creates the object.    *)
StateAt(t, i) ==
    /\ Pc(t, i) \in Creating => state_[Obj(t, i)] = "CREATING"
    /\ Pc(t, i) \in {"register", "return"} => state_[Obj(t, i)] = "CREATED"
    /\ Pc(t, i) = "register" => ~Leaks(program.kind[Obj(t, i)])
CallsKnowState ==
    \A t \in Thread : \A i \in 1 .. Depth(t) : StateAt(t, i)
OneCreator ==
    \A s, t \in Thread : \A i \in 1 .. Depth(s), j \in 1 .. Depth(t) :
        (/\ Obj(s, i) = Obj(t, j)
         /\ Pc(s, i) \in Making /\ Pc(t, j) \in Making)
        => s = t /\ i = j
HasCreator ==
    \A o \in Object : state_[o] = "CREATING" => Someone(o, Creating)

(* What the memory holds, as the creator and the state tell it.            *)
MemoryAt(t, i) ==
    /\ Pc(t, i) = "construct" => object[Obj(t, i)] = "building"
    /\ Pc(t, i) \in {"new", "store_null"} =>
          object[Obj(t, i)] \in {"none", "dying"}
    /\ Pc(t, i) \in {"store", "register"} => object[Obj(t, i)] = "live"
CallsKnowMemory ==
    \A t \in Thread : \A i \in 1 .. Depth(t) : MemoryAt(t, i)
StateOfMemory ==
    \A o \in Object :
        /\ state_[o] = "CREATED" =>
              object[o] = "live" \/ (object[o] = "dying" /\ IsLazy(program.kind[o]))
        /\ state_[o] = "EMPTY" => object[o] \in {"none", "dying"}
        /\ object[o] = "dying" => Destroying(o)

(* What is being destroyed is gone unless its destructor revives it.       *)
DyingOrRevived ==
    \A o \in Object :
        Destroying(o) =>
            /\ ~Leaks(program.kind[o])
            /\ \/ object[o] = "dying"
               \/ \E i \in 2 .. Depth(Main) :
                     /\ Obj(Main, i) = o
                     /\ Pc(Main, i) \in {"construct", "store", "register"}

(* New() returns NULL only for a static-memory object that was destroyed.  *)
NullAt(t, i) ==
    /\ (\/ Pc(t, i) \in {"store_null", "return_null"}
        \/ Pc(t, i) = "spin" /\ state_[Obj(t, i)] = "EMPTY")
       => program.kind[Obj(t, i)] = "static" /\ Destroyed(Obj(t, i))
    /\ Pc(t, i) = "new" /\ Obj(t, i) \in dead_ => Destroyed(Obj(t, i))
NullOnlyDestroyed ==
    \A t \in Thread : \A i \in 1 .. Depth(t) : NullAt(t, i)
DeadIsDestroyed ==
    \A o \in dead_ :
        /\ program.kind[o] = "static"
        /\ state_[o] = "EMPTY" => Destroyed(o)

(* The stack of the manager: what is registered, once, ...                 *)
Height == Len(stack_)
Entry(i) == stack_[i]
StackHoldsOnce ==
    \A i, j \in 1 .. Height : Entry(i) = Entry(j) => i = j
StackHoldsLive ==
    \A o \in Object :
        (\E i \in 1 .. Height : Entry(i) = o)
        <=> (/\ object[o] = "live" /\ ~Leaks(program.kind[o])
             /\ ~Someone(o, {"store", "register"}))

(* ... and in which order.                                                 *)
StackInOrder ==
    \A i \in 1 .. Height : \A u \in program.uses[Entry(i)] :
        \/ Leaks(program.kind[u]) \/ u \in overtaken
        \/ \E j \in (i + 1) .. Height : Entry(j) = u

(* What a constructor has used is there when it returns.                   *)
LiveAt(t, i) ==
    /\ Pc(t, i) = "construct" =>
          \A u \in program.uses[Obj(t, i)] \ Todo(t, i) :
              object[u] = "live" \/ (i < Depth(t) /\ Obj(t, i + 1) = u)
    /\ Pc(t, i) \in {"store", "register"} =>
          \A u \in program.uses[Obj(t, i)] : object[u] = "live"
UsedIsLive ==
    phase = "run" =>
        \A t \in Thread : \A i \in 1 .. Depth(t) : LiveAt(t, i)

(* A destructor that asks again for what its constructor used finds it.    *)
AskedIsCreated ==
    (/\ phase = "exit" /\ Depth(Main) >= 2
     /\ Obj(Main, 2) \in program.uses[Obj(Main, 1)] \ overtaken)
    => state_[Obj(Main, 2)] = "CREATED" /\ Pc(Main, 2) \in {"load", "return"}

LazyInv ==
    /\ TypeOK /\ ExitIsAlone /\ Nested
    /\ CallsKnowState /\ OneCreator /\ HasCreator
    /\ CallsKnowMemory /\ StateOfMemory /\ DyingOrRevived
    /\ NullOnlyDestroyed /\ DeadIsDestroyed
    /\ StackHoldsOnce /\ StackHoldsLive /\ StackInOrder
    /\ UsedIsLive /\ UsedOutlivesUser /\ AskedIsCreated
=============================================================================
