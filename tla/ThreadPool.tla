----------------------------- MODULE ThreadPool -----------------------------
(***************************************************************************)
(* base/thread_pool, with the ProducerConsumerQueue it is built on, and    *)
(* what closures may use to work together: ConcurrentQueue and             *)
(* FixedSizeConQueue of base/concurrent_queue.h, and BlockingCounter of    *)
(* base/mutex.h.  All of them are monitors: a critical section is one step *)
(* here, and a thread that waits for a condition is in a set until it is   *)
(* signalled and has the mutex again.                                      *)
(***************************************************************************)
EXTENDS Integers, FiniteSets, Sequences

CONSTANTS Worker,     \* the threads of the pool
          Owner,      \* the thread that owns it
          Closure,
          Plans       \* what the owner and the closures do: see PoolAssumption

(* What Add(NULL) puts into the queue, and what an idle worker runs.       *)
NULL == "NULL"

ASSUME PoolAssumption ==
    /\ IsFiniteSet(Worker) /\ Worker # {}
    /\ Owner \notin Worker
    /\ IsFiniteSet(Closure) /\ NULL \notin Closure
    /\ \A p \in Plans :
          /\ p.added \in Seq(Closure)              \* by the owner
          /\ p.does \in [Closure -> {"push", "pop", "count", "add", "nothing"}]
          /\ p.adds \in [Closure -> Closure]       \* of a closure that adds
          /\ p.kind \in {"unbounded", "fixed"}     \* of the queue they share
          /\ p.max_size \in Nat \ {0}
          /\ p.waits \in {"yes", "no"}             \* for the counter

VARIABLES plan,
          q_,                  \* ProducerConsumerQueue: closures and NULLs
          signal_at_unlock_,   \* of the mutex of q_ and of the counter
          queue_,              \* of the queue: how many items
          count_,              \* of the BlockingCounter
          waiting,             \* for each monitor, the threads that wait in it
          at,                  \* each worker: "new", "get", "run" or "left"
          closure,             \* what it runs
          owner,               \* "add", "wait", "delete", "join", "done", "abort"
          next,                \* how many closures, or NULLs, it has added
          executed,            \* how often each closure has been executed
          late                 \* history: closures added after the first NULL

vars == <<plan, q_, signal_at_unlock_, queue_, count_, waiting, at, closure,
          owner, next, executed, late>>

Monitor == {"pool", "queue", "counter"}

Init ==
    /\ plan \in Plans
    /\ q_ = <<>>
    /\ signal_at_unlock_ = {}
    /\ queue_ = 0
    /\ count_ = Cardinality({c \in Closure : plan.does[c] = "count"})
    /\ waiting = [m \in Monitor |-> {}]
    /\ at = [w \in Worker |-> "new"]
    /\ closure = [w \in Worker |-> NULL]
    /\ owner = "add"
    /\ next = 0
    /\ executed = [c \in Closure |-> 0]
    /\ late = {}

(* pthread_cond_signal wakes one of those who wait, if any.                *)
Signal(m) ==
    IF waiting[m] = {} THEN waiting' = waiting
    ELSE \E t \in waiting[m] : waiting' = [waiting EXCEPT ![m] = @ \ {t}]

Wait(m, t) == waiting' = [waiting EXCEPT ![m] = @ \cup {t}]

(* Mutex::Unlock, of a mutex on which somebody may have used LockWhen.     *)
Unlock(m) == IF m \in signal_at_unlock_ THEN Signal(m) ELSE waiting' = waiting

(* It may also wake without a signal.                                      *)
SpuriousWakeup(m, t) ==
    /\ t \in waiting[m]
    /\ waiting' = [waiting EXCEPT ![m] = @ \ {t}]
    /\ UNCHANGED <<plan, q_, signal_at_unlock_, queue_, count_, at, closure,
                   owner, next, executed, late>>

(* Mutant: a stack instead of a queue.                                     *)
PutOnTop(item) ==
    /\ q_' = <<item>> \o q_
    /\ Unlock("pool")

(* ProducerConsumerQueue::Put.                                             *)
Put(item) ==
    /\ q_' = Append(q_, item)
    /\ Unlock("pool")

(* Mutant: one worker reads the front and another one pops it: the item is *)
(* still there when the lock is released.                                  *)
GetWithoutPop(w) ==
    /\ at[w] = "get"
    /\ w \notin waiting["pool"]
    /\ q_ # <<>>
    /\ q_' \in {q_, Tail(q_)}
    /\ closure' = [closure EXCEPT ![w] = Head(q_)]
    /\ at' = [at EXCEPT ![w] = IF Head(q_) = NULL THEN "left" ELSE "run"]
    /\ UNCHANGED <<plan, signal_at_unlock_, queue_, count_, waiting, owner,
                   next, executed, late>>

(* ThreadPool::Worker: Get(), until it returns NULL.                       *)
Get(w) ==
    /\ at[w] = "get"
    /\ w \notin waiting["pool"]
    /\ signal_at_unlock_' = signal_at_unlock_ \cup {"pool"}
    /\ IF q_ = <<>>
       THEN Wait("pool", w) /\ UNCHANGED <<q_, at, closure>>
       ELSE /\ q_' = Tail(q_)
            /\ closure' = [closure EXCEPT ![w] = Head(q_)]
            /\ at' = [at EXCEPT ![w] = IF Head(q_) = NULL THEN "left" ELSE "run"]
            /\ Signal("pool")
    /\ UNCHANGED <<plan, queue_, count_, owner, next, executed, late>>

(* The end of Closure::Execute.                                            *)
Return(w) ==
    /\ executed' = [executed EXCEPT ![closure[w]] = @ + 1]
    /\ at' = [at EXCEPT ![w] = "get"]
    /\ closure' = [closure EXCEPT ![w] = NULL]

(* A worker is in a closure of some kind, and not waiting in it.           *)
Runs(w, does) ==
    /\ at[w] = "run"
    /\ plan.does[closure[w]] = does
    /\ w \notin waiting["queue"]

ExecuteNothing(w) ==
    /\ Runs(w, "nothing")
    /\ Return(w)
    /\ UNCHANGED <<plan, q_, signal_at_unlock_, queue_, count_, waiting, owner,
                   next, late>>

(* A closure that gives another one to its pool: Put() again, on a mutex   *)
(* that signals, for this worker has used LockWhen on it.                  *)
ExecuteAdd(w) ==
    /\ Runs(w, "add")
    /\ q_' = Append(q_, plan.adds[closure[w]])
    /\ Signal("pool")
    /\ late' = IF owner \in {"delete", "join"} /\ next > 0
               THEN late \cup {plan.adds[closure[w]]} ELSE late
    /\ Return(w)
    /\ UNCHANGED <<plan, signal_at_unlock_, queue_, count_, owner, next>>

(* Mutant: nobody is told of the new count.                                *)
DecrementQuietly(w) ==
    /\ Runs(w, "count")
    /\ count_' = count_ - 1
    /\ waiting' = waiting
    /\ Return(w)
    /\ UNCHANGED <<plan, q_, signal_at_unlock_, queue_, owner, next, late>>

(* BlockingCounter::DecrementCount.                                        *)
ExecuteCount(w) ==
    /\ Runs(w, "count")
    /\ count_' = count_ - 1
    /\ Unlock("counter")
    /\ Return(w)
    /\ UNCHANGED <<plan, q_, signal_at_unlock_, queue_, owner, next, late>>

(* Mutant: an if around the wait in place of a while: who is woken pushes. *)
PushFixedOnceWoken(w) ==
    /\ Runs(w, "push")
    /\ plan.kind = "fixed"
    /\ \/ /\ queue_ = plan.max_size /\ Wait("queue", w)
          /\ UNCHANGED <<queue_, at, closure, executed>>
       \/ queue_' = queue_ + 1 /\ Signal("queue") /\ Return(w)
    /\ UNCHANGED <<plan, q_, signal_at_unlock_, count_, owner, next, late>>

(* Push and Pop of the two queues.                                         *)
Full == plan.kind = "fixed" /\ queue_ = plan.max_size

PushUnbounded(w) ==
    /\ Runs(w, "push")
    /\ plan.kind = "unbounded"
    /\ queue_' = queue_ + 1
    /\ Signal("queue")
    /\ Return(w)
    /\ UNCHANGED <<plan, q_, signal_at_unlock_, count_, owner, next, late>>

PopUnbounded(w) ==
    /\ Runs(w, "pop")
    /\ plan.kind = "unbounded"
    /\ IF queue_ = 0
       THEN Wait("queue", w) /\ UNCHANGED <<queue_, at, closure, executed>>
       ELSE queue_' = queue_ - 1 /\ waiting' = waiting /\ Return(w)
    /\ UNCHANGED <<plan, q_, signal_at_unlock_, count_, owner, next, late>>

PushFixed(w) ==
    /\ Runs(w, "push")
    /\ plan.kind = "fixed"
    /\ IF Full
       THEN Wait("queue", w) /\ UNCHANGED <<queue_, at, closure, executed>>
       ELSE queue_' = queue_ + 1 /\ Signal("queue") /\ Return(w)
    /\ UNCHANGED <<plan, q_, signal_at_unlock_, count_, owner, next, late>>

PopFixed(w) ==
    /\ Runs(w, "pop")
    /\ plan.kind = "fixed"
    /\ IF queue_ = 0
       THEN Wait("queue", w) /\ UNCHANGED <<queue_, at, closure, executed>>
       ELSE queue_' = queue_ - 1 /\ Signal("queue") /\ Return(w)
    /\ UNCHANGED <<plan, q_, signal_at_unlock_, count_, owner, next, late>>

(* The owner starts the workers, before or after it adds its closures, ... *)
StartWorkers ==
    /\ owner = "add"
    /\ \A w \in Worker : at[w] = "new"
    /\ at' = [w \in Worker |-> "get"]
    /\ UNCHANGED <<plan, q_, signal_at_unlock_, queue_, count_, waiting,
                   closure, owner, next, executed, late>>

Add ==
    /\ owner = "add"
    /\ next = Len(plan.added) => \A w \in Worker : at[w] # "new"
    /\ IF next < Len(plan.added)
       THEN /\ Put(plan.added[next + 1])
            /\ next' = next + 1
            /\ owner' = owner
       ELSE /\ next' = 0
            /\ owner' = IF plan.waits = "yes" THEN "wait" ELSE "delete"
            /\ UNCHANGED <<q_, waiting>>
    /\ UNCHANGED <<plan, signal_at_unlock_, queue_, count_, at, closure,
                   executed, late>>

(* ... may wait for the counter (and its Unlock has nobody to wake), ...   *)
WaitForCounter ==
    /\ owner = "wait"
    /\ Owner \notin waiting["counter"]
    /\ signal_at_unlock_' = signal_at_unlock_ \cup {"counter"}
    /\ IF count_ = 0 THEN waiting' = waiting /\ owner' = "delete"
       ELSE Wait("counter", Owner) /\ owner' = owner
    /\ UNCHANGED <<plan, q_, queue_, count_, at, closure, next, executed, late>>

(* ... and deletes the pool: a NULL for each worker, and Join.             *)
AddNull ==
    /\ owner = "delete"
    /\ IF next < Cardinality(Worker)
       THEN Put(NULL) /\ next' = next + 1 /\ owner' = owner
       ELSE owner' = "join" /\ UNCHANGED <<q_, next, waiting>>
    /\ UNCHANGED <<plan, signal_at_unlock_, queue_, count_, at, closure,
                   executed, late>>

(* The destructor of the queue checks that it is empty.                    *)
Join ==
    /\ owner = "join"
    /\ \A w \in Worker : at[w] = "left"
    /\ owner' = IF q_ = <<>> THEN "done" ELSE "abort"
    /\ UNCHANGED <<plan, q_, signal_at_unlock_, queue_, count_, waiting, at,
                   closure, next, executed, late>>

Work(w) ==
    \/ Get(w) \/ ExecuteNothing(w) \/ ExecuteAdd(w) \/ ExecuteCount(w)
    \/ PushUnbounded(w) \/ PopUnbounded(w) \/ PushFixed(w) \/ PopFixed(w)

Own == StartWorkers \/ Add \/ WaitForCounter \/ AddNull \/ Join

Next ==
    \/ Own
    \/ \E w \in Worker : Work(w)
    \/ \E m \in Monitor, t \in Worker \cup {Owner} : SpuriousWakeup(m, t)

(* A thread that does not wait gets the mutex in the end.                  *)
Spec ==
    /\ Init /\ [][Next]_vars
    /\ WF_vars(Own)
    /\ \A w \in Worker : WF_vars(Work(w))

-----------------------------------------------------------------------------

TypeOK ==
    /\ plan \in Plans
    /\ q_ \in Seq(Closure \cup {NULL})
    /\ signal_at_unlock_ \subseteq Monitor
    /\ queue_ \in Int /\ count_ \in Int
    /\ waiting \in [Monitor -> SUBSET (Worker \cup {Owner})]
    /\ at \in [Worker -> {"new", "get", "run", "left"}]
    /\ closure \in [Worker -> Closure \cup {NULL}]
    /\ owner \in {"add", "wait", "delete", "join", "done", "abort"}
    /\ next \in Nat
    /\ executed \in [Closure -> Nat]
    /\ late \subseteq Closure

(* The places of an item in the queue, and the workers that hold it.       *)
Places(item) == {i \in DOMAIN q_ : q_[i] = item}
HeldBy(c) == {w \in Worker : closure[w] = c}

(* When a closure has been added: by the owner, at a place of its list,    *)
(* and by closures that have returned, at their k-th execution.            *)
AddedByOwner(c) ==
    {i \in DOMAIN plan.added : plan.added[i] = c /\ (owner = "add" => i <= next)}
Adders(c) == {d \in Closure : plan.does[d] = "add" /\ plan.adds[d] = c}
AddedByClosures(c) == UNION {{d} \X (1 .. executed[d]) : d \in Adders(c)}

Added(c) == Cardinality(AddedByOwner(c)) + Cardinality(AddedByClosures(c))

(* ProducerConsumerQueue and Worker: whatever the workers and the threads  *)
(* that add do, a closure that has been added is in one place, in the      *)
(* queue, in the hands of one worker, or executed: none is lost or is run  *)
(* twice (Execute deletes it).                                             *)
Conserved ==
    \A c \in Closure :
        Cardinality(Places(c)) + Cardinality(HeldBy(c)) + executed[c] = Added(c)

Ended == owner \in {"done", "abort"}

(* ~ThreadPool: "we wait workers to finish": when it returns, everything   *)
(* that was added before its first NULL has been executed, and the CHECK   *)
(* of ~ProducerConsumerQueue that nothing is left fails only because a     *)
(* closure added another one after it.                                     *)
AllExecuted ==
    /\ Ended => \A c \in Closure \ late : executed[c] = Added(c)
    /\ owner = "abort" => late # {}

(* FixedSizeConQueue: whoever is woken, by a signal meant for another or   *)
(* for no reason, pushes only where there is room and pops only what is    *)
(* there: "while (queue_.size() == max_size_)" would never see more.       *)
QueueInBounds == queue_ >= 0 /\ (plan.kind = "fixed" => queue_ <= plan.max_size)

(* Only finitely many executions have added a closure.                     *)
FinitelyAdded == \A c \in Closure : IsFiniteSet(AddedByClosures(c))

(* A worker has a closure in its hands exactly while it executes it.       *)
InHand == \A w \in Worker : at[w] = "run" <=> closure[w] # NULL

Left == {w \in Worker : at[w] = "left"}

(* One NULL for each worker: the destructor has added as many as are still *)
(* in the queue or have made a worker leave.                               *)
NullsCounted ==
    /\ owner = "add" => next <= Len(plan.added)
    /\ owner = "delete" => next <= Cardinality(Worker)
    /\ owner \in {"join", "done", "abort"} => next = Cardinality(Worker)
    /\ Cardinality(Places(NULL)) + Cardinality(Left) =
           IF owner \in {"add", "wait"} THEN 0 ELSE next
    /\ owner = "wait" => next = 0
    /\ Ended => Left = Worker
    /\ owner = "abort" => q_ # <<>>

(* The queue is first in, first out: behind a NULL, and once a worker has  *)
(* got one, there is only what was added late.                             *)
NullsBehind ==
    \A j \in DOMAIN q_ :
        \/ q_[j] \in late \cup {NULL}
        \/ Left = {} /\ \A i \in Places(NULL) : j < i

(* The inductive invariant of the proofs.                                  *)
PoolInv ==
    /\ TypeOK
    /\ InHand
    /\ FinitelyAdded
    /\ Conserved
    /\ QueueInBounds
    /\ NullsCounted
    /\ NullsBehind

(* A worker is in a Push or a Pop that cannot go on.                       *)
Blocked(w) ==
    /\ at[w] = "run"
    /\ \/ plan.does[closure[w]] = "pop" /\ queue_ = 0
       \/ plan.does[closure[w]] = "push" /\ Full

Starved == \A w \in Worker : at[w] = "left" \/ Blocked(w)

(* With one condition variable for both sides a signal can wake a producer *)
(* instead of a consumer once this many threads use a FixedSizeConQueue.   *)
QueueUsers == {c \in Closure : plan.does[c] \in {"push", "pop"}}

Tight ==
    /\ plan.kind = "fixed"
    /\ Cardinality(Worker) > 2 * plan.max_size
    /\ Cardinality(QueueUsers) > 2 * plan.max_size

(* Then all may sleep in it, though one of them could go on.               *)
Astray ==
    \A w \in Worker : at[w] = "left" \/ Blocked(w) \/ w \in waiting["queue"]

(* Signal, and Unlock with signal_at_unlock_, wake enough: the pool comes  *)
(* to its end unless the closures themselves leave every worker in a Push  *)
(* to a full queue or a Pop from an empty one.  No thread sleeps through   *)
(* the event that it waits for, a worker an Add, the owner the last        *)
(* DecrementCount, a Push or a Pop the other, save in a queue that is      *)
(* tight, in which all the workers may be left asleep.                     *)
EndsOrStarves == <>Ended \/ <>[]Starved \/ (Tight /\ <>[]Astray)
=============================================================================
