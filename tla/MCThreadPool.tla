---------------------------- MODULE MCThreadPool ----------------------------
(* Instances of ThreadPool for TLC: four closures that push and pop, and   *)
(* three of which some give a fourth or a fifth to the pool and the others *)
(* count down what the owner may wait for.                                 *)
EXTENDS ThreadPool

FiveClosures == {"c1", "c2", "c3", "c4", "c5"}

Base == [added |-> <<"c1", "c2", "c3", "c4">>,
         does |-> [c \in FiveClosures |-> "nothing"],
         adds |-> [c \in FiveClosures |-> IF c = "c1" THEN "c4" ELSE "c5"],
         kind |-> "fixed", max_size |-> 1, waits |-> "no"]

Doing(d) == [c \in FiveClosures |-> IF c \in DOMAIN d THEN d[c] ELSE "nothing"]

PushAndPop ==
    {[Base EXCEPT !.does = Doing(d), !.kind = k, !.max_size = n] :
        d \in [{"c1", "c2", "c3", "c4"} -> {"push", "pop"}],
        k \in {"fixed", "unbounded"}, n \in 1 .. 2}

AddAndCount ==
    {[Base EXCEPT !.does = Doing(d), !.added = <<"c1", "c2", "c3">>, !.waits = y] :
        d \in [{"c1", "c2", "c3"} -> {"add", "count"}], y \in {"yes", "no"}}

SomePlans == {p \in PushAndPop : p.kind = "fixed" \/ p.max_size = 1}
             \cup AddAndCount
=============================================================================
