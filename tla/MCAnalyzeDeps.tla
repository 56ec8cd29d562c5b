-------------------------- MODULE MCAnalyzeDeps --------------------------
(* Instances of AnalyzeDeps for TLC.                                       *)
EXTENDS AnalyzeDeps

(* A dynamic binary, a python binary, a swig library and a protocol; a     *)
(* fifth name that no BUILD file declares.                                 *)
FourTargets == 1 .. 4
FiveNames == 1 .. 5
FourTypes == <<"dynamic_cc_binary", "py_binary", "swig_library", "proto_library">>

Lists(S, n) == {s \in UNION {[1 .. k -> S] : k \in 0 .. n} :
                  \A i, j \in DOMAIN s : s[i] = s[j] => i = j}

(* Up to two dependencies each in any order, on three of the targets and   *)
(* the missing one; the fourth depends on 1, on 2 or on nothing, so that   *)
(* loops have up to four targets.                                          *)
AnyGraphs ==
    {g \in [FourTargets -> Lists(FiveNames, 2)] :
        /\ \A t \in 1 .. 3 : 2 \notin Range(g[t])
        /\ Len(g[2]) <= 1
        /\ g[4] \in {<<>>, <<1>>, <<2>>}}

(* All graphs in which targets depend only on later ones, so without loops,*)
(* in all orders.                                                          *)
LayeredGraphs ==
    {g \in [FourTargets -> Lists({2, 3, 4}, 3)] :
        \A t \in FourTargets : \A i \in DOMAIN g[t] : g[t][i] > t}

SomeGraphs == AnyGraphs \cup LayeredGraphs

AnyPairlists == [FourTargets -> SUBSET FourTargets]
=============================================================================
