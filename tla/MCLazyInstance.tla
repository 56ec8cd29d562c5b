--------------------------- MODULE MCLazyInstance ---------------------------
(* Instances of LazyInstance for TLC: the constructor of a uses b, and its *)
(* destructor asks for b again, or for c.                                  *)
EXTENDS LazyInstance

ThreeObjects == {"a", "b", "c"}

Program(ka, kb, kc, asked, usedByC) ==
    [kind |-> [o \in ThreeObjects |->
                  CASE o = "a" -> ka [] o = "b" -> kb [] OTHER -> kc],
     uses |-> [o \in ThreeObjects |->
                  CASE o = "a" -> {"b"} [] o = "b" -> {} [] OTHER -> usedByC],
     asks |-> [o \in ThreeObjects |-> IF o = "a" THEN {asked} ELSE {}]]

(* The last ones ask, at once or through the constructor of c, for the     *)
(* object that is being destroyed.                                         *)
SomePrograms ==
    {Program(ka, kb, "static", "b", {}) :
        ka \in {"lazy", "singleton"}, kb \in {"lazy", "singleton", "leaky"}}
    \cup {Program("lazy", "singleton", kc, "c", {}) :
             kc \in {"static", "leaky_singleton"}}
    \cup {Program(ka, "leaky", "leaky", "a", {}) : ka \in {"lazy", "static"}}
    \cup {Program(ka, "leaky", "lazy", "c", {"a"}) : ka \in {"lazy", "singleton"}}
=============================================================================
