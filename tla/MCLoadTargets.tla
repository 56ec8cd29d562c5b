--------------------------- MODULE MCLoadTargets ---------------------------
(* Instances of LoadTargets for TLC.                                       *)
EXTENDS LoadTargets, TLC

CONSTANTS d1, d2, d3, a1, a2, b, c, lib

ThreeDirs == {d1, d2, d3}
FourTargets == {a1, a2, b, c}
OneLib == {lib}
TargetDirs == (a1 :> d1) @@ (a2 :> d1) @@ (b :> d2) @@ (c :> d3)

(* Chains, diamonds and loops across directories; a target that its BUILD  *)
(* file does not declare; files and directories that are missing or broken.*)
SomeTrees ==
    {[build |-> (d1 :> x) @@ (d2 :> y) @@ (d3 :> z),
      declares |-> FourTargets \ miss,
      deps |-> (a1 :> p) @@ (a2 :> q) @@ (b :> r) @@ (c :> s)] :
        x \in {"BUILD", "broken"}, y \in BuildFiles, z \in {"BUILD", "none"},
        miss \in {{}, {a2}, {c}},
        p \in {{}, {a2, b}, {b, lib}}, q \in {{}, {c}}, r \in {{}, {c, lib}},
        s \in {{}, {a1}, {c}}}

SomeCommands ==
    {[cited |-> {a1}, dirs |-> {}],
     [cited |-> {b, c}, dirs |-> {}],
     [cited |-> {b}, dirs |-> {<<d1, "abort">>}],
     [cited |-> {}, dirs |-> {<<d1, "warn">>, <<d2, "ignore">>, <<d3, "ignore">>}],
     [cited |-> {}, dirs |-> {<<d2, "abort">>, <<d2, "ignore">>}]}
=============================================================================
