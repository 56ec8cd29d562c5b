--------------------------- MODULE MCParallelJobs ---------------------------
(* Instances of ParallelJobs for TLC.                                      *)
EXTENDS ParallelJobs

SixNodes == 1 .. 6

(* One file of the cache is as large as the whole cache may be.            *)
Sizes == [n \in SixNodes |-> IF n = 4 THEN 3 ELSE 1]

Plain(tops, kids, derived) ==
    [tops |-> tops, kids |-> kids, derived |-> derived,
     targets |-> [n \in SixNodes |-> <<n>>],
     late |-> [n \in SixNodes |-> <<>>],
     current |-> {}, missing |-> {}, raising |-> {}, cached |-> {},
     shared |-> FALSE, failing |-> "stop"]

(* One command makes 3 and 4, and 2 is made from 3.                        *)
TwoTargets ==
    [Plain(<<1>>, << <<3, 2>>, <<3>>, <<5>>, <<5>>, <<>>, <<>> >>, 1 .. 4)
        EXCEPT !.targets[3] = <<3, 4>>, !.targets[4] = <<3, 4>>]

(* The same command makes 3 and 4; 5 is made from 2, and 1 needs both.      *)
TwoTargetsAndChain ==
    [TwoTargets EXCEPT !.kids = << <<5, 2>>, <<3>>, <<6>>, <<6>>, <<2>>, <<>> >>,
                       !.derived = 1 .. 5]

(* 2 includes 3, a generated file that turns out to include 4, another.    *)
GeneratedHeaders ==
    [Plain(<<1>>, << <<3, 2>>, <<3>>, <<5>>, <<5>>, <<>>, <<>> >>, 1 .. 4)
        EXCEPT !.late[2] = <<4>>]

(* 5 needs 2, 4 needs 5, 6 needs 4; 3 is there to fill the second job.     *)
LongChain ==
    Plain(<<1>>, << <<2, 3, 4, 6>>, <<>>, <<>>, <<5>>, <<2>>, <<4>> >>, SixNodes)

(* 2 and 3 need each other.                                                *)
Loop == Plain(<<1>>, << <<2, 4>>, <<3>>, <<2>>, <<>>, <<>>, <<>> >>, 1 .. 4)

(* 2 is asked for and is also needed by 1; both of its parents need 6.     *)
SharedTop ==
    Plain(<<1, 2>>, << <<2, 3>>, <<6>>, <<6>>, <<>>, <<>>, <<>> >>, {1, 2, 3, 6})

(* A source does not exist: it is asked for, or only needed.               *)
MissingTop ==
    [Plain(<<5, 1>>, << <<2>>, <<4>>, <<>>, <<>>, <<>>, <<>> >>, {1, 2})
        EXCEPT !.missing = {5}]

MissingSource ==
    [Plain(<<1>>, << <<2, 3>>, <<>>, <<2, 5>>, <<>>, <<>>, <<>> >>, 1 .. 3)
        EXCEPT !.missing = {5}]

(* Files that are current, files that are in the cache, with and without   *)
(* --keep-going.                                                           *)
Variants(b, current, cached) ==
    {[b EXCEPT !.current = c, !.cached = d, !.failing = f] :
        c \in SUBSET current, d \in SUBSET cached, f \in {"stop", "keep_going"}}

SomeBuilds ==
    UNION {Variants(TwoTargets, {2}, {3, 4}),
           Variants(TwoTargetsAndChain, {}, {3, 4}),
           Variants(GeneratedHeaders, {3}, {3, 4}),
           Variants(LongChain, {4}, {}),
           Variants(Loop, {2}, {3}),
           Variants(SharedTop, {}, {6}),
           Variants([SharedTop EXCEPT !.shared = TRUE], {2}, {3}),
           Variants(MissingTop, {}, {2}),
           Variants(MissingSource, {2}, {3}),
           Variants([MissingSource EXCEPT !.kids[2] = <<4>>], {}, {3}),
           Variants([GeneratedHeaders EXCEPT !.raising = {2}], {}, {}),
           Variants([SharedTop EXCEPT !.raising = {1, 3}], {}, {})}

(* Files of earlier builds are in the cache, one as large as it may be.    *)
LargeFile == {[SharedTop EXCEPT !.cached = {4, 5}]}
=============================================================================
