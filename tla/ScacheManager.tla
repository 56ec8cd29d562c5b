--------------------------- MODULE ScacheManager ---------------------------
(***************************************************************************)
(* build_environment.ScacheManager, which the SConstruct of blade gives to *)
(* Progress(): every Interval tasks it throws files out of the cache.      *)
(***************************************************************************)
EXTENDS Integers, SequencesExt

CONSTANTS CacheSize,    \* of each file that may be in the cache
          CacheLimit,
          Interval      \* of Progress()

ASSUME CacheAssumption ==
    /\ CacheLimit \in Nat \ {0}
    /\ Interval \in Nat \ {0}

TotalSize(files) == MapThenSumSet(LAMBDA f : CacheSize[f], files)

(* Mutant: > instead of >=.                                                *)
GetFileListAbove(file_stat_list) ==
    LET reached == {i \in DOMAIN file_stat_list :
                      TotalSize(Range(SubSeq(file_stat_list, 1, i))) > CacheLimit}
    IN  IF reached = {} \/ 1 \in reached THEN <<>>
        ELSE SubSeq(file_stat_list, Min(reached), Len(file_stat_list))

(* get_file_list: files in the order of their weight, which their age may  *)
(* turn into any order.  A start_index of 0, which is 1 here, purges       *)
(* nothing, as if the limit had not been reached.                          *)
GetFileList(file_stat_list) ==
    LET reached == {i \in DOMAIN file_stat_list :
                      TotalSize(Range(SubSeq(file_stat_list, 1, i))) >= CacheLimit}
    IN  IF reached = {} \/ 1 \in reached THEN <<>>
        ELSE SubSeq(file_stat_list, Min(reached), Len(file_stat_list))

(* __call__: what is left of the files.                                    *)
Purged(files) ==
    {files \ Range(GetFileList(l)) : l \in SetToSeqs(files)}

(* What is left when the build of somebody else removes one of the files   *)
(* first: os.stat raises before anything is purged, or os.remove raises    *)
(* after exists() and the rest of the list stays.                          *)
PurgeStopped(files) ==
    {files \ {f} : f \in files} \cup
    UNION {{files \ Range(SubSeq(GetFileList(l), 1, i)) :
              i \in 1 .. Len(GetFileList(l))} : l \in SetToSeqs(files)}
=============================================================================
