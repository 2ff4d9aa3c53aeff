------------------------------- MODULE MCFat16 -------------------------------
(* Instances of Fat16 for TLC. *)
EXTENDS Fat16

CONSTANTS nameA, nameB

\* A volume and root directory that are full: directory nameA, and in it the
\* file nameB of three bytes.
UsedVolume ==
  [EmptyVolume(1) EXCEPT
    !.fat = [c \in Clusters |-> IF c = 3 THEN 4 ELSE EOF],
    !.bytes[3] = [o \in 1 .. CLUSTER_SIZE |-> nameB],
    !.bytes[4][1] = nameB,
    !.dir[ROOT][1] = [kind |-> "DIR", name |-> nameA, first |-> 2, size |-> 0],
    !.dir[2] = [i \in 1 .. DIR_ENTRIES |->
                  IF i <= 2 THEN NoEntry("DOT")
                  ELSE IF i = 3 THEN [kind |-> "FILE", name |-> nameB, first |-> 3, size |-> 3]
                  ELSE NoEntry("END")]]

\* A root with the file nameA of one byte and room for another; the last
\* cluster has been lost before.
OneFile ==
  [EmptyVolume(2) EXCEPT
    !.fat[2] = EOF, !.fat[4] = EOF, !.bytes[2][1] = nameA,
    !.dir[ROOT][1] = [kind |-> "FILE", name |-> nameA, first |-> 2, size |-> 1],
    !.dir[2] = [i \in 1 .. DIR_ENTRIES |-> NoEntry("DOT")]]

SomeVolumes == {OneFile, UsedVolume}

\* At the start, over the end of a cluster, and beyond the end.
SomeWrites == {<<0, 1>>, <<1, 2>>, <<2, 1>>}

ThreeNodes == 1 .. 3
TwoMore == 4 .. 5
=============================================================================
