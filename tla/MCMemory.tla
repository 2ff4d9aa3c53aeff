------------------------------ MODULE MCMemory -------------------------------
(* Instances of Memory for TLC. *)
EXTENDS Memory

\* One heap page, behind a page table of its own.
OnePage == <<"heap">>
TwoTables == [p \in {"code", "heap", "below", "stack"} |-> IF p = "heap" THEN 2 ELSE 1]
=============================================================================
