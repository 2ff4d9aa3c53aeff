-------------------------------- MODULE MCVfs --------------------------------
(***************************************************************************)
(* Vfs for TLC: a root with a directory d and a file a.                    *)
(***************************************************************************)
EXTENDS Vfs

Abs(comps) == [abs |-> TRUE, comps |-> comps]
Rel(comps) == [abs |-> FALSE, comps |-> comps]

SomePaths == {Abs(<<"d">>), Rel(<<"a">>), Rel(<<"..", "a">>)}

\* After initrd_init.
BootTree ==
  {[n \in NodeIds |->
      CASE n = ROOT -> [NewNode(NONE, ".", "DIRECTORY") EXCEPT !.child = <<3, 2>>]
        [] n = 2 -> NewNode(ROOT, "d", "DIRECTORY")
        [] n = 3 -> NewNode(ROOT, "a", "FILE")
        [] OTHER -> FreeNode]}
=============================================================================
