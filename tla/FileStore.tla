------------------------------ MODULE FileStore ------------------------------
(***************************************************************************)
(* What a file system promises: a tree of names, and for each file the     *)
(* bytes last written to each position.  The bytes between the old end of  *)
(* a file and a write or truncation beyond it are not specified: FAT16 in  *)
(* PhotonOS shows zeros in a new cluster and old bytes in the last one.    *)
(***************************************************************************)
EXTENDS Sequences, Integers

CONSTANTS Paths,      \* sequences of names
          Bytes, MaxLen

VARIABLE files        \* what each path names

Kinds == {"none", "file", "dir"}

Absent == [kind |-> "none", bytes |-> <<>>]
EmptyFile == [kind |-> "file", bytes |-> <<>>]
EmptyDir == [kind |-> "dir", bytes |-> <<>>]

Parent(p) == SubSeq(p, 1, Len(p) - 1)
Reachable(p) == Parent(p) = <<>> \/ files[Parent(p)].kind = "dir"

\* Any tree.
FileStoreInit == \A p \in Paths : files[p].kind \in Kinds /\ (files[p] = Absent \/ Reachable(p))

Become(p, value) == files' = [files EXCEPT ![p] = value]

Create(p) == Reachable(p) /\ files[p] = Absent /\ Become(p, EmptyFile)
Mkdir(p) == Reachable(p) /\ files[p] = Absent /\ Become(p, EmptyDir)

Unlink(p) == files[p].kind = "file" /\ Become(p, Absent)
Rmdir(p) ==
  /\ files[p].kind = "dir"
  /\ \A q \in Paths : Parent(q) = p => files[q] = Absent
  /\ Become(p, Absent)

\* The positions below len keep their bytes or take the new ones; the others
\* hold anything.
Resized(p, len, offset, data) ==
  /\ files[p].kind = "file"
  /\ \A q \in Paths \ {p} : files'[q] = files[q]
  /\ files'[p].kind = "file" /\ Len(files'[p].bytes) = len
  /\ \A i \in 1 .. len :
       LET b == files'[p].bytes[i] IN
       IF i \in offset + 1 .. offset + Len(data) THEN b = data[i - offset]
       ELSE i \in 1 .. Len(files[p].bytes) => b = files[p].bytes[i]

Write(p) ==
  \E offset \in 0 .. MaxLen, b \in Bytes, n \in 1 .. MaxLen :
    LET old == Len(files[p].bytes)
        end == offset + n
    IN Resized(p, IF end > old THEN end ELSE old, offset, [i \in 1 .. n |-> b])

Truncate(p) == \E len \in 0 .. MaxLen : Resized(p, len, 0, <<>>)

FileStoreNext ==
  \E p \in Paths : Create(p) \/ Mkdir(p) \/ Unlink(p) \/ Rmdir(p) \/ Write(p) \/ Truncate(p)

FileStoreSpec == FileStoreInit /\ [][FileStoreNext]_files
=============================================================================
