----------------------------- MODULE BlockStore -----------------------------
(***************************************************************************)
(* What the file systems rely on when they use the buffer cache: a read    *)
(* returns the sector as last written, even if that write was reported to  *)
(* have failed; a write that succeeded survives a power cut.               *)
(***************************************************************************)
CONSTANTS Lba, Data

VARIABLES
  content,     \* what a read returns
  persisted,   \* what a read returns after a power cut
  result       \* of the last operation

Success(data) == [ok |-> TRUE, data |-> data]
Failure == [ok |-> FALSE]

Read(lba) ==
  /\ result' \in {Success(content[lba]), Failure}
  /\ UNCHANGED content

Write(lba, data) ==
  /\ content' = [content EXCEPT ![lba] = data]
  /\ \/ result' = Success(data) /\ persisted'[lba] = data
     \/ result' = Failure /\ persisted'[lba] \in {persisted[lba], data}

Sync == UNCHANGED content /\ result' = [ok |-> TRUE]

PowerCut == content' = persisted' /\ result' = Failure /\ UNCHANGED persisted

\* Any operation may also bring other sectors of the disk up to date.
Settle == \A lba \in Lba : persisted'[lba] \in {persisted[lba], content[lba], content'[lba]}

Next ==
  /\ \/ \E lba \in Lba : Read(lba) \/ \E data \in Data : Write(lba, data)
     \/ Sync \/ PowerCut
  /\ Settle

Init == content = persisted /\ content \in [Lba -> Data] /\ result = Failure

Spec == Init /\ [][Next]_<<content, persisted, result>>

=============================================================================
