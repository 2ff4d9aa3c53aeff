------------------------------- MODULE Bcache -------------------------------
(***************************************************************************)
(* The buffer cache (src/kernel/bcache.c) in front of the ATA disk.  Every *)
(* caller is a system call with IF clear, so each operation is one step.   *)
(* A read or a write of the disk may fail; a write that is reported as     *)
(* failed may have reached the disk or not.  A power cut loses the cache.  *)
(***************************************************************************)
EXTENDS Naturals, FiniteSets

CONSTANTS
  BCACHE_BLOCK_COUNT,
  Lba, Data,     \* sectors of the disk, and what one may hold
  MaxFaults      \* failing writes of the disk

ASSUME BcacheAssumption ==
  /\ BCACHE_BLOCK_COUNT \in Nat \ {0} /\ MaxFaults \in Nat
  /\ 0 \in Lba /\ 0 \in Data

Slot == 0..(BCACHE_BLOCK_COUNT - 1)

VARIABLES
  cache_pool,
  older,     \* the pairs <<i, j>> with last_access of i before that of j
  disk,
  faults,
  result     \* what the last operation returned to its caller

vars == <<cache_pool, older, disk, faults, result>>

Success(data) == [ok |-> TRUE, data |-> data]
Failure == [ok |-> FALSE]

Init ==
  /\ cache_pool = [i \in Slot |-> [lba |-> 0, data |-> 0, valid |-> FALSE, dirty |-> FALSE]]
  /\ disk \in [Lba -> Data]
  /\ older = {} /\ faults = 0 /\ result = Failure

-----------------------------------------------------------------------------
Hits(lba) == {i \in Slot : cache_pool[i].valid /\ cache_pool[i].lba = lba}

\* ++access_counter is stored in the entry: it is now the most recent one.
Touch(slot) ==
  older' = {p \in older : p[1] # slot /\ p[2] # slot} \cup ((Slot \ {slot}) \X {slot})

\* The entry to reuse: the first invalid one, else the least recently used.
Victims ==
  LET invalid == {i \in Slot : ~cache_pool[i].valid}
  IN IF invalid # {} THEN {i \in invalid : \A j \in invalid : i <= j}
     ELSE {i \in Slot : \A j \in Slot : <<j, i>> \notin older}

\* ata_write_sectors of one sector: what the disk and the count of faults become.
ata_write(d, f, lba, data) ==
  {[disk |-> [d EXCEPT ![lba] = data], faults |-> f, ok |-> TRUE]}
  \cup IF f < MaxFaults
       THEN {[disk |-> e, faults |-> f + 1, ok |-> FALSE] : e \in {d, [d EXCEPT ![lba] = data]}}
       ELSE {}

\* The victim's data, if they are dirty, go to the disk first.
WriteBack(i) ==
  IF cache_pool[i].valid /\ cache_pool[i].dirty
  THEN ata_write(disk, faults, cache_pool[i].lba, cache_pool[i].data)
  ELSE {[disk |-> disk, faults |-> faults, ok |-> TRUE]}

ReadHit(lba, i) ==
  /\ i \in Hits(lba)
  /\ Touch(i)
  /\ result' = Success(cache_pool[i].data)
  /\ UNCHANGED <<cache_pool, disk, faults>>

\* The victim is written back; if that fails, or the sector cannot be read, the
\* cache keeps what it had.
ReadMiss(lba, i) ==
  /\ Hits(lba) = {} /\ i \in Victims
  /\ \E w \in WriteBack(i) :
       /\ disk' = w.disk /\ faults' = w.faults
       /\ \/ /\ ~w.ok
             /\ result' = Failure
             /\ UNCHANGED <<cache_pool, older>>
          \/ /\ w.ok
             /\ result' = Failure
             /\ cache_pool' = [cache_pool EXCEPT ![i].dirty = FALSE]
             /\ UNCHANGED older
          \/ /\ w.ok
             /\ result' = Success(w.disk[lba])
             /\ cache_pool' = [cache_pool EXCEPT ![i] =
                  [lba |-> lba, data |-> w.disk[lba], valid |-> TRUE, dirty |-> FALSE]]
             /\ Touch(i)

bcache_read_sector(lba) == \E i \in Slot : ReadHit(lba, i) \/ ReadMiss(lba, i)

\* Mutant of WriteThrough: a refused write leaves the entry clean.
WriteThroughClean(lba, data, i, d, f) ==
  /\ \E w \in ata_write(d, f, lba, data) :
       /\ disk' = w.disk /\ faults' = w.faults
       /\ result' = IF w.ok THEN Success(data) ELSE Failure
       /\ cache_pool' = [cache_pool EXCEPT ![i] =
            [lba |-> lba, data |-> data, valid |-> TRUE, dirty |-> FALSE]]
  /\ Touch(i)

\* Mutant of WriteThrough: a refused write is reported as done.
WriteThroughDone(lba, data, i, d, f) ==
  /\ \E w \in ata_write(d, f, lba, data) :
       /\ disk' = w.disk /\ faults' = w.faults
       /\ result' = Success(data)
       /\ cache_pool' = [cache_pool EXCEPT ![i] =
            [lba |-> lba, data |-> data, valid |-> TRUE, dirty |-> ~w.ok]]
  /\ Touch(i)

\* The new data enter the cache and go to the disk; if the disk refuses them the
\* entry is dirty.  d, f: the disk and the faults so far.
WriteThrough(lba, data, i, d, f) ==
  /\ \E w \in ata_write(d, f, lba, data) :
       /\ disk' = w.disk /\ faults' = w.faults
       /\ result' = IF w.ok THEN Success(data) ELSE Failure
       /\ cache_pool' = [cache_pool EXCEPT ![i] =
            [lba |-> lba, data |-> data, valid |-> TRUE, dirty |-> ~w.ok]]
  /\ Touch(i)

WriteHit(lba, data, i) == i \in Hits(lba) /\ WriteThrough(lba, data, i, disk, faults)

\* Mutant of WriteMiss: the cache is not searched first.
WriteMissAlways(lba, data, i) ==
  /\ i \in Victims
  /\ \E w \in WriteBack(i) : WriteThrough(lba, data, i, w.disk, w.faults)

\* The victim is reused whether or not it could be written back.
WriteMiss(lba, data, i) ==
  /\ Hits(lba) = {} /\ i \in Victims
  /\ \E w \in WriteBack(i) : WriteThrough(lba, data, i, w.disk, w.faults)

bcache_write_sector(lba, data) ==
  \E i \in Slot : WriteHit(lba, data, i) \/ WriteMiss(lba, data, i)

Dirty == {i \in Slot : cache_pool[i].valid /\ cache_pool[i].dirty}

\* Every dirty entry is written, and stays dirty if that failed; of the failed
\* writes some may have reached the disk.  The result is success in any case.
bcache_flush ==
  \E failed \in SUBSET Dirty : \E reached \in SUBSET failed :
    /\ faults + Cardinality(failed) <= MaxFaults
    /\ faults' = faults + Cardinality(failed)
    /\ disk' = [lba \in Lba |->
         IF Hits(lba) \cap ((Dirty \ failed) \cup reached) = {} THEN disk[lba]
         ELSE cache_pool[CHOOSE i \in Hits(lba) : TRUE].data]
    /\ cache_pool' = [i \in Slot |->
         [cache_pool[i] EXCEPT !.dirty = @ /\ i \notin Dirty \ failed]]
    /\ result' = [ok |-> TRUE]
    /\ UNCHANGED older

\* A power cut and the next boot's bcache_init.
bcache_init ==
  /\ cache_pool' = [i \in Slot |-> [lba |-> 0, data |-> 0, valid |-> FALSE, dirty |-> FALSE]]
  /\ older' = {} /\ result' = Failure
  /\ UNCHANGED <<disk, faults>>

Next ==
  \/ \E lba \in Lba : bcache_read_sector(lba) \/ \E data \in Data : bcache_write_sector(lba, data)
  \/ bcache_flush
  \/ bcache_init

Spec == Init /\ [][Next]_vars

-----------------------------------------------------------------------------
TypeOK ==
  /\ cache_pool \in [Slot -> [lba: Lba, data: Data, valid: BOOLEAN, dirty: BOOLEAN]]
  /\ older \subseteq Slot \X Slot
  /\ disk \in [Lba -> Data]
  /\ faults \in 0..MaxFaults
  /\ result \in {Failure, [ok |-> TRUE]} \cup {Success(data) : data \in Data}

(***************************************************************************)
(* No sector is cached twice: the searches of bcache_read_sector and       *)
(* bcache_write_sector stop at the first entry, and would serve whichever  *)
(* copy they meet.                                                         *)
(***************************************************************************)
CachedOnce == \A lba \in Lba : \A i, j \in Hits(lba) : i = j

(***************************************************************************)
(* An entry that is not dirty agrees with the disk, whatever writes failed *)
(* before: only then may eviction drop it without writing it.              *)
(***************************************************************************)
CleanMatchesDisk ==
  \A i \in Slot : cache_pool[i].valid /\ ~cache_pool[i].dirty
                    => cache_pool[i].data = disk[cache_pool[i].lba]

Content == [lba \in Lba |->
  IF Hits(lba) = {} THEN disk[lba] ELSE cache_pool[CHOOSE i \in Hits(lba) : TRUE].data]

Store == INSTANCE BlockStore WITH content <- Content, persisted <- disk

(***************************************************************************)
(* The cache and the disk behind it are one block store: a read returns    *)
(* what was written last, and a write that succeeded survives a power cut, *)
(* until the disk refuses a second write (bcache_write_sector drops a      *)
(* victim that is refused again).                                          *)
(***************************************************************************)
ImplementsStore == Store!Init /\ [][faults' <= 1 => Store!Next]_<<Content, disk, result>>

=============================================================================
