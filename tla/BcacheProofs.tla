---------------------------- MODULE BcacheProofs ----------------------------
(***************************************************************************)
(* The buffer cache never caches a sector twice and never holds a clean    *)
(* entry that differs from the disk, whatever the disk refuses; and until  *)
(* it refuses a second write, cache and disk are a block store.            *)
(***************************************************************************)
EXTENDS Bcache, FiniteSetTheorems, TLAPS

IInv == TypeOK /\ CachedOnce /\ CleanMatchesDisk

-----------------------------------------------------------------------------
\* What ata_write_sectors does: one sector, old or new, and new if it succeeded.
LEMMA AtaWrite ==
  ASSUME NEW d \in [Lba -> Data], NEW f \in 0..MaxFaults, NEW lba \in Lba, NEW data \in Data,
         NEW w \in ata_write(d, f, lba, data)
  PROVE  /\ w.disk \in [Lba -> Data] /\ w.faults \in 0..MaxFaults /\ w.ok \in BOOLEAN
         /\ \A l \in Lba : l # lba => w.disk[l] = d[l]
         /\ w.disk[lba] \in {d[lba], data}
         /\ w.ok => w.disk[lba] = data /\ w.faults = f
         /\ ~w.ok => f < MaxFaults /\ w.faults = f + 1
<1>1. CASE w = [disk |-> [d EXCEPT ![lba] = data], faults |-> f, ok |-> TRUE]
  BY Zenon, <1>1
<1>2. CASE /\ f < MaxFaults
           /\ \E e \in {d, [d EXCEPT ![lba] = data]} : w = [disk |-> e, faults |-> f + 1, ok |-> FALSE]
  <2>1. PICK e \in {d, [d EXCEPT ![lba] = data]} : w = [disk |-> e, faults |-> f + 1, ok |-> FALSE]
    BY Zenon, <1>2
  <2>2. w.disk = e /\ w.faults = f + 1 /\ w.ok = FALSE
    BY Zenon, <2>1
  <2>3. f + 1 \in 0..MaxFaults
    BY <1>2, BcacheAssumption
  <2> QED BY Zenon, <1>2, <2>2, <2>3
<1> QED BY Zenon, <1>1, <1>2 DEF ata_write

\* What the write of a dirty victim does to the disk.
LEMMA WrittenBack ==
  ASSUME TypeOK, NEW i \in Slot, NEW w \in WriteBack(i)
  PROVE  /\ w.disk \in [Lba -> Data] /\ w.faults \in 0..MaxFaults /\ w.ok \in BOOLEAN
         /\ \A l \in Lba : l # cache_pool[i].lba \/ ~cache_pool[i].valid => w.disk[l] = disk[l]
         /\ w.disk[cache_pool[i].lba] \in {disk[cache_pool[i].lba], cache_pool[i].data}
         /\ w.ok /\ cache_pool[i].valid /\ cache_pool[i].dirty
              => w.disk[cache_pool[i].lba] = cache_pool[i].data
         /\ ~cache_pool[i].dirty => w.disk = disk
         /\ w.faults >= faults
         /\ ~w.ok => cache_pool[i].dirty /\ faults < MaxFaults /\ w.faults = faults + 1
<1>1. cache_pool[i].lba \in Lba /\ cache_pool[i].data \in Data /\ disk \in [Lba -> Data]
      /\ faults \in 0..MaxFaults
  BY Zenon DEF TypeOK
<1>2. CASE cache_pool[i].valid /\ cache_pool[i].dirty
  <2>1. w \in ata_write(disk, faults, cache_pool[i].lba, cache_pool[i].data)
    BY Zenon, <1>2 DEF WriteBack
  <2> QED BY <1>1, <1>2, <2>1, AtaWrite
<1>3. CASE ~(cache_pool[i].valid /\ cache_pool[i].dirty)
  <2>1. w = [disk |-> disk, faults |-> faults, ok |-> TRUE]
    BY Zenon, <1>3 DEF WriteBack
  <2> QED BY <1>1, <1>3, <2>1
<1> QED BY Zenon, <1>2, <1>3

LEMMA Touched ==
  ASSUME older \subseteq Slot \X Slot, NEW i \in Slot, Touch(i)
  PROVE  older' \subseteq Slot \X Slot
BY Zenon DEF Touch

LEMMA VictimIsSlot == Victims \subseteq Slot
BY Zenon DEF Victims

\* The two invariants, entry by entry.
CachedOnceIn(pool) ==
  \A i, j \in Slot : pool[i].valid /\ pool[j].valid /\ pool[i].lba = pool[j].lba => i = j

CleanIn(pool, d) ==
  \A i \in Slot : pool[i].valid /\ ~pool[i].dirty => pool[i].data = d[pool[i].lba]

LEMMA EntryByEntry ==
  ASSUME TypeOK
  PROVE  /\ CachedOnce <=> CachedOnceIn(cache_pool)
         /\ CleanMatchesDisk <=> CleanIn(cache_pool, disk)
<1>1. \A i \in Slot : cache_pool[i].lba \in Lba
  BY Zenon DEF TypeOK
<1> QED BY Zenon, <1>1 DEF CachedOnce, Hits, CachedOnceIn, CleanMatchesDisk, CleanIn

LEMMA Reassembled ==
  ASSUME TypeOK', CachedOnceIn(cache_pool'), CleanIn(cache_pool', disk')
  PROVE  IInv'
<1>1. \A i \in Slot : cache_pool'[i].lba \in Lba
  BY Zenon DEF TypeOK
<1> QED BY Zenon, <1>1 DEF IInv, CachedOnce, Hits, CachedOnceIn, CleanMatchesDisk, CleanIn

-----------------------------------------------------------------------------
\* The steps, one lemma each.

Entry == [lba: Lba, data: Data, valid: BOOLEAN, dirty: BOOLEAN]

LEMMA ReadHitKeeps ==
  ASSUME IInv, NEW lba \in Lba, NEW i \in Slot, ReadHit(lba, i)
  PROVE  IInv'
<1>1. cache_pool[i].data \in Data
  BY Zenon DEF IInv, TypeOK
<1>2. TypeOK'
  BY Zenon, <1>1, Touched DEF IInv, TypeOK, ReadHit
<1> QED BY <1>2 DEF IInv, ReadHit, CachedOnce, CleanMatchesDisk, Hits

LEMMA ReadMissKeeps ==
  ASSUME IInv, NEW lba \in Lba, NEW i \in Slot, ReadMiss(lba, i)
  PROVE  IInv'
<1> DEFINE new(w) == [lba |-> lba, data |-> w.disk[lba], valid |-> TRUE, dirty |-> FALSE]
<1>1. PICK w \in WriteBack(i) :
        /\ disk' = w.disk /\ faults' = w.faults
        /\ \/ ~w.ok /\ result' = Failure /\ UNCHANGED <<cache_pool, older>>
           \/ /\ w.ok /\ result' = Failure /\ UNCHANGED older
              /\ cache_pool' = [cache_pool EXCEPT ![i].dirty = FALSE]
           \/ /\ w.ok /\ result' = Success(w.disk[lba]) /\ Touch(i)
              /\ cache_pool' = [cache_pool EXCEPT ![i] = new(w)]
  BY Zenon DEF ReadMiss
<1>2. TypeOK
  BY Zenon DEF IInv
<1>3. CachedOnceIn(cache_pool) /\ CleanIn(cache_pool, disk)
  BY Zenon, <1>2, EntryByEntry DEF IInv
<1>4. \A j \in Slot : cache_pool[j].valid => cache_pool[j].lba # lba
  BY Zenon DEF ReadMiss, Hits
<1>5. cache_pool \in [Slot -> Entry]
  BY Zenon, <1>2 DEF TypeOK, Entry
<1>w. /\ w.disk \in [Lba -> Data] /\ w.faults \in 0..MaxFaults /\ w.ok \in BOOLEAN
      /\ \A l \in Lba : l # cache_pool[i].lba \/ ~cache_pool[i].valid => w.disk[l] = disk[l]
      /\ w.ok /\ cache_pool[i].valid /\ cache_pool[i].dirty
           => w.disk[cache_pool[i].lba] = cache_pool[i].data
      /\ ~cache_pool[i].dirty => w.disk = disk
      /\ ~w.ok => cache_pool[i].dirty
  BY Zenon, <1>2, WrittenBack
<1>6. CASE ~w.ok /\ result' = Failure /\ UNCHANGED <<cache_pool, older>>
  <2>1. TypeOK'
    BY Zenon, <1>1, <1>2, <1>w, <1>6 DEF TypeOK
  <2>2. CachedOnceIn(cache_pool')
    BY Zenon, <1>3, <1>6
  <2>3. CleanIn(cache_pool', disk')
    BY <1>1, <1>3, <1>5, <1>6, <1>w DEF CleanIn, CachedOnceIn, Entry
  <2> QED BY Zenon, <2>1, <2>2, <2>3, Reassembled
<1>7. CASE /\ w.ok /\ result' = Failure /\ UNCHANGED older
           /\ cache_pool' = [cache_pool EXCEPT ![i].dirty = FALSE]
  <2>0. cache_pool' \in [Slot -> Entry]
    BY Zenon, <1>5, <1>7 DEF Entry
  <2>1. TypeOK'
    BY Zenon, <1>1, <1>2, <1>w, <1>7, <2>0 DEF TypeOK, Entry
  <2>2. \A j \in Slot : /\ cache_pool'[j].lba = cache_pool[j].lba
                        /\ cache_pool'[j].data = cache_pool[j].data
                        /\ cache_pool'[j].valid = cache_pool[j].valid
                        /\ j # i => cache_pool'[j].dirty = cache_pool[j].dirty
    BY Zenon, <1>5, <1>7 DEF Entry
  <2>3. CachedOnceIn(cache_pool')
    BY <1>3, <2>2 DEF CachedOnceIn
  <2>4. CleanIn(cache_pool', disk')
    BY <1>1, <1>3, <1>5, <1>7, <1>w, <2>2 DEF CleanIn, CachedOnceIn, Entry
  <2> QED BY Zenon, <2>1, <2>3, <2>4, Reassembled
<1>8. CASE /\ w.ok /\ result' = Success(w.disk[lba]) /\ Touch(i)
           /\ cache_pool' = [cache_pool EXCEPT ![i] = new(w)]
  <2>0. cache_pool' \in [Slot -> Entry] /\ w.disk[lba] \in Data
    BY Zenon, <1>5, <1>8, <1>w DEF Entry
  <2>1. TypeOK'
    BY Zenon, <1>1, <1>2, <1>w, <1>8, <2>0, Touched DEF TypeOK, Entry
  <2>2. /\ \A j \in Slot : j # i => cache_pool'[j] = cache_pool[j]
        /\ cache_pool'[i].lba = lba /\ cache_pool'[i].data = w.disk[lba]
    BY Zenon, <1>5, <1>8
  <2>3. CachedOnceIn(cache_pool')
    BY <1>3, <1>4, <2>2 DEF CachedOnceIn
  <2>4. CleanIn(cache_pool', disk')
    BY <1>1, <1>3, <1>4, <1>5, <1>8, <1>w, <2>2 DEF CleanIn, CachedOnceIn, Entry
  <2> QED BY Zenon, <2>1, <2>3, <2>4, Reassembled
<1> QED BY Zenon, <1>1, <1>6, <1>7, <1>8

\* d and f: the disk and the faults once the entry may be reused.
LEMMA WriteThroughKeeps ==
  ASSUME IInv, NEW lba \in Lba, NEW data \in Data, NEW i \in Slot,
         NEW d \in [Lba -> Data], NEW f \in 0..MaxFaults,
         \A j \in Slot : j # i /\ cache_pool[j].valid =>
           cache_pool[j].lba # lba /\ d[cache_pool[j].lba] = disk[cache_pool[j].lba],
         WriteThrough(lba, data, i, d, f)
  PROVE  IInv'
<1>1. PICK w \in ata_write(d, f, lba, data) :
        /\ disk' = w.disk /\ faults' = w.faults
        /\ result' = IF w.ok THEN Success(data) ELSE Failure
        /\ cache_pool' = [cache_pool EXCEPT ![i] =
             [lba |-> lba, data |-> data, valid |-> TRUE, dirty |-> ~w.ok]]
  BY Zenon DEF WriteThrough
<1>2. /\ w.disk \in [Lba -> Data] /\ w.faults \in 0..MaxFaults /\ w.ok \in BOOLEAN
      /\ \A l \in Lba : l # lba => w.disk[l] = d[l]
      /\ w.ok => w.disk[lba] = data
  BY AtaWrite
<1>3. TypeOK /\ CachedOnceIn(cache_pool) /\ CleanIn(cache_pool, disk)
  BY Zenon, EntryByEntry DEF IInv
<1>4. cache_pool \in [Slot -> Entry]
  BY Zenon, <1>3 DEF TypeOK, Entry
<1>5. cache_pool' \in [Slot -> Entry]
  BY Zenon, <1>1, <1>2, <1>4 DEF Entry
<1>6. TypeOK'
  BY Zenon, <1>1, <1>2, <1>3, <1>5, Touched DEF TypeOK, Entry, WriteThrough
<1>7. /\ \A j \in Slot : j # i => cache_pool'[j] = cache_pool[j]
      /\ cache_pool'[i].lba = lba /\ cache_pool'[i].data = data
      /\ cache_pool'[i].dirty = ~w.ok
  BY Zenon, <1>1, <1>4
<1>8. CachedOnceIn(cache_pool')
  BY <1>3, <1>7 DEF CachedOnceIn
<1>9. CleanIn(cache_pool', disk')
  <2> SUFFICES ASSUME NEW j \in Slot, cache_pool'[j].valid, ~cache_pool'[j].dirty
               PROVE  cache_pool'[j].data = disk'[cache_pool'[j].lba]
    BY Zenon DEF CleanIn
  <2>1. CASE j = i
    BY ZenonT(60), <1>1, <1>2, <1>7, <2>1
  <2>2. CASE j # i
    <3>1. cache_pool[j].lba \in Lba /\ cache_pool[j].valid /\ ~cache_pool[j].dirty
      BY Zenon, <1>4, <1>7, <2>2 DEF Entry
    <3>2. cache_pool[j].data = disk[cache_pool[j].lba]
      BY Zenon, <1>3, <3>1 DEF CleanIn
    <3>3. w.disk[cache_pool[j].lba] = disk[cache_pool[j].lba]
      BY Zenon, <1>2, <2>2, <3>1
    <3> QED BY Zenon, <1>1, <1>7, <2>2, <3>2, <3>3
  <2> QED BY Zenon, <2>1, <2>2
<1> QED BY Zenon, <1>6, <1>8, <1>9, Reassembled

LEMMA WriteHitKeeps ==
  ASSUME IInv, NEW lba \in Lba, NEW data \in Data, NEW i \in Slot, WriteHit(lba, data, i)
  PROVE  IInv'
<1>1. disk \in [Lba -> Data] /\ faults \in 0..MaxFaults
  BY Zenon DEF IInv, TypeOK
<1>2. \A j \in Slot : j # i /\ cache_pool[j].valid => cache_pool[j].lba # lba
  BY Zenon DEF IInv, CachedOnce, WriteHit, Hits
<1> QED BY <1>1, <1>2, WriteThroughKeeps DEF WriteHit

LEMMA WriteMissKeeps ==
  ASSUME IInv, NEW lba \in Lba, NEW data \in Data, NEW i \in Slot, WriteMiss(lba, data, i)
  PROVE  IInv'
<1>1. PICK w \in WriteBack(i) : WriteThrough(lba, data, i, w.disk, w.faults)
  BY Zenon DEF WriteMiss
<1>2. /\ w.disk \in [Lba -> Data] /\ w.faults \in 0..MaxFaults
      /\ \A l \in Lba : l # cache_pool[i].lba \/ ~cache_pool[i].valid => w.disk[l] = disk[l]
  BY Zenon, WrittenBack DEF IInv
<1>3. \A j \in Slot : cache_pool[j].valid => cache_pool[j].lba # lba
  BY Zenon DEF WriteMiss, Hits
<1>4. CachedOnceIn(cache_pool) /\ \A j \in Slot : cache_pool[j].lba \in Lba
  BY Zenon, EntryByEntry DEF IInv, TypeOK
<1>5. \A j \in Slot : j # i /\ cache_pool[j].valid => w.disk[cache_pool[j].lba] = disk[cache_pool[j].lba]
  BY Zenon, <1>2, <1>4 DEF CachedOnceIn
<1> QED BY <1>1, <1>2, <1>3, <1>5, WriteThroughKeeps

\* The sector of an entry, however the CHOOSE of bcache_flush and Content is taken.
LEMMA TheHit ==
  ASSUME IInv, NEW i \in Slot, cache_pool[i].valid
  PROVE  /\ cache_pool[i].lba \in Lba
         /\ Hits(cache_pool[i].lba) = {i}
         /\ (CHOOSE j \in Hits(cache_pool[i].lba) : TRUE) = i
<1>1. cache_pool[i].lba \in Lba
  BY Zenon DEF IInv, TypeOK
<1>2. Hits(cache_pool[i].lba) = {i}
  BY Zenon, <1>1 DEF IInv, CachedOnce, Hits
<1> QED BY Zenon, <1>1, <1>2

LEMMA SlotsFinite == IsFiniteSet(Slot)
BY BcacheAssumption, FS_Interval DEF Slot

LEMMA FlushKeeps ==
  ASSUME IInv, bcache_flush
  PROVE  IInv'
<1>1. PICK failed \in SUBSET Dirty : \E reached \in SUBSET failed :
        /\ faults + Cardinality(failed) <= MaxFaults
        /\ faults' = faults + Cardinality(failed)
        /\ disk' = [lba \in Lba |->
             IF Hits(lba) \cap ((Dirty \ failed) \cup reached) = {} THEN disk[lba]
             ELSE cache_pool[CHOOSE i \in Hits(lba) : TRUE].data]
        /\ cache_pool' = [i \in Slot |->
             [cache_pool[i] EXCEPT !.dirty = @ /\ i \notin Dirty \ failed]]
        /\ result' = [ok |-> TRUE]
        /\ UNCHANGED older
  BY Zenon DEF bcache_flush
<1>r. PICK reached \in SUBSET failed :
        /\ faults + Cardinality(failed) <= MaxFaults
        /\ faults' = faults + Cardinality(failed)
        /\ disk' = [lba \in Lba |->
             IF Hits(lba) \cap ((Dirty \ failed) \cup reached) = {} THEN disk[lba]
             ELSE cache_pool[CHOOSE i \in Hits(lba) : TRUE].data]
        /\ cache_pool' = [i \in Slot |->
             [cache_pool[i] EXCEPT !.dirty = @ /\ i \notin Dirty \ failed]]
        /\ result' = [ok |-> TRUE]
        /\ UNCHANGED older
  BY Zenon, <1>1
<1>2. TypeOK /\ CachedOnceIn(cache_pool) /\ CleanIn(cache_pool, disk)
  BY Zenon, EntryByEntry DEF IInv
<1>3. cache_pool \in [Slot -> Entry]
  BY Zenon, <1>2 DEF TypeOK, Entry
<1>4. \A i \in Slot :
        /\ cache_pool'[i].lba = cache_pool[i].lba
        /\ cache_pool'[i].data = cache_pool[i].data
        /\ cache_pool'[i].valid = cache_pool[i].valid
        /\ cache_pool'[i].dirty = (cache_pool[i].dirty /\ i \notin Dirty \ failed)
  BY Zenon, <1>r, <1>3 DEF Entry
<1>5. cache_pool' \in [Slot -> Entry]
  BY ZenonT(60), <1>r, <1>3 DEF Entry
<1>6. faults' \in 0..MaxFaults
  <2>1. Cardinality(failed) \in Nat
    BY Zenon, SlotsFinite, FS_Subset, FS_CardinalityType DEF Dirty
  <2> QED BY <1>r, <1>2, <2>1, BcacheAssumption DEF TypeOK
<1>7. disk' \in [Lba -> Data]
  <2>1. \A lba \in Lba : Hits(lba) # {} => cache_pool[CHOOSE i \in Hits(lba) : TRUE].data \in Data
    BY Zenon, <1>3 DEF Hits, Entry
  <2> QED BY Zenon, <1>r, <1>2, <2>1 DEF TypeOK
<1>8. TypeOK'
  BY Zenon, <1>r, <1>2, <1>5, <1>6, <1>7 DEF TypeOK, Entry
<1>9. CachedOnceIn(cache_pool')
  BY <1>2, <1>4 DEF CachedOnceIn
<1>10. ASSUME NEW i \in Slot, cache_pool[i].valid
       PROVE  disk'[cache_pool[i].lba] = IF i \in (Dirty \ failed) \cup reached
                                         THEN cache_pool[i].data ELSE disk[cache_pool[i].lba]
  <2> DEFINE l == cache_pool[i].lba
  <2>1. l \in Lba /\ Hits(l) = {i} /\ (CHOOSE j \in Hits(l) : TRUE) = i
    BY Zenon, <1>10, TheHit
  <2>2. disk'[l] = IF Hits(l) \cap ((Dirty \ failed) \cup reached) = {} THEN disk[l]
                   ELSE cache_pool[CHOOSE j \in Hits(l) : TRUE].data
    BY Zenon, <1>r, <2>1
  <2>3. (Hits(l) \cap ((Dirty \ failed) \cup reached) = {}) <=> i \notin (Dirty \ failed) \cup reached
    BY Zenon, <2>1
  <2> QED BY Zenon, <2>1, <2>2, <2>3
<1>11. CleanIn(cache_pool', disk')
  <2> SUFFICES ASSUME NEW i \in Slot, cache_pool'[i].valid, ~cache_pool'[i].dirty
               PROVE  cache_pool'[i].data = disk'[cache_pool'[i].lba]
    BY Zenon DEF CleanIn
  <2>1. cache_pool[i].valid
    BY Zenon, <1>4
  <2>2. CASE cache_pool[i].dirty
    BY Zenon, <1>4, <1>10, <2>1, <2>2
  <2>3. CASE ~cache_pool[i].dirty
    BY <1>2, <1>4, <1>10, <2>1, <2>3 DEF CleanIn
  <2> QED BY Zenon, <2>2, <2>3
<1> QED BY Zenon, <1>8, <1>9, <1>11, Reassembled

LEMMA EmptyHolds ==
  ASSUME NEW d \in [Lba -> Data]
  PROVE  LET pool == [i \in Slot |-> [lba |-> 0, data |-> 0, valid |-> FALSE, dirty |-> FALSE]]
         IN pool \in [Slot -> Entry] /\ CachedOnceIn(pool) /\ CleanIn(pool, d)
BY Zenon, BcacheAssumption DEF Entry, CachedOnceIn, CleanIn

LEMMA RestartKeeps ==
  ASSUME IInv, bcache_init
  PROVE  IInv'
<1>1. disk' \in [Lba -> Data] /\ older' \subseteq Slot \X Slot /\ faults' \in 0..MaxFaults
  BY Zenon DEF IInv, TypeOK, bcache_init
<1>2. cache_pool' \in [Slot -> Entry] /\ CachedOnceIn(cache_pool') /\ CleanIn(cache_pool', disk')
  BY Zenon, <1>1, EmptyHolds DEF bcache_init
<1>3. TypeOK'
  BY Zenon, <1>1, <1>2 DEF TypeOK, Entry, bcache_init
<1> QED BY Zenon, <1>2, <1>3, Reassembled

LEMMA InitHolds == Init => IInv
<1> SUFFICES ASSUME Init PROVE IInv
  BY Zenon
<1>1. cache_pool \in [Slot -> Entry] /\ CachedOnceIn(cache_pool) /\ CleanIn(cache_pool, disk)
  BY Zenon, EmptyHolds DEF Init
<1>2. TypeOK
  BY <1>1, BcacheAssumption DEF TypeOK, Entry, Init
<1> QED BY Zenon, <1>1, <1>2, EntryByEntry DEF IInv

LEMMA StepHolds == IInv /\ [Next]_vars => IInv'
<1> SUFFICES ASSUME IInv, [Next]_vars PROVE IInv'
  BY Zenon
<1>1. ASSUME NEW lba \in Lba, bcache_read_sector(lba) PROVE IInv'
  BY Zenon, <1>1, ReadHitKeeps, ReadMissKeeps DEF bcache_read_sector
<1>2. ASSUME NEW lba \in Lba, NEW data \in Data, bcache_write_sector(lba, data) PROVE IInv'
  BY Zenon, <1>2, WriteHitKeeps, WriteMissKeeps DEF bcache_write_sector
<1>3. CASE UNCHANGED vars
  BY <1>3 DEF vars, IInv, TypeOK, CachedOnce, CleanMatchesDisk, Hits
<1> QED BY Zenon, <1>1, <1>2, <1>3, FlushKeeps, RestartKeeps DEF Next

(***************************************************************************)
(* The inductive invariant, from which the next three theorems follow.     *)
(***************************************************************************)
THEOREM Invariance == Spec => []IInv
BY InitHolds, StepHolds, PTL DEF Spec

\* The cache, the disk and the results keep their types.
THEOREM TypeCorrect == Spec => []TypeOK
<1>1. IInv => TypeOK
  BY Zenon DEF IInv
<1> QED BY <1>1, Invariance, PTL

(***************************************************************************)
(* bcache_read_sector and bcache_write_sector never put a sector into a    *)
(* second entry, for any size of cache and disk and any number of faults.  *)
(***************************************************************************)
THEOREM NoSectorTwice == Spec => []CachedOnce
<1>1. IInv => CachedOnce
  BY Zenon DEF IInv
<1> QED BY <1>1, Invariance, PTL

(***************************************************************************)
(* Eviction may drop a clean entry: it agrees with the disk, whatever      *)
(* reads, writes and flushes failed before.                                *)
(***************************************************************************)
THEOREM CleanAgrees == Spec => []CleanMatchesDisk
<1>1. IInv => CleanMatchesDisk
  BY Zenon DEF IInv
<1> QED BY <1>1, Invariance, PTL

-----------------------------------------------------------------------------
\* The refinement.

ContentIn(pool, d) == [lba \in Lba |->
  IF {i \in Slot : pool[i].valid /\ pool[i].lba = lba} = {} THEN d[lba]
  ELSE pool[CHOOSE i \in {i \in Slot : pool[i].valid /\ pool[i].lba = lba} : TRUE].data]

LEMMA ContentIs == Content = ContentIn(cache_pool, disk) /\ Content' = ContentIn(cache_pool', disk')
BY Zenon DEF Content, ContentIn, Hits

LEMMA ContentOf ==
  ASSUME NEW pool, NEW d, CachedOnceIn(pool), NEW l \in Lba
  PROVE  /\ \A i \in Slot : pool[i].valid /\ pool[i].lba = l => ContentIn(pool, d)[l] = pool[i].data
         /\ (\A i \in Slot : ~(pool[i].valid /\ pool[i].lba = l)) => ContentIn(pool, d)[l] = d[l]
<1> DEFINE hits == {i \in Slot : pool[i].valid /\ pool[i].lba = l}
<1>1. ContentIn(pool, d)[l] = IF hits = {} THEN d[l] ELSE pool[CHOOSE i \in hits : TRUE].data
  BY Zenon DEF ContentIn
<1>2. ASSUME NEW i \in Slot, pool[i].valid, pool[i].lba = l
      PROVE  ContentIn(pool, d)[l] = pool[i].data
  <2>1. hits = {i}
    BY Zenon, <1>2 DEF CachedOnceIn
  <2>2. (CHOOSE j \in hits : TRUE) = i
    BY Zenon, <2>1
  <2>3. hits # {}
    BY Zenon, <2>1
  <2> HIDE DEF hits
  <2> QED BY Zenon, <1>1, <2>2, <2>3
<1> QED BY Zenon, <1>1, <1>2

\* An entry is dirty only because the disk has refused a write.
DirtyAfterFault == \A i \in Slot : cache_pool[i].valid /\ cache_pool[i].dirty => faults > 0

\* What a write through an entry leaves, whatever happened to the victim before.
LEMMA WriteThroughFaults ==
  ASSUME IInv, DirtyAfterFault, NEW lba \in Lba, NEW data \in Data, NEW i \in Slot,
         NEW d \in [Lba -> Data], NEW f \in 0..MaxFaults, f >= faults,
         WriteThrough(lba, data, i, d, f)
  PROVE  DirtyAfterFault'
<1>1. PICK w \in ata_write(d, f, lba, data) :
        /\ faults' = w.faults
        /\ cache_pool' = [cache_pool EXCEPT ![i] =
             [lba |-> lba, data |-> data, valid |-> TRUE, dirty |-> ~w.ok]]
  BY Zenon DEF WriteThrough
<1>2. w.ok \in BOOLEAN /\ (w.ok => w.faults = f) /\ (~w.ok => w.faults = f + 1)
  BY AtaWrite
<1>3. cache_pool \in [Slot -> Entry] /\ faults \in Nat /\ f \in Nat
  BY BcacheAssumption DEF IInv, TypeOK, Entry
<1>4. /\ \A j \in Slot : j # i => cache_pool'[j] = cache_pool[j]
      /\ cache_pool'[i].dirty = ~w.ok
  BY Zenon, <1>1, <1>3
<1>5. ASSUME NEW j \in Slot, cache_pool'[j].valid, cache_pool'[j].dirty PROVE faults' > 0
  <2>1. CASE j = i
    <3>1. ~w.ok
      BY Zenon, <1>2, <1>4, <1>5, <2>1
    <3> QED BY <1>1, <1>2, <1>3, <3>1
  <2>2. CASE j # i
    <3>1. faults > 0
      BY Zenon, <1>4, <1>5, <2>2 DEF DirtyAfterFault
    <3>2. w.faults = f \/ w.faults = f + 1
      BY Zenon, <1>2
    <3> QED BY <1>1, <1>3, <3>1, <3>2
  <2> QED BY Zenon, <2>1, <2>2
<1> QED BY Zenon, <1>5 DEF DirtyAfterFault

LEMMA FaultsStep ==
  ASSUME IInv, DirtyAfterFault, [Next]_vars
  PROVE  DirtyAfterFault'
<1>0. /\ cache_pool \in [Slot -> Entry] /\ faults \in 0..MaxFaults /\ faults \in Nat
      /\ disk \in [Lba -> Data] /\ TypeOK
  BY BcacheAssumption DEF IInv, TypeOK, Entry
<1>1. ASSUME NEW lba \in Lba, NEW i \in Slot, ReadMiss(lba, i) PROVE DirtyAfterFault'
  <2>1. PICK w \in WriteBack(i) :
          /\ faults' = w.faults
          /\ \/ cache_pool' = cache_pool
             \/ cache_pool' = [cache_pool EXCEPT ![i].dirty = FALSE]
             \/ cache_pool' = [cache_pool EXCEPT ![i] =
                  [lba |-> lba, data |-> w.disk[lba], valid |-> TRUE, dirty |-> FALSE]]
    BY Zenon, <1>1 DEF ReadMiss
  <2>2. w.faults >= faults /\ w.faults \in 0..MaxFaults
    BY Zenon, <1>0, WrittenBack
  <2>3. \A j \in Slot : cache_pool'[j].valid /\ cache_pool'[j].dirty
                          => cache_pool[j].valid /\ cache_pool[j].dirty
    BY <1>0, <2>1 DEF Entry
  <2>4. w.faults \in Nat
    BY <2>2, BcacheAssumption
  <2> QED BY <1>0, <2>1, <2>2, <2>3, <2>4 DEF DirtyAfterFault
<1>2. ASSUME NEW lba \in Lba, NEW data \in Data, NEW i \in Slot, WriteMiss(lba, data, i)
      PROVE  DirtyAfterFault'
  <2>1. PICK w \in WriteBack(i) : WriteThrough(lba, data, i, w.disk, w.faults)
    BY Zenon, <1>2 DEF WriteMiss
  <2>2. w.disk \in [Lba -> Data] /\ w.faults \in 0..MaxFaults /\ w.faults >= faults
    BY Zenon, <1>0, WrittenBack
  <2> QED BY Zenon, <2>1, <2>2, WriteThroughFaults
<1>3. ASSUME NEW lba \in Lba, NEW data \in Data, NEW i \in Slot, WriteHit(lba, data, i)
      PROVE  DirtyAfterFault'
  BY <1>0, <1>3, WriteThroughFaults DEF WriteHit
<1>4. CASE bcache_flush
  <2>1. PICK failed \in SUBSET Dirty :
          /\ faults' = faults + Cardinality(failed)
          /\ cache_pool' = [i \in Slot |->
               [cache_pool[i] EXCEPT !.dirty = @ /\ i \notin Dirty \ failed]]
    BY Zenon, <1>4 DEF bcache_flush
  <2>2. Cardinality(failed) \in Nat
    BY Zenon, SlotsFinite, FS_Subset, FS_CardinalityType DEF Dirty
  <2>3. \A j \in Slot : cache_pool'[j].valid /\ cache_pool'[j].dirty
                          => cache_pool[j].valid /\ cache_pool[j].dirty
    BY Zenon, <1>0, <2>1 DEF Entry
  <2> QED BY SMTT(60), <1>0, <2>1, <2>2, <2>3 DEF DirtyAfterFault
<1>5. CASE bcache_init
  BY Zenon, <1>5 DEF bcache_init, DirtyAfterFault
<1>6. CASE \E lba \in Lba, i \in Slot : ReadHit(lba, i)
  BY Zenon, <1>6 DEF ReadHit, DirtyAfterFault
<1>7. CASE UNCHANGED vars
  BY Zenon, <1>7 DEF vars, DirtyAfterFault
<1> QED BY Zenon, <1>1, <1>2, <1>3, <1>4, <1>5, <1>6, <1>7
        DEF Next, bcache_read_sector, bcache_write_sector

\* Every invalid entry set aside, the content and the disk agree after a start.
LEMMA StoreInit == Init => Store!Init
<1> SUFFICES ASSUME Init PROVE Store!Init
  BY Zenon
<1>1. CachedOnceIn(cache_pool) /\ disk \in [Lba -> Data]
  BY Zenon, EmptyHolds DEF Init
<1>2. \A l \in Lba : Content[l] = disk[l]
  BY <1>1, ContentIs, ContentOf DEF Init
<1>3. Content = disk
  BY Zenon, <1>1, <1>2 DEF Content
<1> QED BY Zenon, <1>1, <1>3 DEF Init, Store!Init, Failure, Store!Failure

\* A step that changes no content, and on the disk only brings sectors up to date.
Quiet == /\ Content' = Content
         /\ \A l \in Lba : disk'[l] \in {disk[l], Content[l]}

LEMMA QuietIfSame ==
  ASSUME \A l \in Lba : Content'[l] = Content[l]
  PROVE  Content' = Content
BY Zenon DEF Content

LEMMA QuietRead ==
  ASSUME NEW lba \in Lba, Quiet, result' \in {Success(Content[lba]), Failure}
  PROVE  Store!Next
BY Zenon DEF Quiet, Success, Failure, Store!Success, Store!Failure, Store!Next, Store!Read, Store!Settle

LEMMA ReadHitRefines ==
  ASSUME IInv, NEW lba \in Lba, NEW i \in Slot, ReadHit(lba, i)
  PROVE  Store!Next
<1>1. CachedOnceIn(cache_pool)
  BY Zenon, EntryByEntry DEF IInv
<1>2. Content[lba] = cache_pool[i].data
  BY <1>1, ContentIs, ContentOf DEF ReadHit, Hits
<1>3. Content' = Content
  BY Zenon, ContentIs DEF ReadHit
<1>4. Quiet
  BY Zenon, <1>3 DEF Quiet, ReadHit
<1> QED BY Zenon, <1>2, <1>4, QuietRead DEF ReadHit

LEMMA ReadMissRefines ==
  ASSUME IInv, NEW lba \in Lba, NEW i \in Slot, ReadMiss(lba, i)
  PROVE  Store!Next
<1>1. PICK w \in WriteBack(i) :
        /\ disk' = w.disk
        /\ \/ result' = Failure /\ cache_pool' = cache_pool
           \/ result' = Failure /\ cache_pool' = [cache_pool EXCEPT ![i].dirty = FALSE]
           \/ /\ result' = Success(w.disk[lba]) /\ w.ok
              /\ cache_pool' = [cache_pool EXCEPT ![i] =
                   [lba |-> lba, data |-> w.disk[lba], valid |-> TRUE, dirty |-> FALSE]]
  BY Zenon DEF ReadMiss
<1>2. /\ TypeOK /\ CachedOnceIn(cache_pool) /\ CleanIn(cache_pool, disk)
      /\ cache_pool \in [Slot -> Entry]
  BY Zenon, EntryByEntry DEF IInv, TypeOK, Entry
<1>3. CachedOnceIn(cache_pool')
  <2>1. IInv' /\ TypeOK'
    BY Zenon, ReadMissKeeps DEF IInv
  <2> QED BY ZenonT(60), <2>1 DEF IInv, CachedOnce, Hits, CachedOnceIn, TypeOK
<1>4. \A j \in Slot : ~(cache_pool[j].valid /\ cache_pool[j].lba = lba)
  BY Zenon DEF ReadMiss, Hits
<1>w. /\ w.disk \in [Lba -> Data]
      /\ \A l \in Lba : l # cache_pool[i].lba \/ ~cache_pool[i].valid => w.disk[l] = disk[l]
      /\ w.disk[cache_pool[i].lba] \in {disk[cache_pool[i].lba], cache_pool[i].data}
      /\ w.ok /\ cache_pool[i].valid /\ cache_pool[i].dirty
           => w.disk[cache_pool[i].lba] = cache_pool[i].data
      /\ ~cache_pool[i].dirty => w.disk = disk
  BY Zenon, <1>2, WrittenBack
<1>5. Content[lba] = disk[lba] /\ w.disk[lba] = disk[lba]
  BY <1>2, <1>4, <1>w, ContentIs, ContentOf DEF Entry
<1>6. ASSUME NEW l \in Lba PROVE disk'[l] \in {disk[l], Content[l]}
  <2>1. CASE cache_pool[i].valid /\ cache_pool[i].lba = l
    BY <1>1, <1>2, <1>w, <2>1, ContentIs, ContentOf
  <2>2. CASE ~(cache_pool[i].valid /\ cache_pool[i].lba = l)
    BY Zenon, <1>1, <1>w, <2>2
  <2> QED BY Zenon, <2>1, <2>2
<1>7. ASSUME NEW l \in Lba,
             cache_pool' = cache_pool \/ cache_pool' = [cache_pool EXCEPT ![i].dirty = FALSE]
      PROVE  Content'[l] = Content[l]
  <2>1. \A j \in Slot : /\ cache_pool'[j].valid = cache_pool[j].valid
                        /\ cache_pool'[j].lba = cache_pool[j].lba
                        /\ cache_pool'[j].data = cache_pool[j].data
    BY <1>2, <1>7 DEF Entry
  <2>2. CASE \E j \in Slot : cache_pool[j].valid /\ cache_pool[j].lba = l
    <3>1. PICK j \in Slot : cache_pool[j].valid /\ cache_pool[j].lba = l
      BY Zenon, <2>2
    <3>2. Content[l] = cache_pool[j].data
      BY <1>2, <3>1, ContentIs, ContentOf
    <3>3. Content'[l] = cache_pool'[j].data
      BY <1>3, <2>1, <3>1, ContentIs, ContentOf
    <3> QED BY Zenon, <2>1, <3>2, <3>3
  <2>3. CASE \A j \in Slot : ~(cache_pool[j].valid /\ cache_pool[j].lba = l)
    <3>1. Content[l] = disk[l]
      BY <1>2, <2>3, ContentIs, ContentOf
    <3>2. Content'[l] = disk'[l]
      BY <1>3, <2>1, <2>3, ContentIs, ContentOf
    <3>3. disk'[l] = disk[l]
      BY Zenon, <1>1, <1>w, <2>3
    <3> QED BY Zenon, <3>1, <3>2, <3>3
  <2> QED BY Zenon, <2>2, <2>3
<1>8. ASSUME NEW l \in Lba, w.ok,
             cache_pool' = [cache_pool EXCEPT ![i] =
               [lba |-> lba, data |-> w.disk[lba], valid |-> TRUE, dirty |-> FALSE]]
      PROVE  Content'[l] = Content[l]
  <2>1. /\ \A j \in Slot : j # i => cache_pool'[j] = cache_pool[j]
        /\ cache_pool'[i].lba = lba /\ cache_pool'[i].data = w.disk[lba] /\ cache_pool'[i].valid
    BY Zenon, <1>2, <1>8
  <2>2. CASE l = lba
    <3>1. Content'[l] = w.disk[lba]
      BY <1>3, <2>1, <2>2, ContentIs, ContentOf
    <3> QED BY Zenon, <1>5, <2>2, <3>1
  <2>3. CASE l # lba /\ cache_pool[i].valid /\ cache_pool[i].lba = l
    <3>1. Content[l] = cache_pool[i].data
      BY <1>2, <2>3, ContentIs, ContentOf
    <3>2. \A j \in Slot : ~(cache_pool'[j].valid /\ cache_pool'[j].lba = l)
      BY Zenon, <1>2, <2>1, <2>3 DEF CachedOnceIn
    <3>3. Content'[l] = disk'[l]
      BY <1>3, <3>2, ContentIs, ContentOf
    <3>4. w.disk[l] = cache_pool[i].data
      BY Zenon, <1>2, <1>8, <1>w, <2>3 DEF CleanIn
    <3> QED BY Zenon, <1>1, <3>1, <3>3, <3>4
  <2>4. CASE l # lba /\ ~(cache_pool[i].valid /\ cache_pool[i].lba = l)
    <3>1. disk'[l] = disk[l]
      BY Zenon, <1>1, <1>w, <2>4
    <3>2. CASE \E j \in Slot : cache_pool[j].valid /\ cache_pool[j].lba = l
      <4>1. PICK j \in Slot : cache_pool[j].valid /\ cache_pool[j].lba = l
        BY Zenon, <3>2
      <4>2. Content[l] = cache_pool[j].data
        BY <1>2, <4>1, ContentIs, ContentOf
      <4>3. cache_pool'[j] = cache_pool[j]
        BY Zenon, <2>1, <2>4, <4>1
      <4>4. Content'[l] = cache_pool'[j].data
        BY <1>3, <4>1, <4>3, ContentIs, ContentOf
      <4> QED BY Zenon, <4>2, <4>3, <4>4
    <3>3. CASE \A j \in Slot : ~(cache_pool[j].valid /\ cache_pool[j].lba = l)
      <4>1. \A j \in Slot : ~(cache_pool'[j].valid /\ cache_pool'[j].lba = l)
        BY Zenon, <2>1, <2>4, <3>3
      <4>2. Content[l] = disk[l]
        BY <1>2, <3>3, ContentIs, ContentOf
      <4>3. Content'[l] = disk'[l]
        BY <1>3, <4>1, ContentIs, ContentOf
      <4> QED BY Zenon, <3>1, <4>2, <4>3
    <3> QED BY Zenon, <3>2, <3>3
  <2> QED BY Zenon, <2>2, <2>3, <2>4
<1>9. Quiet
  BY Zenon, <1>1, <1>6, <1>7, <1>8, QuietIfSame DEF Quiet
<1> QED BY Zenon, <1>1, <1>5, <1>9, QuietRead

\* d: the disk once the entry may be reused, its sector brought up to date.
LEMMA WriteThroughRefines ==
  ASSUME IInv, IInv', NEW lba \in Lba, NEW data \in Data, NEW i \in Slot,
         NEW d \in [Lba -> Data], NEW f \in 0..MaxFaults,
         \A j \in Slot : j # i /\ cache_pool[j].valid => cache_pool[j].lba # lba,
         cache_pool[i].valid /\ cache_pool[i].lba # lba => d[cache_pool[i].lba] = cache_pool[i].data,
         \A l \in Lba : ~(cache_pool[i].valid /\ cache_pool[i].lba = l /\ l # lba) => d[l] = disk[l],
         WriteThrough(lba, data, i, d, f)
  PROVE  Store!Next
<1>1. PICK w \in ata_write(d, f, lba, data) :
        /\ disk' = w.disk
        /\ result' = IF w.ok THEN Success(data) ELSE Failure
        /\ cache_pool' = [cache_pool EXCEPT ![i] =
             [lba |-> lba, data |-> data, valid |-> TRUE, dirty |-> ~w.ok]]
  BY Zenon DEF WriteThrough
<1>2. /\ w.ok \in BOOLEAN
      /\ \A l \in Lba : l # lba => w.disk[l] = d[l]
      /\ w.disk[lba] \in {d[lba], data}
      /\ w.ok => w.disk[lba] = data
  BY AtaWrite, SMTT(60)
<1>3. CachedOnceIn(cache_pool) /\ CachedOnceIn(cache_pool') /\ cache_pool \in [Slot -> Entry]
  BY SMTT(60) DEF IInv, TypeOK, CachedOnce, CachedOnceIn, Hits, Entry
<1>4. /\ \A j \in Slot : j # i => cache_pool'[j] = cache_pool[j]
      /\ cache_pool'[i].lba = lba /\ cache_pool'[i].data = data /\ cache_pool'[i].valid
  BY Zenon, <1>1, <1>3
<1>5. Content'[lba] = data
  BY <1>3, <1>4, ContentIs, ContentOf, SMTT(60)
<1>6. ASSUME NEW l \in Lba, l # lba
      PROVE  Content'[l] = Content[l] /\ disk'[l] \in {disk[l], Content[l]}
  <2>1. CASE cache_pool[i].valid /\ cache_pool[i].lba = l
    <3>1. Content[l] = cache_pool[i].data
      BY <1>3, <2>1, ContentIs, ContentOf
    <3>2. \A j \in Slot : ~(cache_pool'[j].valid /\ cache_pool'[j].lba = l)
      BY ZenonT(60), <1>3, <1>4, <1>6, <2>1 DEF CachedOnceIn
    <3>3. Content'[l] = disk'[l]
      BY <1>3, <3>2, ContentIs, ContentOf
    <3>4. disk'[l] = cache_pool[i].data
      BY Zenon, <1>1, <1>2, <1>6, <2>1
    <3> QED BY Zenon, <3>1, <3>3, <3>4
  <2>2. CASE ~(cache_pool[i].valid /\ cache_pool[i].lba = l)
    <3>1. disk'[l] = disk[l]
      BY Zenon, <1>1, <1>2, <1>6, <2>2
    <3>2. CASE \E j \in Slot : cache_pool[j].valid /\ cache_pool[j].lba = l
      <4>1. PICK j \in Slot : cache_pool[j].valid /\ cache_pool[j].lba = l
        BY Zenon, <3>2
      <4>2. cache_pool'[j] = cache_pool[j]
        BY Zenon, <1>4, <2>2, <4>1
      <4>3. Content[l] = cache_pool[j].data
        BY <1>3, <4>1, ContentIs, ContentOf
      <4>4. Content'[l] = cache_pool'[j].data
        BY <1>3, <4>1, <4>2, ContentIs, ContentOf
      <4> QED BY Zenon, <3>1, <4>2, <4>3, <4>4
    <3>3. CASE \A j \in Slot : ~(cache_pool[j].valid /\ cache_pool[j].lba = l)
      <4>1. \A j \in Slot : ~(cache_pool'[j].valid /\ cache_pool'[j].lba = l)
        BY Zenon, <1>4, <1>6, <3>3
      <4>2. Content[l] = disk[l] /\ Content'[l] = disk'[l]
        BY <1>3, <3>3, <4>1, ContentIs, ContentOf, SMTT(60)
      <4> QED BY Zenon, <3>1, <4>2
    <3> QED BY Zenon, <3>2, <3>3
  <2> QED BY Zenon, <2>1, <2>2
<1>7. Content' = [Content EXCEPT ![lba] = data]
  <2>1. Content = [l \in Lba |-> Content[l]] /\ Content' = [l \in Lba |-> Content'[l]]
    BY DEF Content
  <2>2. [Content EXCEPT ![lba] = data] = [l \in Lba |-> IF l = lba THEN data ELSE Content[l]]
    BY Zenon, <2>1
  <2>3. [l \in Lba |-> Content'[l]] = [l \in Lba |-> IF l = lba THEN data ELSE Content[l]]
    BY Zenon, <1>5, <1>6
  <2> QED BY Zenon, <2>1, <2>2, <2>3
<1>8. disk'[lba] \in {disk[lba], data} /\ (w.ok => disk'[lba] = data)
  BY Zenon, <1>1, <1>2
<1>9. Store!Settle
  BY Zenon, <1>5, <1>6, <1>8 DEF Store!Settle
<1>10. Store!Write(lba, data)
  BY Zenon, <1>1, <1>2, <1>7, <1>8 DEF Store!Write, Success, Failure, Store!Success, Store!Failure
<1> QED BY Zenon, <1>9, <1>10 DEF Store!Next

LEMMA WriteRefines ==
  ASSUME IInv, DirtyAfterFault, faults' <= 1, NEW lba \in Lba, NEW data \in Data,
         bcache_write_sector(lba, data)
  PROVE  Store!Next
<1>0. disk \in [Lba -> Data] /\ faults \in 0..MaxFaults /\ TypeOK /\ faults \in Nat
  BY BcacheAssumption DEF IInv, TypeOK
<1>1. ASSUME NEW i \in Slot, WriteHit(lba, data, i) PROVE Store!Next
  <2>1. cache_pool[i].lba = lba /\ \A j \in Slot : j # i /\ cache_pool[j].valid => cache_pool[j].lba # lba
    BY Zenon, <1>1 DEF IInv, CachedOnce, WriteHit, Hits
  <2>2. IInv'
    BY Zenon, <1>1, WriteHitKeeps
  <2> QED BY <1>0, <1>1, <2>1, <2>2, WriteThroughRefines DEF WriteHit
<1>2. ASSUME NEW i \in Slot, WriteMiss(lba, data, i) PROVE Store!Next
  <2>1. PICK w \in WriteBack(i) : WriteThrough(lba, data, i, w.disk, w.faults)
    BY Zenon, <1>2 DEF WriteMiss
  <2>2. /\ w.disk \in [Lba -> Data] /\ w.faults \in 0..MaxFaults
        /\ \A l \in Lba : l # cache_pool[i].lba \/ ~cache_pool[i].valid => w.disk[l] = disk[l]
        /\ w.ok /\ cache_pool[i].valid /\ cache_pool[i].dirty
             => w.disk[cache_pool[i].lba] = cache_pool[i].data
        /\ ~cache_pool[i].dirty => w.disk = disk
        /\ ~w.ok => cache_pool[i].dirty /\ w.faults = faults + 1
    BY Zenon, <1>0, WrittenBack
  <2>3. \A j \in Slot : cache_pool[j].valid => cache_pool[j].lba # lba
    BY Zenon, <1>2 DEF WriteMiss, Hits
  <2>4. cache_pool[i].valid => w.ok \/ ~cache_pool[i].dirty
    <3>1. PICK v \in ata_write(w.disk, w.faults, lba, data) : faults' = v.faults
      BY Zenon, <2>1 DEF WriteThrough
    <3>2. v.ok \in BOOLEAN /\ (v.ok => faults' = w.faults) /\ (~v.ok => faults' = w.faults + 1)
      BY <2>2, <3>1, AtaWrite
    <3>3. w.faults <= 1
      BY <2>2, <3>2, BcacheAssumption
    <3> QED BY <1>0, <2>2, <3>3 DEF DirtyAfterFault
  <2>5. cache_pool[i].valid => w.disk[cache_pool[i].lba] = cache_pool[i].data
    BY ZenonT(60), <2>2, <2>4 DEF IInv, CleanMatchesDisk
  <2>6. IInv'
    BY Zenon, <1>2, WriteMissKeeps
  <2> QED BY <2>1, <2>2, <2>3, <2>5, <2>6, WriteThroughRefines, SMTT(60)
<1> QED BY Zenon, <1>1, <1>2 DEF bcache_write_sector

LEMMA FlushRefines ==
  ASSUME IInv, bcache_flush
  PROVE  Store!Next
<1>1. PICK failed \in SUBSET Dirty : \E reached \in SUBSET failed :
        /\ disk' = [lba \in Lba |->
             IF Hits(lba) \cap ((Dirty \ failed) \cup reached) = {} THEN disk[lba]
             ELSE cache_pool[CHOOSE i \in Hits(lba) : TRUE].data]
        /\ cache_pool' = [i \in Slot |->
             [cache_pool[i] EXCEPT !.dirty = @ /\ i \notin Dirty \ failed]]
        /\ result' = [ok |-> TRUE]
  BY Zenon DEF bcache_flush
<1>2. cache_pool \in [Slot -> Entry]
  BY Zenon DEF IInv, TypeOK, Entry
<1>3. \A i \in Slot :
        /\ cache_pool'[i].lba = cache_pool[i].lba
        /\ cache_pool'[i].data = cache_pool[i].data
        /\ cache_pool'[i].valid = cache_pool[i].valid
  BY <1>1, <1>2 DEF Entry
<1>4. \A l \in Lba : Hits(l)' = Hits(l)
  BY Zenon, <1>3 DEF Hits
<1>5. ASSUME NEW l \in Lba PROVE disk'[l] \in {disk[l], Content[l]} /\ Content'[l] = Content[l]
  <2>1. CASE Hits(l) = {}
    <3>1. disk'[l] = disk[l]
      BY ZenonT(60), <1>1, <2>1
    <3>2. Content[l] = disk[l] /\ Content'[l] = disk'[l]
      BY Zenon, <1>4, <2>1 DEF Content
    <3> QED BY Zenon, <3>1, <3>2
  <2>2. CASE Hits(l) # {}
    <3> DEFINE i == CHOOSE i \in Hits(l) : TRUE
    <3>1. i \in Slot
      BY Zenon, <2>2 DEF Hits
    <3>2. Content[l] = cache_pool[i].data
      BY Zenon, <2>2 DEF Content
    <3>3. Content'[l] = cache_pool'[i].data
      BY Zenon, <1>4, <2>2 DEF Content
    <3>4. disk'[l] \in {disk[l], cache_pool[i].data}
      BY Zenon, <1>1
    <3> HIDE DEF i
    <3> QED BY Zenon, <1>3, <3>1, <3>2, <3>3, <3>4
  <2> QED BY Zenon, <2>1, <2>2
<1>6. Content' = Content
  BY Zenon, <1>5, QuietIfSame
<1> QED BY Zenon, <1>1, <1>5, <1>6 DEF Store!Next, Store!Sync, Store!Settle

LEMMA RestartRefines ==
  ASSUME IInv, bcache_init
  PROVE  Store!Next
<1>1. disk \in [Lba -> Data] /\ disk' = disk
  BY Zenon DEF IInv, TypeOK, bcache_init
<1>2. CachedOnceIn(cache_pool') /\ \A i \in Slot : ~cache_pool'[i].valid
  BY Zenon, <1>1, EmptyHolds DEF bcache_init
<1>3. \A l \in Lba : Content'[l] = disk'[l]
  BY <1>2, ContentIs, ContentOf
<1>4. Content' = disk'
  BY Zenon, <1>1, <1>3 DEF Content
<1> QED BY Zenon, <1>1, <1>4 DEF bcache_init, Failure, Store!Failure, Store!Next, Store!PowerCut, Store!Settle

(***************************************************************************)
(* Until the disk refuses a second write, the cache and the disk are one   *)
(* block store: every step is a step of BlockStore or leaves it alone, so  *)
(* reads return what was written last, also when that write was reported   *)
(* as failed, and successful writes survive a power cut.                   *)
(***************************************************************************)
THEOREM BcacheImplementsStore == Spec => ImplementsStore
<1>1. Init => DirtyAfterFault
  BY DEF Init, DirtyAfterFault
<1>2. Spec => [](IInv /\ DirtyAfterFault)
  BY <1>1, InitHolds, StepHolds, FaultsStep, PTL DEF Spec
<1>3. IInv /\ DirtyAfterFault /\ [Next]_vars
        => [faults' <= 1 => Store!Next]_<<Content, disk, result>>
  <2> SUFFICES ASSUME IInv, DirtyAfterFault, [Next]_vars
               PROVE  [faults' <= 1 => Store!Next]_<<Content, disk, result>>
    BY Zenon
  <2>1. CASE UNCHANGED vars
    BY <2>1 DEF vars, Content, Hits
  <2>2. ASSUME Next, faults' <= 1
        PROVE  [Store!Next]_<<Content, disk, result>>
    BY Zenon, <2>2, ReadHitRefines, ReadMissRefines, WriteRefines, FlushRefines, RestartRefines
       DEF Next, bcache_read_sector
  <2> QED BY Zenon, <2>1, <2>2
<1> QED BY <1>2, <1>3, StoreInit, PTL DEF Spec, ImplementsStore

=============================================================================
