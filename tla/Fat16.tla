-------------------------------- MODULE Fat16 --------------------------------
(***************************************************************************)
(* The FAT16 driver (src/drivers/fat16.c) under the VFS calls that reach   *)
(* it: the file allocation table, the directory entries and the bytes on   *)
(* the volume, and the VFS nodes that cache an entry's first cluster, size *)
(* and place.  A call runs under fat16_mutex, so each is one step; it can  *)
(* fail because the volume or the directory is full.  Sector I/O does not  *)
(* fail here, and a restart comes after a sync.                            *)
(*                                                                         *)
(* A mount gives every file of the root a second node under /bin, with a   *)
(* first cluster and a size of its own, and a descriptor keeps the node of *)
(* a file that has been unlinked.  Neither kind of node is told what later *)
(* happens to its file; fs.stale records that one of them was written.     *)
(***************************************************************************)
EXTENDS SequencesExt, FiniteSetsExt, Integers

CONSTANTS
  Names,          \* 8.3 names, each in one spelling
  Zero,           \* the byte of a cleared cluster; a file's own bytes are its name
  MaxCluster,     \* max_data_cluster()
  CLUSTER_SIZE,   \* bytes per cluster
  DIR_ENTRIES,    \* directory entries per cluster
  Nodes,          \* bound on the VFS nodes in use outside /bin
  BinNodes,       \* and in /bin
  MaxLen,         \* bound on the length of a file
  Writes,         \* the <<offset, length>> of the writes
  Lengths,        \* the lengths of the truncations
  MaxCalls,       \* bound on the calls that change the volume
  Volumes         \* the volumes to start from

VARIABLES
  fs,             \* the volume and the VFS nodes
  view,           \* Files(fs), the names and contents that processes see,
                  \* up to the first write through a stale node
  calls           \* calls left

vars == <<fs, view, calls>>

ROOT == 0          \* the root directory, and its node
NONE == -1         \* no node; the parent of a detached node
BIN == -2          \* the directory /bin, which is in memory only
FREE == 0          \* FAT16_FREE_CLUSTER
EOF == 1           \* FAT16_EOF; 0 and 1 are not cluster numbers
Clusters == 2 .. MaxCluster   \* cluster_is_data

Bytes == Names \cup {Zero}
Paths == {<<a>> : a \in Names} \cup {<<a, b>> : a, b \in Names}
BinPaths == {<<"bin", a>> : a \in Names}
AllNodes == Nodes \cup BinNodes

\* Directory entries: END is a first byte of 0, DELETED one of 0xE5, DOT the
\* "." and ".." of a subdirectory.
NoEntry(kind) == [kind |-> kind, name |-> Zero, first |-> 0, size |-> 0]
Live == {"FILE", "DIR"}

FreeNode == [used |-> FALSE, parent |-> NONE, name |-> Zero, kind |-> "FILE",
             data |-> NONE, nlink |-> 0, ref |-> 0]
NoData == [first |-> 0, size |-> 0, dir |-> NONE, index |-> 0]

EmptySlots(n) == [i \in 1 .. n |-> NoEntry("END")]

\* A formatted volume with n root entries, and no node.
EmptyVolume(n) ==
  [fat   |-> [c \in Clusters |-> FREE],
   bytes |-> [c \in Clusters |-> [o \in 1 .. CLUSTER_SIZE |-> Zero]],
   dir   |-> [d \in Clusters \cup {ROOT} |->
                EmptySlots(IF d = ROOT THEN n ELSE DIR_ENTRIES)],
   node  |-> [m \in AllNodes |-> FreeNode],
   data  |-> [m \in AllNodes |-> NoData],
   stale |-> FALSE]

-----------------------------------------------------------------------------
(* Cluster chains *)

RECURSIVE Walk(_, _, _)
Walk(fat, c, guard) ==
  IF c \notin Clusters \/ guard = 0 THEN <<>>
  ELSE <<c>> \o Walk(fat, fat[c], guard - 1)

Chain(fat, first) == Walk(fat, first, MaxCluster)

\* Mutant of allocate_cluster: no mark.
allocate_cluster_unmarked(s) ==
  LET free == {c \in Clusters : s.fat[c] = FREE} IN
  [fs |-> s, cluster |-> IF free = {} THEN 0 ELSE Min(free)]

\* The first free cluster, marked and cleared; 0 when the volume is full.
allocate_cluster(s) ==
  LET free == {c \in Clusters : s.fat[c] = FREE}
      c == Min(free)
  IN IF free = {} THEN [fs |-> s, cluster |-> 0]
     ELSE [fs |-> [s EXCEPT !.fat[c] = EOF, !.dir[c] = EmptySlots(DIR_ENTRIES),
                            !.bytes[c] = [o \in 1 .. CLUSTER_SIZE |-> Zero]],
           cluster |-> c]

free_chain_from(s, first) ==
  LET gone == ToSet(Chain(s.fat, first)) IN
  [s EXCEPT !.fat = [c \in Clusters |-> IF c \in gone THEN FREE ELSE @[c]]]

\* Extends the chain of data d to need clusters, one at a time; what was
\* added stays when the volume fills up.
RECURSIVE GrowChain(_, _, _)
GrowChain(s, d, need) ==
  LET chain == Chain(s.fat, s.data[d].first)
      a == allocate_cluster(s)
  IN IF Len(chain) >= need THEN [fs |-> s, ok |-> TRUE]
     ELSE IF a.cluster = 0 \/ (chain # <<>> /\ s.fat[Last(chain)] # EOF)
     THEN [fs |-> s, ok |-> FALSE]
     ELSE GrowChain(IF chain = <<>> THEN [a.fs EXCEPT !.data[d].first = a.cluster]
                    ELSE [a.fs EXCEPT !.fat[Last(chain)] = a.cluster], d, need)

ClustersFor(len) == (len + CLUSTER_SIZE - 1) \div CLUSTER_SIZE

\* Mutant of resize_chain: the chain is cut but its tail is not released.
resize_chain_keeps_tail(s, d, need) ==
  LET g == GrowChain(s, d, need)
      chain == Chain(g.fs.fat, g.fs.data[d].first)
  IN IF need = 0 THEN [fs |-> [s EXCEPT !.data[d].first = 0], ok |-> TRUE]
     ELSE IF ~g.ok \/ Len(chain) = need THEN g
     ELSE [fs |-> [g.fs EXCEPT !.fat[chain[need]] = EOF], ok |-> TRUE]

\* resize_chain_unlocked: no cluster at all, or exactly need of them.  The last
\* one is marked as the end also when it had been freed.
resize_chain(s, d, need) ==
  LET g == GrowChain(s, d, need)
      chain == Chain(g.fs.fat, g.fs.data[d].first)
      cut == free_chain_from(g.fs, chain[need + 1])
  IN IF need = 0
     THEN [fs |-> [free_chain_from(s, s.data[d].first) EXCEPT !.data[d].first = 0], ok |-> TRUE]
     ELSE IF ~g.ok THEN g
     ELSE [fs |-> [(IF Len(chain) = need THEN g.fs ELSE cut) EXCEPT !.fat[chain[need]] = EOF],
           ok |-> TRUE]

-----------------------------------------------------------------------------
(* Directories *)

\* The entries of directory d (ROOT or a first cluster), in order.
Slots(s, d) ==
  LET parts == IF d = ROOT THEN <<ROOT>> ELSE Chain(s.fat, d) IN
  FlattenSeq([k \in 1 .. Len(parts) |->
    [i \in 1 .. Len(s.dir[parts[k]]) |-> [dir |-> parts[k], index |-> i]]])

EntryAt(s, l) == s.dir[l.dir][l.index]

\* A scan stops at the first END.
Scanned(s, d) ==
  LET slots == Slots(s, d)
      ends == {k \in 1 .. Len(slots) : EntryAt(s, slots[k]).kind = "END"}
  IN SubSeq(slots, 1, IF ends = {} THEN Len(slots) ELSE Min(ends) - 1)

Lookup(s, d, name) ==
  SelectSeq(Scanned(s, d), LAMBDA l : EntryAt(s, l).kind \in Live /\ EntryAt(s, l).name = name)

FreeSlots(s, d) ==
  SelectSeq(Slots(s, d), LAMBDA l : EntryAt(s, l).kind \in {"END", "DELETED"})

DirectoryEmpty(s, d) == \A l \in ToSet(Scanned(s, d)) : EntryAt(s, l).kind \notin Live

\* fat16_readdir, one index after the other, without "." and "..".
fat16_readdir(s, d) ==
  {EntryAt(s, l) : l \in {m \in ToSet(Scanned(s, d)) : EntryAt(s, m).kind \in Live}}

store_entry(s, l, e) == [s EXCEPT !.dir[l.dir][l.index] = e]

\* update_entry_unlocked: the first cluster and the size, whatever the slot holds.
update_entry(s, d) ==
  LET x == s.data[d] IN
  [s EXCEPT !.dir[x.dir][x.index] = [@ EXCEPT !.first = x.first, !.size = x.size]]

\* Mutant of delete_entry: the slot becomes the end of the directory.
delete_entry_end(s, l) == store_entry(s, l, NoEntry("END"))

delete_entry(s, l) == store_entry(s, l, NoEntry("DELETED"))

-----------------------------------------------------------------------------
(* VFS nodes *)

Unused(s, parent) ==
  {n \in IF parent = BIN THEN BinNodes ELSE Nodes : ~s.node[n].used /\ s.data[n] = NoData}

Child(s, parent, name) ==
  LET found == {n \in AllNodes : s.node[n].used /\ s.node[n].parent = parent /\ s.node[n].name = name}
  IN IF found = {} THEN NONE ELSE Min(found)

IsDir(s, n) == n = ROOT \/ (n # NONE /\ s.node[n].kind = "DIR")

\* fat16_split_path: the directory part of a path names a directory of the
\* volume.  /bin has no data, so nothing is created or removed in it.
ParentNode(s, path) ==
  IF Len(path) = 1 THEN ROOT
  ELSE LET p == Child(s, ROOT, path[1]) IN IF IsDir(s, p) THEN p ELSE NONE

vfs_find(s, path) ==
  LET p == IF path \in BinPaths THEN BIN ELSE ParentNode(s, path) IN
  IF p = NONE THEN NONE ELSE Child(s, p, Last(path))

DirOf(s, n) == IF n = ROOT THEN ROOT ELSE s.data[s.node[n].data].first

\* create_node_data: node n stands for the entry at slot l.
SetData(s, n, l) ==
  LET e == EntryAt(s, l) IN
  [s EXCEPT !.data[n] = [first |-> e.first, size |-> e.size, dir |-> l.dir, index |-> l.index]]

\* vfs_create_node and create_node_data: a new node for the entry at slot l.
AddNode(s, parent, l) ==
  LET e == EntryAt(s, l)
      n == Min(Unused(s, parent))
  IN SetData([s EXCEPT !.node[n] = [used |-> TRUE, parent |-> parent, name |-> e.name,
                                    kind |-> e.kind, data |-> n, nlink |-> 1, ref |-> 0]], n, l)

\* kfree of the node and its data.
FreeNodeAndData(s, n) ==
  [s EXCEPT !.data = [@ EXCEPT ![s.node[n].data] = NoData], !.node[n] = FreeNode]

\* The end of vfs_unlink and vfs_rmdir: out of the tree, and freed unless in use.
Detach(s, n) ==
  LET t == [s EXCEPT !.node[n].parent = NONE, !.node[n].nlink = @ - 1] IN
  IF t.node[n].ref = 0 /\ (t.node[n].nlink = 0 \/ t.node[n].kind = "DIR")
  THEN FreeNodeAndData(t, n) ELSE t

\* The second nodes, under /bin, are not counted.
InTree(s, n) == s.node[n].used /\ s.node[n].parent # NONE
TreeNodes(s) == {n \in Nodes : InTree(s, n)}
ChainOf(s, n) == Chain(s.fat, s.data[s.node[n].data].first)

\* What fat16_read returns for the whole file.
Content(s, n) ==
  LET chain == ChainOf(s, n)
      d == s.data[s.node[n].data]
  IN [i \in 1 .. Min({d.size, CLUSTER_SIZE * Len(chain)}) |->
        s.bytes[chain[(i - 1) \div CLUSTER_SIZE + 1]][((i - 1) % CLUSTER_SIZE) + 1]]

\* The tree of names and contents that processes see.
Files(s) ==
  [p \in Paths |->
     LET n == vfs_find(s, p) IN
     IF n = NONE THEN [kind |-> "none", bytes |-> <<>>]
     ELSE IF s.node[n].kind = "DIR" THEN [kind |-> "dir", bytes |-> <<>>]
     ELSE [kind |-> "file", bytes |-> Content(s, n)]]

-----------------------------------------------------------------------------
(* Calls *)

Become(s) == fs' = s /\ view' = IF s.stale THEN view ELSE Files(s)

Step(s) == calls > 0 /\ Become(s) /\ calls' = calls - 1

\* sys_open with O_CREAT of a path that names nothing (fat16_vfs_create_path).
Create(path) ==
  LET p == ParentNode(fs, path) IN
  /\ p # NONE /\ vfs_find(fs, path) = NONE /\ Unused(fs, p) # {}
  /\ Lookup(fs, DirOf(fs, p), Last(path)) = <<>>
  /\ LET free == FreeSlots(fs, DirOf(fs, p)) IN
     /\ free # <<>>
     /\ Step(LET s == AddNode(store_entry(fs, free[1], [NoEntry("FILE") EXCEPT !.name = Last(path)]),
                              p, free[1])
                 n == vfs_find(s, path)
             IN [s EXCEPT !.node[n].ref = 1])

sys_open(path) ==
  LET n == vfs_find(fs, path) IN
  /\ n # NONE /\ fs.node[n].kind = "FILE" /\ fs.node[n].ref = 0
  /\ Become([fs EXCEPT !.node[n].ref = 1])
  /\ UNCHANGED calls

\* The last close: vfs_node_unref frees a node that has left the tree.
sys_close(n) ==
  /\ fs.node[n].ref = 1
  /\ LET s == [fs EXCEPT !.node[n].ref = 0] IN
     Become(IF s.node[n].parent = NONE THEN FreeNodeAndData(s, n) ELSE s)
  /\ UNCHANGED calls

\* A write or truncate through node n, which gives s: a node whose file has
\* been unlinked, and a node under /bin, are used like any other.
Through(n, s) ==
  /\ fs.node[n].ref = 1
  /\ Step([s EXCEPT !.stale = @ \/ fs.node[n].parent \in {NONE, BIN}])

\* Mutant of StoreBytes: the offset within the cluster is lost.
StoreBytesAtStart(s, chain, offset, len, b) ==
  [s EXCEPT !.bytes[chain[offset \div CLUSTER_SIZE + 1]] = [o \in 1 .. CLUSTER_SIZE |-> IF o <= len THEN b ELSE @[o]]]

\* Bytes b at positions offset + 1 .. offset + len of the chain.  Where a
\* cluster has become a directory's they read as entries of no name.
StoreBytes(s, chain, offset, len, b) ==
  LET hit(c, o) == \E k \in 1 .. Len(chain) :
        chain[k] = c /\ (k - 1) * CLUSTER_SIZE + o \in offset + 1 .. offset + len
      dirs == {c \in Clusters : \E o \in 1 .. CLUSTER_SIZE : hit(c, o)}
  IN [s EXCEPT
        !.bytes = [c \in Clusters |-> [o \in 1 .. CLUSTER_SIZE |-> IF hit(c, o) THEN b ELSE @[c][o]]],
        !.dir = [d \in DOMAIN @ |-> IF d \in dirs THEN [i \in 1 .. DIR_ENTRIES |-> NoEntry("DOT")]
                                    ELSE @[d]]]

\* Nothing is written unless the whole chain is there.
write_chain(s, d, offset, len, b) ==
  LET g == GrowChain(s, d, ClustersFor(offset + len)) IN
  IF ~g.ok THEN g.fs
  ELSE update_entry([StoreBytes(g.fs, Chain(g.fs.fat, g.fs.data[d].first), offset, len, b)
                       EXCEPT !.data[d].size = Max({@, offset + len})], d)

fat16_vfs_write(n, offset, len) ==
  Through(n, write_chain(fs, fs.node[n].data, offset, len, fs.node[n].name))

fat16_vfs_truncate(n, len) ==
  LET d == fs.node[n].data
      r == resize_chain(fs, d, ClustersFor(len))
  IN Through(n, IF r.ok THEN update_entry([r.fs EXCEPT !.data[d].size = len], d) ELSE r.fs)

\* fat16_vfs_mkdir_path: the new cluster is given back when the parent is full.
\* A node that is there although its entry is not gets the new data.
Mkdir(path) ==
  LET p == ParentNode(fs, path)
      d == DirOf(fs, p)
      a == allocate_cluster(fs)
      c == a.cluster
      made == [a.fs EXCEPT !.dir[c] = [i \in 1 .. DIR_ENTRIES |-> NoEntry(IF i <= 2 THEN "DOT" ELSE "END")]]
      free == FreeSlots(made, d)
      entry == [NoEntry("DIR") EXCEPT !.name = Last(path), !.first = c]
      n == vfs_find(fs, path)
  IN /\ p # NONE /\ Lookup(fs, d, Last(path)) = <<>> /\ c # 0 /\ Unused(fs, p) # {}
     /\ Step(IF free = <<>> THEN free_chain_from(made, c)
             ELSE LET s == store_entry(made, free[1], entry) IN
                  IF n = NONE THEN AddNode(s, p, free[1]) ELSE SetData(s, n, free[1]))

\* vfs_unlink of a file, vfs_rmdir of an empty directory: the entry is
\* deleted, the chain it records released, and the node detached.
RemoveName(path, kind) ==
  LET p == ParentNode(fs, path)
      found == Lookup(fs, DirOf(fs, p), Last(path))
      e == EntryAt(fs, found[1])
      s == free_chain_from(delete_entry(fs, found[1]), e.first)
  IN /\ p # NONE /\ found # <<>> /\ e.kind = kind
     /\ kind = "DIR" => DirectoryEmpty(fs, e.first)
     /\ Step(Detach(s, vfs_find(s, path)))

\* mount_root_entries and mount_dir_entries_recursive: a node for every entry,
\* and a second one under /bin for a file of the root.
RECURSIVE MountEntries(_, _, _)
MountEntries(s, parent, slots) ==
  IF slots = <<>> \/ Unused(s, parent) = {} THEN s
  ELSE LET l == Head(slots)
           e == EntryAt(s, l)
           t == AddNode(s, parent, l)
           n == Min(Unused(s, parent))
           u == CASE e.kind = "DIR" -> MountEntries(t, n, Scanned(s, e.first))
                  [] parent = ROOT /\ Unused(s, BIN) # {} -> AddNode(t, BIN, l)
                  [] OTHER -> t
       IN MountEntries(IF e.kind \in Live THEN u ELSE s, parent, Tail(slots))

\* Mounting a directory without an END reads the FAT, into the buffer that
\* holds the root's sector.
RECURSIVE ReadsFat(_, _)
ReadsFat(s, d) ==
  \/ Len(Scanned(s, d)) = Len(Slots(s, d))
  \/ \E l \in ToSet(Scanned(s, d)) : EntryAt(s, l).kind = "DIR" /\ ReadsFat(s, EntryAt(s, l).first)

\* The root entries that are mounted: after such a directory the scan goes on
\* in the FAT, here in a part of it that is zero, an END.
RootScanned(s) ==
  LET slots == Scanned(s, ROOT)
      last == {k \in 1 .. Len(slots) :
                 LET e == EntryAt(s, slots[k]) IN e.kind = "DIR" /\ ReadsFat(s, e.first)}
  IN IF last = {} THEN slots ELSE SubSeq(slots, 1, Min(last))

Mounted(s) ==
  MountEntries([s EXCEPT !.node = [n \in AllNodes |-> FreeNode],
                         !.data = [n \in AllNodes |-> NoData]], ROOT, RootScanned(s))

\* fat16_mount of one of the volumes.
Init == \E v \in Volumes : fs = Mounted(v) /\ view = Files(fs) /\ calls = MaxCalls

\* Names of the root that the scan does not reach.
RootLost(s) ==
  {l \in ToSet(Scanned(s, ROOT)) \ ToSet(RootScanned(s)) : EntryAt(s, l).kind \in Live}

\* sync, restart, fat16_mount: the nodes are made again from the volume.  A
\* restart that would lose names, or that finds what writes through stale nodes
\* have left, is not followed.
Restart == ~fs.stale /\ RootLost(fs) = {} /\ Become(Mounted(fs)) /\ UNCHANGED calls

Next ==
  \/ \E path \in Paths : Create(path) \/ Mkdir(path)
                         \/ RemoveName(path, "FILE") \/ RemoveName(path, "DIR")
  \/ \E path \in Paths \cup BinPaths : sys_open(path)
  \/ \E n \in AllNodes :
       \/ sys_close(n)
       \/ \E w \in Writes : fat16_vfs_write(n, w[1], w[2])
       \/ \E len \in Lengths : fat16_vfs_truncate(n, len)
  \/ Restart

Spec == Init /\ [][Next]_vars

-----------------------------------------------------------------------------
(* Properties *)

Store == INSTANCE FileStore WITH files <- view

\* Slots and nodes are well formed.
TypeOK ==
  /\ fs.fat \in [Clusters -> Clusters \cup {FREE, EOF}]
  /\ \A n \in AllNodes : fs.node[n].parent \in Nodes \cup {ROOT, BIN, NONE} /\ fs.node[n].ref \in 0 .. 1
  /\ \A n \in AllNodes : fs.data[n].size \in 0 .. MaxLen /\ fs.data[n].first \in Clusters \cup {0}

\* The driver implements the file store: a read returns the bytes last
\* written, whatever was created, grown, cut, removed and reused meanwhile,
\* and a restart changes nothing.  This holds up to the first write or truncate
\* through the descriptor of an unlinked file or through /bin (fs.stale), which
\* fat16_vfs_write and fat16_vfs_truncate let through: view stops there.
ImplementsFileStore == Store!FileStoreSpec

\* No chain of the FAT runs in a circle, whatever is written, truncated and
\* removed through stale nodes: the loops of read_chain, write_chain and
\* mount_dir_entries_recursive, which have no other bound, come to an end.
\* Until a file is written through a stale node (fs.stale), whose clusters may
\* be another file's, the chains of different files and directories also share
\* no cluster, end in EOF, and are long enough for the recorded size.
ChainsDisjoint ==
  /\ TypeOK
  /\ \A c \in Clusters : fs.fat[Last(Chain(fs.fat, c))] \notin Clusters
  /\ fs.stale \/ \A n \in TreeNodes(fs) :
       LET chain == ChainOf(fs, n) IN
       /\ chain # <<>> => fs.fat[Last(chain)] = EOF
       /\ fs.data[fs.node[n].data].size <= CLUSTER_SIZE * Len(chain)
       /\ \A m \in TreeNodes(fs) \ {n} : ToSet(chain) \cap ToSet(ChainOf(fs, m)) = {}

\* The tree in memory is the tree a restart would build from the volume,
\* unless the mount misreads the root after a directory that is full.  A
\* listing, which reads the volume, shows the names that open finds, with the
\* kind and the size that stat takes from the node.  Of what is left after a
\* write through a stale node (fs.stale) nothing is said.
TreeIsOnDisk == fs.stale \/
  /\ RootLost(fs) # {} \/ Files(Mounted(fs)) = view
  /\ \A p \in {ROOT} \cup {n \in TreeNodes(fs) : IsDir(fs, n)} :
       {[kind |-> e.kind, name |-> e.name, size |-> e.size] : e \in fat16_readdir(fs, DirOf(fs, p))} =
       {[kind |-> fs.node[n].kind, name |-> fs.node[n].name, size |-> fs.data[fs.node[n].data].size] :
          n \in {m \in TreeNodes(fs) : fs.node[m].parent = p}}

\* Clusters in use that no name leads to, and clusters whose file does not
\* record them: its entry was not written because the volume filled up.
Lost(s) == {c \in Clusters : s.fat[c] # FREE} \ UNION {ToSet(ChainOf(s, n)) : n \in TreeNodes(s)}
Unrecorded(s) ==
  UNION {ToSet(ChainOf(s, n)) : n \in {m \in TreeNodes(s) :
    LET d == s.data[s.node[m].data] IN s.dir[d.dir][d.index].first # d.first}}

\* A cluster is lost only with a file that never recorded it: every other
\* removal and truncation gives all its clusters back, until a file is written
\* through a stale node (fs.stale): an unlinked file that grows keeps what it
\* takes for ever.
OnlyUnrecordedIsLost ==
  [][fs'.stale \/ Lost(fs') \subseteq Lost(fs) \cup Unrecorded(fs)]_vars
=============================================================================
