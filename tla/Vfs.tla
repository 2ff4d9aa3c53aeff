--------------------------------- MODULE Vfs ---------------------------------
(***************************************************************************)
(* The name space of the VFS (src/kernel/vfs.c) and the calls that use it: *)
(* path resolution, the node tree, hard and symbolic links, mounts, the    *)
(* life of a node under open descriptions, and advisory locks.             *)
(*                                                                         *)
(* No FAT16 volume is mounted (a machine without a disk), so directories   *)
(* and removals take the in-memory branch of vfs_mkdir, vfs_rmdir and      *)
(* vfs_unlink, and sys_open creates nothing; module Fat16 has the other    *)
(* branch.  Every task has uid 0, which passes vfs_check_permission.  The  *)
(* calls run with IF clear and do not yield: each is one step.             *)
(***************************************************************************)
EXTENDS SequencesExt, FiniteSetsExt, Integers

CONSTANTS
  Names,           \* names of directory entries
  MaxNodes,        \* vfs_node_t objects in use at a time
  MaxDescs,        \* file_description_t objects in use at a time
  Procs,           \* pids
  TASK_MAX_FDS,    \* descriptors of a task, after the standard ones
  MAX_COMPONENTS,  \* components vfs_build_path keeps (32)
  RawPaths,        \* the paths that processes pass, with "." and ".."
  Trees,           \* the trees to start from
  MaxCalls         \* bound on the calls

VARIABLES
  node,      \* the nodes
  mounts,    \* vfs_mount_list
  desc,      \* the open file descriptions
  fds,       \* task_t.file_descriptors
  cwd,       \* task_t.cwd, a canonical path
  task,      \* UNBORN, ALIVE or GONE; a pid is not used again
  exclusive, \* <<p, n>>: p was granted LOCK_EX on n and has not given it up
  calls      \* calls left

vars == <<node, mounts, desc, fds, cwd, task, exclusive, calls>>

NONE == 0
ROOT == 1
NodeIds == 1 .. MaxNodes
DescIds == 1 .. MaxDescs
Fds == 1 .. TASK_MAX_FDS

ASSUME VfsAssumption ==
  /\ MaxNodes \in Nat \ {0} /\ MaxDescs \in Nat /\ TASK_MAX_FDS \in Nat
  /\ MAX_COMPONENTS \in Nat
  /\ {".", ".."} \cap Names = {}

Unlocked == [type |-> "NONE", count |-> 0, owner |-> NONE]

\* kfree fills a node with HEAP_POISON_BYTE: it has no valid type until
\* kmalloc hands the memory out again.
FreeNode == [type |-> "FREED", name |-> ".", parent |-> NONE, child |-> <<>>, ref |-> 0,
             nlink |-> 0, lock |-> Unlocked, mounted |-> NONE]
FreeDesc == [node |-> NONE, ref |-> 0]

NewNode(parent, name, type) ==
  [FreeNode EXCEPT !.type = type, !.name = name, !.parent = parent, !.nlink = 1]

-----------------------------------------------------------------------------
(* Paths *)

\* Mutant: ".." just below the root does not go up.
BuildStepStays(out, c) ==
  CASE c = "." -> out
    [] c = ".." -> IF Len(out) < 2 THEN out ELSE Front(out)
    [] OTHER -> IF Len(out) < MAX_COMPONENTS THEN Append(out, c) ELSE out

\* One component of a path: "." is dropped and ".." drops the one before.
BuildStep(out, c) ==
  CASE c = "." -> out
    [] c = ".." -> IF out = <<>> THEN out ELSE Front(out)
    [] OTHER -> IF Len(out) < MAX_COMPONENTS THEN Append(out, c) ELSE out

\* resolve_user_path and vfs_build_path: the canonical path of raw, which is
\* [abs |-> starts with "/", comps |-> its components].
vfs_build_path(base, raw) ==
  FoldLeft(BuildStep, <<>>, (IF raw.abs THEN <<>> ELSE base) \o raw.comps)

\* The first child with that name; a mount point stands for its volume.
find_child(t, parent, name) ==
  LET same(n) == t[n].name = name
      hits == SelectSeq(t[parent].child, same)
  IN IF hits = <<>> THEN NONE
     ELSE IF t[Head(hits)].mounted # NONE THEN t[Head(hits)].mounted ELSE Head(hits)

vfs_find_relative(t, base, comps) ==
  LET step(n, c) ==
        IF n = NONE \/ t[n].type # "DIRECTORY" THEN NONE
        ELSE CASE c = "." -> n
               [] c = ".." -> IF t[n].parent = NONE THEN n ELSE t[n].parent
               [] OTHER -> find_child(t, n, c)
  IN FoldLeft(step, base, comps)

vfs_find(t, path) == vfs_find_relative(t, ROOT, path)

\* The directory a new name goes into; NONE if there is none.
ParentOf(t, path) ==
  LET n == vfs_find(t, Front(path)) IN
  IF n # NONE /\ t[n].type = "DIRECTORY" THEN n ELSE NONE

-----------------------------------------------------------------------------
(* Nodes *)

FreeIds(t) == {n \in NodeIds : t[n].type = "FREED"}

\* vfs_create_node: node n becomes the first child of parent.
vfs_create_node(t, n, parent, name, type) ==
  LET made == [t EXCEPT ![n] = NewNode(parent, name, type)] IN
  IF parent = NONE THEN made
  ELSE [made EXCEPT ![parent].child = <<n>> \o @]

kfree(t, n) == [t EXCEPT ![n] = FreeNode]

\* Takes a node out of its parent's list.
Detach(t, n) ==
  LET p == t[n].parent
      other(m) == m # n
  IN IF p = NONE THEN t
     ELSE [t EXCEPT ![p].child = SelectSeq(@, other), ![n].parent = NONE]

\* Mutant: the last reference frees the node wherever it is.
vfs_node_unref_frees(t, n) ==
  IF t[n].ref = 1 /\ n # ROOT THEN kfree(t, n) ELSE [t EXCEPT ![n].ref = @ - 1]

\* The last reference frees a node that is in no directory.
vfs_node_unref(t, n) ==
  LET less == [t EXCEPT ![n].ref = IF @ > 0 THEN @ - 1 ELSE 0] IN
  IF less[n].ref = 0 /\ t[n].parent = NONE /\ n # ROOT THEN kfree(less, n) ELSE less

vfs_unlink(t, n) ==
  LET less == [t EXCEPT ![n].nlink = IF @ > 0 THEN @ - 1 ELSE 0]
      gone == Detach(less, n)
  IN IF gone[n].ref = 0 /\ gone[n].nlink = 0 THEN kfree(gone, n) ELSE gone

vfs_rmdir(t, n) ==
  LET gone == Detach(t, n) IN IF gone[n].ref = 0 THEN kfree(gone, n) ELSE gone

-----------------------------------------------------------------------------
(* Locks *)

\* Mutant: the owner is not compared.
LockRefusedShared(l, op, p) == l.type = "SH" /\ op = "EX" /\ l.count > 1

\* vfs_flock refuses any lock beside another process's exclusive one, and an
\* exclusive one beside shared locks, unless there is one only and the owner
\* field names p.  A shared lock leaves that field as it was, so the one lock
\* may be another process's.
LockRefused(l, op, p) ==
  \/ l.type = "EX" /\ l.owner # p
  \/ op = "EX" /\ l.type = "SH" /\ (l.count > 1 \/ (l.count = 1 /\ l.owner # p))

Fewer(l) ==
  [l EXCEPT !.count = IF @ > 0 THEN @ - 1 ELSE 0, !.type = IF l.count <= 1 THEN "NONE" ELSE @]

\* LOCK_UN.
Unlock(l, p) ==
  CASE l.type = "EX" /\ l.owner \in {p, NONE} -> Unlocked
    [] l.type = "SH" -> Fewer(l)
    [] OTHER -> l

\* LOCK_SH keeps the owner field of the lock it replaces.
Lock(l, op, p) ==
  IF op = "SH" THEN [l EXCEPT !.type = "SH", !.count = @ + 1]
  ELSE [type |-> "EX", count |-> 1, owner |-> p]

vfs_node_unlock_by_pid(l, p) ==
  CASE l.type = "EX" /\ l.owner = p -> Unlocked
    [] l.type = "SH" -> Fewer(l)
    [] OTHER -> l

-----------------------------------------------------------------------------
(* Descriptions and descriptors *)

\* The tables the calls change, as one value.
Tables == [node |-> node, desc |-> desc, fds |-> fds]
Become(k) == node' = k.node /\ desc' = k.desc /\ fds' = k.fds

file_description_alloc(k, d, n) ==
  [k EXCEPT !.desc[d] = [node |-> n, ref |-> 1], !.node[n].ref = @ + 1]

file_description_unref(k, d) ==
  IF k.desc[d].ref > 1 THEN [k EXCEPT !.desc[d].ref = @ - 1]
  ELSE [k EXCEPT !.desc[d] = FreeDesc, !.node = vfs_node_unref(@, k.desc[d].node)]

\* The lowest descriptor not below low, NONE if there is none.
FreeFd(k, p, low) ==
  LET free == {f \in Fds : f >= low /\ k.fds[p][f] = NONE} IN
  IF free = {} THEN NONE ELSE Min(free)

\* sys_close: the locks of p on the node go, then the descriptor.
CloseFd(k, p, f) ==
  LET d == k.fds[p][f] IN
  file_description_unref(
    [k EXCEPT !.fds[p][f] = NONE,
              !.node[k.desc[d].node].lock = vfs_node_unlock_by_pid(@, p)], d)

\* Mutant of Share: the new descriptor is not counted.
ShareUncounted(k, p, f, q, g) == [k EXCEPT !.fds[q][g] = k.fds[p][f]]

\* Descriptor g of q becomes a copy of descriptor f of p.
Share(k, p, f, q, g) ==
  [k EXCEPT !.fds[q][g] = k.fds[p][f], !.desc[k.fds[p][f]].ref = @ + 1]

-----------------------------------------------------------------------------
(* The calls.  A call that finds a freed node sees a type that is neither   *)
(* FILE nor DIRECTORY and is refused; sys_link and sys_unlink would go on   *)
(* with the freed memory, which is not followed further.                   *)

Call(p) == task[p] = "ALIVE" /\ calls > 0 /\ calls' = calls - 1

\* The node p means by raw, and the canonical path.
Path(p, raw) == vfs_build_path(cwd[p], raw)
Found(p, raw) == vfs_find(node, Path(p, raw))

NoNames == UNCHANGED <<mounts, cwd, task>>
OnlyTree == UNCHANGED <<desc, fds, cwd, task, exclusive>>

\* What p gives up when it closes descriptor f.
GivenUp(p, f) == {<<p, desc[fds[p][f]].node>>}

\* A description is made before a descriptor is looked for, and dropped
\* again when there is none.
sys_open(p, raw) ==
  \E d \in DescIds :
    LET n == Found(p, raw)
        opened == file_description_alloc(Tables, d, n)
        f == FreeFd(Tables, p, 1)
    IN /\ Call(p) /\ NoNames /\ UNCHANGED exclusive
       /\ n # NONE /\ node[n].type \in {"FILE", "DIRECTORY"}
       /\ desc[d].ref = 0 /\ \A e \in 1 .. (d - 1) : desc[e].ref > 0
       /\ Become(IF f = NONE THEN file_description_unref(opened, d)
                 ELSE [opened EXCEPT !.fds[p][f] = d])

sys_close(p, f) ==
  /\ Call(p) /\ NoNames
  /\ fds[p][f] # NONE
  /\ Become(CloseFd(Tables, p, f))
  /\ exclusive' = exclusive \ GivenUp(p, f)

\* sys_dup, and sys_fcntl with F_DUPFD.
sys_dup(p, f, low) ==
  /\ Call(p) /\ NoNames /\ UNCHANGED exclusive
  /\ fds[p][f] # NONE /\ FreeFd(Tables, p, low) # NONE
  /\ Become(Share(Tables, p, f, p, FreeFd(Tables, p, low)))

sys_dup2(p, f, g) ==
  /\ Call(p) /\ NoNames
  /\ fds[p][f] # NONE /\ f # g
  /\ IF fds[p][g] = NONE
     THEN Become(Share(Tables, p, f, p, g)) /\ UNCHANGED exclusive
     ELSE /\ Become(Share(CloseFd(Tables, p, g), p, f, p, g))
          /\ exclusive' = exclusive \ GivenUp(p, g)

sys_flock(p, f, op) ==
  LET n == desc[fds[p][f]].node
      l == node[n].lock
  IN /\ Call(p) /\ fds[p][f] # NONE
     /\ UNCHANGED <<mounts, desc, fds, cwd, task>>
     /\ \/ /\ op = "UN"
           /\ node' = [node EXCEPT ![n].lock = Unlock(l, p)]
           /\ exclusive' = exclusive \ {<<p, n>>}
        \/ /\ op \in {"SH", "EX"} /\ ~LockRefused(l, op, p)
           /\ node' = [node EXCEPT ![n].lock = Lock(l, op, p)]
           /\ exclusive' = IF op = "EX" THEN exclusive \cup {<<p, n>>}
                           ELSE exclusive \ {<<p, n>>}

\* A new node for the name at path, under its parent; path is not the root's.
Create(path, type) ==
  vfs_create_node(node, Min(FreeIds(node)), ParentOf(node, path), Last(path), type)

CanCreate(path) == path # <<>> /\ ParentOf(node, path) # NONE /\ FreeIds(node) # {}

sys_mkdir(p, raw) ==
  LET path == Path(p, raw) IN
  /\ Call(p) /\ OnlyTree /\ UNCHANGED mounts
  /\ CanCreate(path) /\ find_child(node, ParentOf(node, path), Last(path)) = NONE
  /\ node' = Create(path, "DIRECTORY")

\* vfs_symlink and vfs_link do not look for an entry of the same name: the
\* new one comes first.  The text of the target is not kept.
sys_symlink(p, raw) ==
  LET path == Path(p, raw) IN
  /\ Call(p) /\ OnlyTree /\ UNCHANGED mounts
  /\ CanCreate(path)
  /\ node' = Create(path, "SYMLINK")

sys_link(p, raw, new) ==
  LET n == Found(p, raw)
      path == Path(p, new)
      links == node[n].nlink + 1
  IN /\ Call(p) /\ OnlyTree /\ UNCHANGED mounts
     /\ n # NONE /\ node[n].type \notin {"DIRECTORY", "FREED"} /\ CanCreate(path)
     /\ node' = [Create(path, node[n].type)
                   EXCEPT ![n].nlink = links, ![Min(FreeIds(node))].nlink = links]

sys_unlink(p, raw) ==
  LET n == Found(p, raw) IN
  /\ Call(p) /\ OnlyTree /\ UNCHANGED mounts
  /\ n # NONE /\ node[n].type \notin {"DIRECTORY", "FREED"}
  /\ node' = vfs_unlink(node, n)

sys_rmdir(p, raw) ==
  LET n == Found(p, raw) IN
  /\ Call(p) /\ OnlyTree /\ UNCHANGED mounts
  /\ n \notin {NONE, ROOT} /\ node[n].type = "DIRECTORY" /\ node[n].child = <<>>
  /\ node' = vfs_rmdir(node, n)

\* A volume with an empty root; the path is taken as it stands.
vfs_mount(p, path) ==
  LET n == vfs_find(node, path)
      r == Min(FreeIds(node))
  IN /\ Call(p) /\ OnlyTree
     /\ n # NONE /\ node[n].type = "DIRECTORY" /\ FreeIds(node) # {}
     /\ node' = [vfs_create_node(node, r, NONE, node[n].name, "DIRECTORY")
                   EXCEPT ![n].mounted = r]
     /\ mounts' = <<[point |-> path, root |-> r, over |-> n]>> \o mounts

\* The newest mount with that path; its root is left allocated.
vfs_umount(p, path) ==
  \E i \in 1 .. Len(mounts) :
    /\ Call(p) /\ OnlyTree
    /\ mounts[i].point = path /\ \A j \in 1 .. (i - 1) : mounts[j].point # path
    /\ node' = [node EXCEPT ![mounts[i].over].mounted = NONE]
    /\ mounts' = RemoveAt(mounts, i)

sys_chdir(p, raw) ==
  LET n == Found(p, raw) IN
  /\ Call(p) /\ UNCHANGED <<node, mounts, desc, fds, task, exclusive>>
  /\ n # NONE /\ node[n].type = "DIRECTORY"
  /\ cwd' = [cwd EXCEPT ![p] = Path(p, raw)]

\* The child shares every open description.
sys_fork(p, q) ==
  LET inherit(k, f) == IF fds[p][f] = NONE THEN k ELSE Share(k, p, f, q, f) IN
  /\ Call(p) /\ task[q] = "UNBORN"
  /\ Become(FoldLeft(inherit, Tables, [f \in Fds |-> f]))
  /\ cwd' = [cwd EXCEPT ![q] = cwd[p]]
  /\ task' = [task EXCEPT ![q] = "ALIVE"]
  /\ UNCHANGED <<mounts, exclusive>>

\* task_close_all_fds of a process that ends.
sys_exit(p) ==
  LET close(k, f) == IF k.fds[p][f] = NONE THEN k ELSE CloseFd(k, p, f) IN
  /\ Call(p)
  /\ Become(FoldLeft(close, Tables, [f \in Fds |-> f]))
  /\ exclusive' = {e \in exclusive : e[1] # p}
  /\ task' = [task EXCEPT ![p] = "GONE"]
  /\ UNCHANGED <<mounts, cwd>>

-----------------------------------------------------------------------------

Init ==
  /\ node \in Trees
  /\ mounts = <<>>
  /\ desc = [d \in DescIds |-> FreeDesc]
  /\ fds = [p \in Procs |-> [f \in Fds |-> NONE]]
  /\ cwd = [p \in Procs |-> <<>>]
  /\ task \in {s \in [Procs -> {"ALIVE", "UNBORN"}] : s[Min(Procs)] = "ALIVE"}
  /\ exclusive = {}
  /\ calls = MaxCalls

AbsolutePaths == {r.comps : r \in {q \in RawPaths : q.abs}}

Next ==
  \E p \in Procs :
    \/ \E raw \in RawPaths : sys_open(p, raw)
    \/ \E f \in Fds : sys_close(p, f)
    \/ \E f, low \in Fds : sys_dup(p, f, low)
    \/ \E f, g \in Fds : sys_dup2(p, f, g)
    \/ \E f \in Fds, op \in {"SH", "EX", "UN"} : sys_flock(p, f, op)
    \/ \E raw \in RawPaths : sys_mkdir(p, raw)
    \/ \E raw \in RawPaths : sys_symlink(p, raw)
    \/ \E raw, new \in RawPaths : sys_link(p, raw, new)
    \/ \E raw \in RawPaths : sys_unlink(p, raw)
    \/ \E raw \in RawPaths : sys_rmdir(p, raw)
    \/ \E path \in AbsolutePaths : vfs_mount(p, path)
    \/ \E path \in AbsolutePaths : vfs_umount(p, path)
    \/ \E raw \in RawPaths : sys_chdir(p, raw)
    \/ \E q \in Procs : sys_fork(p, q)
    \/ sys_exit(p)

Spec == Init /\ [][Next]_vars

-----------------------------------------------------------------------------
(* Properties *)

Locks == [type : {"NONE", "SH", "EX"}, count : Nat, owner : Procs \cup {NONE}]

\* Every table keeps its shape; a description without references has no node
\* (file_description_unref).
TypeOK ==
  /\ \A n \in NodeIds :
       /\ node[n].type \in {"FREED", "FILE", "DIRECTORY", "SYMLINK"}
       /\ node[n].parent \in NodeIds \cup {NONE} /\ node[n].mounted \in NodeIds \cup {NONE}
       /\ node[n].child \in Seq(NodeIds) /\ node[n].lock \in Locks
       /\ node[n].ref \in Nat /\ node[n].nlink \in Nat
  /\ \A d \in DescIds : desc[d].ref \in Nat /\ (desc[d].ref = 0 <=> desc[d].node = NONE)
  /\ fds \in [Procs -> [Fds -> DescIds \cup {NONE}]]
  /\ cwd \in [Procs -> Seq(Names)]
  /\ exclusive \subseteq Procs \X NodeIds

\* The counters are exact: a description is counted once per descriptor of
\* any process (dup, dup2, fork, close, exit) and a node once per
\* description.  So a node that is open anywhere is never freed by unlink,
\* rmdir or another process's close.
RefsCountOpens ==
  /\ \A d \in DescIds :
       desc[d].ref = Cardinality({<<p, f>> \in Procs \X Fds : fds[p][f] = d})
  /\ \A n \in NodeIds :
       node[n].ref = Cardinality({d \in DescIds : desc[d].node = n})

\* The entries of a directory are live nodes that name it as their parent,
\* each once: no unlink, rmdir or last close frees a node that is still in a
\* directory's list.  A volume found at a mount point is one that the mount
\* table lists there, so umount can always take it off.  Excepted is the root
\* node of a mounted volume: it is in no list, so its last close
\* (vfs_node_unref) or an rmdir of the mount point frees it, and find_child
\* returns it all the same.
EntriesLive ==
  TypeOK /\ \A n \in NodeIds : LET c == node[n].child IN
    /\ \A i \in 1 .. Len(c) : node[c[i]].type # "FREED" /\ node[c[i]].parent = n
    /\ IsInjective(c)
    /\ node[n].mounted = NONE \/ \E i \in 1 .. Len(mounts) :
         mounts[i].over = n /\ mounts[i].root = node[n].mounted

\* A process that was granted LOCK_EX and has not given it up is the one the
\* node names as the owner: no second process gets LOCK_EX meanwhile, and no
\* close or exit of another process takes it away (vfs_flock,
\* vfs_node_unlock_by_pid).  The owner still has the node open: close, dup2 and
\* exit leave no exclusive lock behind.
ExclusiveIsExclusive ==
  /\ \A e \in exclusive : node[e[2]].lock.type = "EX" /\ node[e[2]].lock.owner = e[1]
  /\ \A n \in NodeIds : node[n].lock.type = "EX" =>
       \E f \in Fds : LET d == fds[node[n].lock.owner][f] IN d # NONE /\ desc[d].node = n

\* Two algorithms resolve a relative path: vfs_build_path drops ".." by the
\* text and vfs_find_relative climbs to the parent.  Where the second finds a
\* node and no volume is mounted, the first finds the same one.
ResolveAgrees ==
  \A p \in Procs, raw \in RawPaths :
    LET base == IF raw.abs THEN ROOT ELSE vfs_find(node, cwd[p])
        n == vfs_find_relative(node, base, raw.comps)
    IN mounts = <<>> /\ n # NONE => Found(p, raw) = n
=============================================================================
