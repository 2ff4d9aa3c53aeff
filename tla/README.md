# PhotonOS in TLA+

TLA+ models of the parts of the PhotonOS kernel whose correctness depends on
the order in which things happen: processes that exit while others wait, tasks
preempted inside a lock, descriptors and pages shared through `fork`, a cache in
front of a disk that fails, file tables that must agree with the volume,
connections over a network that loses and reorders. TLC checks the models on
small instances, and TLAPS proves the central safety properties for every value
of the constants. Source paths below are relative to the repository root.

## 1. The system

PhotonOS is a 64-bit hobby kernel. For the models these facts matter most:

- **One processor runs tasks.** The application processors stop in `ap_kmain`
  (`src/kernel/smp.c`); `current_task` is one global.
- **System calls run with interrupts off.** `SYSCALL` clears IF, so a call is
  one atomic step up to the point where it yields (`int 0x20`) or waits in
  `mutex_lock_preemptible`. Kernel threads run with interrupts on and can be
  preempted between any two instructions.
- **Sleeping does not yield.** `scheduler_sleep_current` changes the state of
  the task and returns; the task runs on until it yields or the timer ticks.

| Part | Source | Model |
| --- | --- | --- |
| Process table, signals, round robin | `src/kernel/scheduler.c`, calls in `src/kernel/kernel.c` | `Scheduler` |
| Sleeping mutex | `src/kernel/mutex.c` | `Mutex`, promise in `Lock` |
| Pipes, descriptions, descriptors | `src/kernel/kernel.c` | `Pipes`, promise in `Fifo` |
| Block cache | `src/kernel/bcache.c` | `Bcache`, promise in `BlockStore` |
| Frames, address spaces, copy on write, `brk`, exec | `src/kernel/memory.c`, `vmm.c`, `elf.c`, calls in `scheduler.c`, `kernel.c` | `Memory` |
| Node tree, paths, links, mounts, advisory locks | `src/kernel/vfs.c`, calls in `kernel.c` | `Vfs` |
| FAT16 | `src/drivers/fat16.c` | `Fat16`, promise in `FileStore` |
| TCP connection | `src/kernel/tcp.c` | `TcpPcb`, `Tcp` |
| Socket table, listeners, datagrams, network thread | `src/kernel/net.c`, `tcp.c` | `Sockets` |
| Kernel heap, ext2, TLB shootdown, network card, ARP | `heap.c`, `ext2.c`, `smp.c`, `e1000.c`, `net.c` | not modelled |
| Boot, PCI, serial, video, mouse, initrd, user programs | | not modelled |

The parts meet in these places. The scheduler's wait reasons are the pipes',
sockets' and mutexes' sleep channels. Termination closes descriptors, which
closes pipe ends, which wakes sleepers. The file systems reach the disk through
the cache (only `fat16_write_file`, which nothing calls, goes around it). A fork
shares descriptions, nodes, sockets and frames at once. `Fat16` is the branch of
the VFS calls that reaches a volume and `Vfs` the branch that does not; `Sockets`
hands an established connection over to `Tcp`. `PROJECT.json` lists every part with its status, every definition with the lines
it models, and the hazards.

## 2. Modules

### Scheduler

State: `tasks` (the table, reduced to the fields the properties distinguish),
`task_count`, `next_pid`, `current`, `foreground_pid`, and the two loop
variables `attempts` and `index` of `scheduler_tick`. Helpers of `scheduler.c`
are functions from a table to a table, so that an action such as `sys_kill` is
the whole handler with all it calls: signal, termination, reparenting, waking
the parent, SIGCHLD. A task that yields inside a call keeps `call` and
`call_pid`; `ResumeWait` and `ResumeYield` continue it. The tick's loop is more
than one step because delivering a signal may end the candidate and the search
goes on. A register frame, an address space and arguments are left out; a
successful or failing outcome of loading a program is a choice.

### Mutex and Lock

One `mutex_t`, one action per instruction that touches shared memory. Callers
are kernel threads (`Threads`, interrupts always on), calls through
`mutex_lock_preemptible` (`Preemptible`, interrupts on while waiting) and calls
through `mutex_lock` (`Plain`, interrupts off). The queue is the linked list of
the code, with `mutex_wait_next` in the tasks, because its races are the point.
Tasks can be signalled, killed wherever they are, reaped, and their slot given
to a new task, which clears the link. `Lock` is the promise: a free lock goes to
one task, `pid_owner` is blank outside the critical section, only the holder
gives the lock back, and the lock of a task that died is never granted again.

### Pipes and Fifo

Descriptor tables, counted file descriptions, ring buffers with their
positions, and the sleepers of both ends. `fork`, `sys_dup`, `sys_dup2`,
`sys_close`, `terminate` (exit and kill), signals and the tick are actions. A
helper's effect on the tables is a value, so closing a descriptor includes
freeing the description, closing the end and waking the other side. `hung`
records that the handler spins on `task_table_lock`, which it already holds.
`Fifo` is a bounded queue in which a read returns what it removes.

### Bcache and BlockStore

Entries with LBA, data, valid and dirty; the disk; and the order of
`last_access` as the relation `older` (the 64-bit counter does not wrap). A disk
read may fail. A disk write may fail at most `MaxFaults` times and then leaves
the old or the new sector. `bcache_init` is a power cut followed by a boot. A
cut inside an operation leaves the disk as a failing write followed by a cut
does. Calls for several sectors are sequences of these operations.
`bcache_invalidate` has no caller and is left out. `BlockStore` says that reads
return the last written data and that successful writes survive a power cut. The
cache keeps that promise until the disk refuses a second write: then
`bcache_write_sector` may drop a dirty victim.

### Memory

Frames with the bitmap and the counts of `memory.c`; for every task its state,
its inventory `user_physical_pages`, `heap_end` and its address space, in which a
page table stands for the three levels on the way to the pages of one region.
A frame holds a few words, so that a copy is seen to be one. `sys_spawn`,
`sys_execve`, `scheduler_fork_current`, `exit`, `waitpid`, `sys_brk`, stores that
may fault and the delivery of a signal (the kernel writes the user stack) are
actions. Frames run out at any allocation inside a call, and what the call then
leaves behind stays.

### Vfs

The node tree with the order of a directory's children, reference and link
counts, mounted roots, descriptions and descriptors, working directories and
advisory locks. `exclusive` is a history variable: who was granted LOCK_EX and has
not given it up. The calls resolve paths as the code does: `vfs_build_path`
normalises the text, `vfs_find` walks from the root through mounts, and
`vfs_find_relative` climbs by parent pointers. No volume is mounted by the disk
driver, and every task has uid 0.

### Fat16 and FileStore

The allocation table, the directory slots (free, deleted, end marker, entries)
and the bytes of the volume; the nodes that cache an entry's first cluster, size
and place. Creating, writing, truncating, removing, listing and remounting are
whole calls under `fat16_mutex`. Full volumes and directories stop a call half
way. A restart mounts the volume again, and makes a second node in `/bin` for
every file of the root. A write or truncate does not ask whether its node still is
in the tree: through the descriptor of an unlinked file, or through a `/bin` node
that the other node of the file has overtaken, it reaches clusters and directory
slots that may be another file's. The model makes these steps and marks the state
(`fs.stale`); what the properties say of files ends there. `FileStore` is a tree of names with the
bytes last written to each position; it leaves open what lies between the old end
of a file and a write beyond it, where the driver shows zeros or old bytes.

### TcpPcb and Tcp

`TcpPcb` has the operations of `tcp.c` on one control block, as functions from a
block and a segment to the block and the segments sent: input in each state,
acknowledgement and congestion window, fast retransmit, the drain of the unsent
queue with its slices, timers, shutdown and close. Sequence numbers are modulo
`SeqSpace` with the signed comparison of the code, and start close to the wrap.
`Tcp` connects two hosts by a bag of segments that loses and duplicates within a
budget and reorders freely. In each host a process calls, sleeps and is woken,
and the network thread drains segment by segment with the lock released between
them. A system call that waits for ARP handles segments itself, whatever
the thread is doing; `polled` records that one came while the thread was draining. A
connect past its deadline takes the lock it holds and spins (`stuck`): its host
does nothing any more. Deadlines are armed or not, and an armed one may be due at any tick.

### Sockets

The socket slots and their descriptors, the PCB list in its order, listeners
with backlog and accept queue, ephemeral ports, datagram and raw rings. The
network thread's handling of a frame is cut where it holds no lock (lookup, parent
check, registration, notification), and calls run in between. A call that waits
for ARP runs `net_poll_packets` itself over the same static frame; `overwritten`
records the datagrams this can spoil, and `dangling` that a queued child was freed
by a reset, where the model stops. A process in `sys_recv` holds a reference of its
own to the description; killed there, it never gives it up, and `leaked` has the
slots that are lost in this way. The data of a connection is left to `Tcp`: here a
`recv` finds some or sleeps.

## 3. Runs

Passing runs:

| Run | Question | Bounds |
| --- | --- | --- |
| `scheduler` | Are PIDs unique, parents alive, waiters woken, zombies kept? Does every ready task run, does every satisfied wait return? | 3 slots, PIDs up to 5, so that slots are reused and PIDs wrap; SIGKILL, both wait calls |
| `scheduler_signals` | Do kill, stop, continue, masks and handlers interact as intended? | 3 slots, five signals |
| `mutex` | Exclusion, owner, no null link, refinement of `Lock`; is a held lock given back? | one caller of each kind, signals and kills |
| `pipes` | Are counts exact, does the buffer live with its ends, can a sleeper miss its event, refinement of `Fifo` | 3 tasks, 2 descriptors each, a pipe of 2 bytes, two byte values, failing allocations |
| `bcache` | No sector twice, clean entries equal the disk, refinement of `BlockStore` | 3 entries, 4 sectors, two values, 2 failing writes |
| `memory_cow` | Is every mapped frame held, is memory private after fork, does fork copy? | 2 tasks, 6 or 9 frames, 2 page tables per space, 5 calls |
| `vfs` | Are node and description counts exact, entries live, mounts listed, locks exclusive and released, do both path resolutions agree? | 5 nodes, 3 descriptions, 2 processes with 2 descriptors, 5 calls |
| `fat16_files` | Chains without circles; up to a write through a stale node: refinement of `FileStore`, chains disjoint, tree in memory equal to the volume, listings equal to the tree, lost clusters accounted for | two volumes of 3 clusters with files on them, one with a lost cluster, files of up to 3 bytes in clusters of 2, 4 calls |
| `tcp_stream` | Is what is read a prefix of what was sent, does end of file follow all data, do the queues tile the stream, can a call free the PCB that the thread drains, can a sleeper be forgotten? | eight plans (below), one lost or duplicated segment, sequence space 16 |
| `sockets` | Is every sleeper woken, every slot taken as long as it is open, every socket paired with its PCB, the list and the accept queues live, each datagram at its port in order? | 3 sockets, 3 PCBs, 2 processes, 2 peers, 3 calls and 3 frames from each of four setups |

Why these are enough. The scheduler's table needs a parent, a child and the idle
thread, and a new process that takes the freed slot; the proofs of section 4 cover
tables of any size. The mutex's races are between one popper and up to two
pushers. A pipe hazard needs a reader, a writer and a process that inherited an
end. A cache smaller than the disk by one sector already evicts at every miss.
Sharing of frames needs a parent and a child, and six frames are too few for two
programs, so every allocation fails in some behaviour. With a file in place from the
start, four calls remove it, reuse its cluster and write through the old descriptor. The TCP plans divide a connection into phases, each with its own
budget: refused and repeated connects; data through buffers smaller than the
data, filled to the end or with less than a segment of room left; a half-closed client that still reads; a sender that half-closes; both
sides closing with data under way; FIN held back by the window; fast retransmit
after the first of four segments is lost. The socket setups put two processes at
a shared listener, at a shared connection and at a datagram and a raw socket, so
that three calls and three frames reach accept, recv, reset, expiry, close and kill
in every order.

`CHECK_DEADLOCK FALSE` appears where the model may stop: in `pipes` the kernel
really hangs (see `pipes_exit`), and the other runs with bounded calls end when
the calls are used up. With failing allocations `sys_pipe` can return without
closing the end for which it got no description; the pipe then stays allocated
with no descriptor that reaches it. `PipeLivesWithItsEnds` and
`LastCloseFreesPipe` therefore speak of pipes that have, or had, an open end. The
step that frees a buffer is a close or a dup2: an exit or a kill that would take the
last descriptor of an end hangs before it closes anything.

Runs in which the code departs from what the repository says:

| Run | Statement refuted | What happens |
| --- | --- | --- |
| `pipes_exit` | pipes do not deadlock | exit re-enters `task_table_lock` |
| `memory_exit` | exit returns the user pages | `user_page_count` is cleared without freeing the frames |

The quotations and source lines are in `PROJECT.json`, under `findings`.

### Known departures

The models follow the code also where it is surprising. These behaviours are in
the models, are excepted by name in the properties they touch, or lie just outside
them; the source line is where they begin.

- **Scheduler.** Orphans go to PID 1, the idle thread, which never waits
  (`scheduler.c:823`). SIGTSTP without a handler terminates. A task that stops
  itself and then sleeps is SLEEPING and no longer STOPPED.
- **Mutex.** A waiter preempted between `queue_push` and TASK_BLOCKED is popped
  without being woken (`mutex.c:82`), so it is not true that every waiter gets the
  lock. A plain caller spins with interrupts off for a preempted holder
  (`mutex.c:88`). A killed holder never releases. `mutex_unlock` can make a waiter
  READY that was killed after its state was tested (`mutex.c:124`).
- **Pipes.** A read of an empty pipe returns 0 and runs on in user mode until the
  next tick.
- **Bcache.** An eviction by `bcache_write_sector` drops a dirty victim that is
  refused again (`bcache.c:155`); `ImplementsStore` holds until then.
- **Memory.** Exit and exec free tables but no leaf frames. A copy-on-write fault
  during signal delivery updates the inventory of the previous task. Shrinking and
  regrowing the heap leaves stale frames in the inventory. A fork that fails for
  want of a slot leaves counts raised.
- **Vfs.** Mounting on `/`, or three times on one point, and removing or closing
  a mount point can free a mounted root (`vfs.c:144`, `vfs.c:489`), which lookups
  still return; `EntriesLive` is about the entries of directories and excepts it,
  and calls on the freed node are not followed. LOCK_SH leaves the owner field as it
  was, so its process may get LOCK_EX beside another's one shared lock. Changing LOCK_EX to LOCK_SH leaves a count of 2,
  and a shared lock is decremented by the close of a process that does not hold
  it (`vfs.c:927`). Components beyond the 32nd are dropped. Link and symlink
  accept a name that exists. Hard links share data that one close frees.
- **Fat16.** Unlink frees the clusters whatever the link count (`fat16.c:1296`),
  so links are left out of the model. A write through a descriptor of an unlinked
  file, or through a second node in `/bin` (`fat16.c:1524`), touches clusters and
  slots that were freed or reused (`fs.stale`): `TreeIsOnDisk`,
  `ImplementsFileStore`, `OnlyUnrecordedIsLost` and the disjointness of chains hold
  until then. A call stopped by
  a full volume loses the clusters it had taken (`OnlyUnrecordedIsLost` says only
  these). Mounting a directory without a free slot reads the FAT into the buffer
  that holds the root's sector (`fat16.c:1464`), and names of the root after it are
  not found: the model does not follow such a restart (`RootLost`).
- **Tcp.** CLOSE_WAIT processes no acknowledgements (`tcp.c:2091`). In FIN_WAIT1
  the retransmission timer is cleared with the last data (`tcp.c:2397`), so a lost
  FIN may not be repeated. After the last FIN retry the connection closes without
  waking a reader (`FinGivenUp`). The persist timer gives up after its probes
  (`tcp.c:756`). FIN_WAIT2 has no timeout. A failed connect that is repeated keeps
  RESET. A connect that is woken past its deadline calls `tcp_timer_clear` with
  `pcb->lock` held and spins with interrupts off (`net.c:1360`); `SleeperHasReason`
  says that a sleeping connect is woken, not that it returns. A segment that a
  system call polls (`net.c:393`) while the thread drains with the lock released can
  be a reset or a last acknowledgement, and the PCB is freed under the thread
  (`tcp.c:976`): `DrainedPcbLives` excepts it by `polled`. A nested poll can also
  overwrite the frame whose payload `tcp_input` is copying; `Tcp` hands segments over
  whole.
- **Sockets.** A reset frees a child that is in an accept queue (`tcp.c:1706`).
  Two listeners can share a port. A listener closed between the check of a SYN and
  the registration of the child leaves a child with a freed parent. An expired
  half-open child stays registered as CLOSED (`tcp.c:604`). Two SYNs in nested
  polls can make two children for one peer. A nested poll overwrites the frame
  being read (`net.c:758`). A process killed in `sys_recv` keeps its reference, and
  slot and PCB are lost (`net.c:1628`).

### Fairness

- `Scheduler`: weak fairness of `TimerTick` (the timer keeps interrupting user
  code), of the tick's own steps and of resumed calls (the kernel finishes what
  it has begun). Nothing is assumed of processes.
- `Mutex`: weak fairness of the tick, and strong fairness of each task's own
  instructions: a task that is given the processor again and again executes at
  least one instruction in some slice. Kernel threads keep taking the lock;
  system calls are not assumed to be made.
- The other modules state safety: their question is what may never happen in any
  interleaving of calls, frames, timers and faults, with a bounded number of each.

## 4. Proofs

All theorems hold for every value of the constants allowed by the assumptions
named in the modules (`SchedulerAssumption`, `MutexAssumption`,
`PipesAssumption`, `BcacheAssumption`), which bound no sizes from above.

**SchedulerProofs.** `TypeCorrect`, `UniquePidsHold`, `ParentsLiveHolds`,
`NoLostChildExit`, `OnlyCurrentRuns`, `ZombiesKept`. The inductive invariant
`IInv` joins the types with `Sound(tasks, Runner)`, the table-level form of all
invariants, with the facts that the current slot is occupied and that slots from
`task_count` on are free. `Sound` is a predicate of a table and not of the
state, because handlers compose table functions: each helper gets a lemma that
it keeps `Sound`, and an action is a composition of them. `ZombiesKept` follows
step by step from the same lemmas. The parent invariant is needed for the wait
invariant: an exit must wake exactly the tasks that hold its parent PID.

The second half of the module is about signals: `StoppedWithoutContinue` and
`MaskedSignalsSpare`. `Calm(t)` says that a stopped task holds no SIGCONT and that
SIGKILL is in no mask; the second is what makes the first property of a death
inductive, because kill terminates at once. A call often changes a table twice
(a signal is sent, then the parent is told), so each helper is shown to `Settle`
every task, which is closed under composition, or to `Spare` it, which is what
one whole step does. A task that calls exit chooses its own status, which may be
128 plus any signal: `BlockedSignalsDoNotKill` is about the other deaths.

**MutexProofs.** `TypeCorrect`, `NoNullFollowed`, `Exclusion`, `OwnerNamed`,
`MutexImplementsLock`. `IInv` is types, no null link, exclusion and ownership.
The queue's shape is not part of it: exclusion rests on the test-and-set alone,
which is why it survives the queue's races. That `pid_owner` is null while the
lock is free is needed for the next holder: it finds the field blank. The
refinement keeps `locked` and `pid_owner` and maps `holder` to the one task
between its successful test-and-set and its release.

**PipesProofs.** `NoLostPipeWakeup`, `LastCloseFrees`. The handlers compose functions
on the tables (descriptions, pipes, task states, waits), so the invariant is a
predicate `Good` of the tables: every sleeper has a cause, a wait reason belongs to
a sleeping task, and positions and counts of a ring agree. Each helper (`Wake`,
`pipe_node_close`, `file_description_unref`, termination) keeps `Good`. For the last
close `EndsOK` says that an end of a pipe has one description and that `readers`
and `writers` say which ends there are; the theorem says that a close or dup2 frees
the buffer exactly when it takes the last end, and nothing of an exit or kill, which
hangs there.

**PipesFifoProofs.** `PipesAreFifo`: the ring buffer implements `Fifo`. The content of
a ring starts at `read_pos` and wraps around at most once; the arithmetic of
positions is proved first, then what a read, a write and a close do to the
content, then that every step is one of `Fifo` or leaves all contents alone.

**PipesRefProofs.** `RefCountsHold`, `PipesLive`. `Counted` relates descriptor tables
and descriptions by cardinality. Filling a slot and clearing one keep it; fork
and termination treat a whole row of the table, which needs that the row of a
dead task is empty (`DeadClosed`).

**BcacheProofs.** `TypeCorrect`, `NoSectorTwice`, `CleanAgrees`,
`BcacheImplementsStore`. `IInv` is types, no sector in two entries, and clean
entries equal to the disk. The refinement adds that a dirty entry exists only
after a refused write, so that the first write-back to be refused is the second
refusal. `ImplementsStore` says no more about the steps from there on: the next
refusal may drop a dirty victim.

Only model-checked: the liveness properties (`ReadyTasksRun`, `WaitersReturn`,
`Released`) and all properties of `Memory`, `Vfs`, `Fat16`, `Tcp` and `Sockets`.
Liveness is outside the prover, and so are `Fat16`, `TcpPcb` and `Tcp`, which define
operators by recursion.

## 5. Not modelled

- Boot code, PCI enumeration, serial, video and mouse drivers and the initrd
  reader are device programming or run once over constant data.
- Parsing of ELF files, formatting and the checksum, option and address fields of
  packets have no state that steps could disturb.
- The kernel heap appears as an allocator that may fail, the network card as
  frames that arrive one at a time, the disk as sectors whose writes may fail.
- ext2 and the TLB shootdown are left to later modules: ext2 needs a crash model
  of several blocks, and the shootdown a second processor, which the other models
  do without.
- ARP resolution, ICMP and the socket poll call; following symbolic links;
  `lseek`, `fcntl`, `stat` and similar calls that only copy fields.
- User programs appear as arbitrary callers.
