-------------------------------- MODULE Pipes --------------------------------
(***************************************************************************)
(* Anonymous pipes and the descriptor tables that hold their ends          *)
(* (src/kernel/kernel.c): open file descriptions with reference counts,    *)
(* the ring buffer, sleeping readers and writers, and what fork, dup,      *)
(* close and termination do to all of them.                                *)
(*                                                                         *)
(* Every handler runs with IF clear and none of them yields, so each is    *)
(* one step.  A call that finds nothing to do puts the task to SLEEPING    *)
(* and returns 0; the task goes on in ring 3 until the next timer tick.    *)
(***************************************************************************)
EXTENDS Integers, Sequences, FiniteSets

CONSTANTS
  MAX_TASKS,         \* task slots
  TASK_MAX_FDS,      \* descriptors of a task
  FirstFd,           \* the lowest descriptor pipe() may return (3)
  MaxDescriptions,   \* file_description_t objects in use at a time
  MaxPipes,          \* pipes in use at a time
  PIPE_BUFFER_SIZE,
  Byte,
  MaxWrite,          \* the largest size a process passes to write
  AllocFails         \* can file_description_alloc run out of memory?

Task == 1..MAX_TASKS
Fd == 0..(TASK_MAX_FDS - 1)
Description == 1..MaxDescriptions
Pipe == 1..MaxPipes
Null == 0

ASSUME PipesAssumption ==
  /\ MAX_TASKS \in Nat \ {0} /\ PIPE_BUFFER_SIZE \in Nat \ {0} /\ MaxWrite \in Nat \ {0}
  /\ FirstFd \in Nat /\ TASK_MAX_FDS \in Nat /\ FirstFd < TASK_MAX_FDS
  /\ MaxPipes \in Nat /\ MaxDescriptions \in Nat /\ FirstFd <= MaxDescriptions
  /\ AllocFails \in BOOLEAN

VARIABLES
  fds,        \* task_t.file_descriptors
  desc,       \* the file descriptions
  pipe,       \* the pipe_buffers
  state,      \* DEAD, READY (or running), SLEEPING
  wait,       \* wait_reason and wait_target
  current,    \* the task that runs, Null for the idle thread
  received,   \* the bytes the last call returned
  hung        \* the processor spins for ever on task_table_lock

vars == <<fds, desc, pipe, state, wait, current, received, hung>>

FreeDescription == [end |-> "free", pipe |-> Null, ref_count |-> 0]
FreePipe == [data |-> << >>, read_pos |-> 0, write_pos |-> 0, count |-> 0,
             readers |-> 0, writers |-> 0, live |-> FALSE]
NotWaiting == [reason |-> "NONE", target |-> Null]

\* The first task, with its standard descriptors on the console.
Init ==
  /\ fds = [t \in Task |-> [f \in Fd |-> IF t = 1 /\ f < FirstFd THEN f + 1 ELSE Null]]
  /\ desc = [d \in Description |->
               IF d <= FirstFd THEN [end |-> "console", pipe |-> Null, ref_count |-> 1]
               ELSE FreeDescription]
  /\ pipe = [p \in Pipe |-> FreePipe]
  /\ state = [t \in Task |-> IF t = 1 THEN "READY" ELSE "DEAD"]
  /\ wait = [t \in Task |-> NotWaiting]
  /\ current = 1 /\ received = << >> /\ hung = FALSE

-----------------------------------------------------------------------------
\* The kernel's tables as one value, and what the helpers make of it.

Tables == [desc |-> desc, pipe |-> pipe, state |-> state, wait |-> wait]

Become(k) == desc' = k.desc /\ pipe' = k.pipe /\ state' = k.state /\ wait' = k.wait

\* scheduler_wake_pipe_readers and scheduler_wake_pipe_writers.
Wake(k, reason, p) ==
  LET woken == {t \in Task : k.wait[t] = [reason |-> reason, target |-> p]}
  IN [k EXCEPT !.state = [t \in Task |-> IF t \in woken THEN "READY" ELSE @[t]],
               !.wait = [t \in Task |-> IF t \in woken THEN NotWaiting ELSE @[t]]]

Sleep(k, t, reason, p) ==
  [k EXCEPT !.state[t] = "SLEEPING", !.wait[t] = [reason |-> reason, target |-> p]]

\* The read end's or the write end's description is gone.
CloseEnd(k, end, p) ==
  IF end = "read"
  THEN LET c == [k EXCEPT !.pipe[p].readers = IF @ > 0 THEN @ - 1 ELSE 0]
       IN IF c.pipe[p].readers = 0 THEN Wake(c, "PIPE_WRITE", p) ELSE c
  ELSE LET c == [k EXCEPT !.pipe[p].writers = IF @ > 0 THEN @ - 1 ELSE 0]
       IN IF c.pipe[p].writers = 0 THEN Wake(c, "PIPE_READ", p) ELSE c

\* Mutant of pipe_node_close: the buffer is freed with its read end.
FreeWithReaders(k, end, p) ==
  LET c == CloseEnd(k, end, p)
  IN IF c.pipe[p].readers = 0 THEN [c EXCEPT !.pipe[p] = FreePipe] ELSE c

\* Mutant of pipe_node_close: a read end closed last leaves the buffer behind.
FreeWithWriters(k, end, p) ==
  LET c == CloseEnd(k, end, p)
  IN IF end = "write" /\ c.pipe[p].readers = 0 /\ c.pipe[p].writers = 0
     THEN [c EXCEPT !.pipe[p] = FreePipe] ELSE c

pipe_node_close(k, end, p) ==
  LET c == CloseEnd(k, end, p)
  IN IF c.pipe[p].readers = 0 /\ c.pipe[p].writers = 0
     THEN [c EXCEPT !.pipe[p] = FreePipe] ELSE c

file_description_unref(k, d) ==
  IF k.desc[d].ref_count > 1 THEN [k EXCEPT !.desc[d].ref_count = @ - 1]
  ELSE LET freed == [k EXCEPT !.desc[d] = FreeDescription]
       IN IF k.desc[d].end \in {"read", "write"}
          THEN pipe_node_close(freed, k.desc[d].end, k.desc[d].pipe) ELSE freed

-----------------------------------------------------------------------------
Runs(t) == ~hung /\ current = t
Open(t, f) == fds[t][f] # Null
FreeFds(t, low) == {f \in Fd : f >= low /\ ~Open(t, f)}
Least(S) == {x \in S : \A y \in S : x <= y}

\* The tables with pipe p allocated, and with a description for an end of it.
NewPipe(p) ==
  [Tables EXCEPT !.pipe[p] =
     [FreePipe EXCEPT !.data = [i \in 0..(PIPE_BUFFER_SIZE - 1) |-> CHOOSE b \in Byte : TRUE],
                      !.readers = 1, !.writers = 1, !.live = TRUE]]

Described(k, d, end, p) == [k EXCEPT !.desc[d] = [end |-> end, pipe |-> p, ref_count |-> 1]]

\* pipe(): both ends, or none.  The description of an end whose descriptor does
\* not fit is unreferenced; an end with no description at all is not closed.
sys_pipe(t) ==
  /\ Runs(t)
  /\ \E p \in Least({q \in Pipe : ~pipe[q].live}), r \in Description, w \in Description :
       LET free == {d \in Description : desc[d].end = "free"}
           both == Described(Described(NewPipe(p), r, "read", p), w, "write", p)
       IN /\ r \in Least(free) /\ w \in Least(free \ {r})
          /\ \/ \E rf \in Least(FreeFds(t, FirstFd)) : \E wf \in Least(FreeFds(t, FirstFd) \ {rf}) :
                  /\ fds' = [fds EXCEPT ![t][rf] = r, ![t][wf] = w]
                  /\ Become(both)
             \/ /\ Cardinality(FreeFds(t, FirstFd)) < 2
                /\ Become(file_description_unref(file_description_unref(both, w), r))
                /\ UNCHANGED fds
             \/ /\ AllocFails   \* one of the two descriptions, or both, cannot be allocated
                /\ \/ Become(NewPipe(p))
                   \/ \E end \in {"read", "write"} :
                        Become(file_description_unref(Described(NewPipe(p), r, end, p), r))
                /\ UNCHANGED fds
  /\ received' = << >> /\ UNCHANGED <<current, hung>>

\* Mutant of Read: the sleeping writers are not woken.
ReadSilently(k, p, n) ==
  [k EXCEPT !.pipe[p].read_pos = (@ + n) % PIPE_BUFFER_SIZE, !.pipe[p].count = @ - n]

Read(k, p, n) ==
  Wake([k EXCEPT !.pipe[p].read_pos = (@ + n) % PIPE_BUFFER_SIZE, !.pipe[p].count = @ - n],
       "PIPE_WRITE", p)

\* read(f) of size bytes from a pipe.
pipe_read(t, f, size) ==
  /\ Runs(t) /\ Open(t, f)
  /\ desc[fds[t][f]].end = "read"
  /\ LET p == desc[fds[t][f]].pipe
         n == IF size < pipe[p].count THEN size ELSE pipe[p].count
     IN /\ received' = [i \in 1..n |-> pipe[p].data[(pipe[p].read_pos + i - 1) % PIPE_BUFFER_SIZE]]
        /\ Become(IF n > 0 THEN Read(Tables, p, n)
                  ELSE IF pipe[p].writers = 0 THEN Tables ELSE Sleep(Tables, t, "PIPE_READ", p))
  /\ UNCHANGED <<fds, current, hung>>

\* Mutant of Write: the bytes are not put behind those already there.
WriteAtReadPosition(k, p, s) ==
  Wake([k EXCEPT !.pipe[p].data =
                   [i \in 0..(PIPE_BUFFER_SIZE - 1) |->
                      LET j == (i - k.pipe[p].read_pos) % PIPE_BUFFER_SIZE
                      IN IF j < Len(s) THEN s[j + 1] ELSE @[i]],
                 !.pipe[p].write_pos = (@ + Len(s)) % PIPE_BUFFER_SIZE,
                 !.pipe[p].count = @ + Len(s)], "PIPE_READ", p)

Write(k, p, s) ==
  Wake([k EXCEPT !.pipe[p].data =
                   [i \in 0..(PIPE_BUFFER_SIZE - 1) |->
                      LET j == (i - k.pipe[p].write_pos) % PIPE_BUFFER_SIZE
                      IN IF j < Len(s) THEN s[j + 1] ELSE @[i]],
                 !.pipe[p].write_pos = (@ + Len(s)) % PIPE_BUFFER_SIZE,
                 !.pipe[p].count = @ + Len(s)], "PIPE_READ", p)

\* scheduler_terminate_task, under task_table_lock: the descriptors are closed
\* there, and closing the last reference to an end of a pipe wakes its sleepers,
\* which takes task_table_lock again.
Uses(t, d) == Cardinality({f \in Fd : fds[t][f] = d})

scheduler_terminate_task(t) ==
  LET last == {d \in Description : Uses(t, d) > 0 /\ desc[d].ref_count = Uses(t, d)}
  IN IF \E d \in last : desc[d].end \in {"read", "write"}
     THEN /\ hung' = TRUE
          /\ UNCHANGED <<fds, desc, pipe, state, wait>>
     ELSE /\ fds' = [fds EXCEPT ![t] = [f \in Fd |-> Null]]
          /\ desc' = [d \in Description |->
                        IF d \in last THEN FreeDescription
                        ELSE [desc[d] EXCEPT !.ref_count = @ - Uses(t, d)]]
          /\ state' = [state EXCEPT ![t] = "DEAD"]
          /\ wait' = [wait EXCEPT ![t] = NotWaiting]
          /\ UNCHANGED <<pipe, hung>>

\* write(f, s) to a pipe that still has a reader.
pipe_write(t, f, s) ==
  /\ Runs(t) /\ Open(t, f)
  /\ desc[fds[t][f]].end = "write"
  /\ LET p == desc[fds[t][f]].pipe
         space == PIPE_BUFFER_SIZE - pipe[p].count
         n == IF Len(s) < space THEN Len(s) ELSE space
     IN /\ pipe[p].readers > 0
        /\ Become(IF n > 0 THEN Write(Tables, p, SubSeq(s, 1, n))
                  ELSE Sleep(Tables, t, "PIPE_WRITE", p))
  /\ received' = << >> /\ UNCHANGED <<fds, current, hung>>

\* write(f) to a pipe without one: SIGPIPE, which kills, or is caught or
\* ignored, or is masked.
pipe_write_broken(t, f) ==
  /\ Runs(t) /\ Open(t, f)
  /\ desc[fds[t][f]].end = "write" /\ pipe[desc[fds[t][f]].pipe].readers = 0
  /\ \/ scheduler_terminate_task(t)
     \/ /\ state' = [state EXCEPT ![t] = "READY"]
        /\ wait' = [wait EXCEPT ![t] = NotWaiting]
        /\ UNCHANGED <<fds, desc, pipe, hung>>
     \/ UNCHANGED <<fds, desc, pipe, state, wait, hung>>
  /\ received' = << >> /\ UNCHANGED current

\* Mutant of Duplicate: the reference is not counted.
DuplicateUncounted(t, old, new) ==
  fds' = [fds EXCEPT ![t][new] = fds[t][old]] /\ Become(Tables)

Duplicate(t, old, new) ==
  /\ fds' = [fds EXCEPT ![t][new] = fds[t][old]]
  /\ Become([Tables EXCEPT !.desc[fds[t][old]].ref_count = @ + 1])

\* dup (low = 0) and fcntl F_DUPFD (any low).
sys_dup(t, old, low) ==
  /\ Runs(t) /\ Open(t, old)
  /\ \E new \in Least(FreeFds(t, low)) : Duplicate(t, old, new)
  /\ received' = << >> /\ UNCHANGED <<current, hung>>

sys_dup2(t, old, new) ==
  /\ Runs(t) /\ Open(t, old) /\ old # new
  /\ \/ ~Open(t, new) /\ Duplicate(t, old, new)
     \/ /\ Open(t, new)
        /\ fds' = [fds EXCEPT ![t][new] = fds[t][old]]
        /\ LET k == file_description_unref(Tables, fds[t][new])
           IN Become([k EXCEPT !.desc[fds[t][old]].ref_count = @ + 1])
  /\ received' = << >> /\ UNCHANGED <<current, hung>>

sys_close(t, f) ==
  /\ Runs(t) /\ Open(t, f)
  /\ fds' = [fds EXCEPT ![t][f] = Null]
  /\ Become(file_description_unref(Tables, fds[t][f]))
  /\ received' = << >> /\ UNCHANGED <<current, hung>>

\* fork and spawn: the child gets the parent's descriptors.
fork(t) ==
  /\ Runs(t)
  /\ \E c \in Least({u \in Task : state[u] = "DEAD"}) :
       /\ fds' = [fds EXCEPT ![c] = fds[t]]
       /\ desc' = [d \in Description |-> [desc[d] EXCEPT !.ref_count = @ + Uses(t, d)]]
       /\ state' = [state EXCEPT ![c] = "READY"]
       /\ wait' = [wait EXCEPT ![c] = NotWaiting]
  /\ received' = << >> /\ UNCHANGED <<pipe, current, hung>>

\* exit (u = t), and kill with a signal that is fatal to u.
terminate(t, u) ==
  /\ Runs(t) /\ state[u] # "DEAD"
  /\ scheduler_terminate_task(u)
  /\ received' = << >> /\ UNCHANGED current

\* A caught signal ends the sleep.
scheduler_send_signal(t, u) ==
  /\ Runs(t) /\ state[u] = "SLEEPING"
  /\ state' = [state EXCEPT ![u] = "READY"]
  /\ wait' = [wait EXCEPT ![u] = NotWaiting]
  /\ received' = << >> /\ UNCHANGED <<fds, desc, pipe, current, hung>>

\* The timer tick: any ready task, else the idle thread.
scheduler_tick ==
  /\ ~hung
  /\ LET ready == {t \in Task : state[t] = "READY"}
     IN current' \in IF ready = {} THEN {Null} ELSE ready
  /\ received' = << >> /\ UNCHANGED <<fds, desc, pipe, state, wait, hung>>

Buffers == UNION {[1..n -> Byte] : n \in 1..MaxWrite}

Syscall(t) ==
  \/ sys_pipe(t) \/ fork(t)
  \/ \E u \in Task : terminate(t, u) \/ scheduler_send_signal(t, u)
  \/ \E f \in Fd :
       \/ sys_close(t, f) \/ pipe_write_broken(t, f)
       \/ \E size \in 1..PIPE_BUFFER_SIZE : pipe_read(t, f, size)
       \/ \E s \in Buffers : pipe_write(t, f, s)
       \/ \E g \in Fd : sys_dup(t, f, g) \/ sys_dup2(t, f, g)

Next == scheduler_tick \/ \E t \in Task : state[t] # "DEAD" /\ Syscall(t)

Spec == Init /\ [][Next]_vars

-----------------------------------------------------------------------------
\* Properties.

\* Variables keep their types; the ring's positions and counters stay in range.
TypeOK ==
  /\ fds \in [Task -> [Fd -> Description \cup {Null}]]
  /\ desc \in [Description -> [end: {"free", "console", "read", "write"}, pipe: Pipe \cup {Null},
                               ref_count: 0..(MAX_TASKS * TASK_MAX_FDS)]]
  /\ \A p \in Pipe :
       /\ pipe[p].read_pos \in 0..(PIPE_BUFFER_SIZE - 1)
       /\ pipe[p].write_pos \in 0..(PIPE_BUFFER_SIZE - 1)
       /\ pipe[p].count \in 0..PIPE_BUFFER_SIZE
       /\ pipe[p].readers \in {0, 1} /\ pipe[p].writers \in {0, 1}
  /\ state \in [Task -> {"DEAD", "READY", "SLEEPING"}]
  /\ wait \in [Task -> [reason: {"NONE", "PIPE_READ", "PIPE_WRITE"}, target: Pipe \cup {Null}]]
  /\ current \in Task \cup {Null}

\* Through fork, dup, dup2, close and exit: the reference count of a description is
\* the number of descriptors that name it, so it is freed with the last one and no
\* descriptor names a freed one.
RefCountsExact ==
  \A d \in Description :
    /\ desc[d].ref_count = Cardinality({tf \in Task \X Fd : fds[tf[1]][tf[2]] = d})
    /\ desc[d].end = "free" <=> desc[d].ref_count = 0

Ends(p, end) == {d \in Description : desc[d].end = end /\ desc[d].pipe = p}

HasEnds(p) == Ends(p, "read") \cup Ends(p, "write") # {}

\* While an end is open the buffer is there, and readers and writers count the
\* open ends: no read or write through an end finds the buffer freed or waits for
\* an end that is gone.
PipeLivesWithItsEnds ==
  TypeOK /\ \A p \in Pipe :
    HasEnds(p) => /\ pipe[p].live
                  /\ pipe[p].readers = Cardinality(Ends(p, "read"))
                  /\ pipe[p].writers = Cardinality(Ends(p, "write"))

\* Of two ends that many descriptors share, the close or dup2 that takes the last
\* one frees the buffer, and no step before it does (pipe_node_close).  Exit and
\* kill are not among these steps: one that would take an end's last descriptor
\* hangs before it has closed anything (NeverHangs).
LastCloseFreesPipe ==
  [][\A p \in Pipe : HasEnds(p) => (~HasEnds(p)' <=> ~pipe'[p].live)]_vars

\* No lost wake-up, also for a task that went on in ring 3 after it was put to
\* sleep: a sleeping reader's pipe is empty and has a write end that can fill it;
\* a sleeping writer's pipe is full and has a read end that can drain it.
SleepersHaveCause ==
  \A t \in Task : state[t] = "SLEEPING" =>
    LET p == pipe[wait[t].target]
    IN \/ wait[t].reason = "PIPE_READ" /\ p.count = 0 /\ p.writers > 0
       \/ wait[t].reason = "PIPE_WRITE" /\ p.count = PIPE_BUFFER_SIZE /\ p.readers > 0

\* The bytes a pipe holds, oldest first.
queue ==
  [p \in Pipe |-> [i \in 1..pipe[p].count |->
                     pipe[p].data[(pipe[p].read_pos + i - 1) % PIPE_BUFFER_SIZE]]]

F == INSTANCE Fifo WITH Channels <- Pipe, Capacity <- PIPE_BUFFER_SIZE

\* The ring buffers are bounded first-in first-out channels.
ImplementsFifo == F!Spec

\* docs/architecture/process_lifecycle.md, of pipes: "prevenindo deadlocks
\* assincronos": the kernel never waits for a lock it holds.
NeverHangs == ~hung

=============================================================================
