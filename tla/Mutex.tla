-------------------------------- MODULE Mutex --------------------------------
(***************************************************************************)
(* One mutex_t (src/kernel/mutex.c), instruction by instruction, on the    *)
(* one processor that runs tasks.  A timer interrupt may take the          *)
(* processor from any code that runs with IF set; scheduler_tick then      *)
(* picks the next ready task in round-robin order.                         *)
(*                                                                         *)
(* Three kinds of callers share the lock: kernel threads (IF always set,   *)
(* like net_kernel_thread), system calls that use mutex_lock_preemptible   *)
(* (IF set while they wait) and system calls that use mutex_lock (IF clear *)
(* from SYSCALL to SYSRET).                                                *)
(***************************************************************************)
EXTENDS Integers

CONSTANTS
  N,            \* tasks: 1..N, in table order
  Threads, Preemptible, Plain,  \* the three kinds of callers
  Signalled,    \* tasks another process may send a caught signal
  Killed        \* tasks another process may kill

Procs == 1..N
Null == 0       \* the null pointer; as the current task, the idle thread

ASSUME MutexAssumption ==
  /\ N \in Nat \ {0}
  /\ Threads \cup Preemptible \cup Plain = Procs
  /\ Threads \cap Preemptible = {} /\ Threads \cap Plain = {}
  /\ Preemptible \cap Plain = {}
  /\ Signalled \subseteq Procs /\ Killed \subseteq Procs

VARIABLES
  locked, pid_owner, wait_queue,  \* the fields of mutex_t; pid_owner as a task
  mutex_wait_next,                \* the link field of each task
  state,                          \* task state; BLOCKED: on this mutex
  pc,                             \* where each task is in mutex.c
  node,                           \* its local task pointer (node, tail, task)
  succ,                           \* the link queue_pop has read
  current                         \* the task that has the processor

vars == <<locked, pid_owner, wait_queue, mutex_wait_next, state, pc, node, succ, current>>

LockLabels == {"tas", "contains", "push", "head", "sethead", "walk", "link", "block", "yield", "own"}
UnlockLabels == {"pop", "popnext", "pophead", "popclear", "check", "wake"}
Label == {"out", "cs", "release"} \cup LockLabels \cup UnlockLabels

\* interrupts_are_enabled() for task p.
IF_set(p) ==
  \/ p \in Threads \/ pc[p] = "out"
  \/ p \in Preemptible /\ pc[p] \in LockLabels

Init ==
  /\ locked = FALSE /\ pid_owner = Null /\ wait_queue = Null
  /\ mutex_wait_next = [p \in Procs |-> Null]
  /\ state = [p \in Procs |-> "READY"]
  /\ pc = [p \in Procs |-> "out"]
  /\ node = [p \in Procs |-> Null]
  /\ succ = [p \in Procs |-> Null]
  /\ current = Null

Running(p, label) == current = p /\ pc[p] = label
Goto(p, label) == pc' = [pc EXCEPT ![p] = label]
Forget(p) == node' = [node EXCEPT ![p] = Null]   \* the pointer is not used again

mutex == <<locked, pid_owner, wait_queue>>
links == mutex_wait_next
locals == <<node, succ>>
sched == <<state, current>>

-----------------------------------------------------------------------------
\* mutex_lock

Enter(p) ==
  /\ Running(p, "out")
  /\ Goto(p, "tas")
  /\ UNCHANGED <<mutex, links, locals, sched>>

\* Mutant of TestAndSet: a test, then a set.
TestThenSet(p) ==
  /\ Running(p, "tas")
  /\ Goto(p, IF ~locked THEN "own" ELSE IF IF_set(p) THEN "contains" ELSE "tas")
  /\ node' = [node EXCEPT ![p] = IF locked /\ IF_set(p) THEN wait_queue ELSE @]
  /\ UNCHANGED <<mutex, links, succ, sched>>

\* __sync_lock_test_and_set; the loser goes to the queue, or spins with IF clear.
TestAndSet(p) ==
  /\ Running(p, "tas")
  /\ locked' = TRUE
  /\ Goto(p, IF ~locked THEN "own" ELSE IF IF_set(p) THEN "contains" ELSE "tas")
  /\ node' = [node EXCEPT ![p] = IF locked /\ IF_set(p) THEN wait_queue ELSE @]
  /\ UNCHANGED <<pid_owner, wait_queue, links, succ, sched>>

queue_contains(p) ==
  /\ Running(p, "contains")
  /\ \/ /\ node[p] = Null /\ Goto(p, "push") /\ UNCHANGED node
     \/ /\ node[p] = p /\ Goto(p, "block") /\ Forget(p)
     \/ /\ node[p] \notin {Null, p} /\ UNCHANGED pc
        /\ node' = [node EXCEPT ![p] = mutex_wait_next[node[p]]]
  /\ UNCHANGED <<mutex, links, succ, sched>>

\* queue_push: clear the link, read the head, then set it or walk to the tail.
PushClear(p) ==
  /\ Running(p, "push")
  /\ mutex_wait_next' = [mutex_wait_next EXCEPT ![p] = Null]
  /\ Goto(p, "head")
  /\ UNCHANGED <<mutex, locals, sched>>

\* Mutant of PushReadHead: the empty queue is no special case.
PushReadHeadAlways(p) ==
  /\ Running(p, "head")
  /\ node' = [node EXCEPT ![p] = wait_queue]
  /\ Goto(p, "walk")
  /\ UNCHANGED <<mutex, links, succ, sched>>

PushReadHead(p) ==
  /\ Running(p, "head")
  /\ node' = [node EXCEPT ![p] = wait_queue]
  /\ Goto(p, IF wait_queue = Null THEN "sethead" ELSE "walk")
  /\ UNCHANGED <<mutex, links, succ, sched>>

PushSetHead(p) ==
  /\ Running(p, "sethead")
  /\ wait_queue' = p
  /\ Goto(p, "block")
  /\ UNCHANGED <<locked, pid_owner, links, locals, sched>>

PushWalk(p) ==
  /\ Running(p, "walk")
  /\ LET next == mutex_wait_next[node[p]]
     IN IF next = Null THEN Goto(p, "link") /\ UNCHANGED node
        ELSE UNCHANGED pc /\ node' = [node EXCEPT ![p] = next]
  /\ UNCHANGED <<mutex, links, succ, sched>>

PushLink(p) ==
  /\ Running(p, "link")
  /\ mutex_wait_next' = [mutex_wait_next EXCEPT ![node[p]] = p]
  /\ Goto(p, "block") /\ Forget(p)
  /\ UNCHANGED <<mutex, succ, sched>>

\* The task scheduler_tick picks next: the first ready one after the current.
After(p) == (p - current - 1) % N
Ready(st) == {p \in Procs : st[p] = "READY"}
FirstReady(st) ==
  IF Ready(st) = {} THEN {Null} ELSE {p \in Ready(st) : \A q \in Ready(st) : After(p) <= After(q)}

\* scheduler_tick, with the task states st.
Switch(st) ==
  \E p \in FirstReady(st) :
    /\ current' = p
    /\ state' = IF p = Null THEN st ELSE [st EXCEPT ![p] = "RUNNING"]

\* state and wait_reason are adjacent words, which the build writes with one
\* store.  scheduler_yield: the tick runs, and the task goes on with the loop.
Block(p) ==
  /\ Running(p, "block")
  /\ state' = [state EXCEPT ![p] = "BLOCKED"]
  /\ Goto(p, "yield")
  /\ UNCHANGED <<mutex, links, locals, current>>

scheduler_yield(p) ==
  /\ Running(p, "yield")
  /\ Goto(p, "tas")
  /\ Switch([state EXCEPT ![p] = IF @ = "RUNNING" THEN "READY" ELSE @])
  /\ UNCHANGED <<mutex, links, locals>>

Own(p) ==
  /\ Running(p, "own")
  /\ pid_owner' = p
  /\ Goto(p, "cs")
  /\ UNCHANGED <<locked, wait_queue, links, locals, sched>>

mutex_lock(p) ==
  \/ Enter(p) \/ TestAndSet(p) \/ queue_contains(p) \/ PushClear(p) \/ PushReadHead(p)
  \/ PushSetHead(p) \/ PushWalk(p) \/ PushLink(p) \/ Block(p) \/ scheduler_yield(p) \/ Own(p)

-----------------------------------------------------------------------------
\* mutex_unlock, from the critical section.

Disown(p) ==
  /\ Running(p, "cs")
  /\ pid_owner' = Null
  /\ Goto(p, "release")
  /\ UNCHANGED <<locked, wait_queue, links, locals, sched>>

\* Mutant of Release: the lock is not given back.
ForgetRelease(p) ==
  /\ Running(p, "release")
  /\ Goto(p, "pop")
  /\ UNCHANGED <<mutex, links, locals, sched>>

Release(p) ==
  /\ Running(p, "release")
  /\ locked' = FALSE
  /\ Goto(p, "pop")
  /\ UNCHANGED <<pid_owner, wait_queue, links, locals, sched>>

\* queue_pop: read the head and its link, move the head, clear the link.
PopReadHead(p) ==
  /\ Running(p, "pop")
  /\ node' = [node EXCEPT ![p] = wait_queue]
  /\ Goto(p, IF wait_queue = Null THEN "out" ELSE "popnext")
  /\ UNCHANGED <<mutex, links, succ, sched>>

PopReadNext(p) ==
  /\ Running(p, "popnext")
  /\ succ' = [succ EXCEPT ![p] = mutex_wait_next[node[p]]]
  /\ Goto(p, "pophead")
  /\ UNCHANGED <<mutex, links, node, sched>>

PopSetHead(p) ==
  /\ Running(p, "pophead")
  /\ wait_queue' = succ[p]
  /\ succ' = [succ EXCEPT ![p] = Null]
  /\ Goto(p, "popclear")
  /\ UNCHANGED <<locked, pid_owner, links, node, sched>>

PopClear(p) ==
  /\ Running(p, "popclear")
  /\ mutex_wait_next' = [mutex_wait_next EXCEPT ![node[p]] = Null]
  /\ Goto(p, "check")
  /\ UNCHANGED <<mutex, locals, sched>>

Check(p) ==
  /\ Running(p, "check")
  /\ IF state[node[p]] = "BLOCKED" THEN Goto(p, "wake") /\ UNCHANGED node
     ELSE Goto(p, "out") /\ Forget(p)
  /\ UNCHANGED <<mutex, links, succ, sched>>

Wake(p) ==
  /\ Running(p, "wake")
  /\ state' = [state EXCEPT ![node[p]] = "READY"]
  /\ Goto(p, "out") /\ Forget(p)
  /\ UNCHANGED <<mutex, links, succ, current>>

mutex_unlock(p) ==
  \/ Disown(p) \/ Release(p) \/ PopReadHead(p) \/ PopReadNext(p) \/ PopSetHead(p)
  \/ PopClear(p) \/ Check(p) \/ Wake(p)

-----------------------------------------------------------------------------
\* What else happens to the tasks.

Interruptible == current # Null => IF_set(current)

\* The timer interrupt.
scheduler_tick ==
  /\ Interruptible
  /\ Switch([p \in Procs |-> IF p = current /\ state[p] = "RUNNING" THEN "READY" ELSE state[p]])
  /\ UNCHANGED <<mutex, links, pc, locals>>

\* A signal with a handler ends the wait; it is delivered when the call returns.
scheduler_send_signal(p) ==
  /\ Interruptible
  /\ state[p] = "BLOCKED"
  /\ state' = [state EXCEPT ![p] = "READY"]
  /\ UNCHANGED <<mutex, links, pc, locals, current>>

\* SIGKILL, or a signal without a handler: the task ends wherever it is.
scheduler_terminate_task(p) ==
  /\ Interruptible
  /\ p # current /\ state[p] # "ZOMBIE"
  /\ state' = [state EXCEPT ![p] = "ZOMBIE"]
  /\ UNCHANGED <<mutex, links, pc, locals, current>>

\* The zombie is reaped and its slot of the task table given to a new task.
Respawn(p) ==
  /\ current # Null /\ pc[current] = "out" /\ state[p] = "ZOMBIE"
  /\ state' = [state EXCEPT ![p] = "READY"]
  /\ mutex_wait_next' = [mutex_wait_next EXCEPT ![p] = Null]
  /\ Goto(p, "out") /\ Forget(p) /\ succ' = [succ EXCEPT ![p] = Null]
  /\ UNCHANGED <<mutex, current>>

Next ==
  \/ \E p \in Procs : mutex_lock(p) \/ mutex_unlock(p)
  \/ scheduler_tick
  \/ \E p \in Signalled : scheduler_send_signal(p)
  \/ \E p \in Killed : scheduler_terminate_task(p) \/ Respawn(p)

Spec == Init /\ [][Next]_vars

-----------------------------------------------------------------------------
\* Properties.

\* Variables keep their types; every pointer is null or a task.
TypeOK ==
  /\ locked \in BOOLEAN
  /\ pid_owner \in Procs \cup {Null} /\ wait_queue \in Procs \cup {Null}
  /\ mutex_wait_next \in [Procs -> Procs \cup {Null}]
  /\ state \in [Procs -> {"READY", "RUNNING", "BLOCKED", "ZOMBIE"}]
  /\ pc \in [Procs -> Label]
  /\ node \in [Procs -> Procs \cup {Null}] /\ succ \in [Procs -> Procs \cup {Null}]
  /\ current \in Procs \cup {Null}

Holds(p) == pc[p] \in {"own", "cs", "release"}

\* Whatever the queue's races, signals and kills: two tasks never hold the lock,
\* and a task that holds it finds it locked.
MutualExclusion ==
  /\ \A p, q \in Procs : Holds(p) /\ Holds(q) => p = q
  /\ \A p \in Procs : Holds(p) => locked

\* The lists of mutex.c are walked and popped while others push, pop, die and
\* have their links cleared: no task dereferences a null pointer for it.
NoNullDereference ==
  \A p \in Procs :
    pc[p] \in {"walk", "link", "popnext", "pophead", "popclear", "check", "wake"} => node[p] # Null

\* In the critical section pid_owner names the task that is in it, and it is blank
\* before, after and while the lock is free: neither the previous owner's reset nor
\* a racing winner's store can come late.
OwnerIsHolder ==
  /\ \A p \in Procs :
       /\ pc[p] = "cs" => pid_owner = p
       /\ pc[p] \in {"own", "release"} => pid_owner = Null
  /\ ~locked => pid_owner = Null

\* mutex_t as seen by its users: Lock, with the holder this module computes.
Nobody == Null
holder == IF \E p \in Procs : Holds(p) THEN CHOOSE p \in Procs : Holds(p) ELSE Nobody

L == INSTANCE Lock

\* The instructions of mutex.c implement the lock: free, it goes to one task; only
\* that task gives it back; and a lock whose holder died is never granted again.
ImplementsLock == L!Spec

\* A task that is given the processor again and again executes its instructions
\* (a time slice is longer than one), the timer interrupts, and kernel threads take the
\* lock again and again.
Steps(p) == (mutex_lock(p) /\ (pc[p] # "out" \/ p \in Threads)) \/ mutex_unlock(p)
FairSpec == Spec /\ WF_vars(scheduler_tick) /\ \A p \in Procs : SF_vars(Steps(p))

\* A task that holds the lock gives it back, unless it is killed or a caller of
\* plain mutex_lock, which has IF clear, keeps the processor from it.
Released ==
  \A p \in Procs :
    Holds(p) ~> ~locked \/ state[p] = "ZOMBIE" \/ \E q \in Plain : pc[q] = "tas"

=============================================================================
