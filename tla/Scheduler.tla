------------------------------ MODULE Scheduler ------------------------------
(***************************************************************************)
(* The process table of PhotonOS (src/kernel/scheduler.c) and the system   *)
(* calls of src/kernel/kernel.c that change it: creation, fork, execve,    *)
(* exit, wait and waitpid, signals, the round-robin tick.                  *)
(*                                                                         *)
(* One processor runs tasks: the application processors stop in ap_kmain,  *)
(* and current_task is one global.  SYSCALL clears IF, so a system call is *)
(* one step up to the point where it yields (int 0x20); a suspended call   *)
(* is resumed where it stopped, again with IF clear.                       *)
(***************************************************************************)
EXTENDS Integers, FiniteSets

CONSTANTS
  MAX_TASKS,    \* slots of the task table
  MaxPid,       \* the largest uint32_t: PIDs wrap to 1 after it
  Signal,       \* the signal numbers in use
  Kills,        \* the signals a process passes to kill
  Dispositions, \* the <<signal, handler>> pairs a process installs
  Masks,        \* the sets a process passes to sigprocmask
  WaitCalls,    \* the wait calls a process makes: "wait", "waitpid"
  ExitCodes,    \* the statuses a process passes to exit
  Network       \* network_ready: is the network thread created at boot?

SIGINT  == 2
SIGKILL == 9
SIGPIPE == 13
SIGTERM == 15
SIGCHLD == 17
SIGCONT == 18
SIGSTOP == 19

SIG_DFL == 0
SIG_IGN == 1
SIG_ERR == -1

ASSUME SchedulerAssumption ==
  /\ MAX_TASKS \in Nat /\ MAX_TASKS >= 3
  /\ MaxPid \in Nat /\ MaxPid >= IF Network THEN 4 ELSE 3
  /\ Signal \subseteq 1..31
  /\ {SIGINT, SIGCHLD} \subseteq Signal
  /\ Kills \subseteq Signal
  /\ Dispositions \subseteq Signal \X Int
  /\ Masks \subseteq SUBSET Signal
  /\ WaitCalls \subseteq {"wait", "waitpid"}
  /\ ExitCodes \subseteq Int
  /\ Network \in BOOLEAN

Slot == 0..(MAX_TASKS - 1)
Pid  == 0..MaxPid
None == -1                      \* current_task_index before the first tick

TaskState == {"UNUSED", "READY", "RUNNING", "SLEEPING", "WAITING", "BLOCKED",
              "STOPPED", "ZOMBIE", "DEAD"}
WaitReason == {"NONE", "STDIN", "CHILD"}

\* The fields of task_control_block the process table depends on.  user: cr3 is
\* not the kernel's PML4.  call, call_pid: the system call the task is suspended
\* in, "none" when its saved frame is a ring 3 (or kernel thread) one.
Task == [state: TaskState, pid: Pid, parent_pid: Pid,
         wait_reason: WaitReason, wait_target: Pid, exit_status: Int,
         pending: SUBSET Signal, blocked: SUBSET Signal,
         active: Signal \cup {0}, handler: [Signal -> Int],
         user: BOOLEAN, call: {"none", "yield", "wait", "waitpid"}, call_pid: Pid]

VARIABLES
  tasks,            \* tasks[]
  task_count,       \* slots handed out so far
  next_pid,         \* where generate_pid starts
  current,          \* current_task_index
  foreground_pid,   \* the process that owns the console
  attempts,         \* iterations left in scheduler_tick's loop, None outside it
  index             \* the loop's index

vars == <<tasks, task_count, next_pid, current, foreground_pid, attempts, index>>

idle_task_index == 0

-----------------------------------------------------------------------------
\* The task table as a value: what each helper of scheduler.c returns.

Free(t) == t.state \in {"UNUSED", "DEAD"}

Wake(t) == [t EXCEPT !.state = "READY", !.wait_reason = "NONE", !.wait_target = 0]

UnusedTask ==
  [state |-> "UNUSED", pid |-> 0, parent_pid |-> 0, wait_reason |-> "NONE",
   wait_target |-> 0, exit_status |-> 0, pending |-> {}, blocked |-> {},
   active |-> 0, handler |-> [s \in Signal |-> SIG_DFL], user |-> FALSE,
   call |-> "none", call_pid |-> 0]

NewTask(pid, parent, user) ==
  [UnusedTask EXCEPT !.state = "READY", !.pid = pid, !.parent_pid = parent,
                     !.user = user]

\* Mutant of allocate_task_slot: the slot of a zombie counts as free.
AllocateOverZombie ==
  LET free == {i \in Slot : i < task_count /\ (Free(tasks[i]) \/ tasks[i].state = "ZOMBIE")}
  IN IF free # {} THEN {i \in free : \A j \in free : i <= j}
     ELSE {i \in Slot : i = task_count}

\* The slot a new task gets: the first free one below task_count, else the next
\* one; the empty set when the table is full.
allocate_task_slot ==
  LET free == {i \in Slot : i < task_count /\ Free(tasks[i])}
  IN IF free # {} THEN {i \in free : \A j \in free : i <= j}
     ELSE {i \in Slot : i = task_count}

\* Mutant of generate_pid: the table is not searched for the PID.
GeneratePidUnchecked == {IF next_pid = 0 THEN 1 ELSE next_pid}

\* The PID a new task gets: the first one at or after next_pid, wrapping from
\* MaxPid to 1, that no used slot holds.
PidDistance(p) == IF p >= next_pid THEN p - next_pid ELSE p + MaxPid + 1 - next_pid

generate_pid ==
  LET unused == {p \in Pid \ {0} : \A i \in Slot : Free(tasks[i]) \/ tasks[i].pid # p}
  IN {p \in unused : \A q \in unused : PidDistance(p) <= PidDistance(q)}

Zombie(t, status) ==
  [t EXCEPT !.exit_status = status, !.state = "ZOMBIE", !.wait_reason = "NONE",
            !.wait_target = 0, !.pending = {}, !.active = 0, !.user = FALSE]

\* Mutant of Reparent: the children keep their dead parent.
KeepParent(t, exited) == t

Reparent(t, exited) ==
  IF ~Free(t) /\ t.parent_pid = exited THEN [t EXCEPT !.parent_pid = 1] ELSE t

\* Mutant of wake_parent_waiters: only a waiter that named the PID is woken.
WakeOnlyNamed(t, exited) ==
  IF t.state = "WAITING" /\ t.wait_target = exited THEN Wake(t) ELSE t

wake_parent_waiters(t, exited) ==
  IF /\ t.state \in {"SLEEPING", "WAITING"} /\ t.wait_reason = "CHILD"
     /\ t.wait_target \in {exited, 0}
  THEN Wake(t) ELSE t

NotifyParent(t, parent) ==
  IF /\ parent # 0 /\ ~Free(t) /\ t.pid = parent
     /\ t.handler[SIGCHLD] \notin {SIG_DFL, SIG_IGN}
  THEN [t EXCEPT !.pending = @ \cup {SIGCHLD}] ELSE t

\* Task i becomes a zombie: its children go to PID 1, a task waiting for it is
\* woken, and its parent gets SIGCHLD if it has a handler for it.
scheduler_terminate_task(tb, i, status) ==
  IF Free(tb[i]) \/ tb[i].state = "ZOMBIE" THEN tb
  ELSE [j \in Slot |->
          LET t == IF j = i THEN Zombie(tb[i], status) ELSE tb[j]
          IN NotifyParent(wake_parent_waiters(Reparent(t, tb[i].pid), tb[i].pid),
                          tb[i].parent_pid)]

Holders(tb, pid) == {i \in Slot : ~Free(tb[i]) /\ tb[i].pid = pid}

\* A signal other than SIGKILL and SIGSTOP reaches task t.
Post(t, sig) ==
  LET c == IF sig = SIGCONT
           THEN LET d == [t EXCEPT !.pending = @ \ {SIGSTOP}]
                IN IF t.state = "STOPPED" THEN Wake(d) ELSE d
           ELSE t
      p == [c EXCEPT !.pending = @ \cup {sig}]
  IN IF sig \in {SIGCHLD, SIGCONT} /\ c.handler[sig] \in {SIG_DFL, SIG_IGN} THEN c
     ELSE IF p.state \in {"SLEEPING", "WAITING", "BLOCKED"} /\ sig \notin p.blocked
          THEN Wake(p) ELSE p

PostTo(tb, pid, sig) ==
  [i \in Slot |-> IF i \in Holders(tb, pid) /\ tb[i].state # "ZOMBIE"
                  THEN Post(tb[i], sig) ELSE tb[i]]

\* Mutant of Stop: a pending SIGCONT is kept.
StopKeepingContinue(t) ==
  [t EXCEPT !.state = "STOPPED", !.wait_reason = "NONE", !.wait_target = 0]

Stop(t) ==
  [t EXCEPT !.pending = @ \ {SIGCONT}, !.state = "STOPPED",
            !.wait_reason = "NONE", !.wait_target = 0]

\* SIGKILL terminates at once; SIGSTOP stops the task and tells its parent.
scheduler_send_signal(tb, i, sig) ==
  IF tb[i].state = "ZOMBIE" THEN tb
  ELSE IF sig = SIGKILL THEN scheduler_terminate_task(tb, i, 128 + SIGKILL)
  ELSE IF sig = SIGSTOP
  THEN LET stopped == [tb EXCEPT ![i] = Stop(@)]
       IN IF tb[i].parent_pid = 0 THEN stopped
          ELSE PostTo(stopped, tb[i].parent_pid, SIGCHLD)
  ELSE [tb EXCEPT ![i] = Post(@, sig)]

\* Mutant of next_pending_signal: the mask is not consulted.
NextPendingUnmasked(t) ==
  IF t.pending = {} THEN 0 ELSE CHOOSE s \in t.pending : \A r \in t.pending : s <= r

next_pending_signal(t) ==
  LET deliverable == t.pending \ t.blocked
  IN IF deliverable = {} THEN 0
     ELSE CHOOSE s \in deliverable : \A r \in deliverable : s <= r

\* One pending signal of task i is acted upon.  ring3: the frame to be resumed is
\* a ring 3 one; stack_ok: the handler's stack page is mapped or can be.
DeliverSignal(tb, i, ring3, stack_ok) ==
  LET t == tb[i]
      s == next_pending_signal(t)
      h == IF s = SIGKILL THEN SIG_DFL ELSE t.handler[s]
      taken == [tb EXCEPT ![i].pending = @ \ {s}]
  IN IF t.active # 0 \/ s = 0 THEN tb
     ELSE IF \/ s \in {SIGCHLD, SIGCONT} /\ h \in {SIG_DFL, SIG_IGN}
             \/ s \in {SIGPIPE, SIGINT, SIGTERM} /\ h = SIG_IGN
     THEN taken
     ELSE IF h \in {SIG_DFL, SIG_ERR} THEN scheduler_terminate_task(taken, i, 128 + s)
     ELSE IF ~ring3 THEN tb
     ELSE IF ~stack_ok THEN scheduler_terminate_task(taken, i, 128 + s)
     ELSE [taken EXCEPT ![i].active = s]

-----------------------------------------------------------------------------
\* Boot: kmain creates the idle thread, the network thread if there is a card,
\* and the shell, all with current_task still null.

Init ==
  LET shell == IF Network THEN 2 ELSE 1
  IN /\ tasks = [i \in Slot |->
                   IF i = idle_task_index \/ i = shell - 1 \/ i = shell
                   THEN NewTask(i + 1, 0, i = shell) ELSE UnusedTask]
     /\ task_count = shell + 1
     /\ next_pid = shell + 2
     /\ foreground_pid = shell + 1
     /\ current = None /\ attempts = None /\ index = None

me == tasks[current]

\* The current task executes ring 3 code: until the next tick it does so even if
\* a call has just put it to sleep or stopped it.
UserRuns == attempts = None /\ current # None /\ me.user /\ me.call = "none"

\* IF is set: ring 3 code, a kernel thread or a halted zombie is running.
Interruptible == attempts = None /\ (current # None => me.call = "none")

\* The way back to ring 3: scheduler_handle_syscall_signals.
SyscallReturn(tb) ==
  /\ \E stack_ok \in BOOLEAN : tasks' = DeliverSignal(tb, current, TRUE, stack_ok)
  /\ UNCHANGED <<current, attempts, index>>

WakeStdinReaders(tb) ==
  [i \in Slot |-> IF tb[i].state = "SLEEPING" /\ tb[i].wait_reason = "STDIN"
                  THEN Wake(tb[i]) ELSE tb[i]]

\* Mutant of StartTick: the loop starts at slot 0 instead of after the current task.
StartTickFromFirst(tb) ==
  /\ tasks' = [i \in Slot |-> IF i = current /\ tb[i].state = "RUNNING"
                             THEN [tb[i] EXCEPT !.state = "READY"] ELSE tb[i]]
  /\ attempts' = task_count /\ index' = None /\ UNCHANGED current

\* scheduler_tick up to its loop; serial: a character waits on the serial line.
StartTick(tb) ==
  /\ \E serial \in BOOLEAN :
       LET w == IF serial THEN WakeStdinReaders(tb) ELSE tb
       IN tasks' = [i \in Slot |-> IF i = current /\ w[i].state = "RUNNING"
                                   THEN [w[i] EXCEPT !.state = "READY"] ELSE w[i]]
  /\ attempts' = task_count
  /\ index' = current
  /\ UNCHANGED current

InsertTask(slot, pid, t) ==
  /\ SyscallReturn([tasks EXCEPT ![slot] = t])
  /\ task_count' = IF slot = task_count THEN task_count + 1 ELSE task_count
  /\ next_pid' = IF pid = MaxPid THEN 0 ELSE pid + 1
  /\ UNCHANGED foreground_pid

sys_spawn ==
  /\ UserRuns
  /\ \E slot \in allocate_task_slot, pid \in generate_pid :
       InsertTask(slot, pid, NewTask(pid, me.pid, TRUE))

sys_fork ==
  /\ UserRuns
  /\ \E slot \in allocate_task_slot, pid \in generate_pid :
       InsertTask(slot, pid,
         [me EXCEPT !.pid = pid, !.parent_pid = me.pid, !.state = "READY",
            !.wait_reason = "NONE", !.wait_target = 0, !.exit_status = 0,
            !.active = 0, !.pending = {}])

\* A call that leaves the table alone: one that fails (a full table or no memory
\* in fork and spawn included), or reads and writes elsewhere.
sys_other ==
  /\ UserRuns
  /\ SyscallReturn(tasks)
  /\ UNCHANGED <<task_count, next_pid, foreground_pid>>

sys_execve ==
  /\ UserRuns
  /\ SyscallReturn([tasks EXCEPT
       ![current].handler = [s \in Signal |-> IF @[s] = SIG_IGN THEN SIG_IGN ELSE SIG_DFL],
       ![current].active = 0])
  /\ UNCHANGED <<task_count, next_pid, foreground_pid>>

\* exit, and a ring 3 fault, which exits with -1.
scheduler_exit_current(status) ==
  /\ UserRuns
  /\ tasks' = scheduler_terminate_task(tasks, current, status)
  /\ UNCHANGED <<task_count, next_pid, current, foreground_pid, attempts, index>>

Children(pid) ==
  {i \in Slot : /\ ~Free(tasks[i]) /\ tasks[i].parent_pid = me.pid
                /\ pid # 0 => tasks[i].pid = pid}

\* What wait and waitpid do to the console's owner with their result.
ForegroundAfter(call, pid, result) ==
  IF call = "waitpid"
  THEN IF result # 0 /\ foreground_pid = result THEN me.pid ELSE foreground_pid
  ELSE IF result # 0 THEN pid
       ELSE IF foreground_pid = pid THEN me.pid ELSE foreground_pid

WaitReturn(tb, call, pid, result) ==
  /\ SyscallReturn([tb EXCEPT ![current].call = "none", ![current].call_pid = 0])
  /\ foreground_pid' = ForegroundAfter(call, pid, result)

\* One turn of scheduler_waitpid's loop for the call of the current task: reap
\* the first zombie child, fail without children, return with WNOHANG, or wait.
scheduler_waitpid(call, pid, nohang) ==
  LET children == Children(pid)
      zombies == {i \in children : tasks[i].state = "ZOMBIE"}
  IN /\ \/ \E z \in {i \in zombies : \A j \in zombies : i <= j} :
             WaitReturn([tasks EXCEPT ![z].state = "DEAD", ![z].pid = 0,
                           ![z].parent_pid = 0],
                        call, pid, tasks[z].pid)
        \/ /\ children = {} \/ (zombies = {} /\ nohang)
           /\ WaitReturn(tasks, call, pid, 0)
        \/ /\ children # {} /\ zombies = {} /\ ~nohang
           /\ StartTick([tasks EXCEPT ![current].state = "WAITING",
                           ![current].wait_reason = "CHILD",
                           ![current].wait_target = pid,
                           ![current].call = call, ![current].call_pid = pid])
           /\ UNCHANGED foreground_pid
     /\ UNCHANGED <<task_count, next_pid>>

sys_waitpid(pid, nohang) ==
  "waitpid" \in WaitCalls /\ UserRuns /\ scheduler_waitpid("waitpid", pid, nohang)
sys_wait(pid) == "wait" \in WaitCalls /\ UserRuns /\ scheduler_waitpid("wait", pid, FALSE)

\* Mutant of ResumeWait: a task that was woken yields again and does not look.
ResumeWaitAgain ==
  /\ attempts = None /\ current # None /\ me.call \in {"wait", "waitpid"}
  /\ StartTick(tasks)
  /\ UNCHANGED <<task_count, next_pid, foreground_pid>>

ResumeWait ==
  /\ attempts = None /\ current # None /\ me.call \in {"wait", "waitpid"}
  /\ scheduler_waitpid(me.call, me.call_pid, FALSE)

sys_yield ==
  /\ UserRuns
  /\ StartTick([tasks EXCEPT ![current].call = "yield"])
  /\ UNCHANGED <<task_count, next_pid, foreground_pid>>

ResumeYield ==
  /\ attempts = None /\ current # None /\ me.call = "yield"
  /\ SyscallReturn([tasks EXCEPT ![current].call = "none"])
  /\ UNCHANGED <<task_count, next_pid, foreground_pid>>

sys_kill(pid, sig) ==
  /\ UserRuns
  /\ \E i \in Holders(tasks, pid) :
       /\ tasks[i].state # "ZOMBIE"
       /\ SyscallReturn(scheduler_send_signal(tasks, i, sig))
       /\ foreground_pid' =
            IF sig \in {SIGKILL, SIGINT, SIGTERM, SIGPIPE} /\ foreground_pid = pid
            THEN me.pid ELSE foreground_pid
  /\ UNCHANGED <<task_count, next_pid>>

\* signal and sigaction.
sys_signal(sig, handler) ==
  /\ UserRuns
  /\ sig \notin {SIGKILL, SIGSTOP}
  /\ SyscallReturn([tasks EXCEPT ![current].handler[sig] = handler])
  /\ UNCHANGED <<task_count, next_pid, foreground_pid>>

sys_sigprocmask(how, set) ==
  LET new_set == set \ {SIGKILL, SIGSTOP}
  IN /\ UserRuns
     /\ SyscallReturn([tasks EXCEPT ![current].blocked =
          CASE how = "SIG_BLOCK"   -> @ \cup new_set
            [] how = "SIG_UNBLOCK" -> @ \ new_set
            [] how = "SIG_SETMASK" -> new_set])
     /\ UNCHANGED <<task_count, next_pid, foreground_pid>>

\* The handler is over; this call returns without looking at pending signals.
sys_sigreturn ==
  /\ UserRuns /\ me.active # 0
  /\ tasks' = [tasks EXCEPT ![current].active = 0]
  /\ UNCHANGED <<task_count, next_pid, current, foreground_pid, attempts, index>>

\* read(0) by the owner of the console with no character to read.
sys_read_stdin ==
  /\ UserRuns
  /\ foreground_pid \in {0, me.pid}
  /\ SyscallReturn([tasks EXCEPT ![current].state = "SLEEPING",
                      ![current].wait_reason = "STDIN", ![current].wait_target = 0])
  /\ UNCHANGED <<task_count, next_pid, foreground_pid>>

keyboard_queue_push ==
  /\ Interruptible
  /\ tasks' = WakeStdinReaders(tasks)
  /\ UNCHANGED <<task_count, next_pid, current, foreground_pid, attempts, index>>

\* Ctrl-C goes to the owner of the console, or to the current task.
keyboard_send_sigint ==
  LET owners == IF foreground_pid = 0 THEN {} ELSE Holders(tasks, foreground_pid)
  IN /\ Interruptible
     /\ foreground_pid' = IF owners = {} THEN 0 ELSE foreground_pid
     /\ \E i \in IF owners = {} THEN {current} ELSE owners :
          tasks' = IF i = None THEN tasks ELSE scheduler_send_signal(tasks, i, SIGINT)
     /\ UNCHANGED <<task_count, next_pid, current, attempts, index>>

-----------------------------------------------------------------------------
\* scheduler_tick: nothing else runs until its loop has chosen a task.

TimerTick ==
  /\ Interruptible
  /\ StartTick(tasks)
  /\ UNCHANGED <<task_count, next_pid, foreground_pid>>

Runnable(i) == i # idle_task_index /\ tasks[i].state \in {"READY", "RUNNING"}

\* The k-th candidate the loop looks at from here.
Candidate(k) == (index + k) % task_count

SwitchTo(tb, i) ==
  /\ tasks' = [tb EXCEPT ![i].state = "RUNNING"]
  /\ current' = i /\ attempts' = None /\ index' = None

\* The next runnable candidate first takes a pending signal; if that kills it the
\* loop goes on, else it is switched to.
TickCandidate ==
  /\ attempts # None
  /\ \E k \in 1..attempts, stack_ok \in BOOLEAN :
       /\ Runnable(Candidate(k)) /\ \A m \in 1..(k - 1) : ~Runnable(Candidate(m))
       /\ LET i == Candidate(k)
              t == tasks[i]
              tb == IF t.user /\ t.pending # {} /\ t.active = 0
                    THEN DeliverSignal(tasks, i, t.call = "none", stack_ok) ELSE tasks
          IN IF tb[i].state = "ZOMBIE"
             THEN /\ tasks' = tb /\ index' = i /\ attempts' = attempts - k
                  /\ UNCHANGED current
             ELSE SwitchTo(tb, i)
  /\ UNCHANGED <<task_count, next_pid, foreground_pid>>

\* No candidate: the idle thread runs, or, if it is gone, whoever was running.
TickIdle ==
  /\ attempts # None
  /\ \A k \in 1..attempts : ~Runnable(Candidate(k))
  /\ IF tasks[idle_task_index].state \notin {"ZOMBIE", "DEAD", "UNUSED"}
     THEN SwitchTo(tasks, idle_task_index)
     ELSE /\ attempts' = None /\ index' = None
          /\ UNCHANGED <<tasks, current>>
  /\ UNCHANGED <<task_count, next_pid, foreground_pid>>

scheduler_tick == TickCandidate \/ TickIdle

Syscall ==
  \/ sys_spawn \/ sys_fork \/ sys_execve \/ sys_yield \/ sys_sigreturn
  \/ sys_read_stdin \/ sys_other
  \/ \E status \in ExitCodes \cup {-1} : scheduler_exit_current(status)
  \/ \E pid \in Pid, nohang \in BOOLEAN : sys_waitpid(pid, nohang)
  \/ \E pid \in Pid : sys_wait(pid)
  \/ \E pid \in Pid \ {0}, sig \in Kills : sys_kill(pid, sig)
  \/ \E d \in Dispositions : sys_signal(d[1], d[2])
  \/ \E how \in {"SIG_BLOCK", "SIG_UNBLOCK", "SIG_SETMASK"}, set \in Masks :
       sys_sigprocmask(how, set)

Resume == ResumeWait \/ ResumeYield

Interrupt == TimerTick \/ keyboard_queue_push \/ keyboard_send_sigint

Next == Syscall \/ Resume \/ Interrupt \/ scheduler_tick

Spec == Init /\ [][Next]_vars

-----------------------------------------------------------------------------
\* Properties.

\* Every field keeps its type; task_count and the loop variables stay in range.
TypeOK ==
  /\ tasks \in [Slot -> Task]
  /\ task_count \in 1..MAX_TASKS
  /\ next_pid \in Pid
  /\ current \in Slot \cup {None}
  /\ foreground_pid \in Pid
  /\ attempts \in (0..MAX_TASKS) \cup {None}
  /\ index \in Slot \cup {None}

\* generate_pid, across wrap-around and slot reuse: no two live or zombie tasks
\* share a PID, and none has PID 0, which lookups take for "no such task".
PidsUnique ==
  /\ \A i \in Slot : ~Free(tasks[i]) => tasks[i].pid # 0
  /\ \A i, j \in Slot :
       ~Free(tasks[i]) /\ ~Free(tasks[j]) /\ tasks[i].pid = tasks[j].pid => i = j

\* Reparenting in scheduler_terminate_task: a task's parent_pid is 0 (created at
\* boot), 1 (adopted), or the PID of a task that has not terminated.  So a
\* recycled PID can never inherit, and reap, the children of its old owner.
ParentsLive ==
  \A i \in Slot : ~Free(tasks[i]) /\ tasks[i].parent_pid \notin {0, 1} =>
    \E j \in Slot : /\ tasks[j].pid = tasks[i].parent_pid
                    /\ ~Free(tasks[j]) /\ tasks[j].state # "ZOMBIE"

Awaited(i, j) ==
  /\ ~Free(tasks[j]) /\ tasks[j].parent_pid = tasks[i].pid
  /\ tasks[i].wait_target \in {0, tasks[j].pid}

\* No lost wake-up between scheduler_waitpid and scheduler_terminate_task: a task
\* that sleeps in waitpid has an unfinished child it waits for, and no finished one.
WaitersHaveLiveChild ==
  \A i \in Slot : tasks[i].state = "WAITING" =>
    /\ tasks[i].wait_reason = "CHILD"
    /\ \E j \in Slot : Awaited(i, j)
    /\ \A j \in Slot : Awaited(i, j) => tasks[j].state # "ZOMBIE"

\* The tick leaves one task RUNNING, the one current_task names; every other
\* task's state says why it does not run.
RunningIsCurrent == \A i \in Slot : tasks[i].state = "RUNNING" => i = current

ZombieStep ==
  \A i \in Slot : tasks[i].state = "ZOMBIE" =>
    \/ /\ tasks'[i].state = "ZOMBIE" /\ tasks'[i].pid = tasks[i].pid
       /\ tasks'[i].exit_status = tasks[i].exit_status
    \/ /\ Free(tasks'[i]) /\ current # None
       /\ tasks[i].parent_pid = tasks[current].pid

\* A zombie keeps its PID and its exit status until waitpid, called by its
\* parent, frees the slot; no other step revives or frees it.
ZombieReapedByParent == [][ZombieStep]_vars

Exits(i) == i = current /\ \E status \in ExitCodes \cup {-1} : scheduler_exit_current(status)

SignalDeathStep ==
  \A i \in Slot, s \in Signal :
    /\ tasks[i].state # "ZOMBIE" /\ tasks'[i].state = "ZOMBIE"
    /\ tasks'[i].exit_status = 128 + s /\ ~Exits(i)
    => s \notin tasks'[i].blocked

\* sigprocmask and next_pending_signal: a task that does not exit by itself dies of
\* signal s (status 128 + s) only if s is not in its mask when the step is over.
BlockedSignalsDoNotKill == [][SignalDeathStep]_vars

\* SIGSTOP cancels a SIGCONT still pending and SIGCONT resumes at once, so a
\* stopped task never holds the very signal that would resume it.
StoppedHoldsNoContinue ==
  \A i \in Slot : tasks[i].state = "STOPPED" => SIGCONT \notin tasks[i].pending

\* The timer keeps interrupting ring 3 code, and the kernel finishes what it began.
Fairness == WF_vars(TimerTick) /\ WF_vars(scheduler_tick) /\ WF_vars(Resume)

FairSpec == Spec /\ Fairness

\* Round robin: a task that is ready does not stay ready for ever, whatever the
\* other tasks do and however often the idle thread runs in between.
ReadyTasksRun ==
  \A i \in Slot \ {idle_task_index} :
    tasks[i].state = "READY" ~> tasks[i].state # "READY"

\* A task in wait or waitpid gets out of it once a child it asked for has exited.
WaitersReturn ==
  \A i \in Slot :
    /\ ~Free(tasks[i]) /\ tasks[i].call \in {"wait", "waitpid"}
    /\ \E j \in Slot : /\ tasks[j].state = "ZOMBIE"
                       /\ tasks[j].parent_pid = tasks[i].pid
                       /\ tasks[i].call_pid \in {0, tasks[j].pid}
    ~> tasks[i].call = "none" \/ tasks[i].state = "ZOMBIE"

=============================================================================
