--------------------------- MODULE SchedulerProofs ---------------------------
(***************************************************************************)
(* Proofs about Scheduler, for every size of the task table, range of PIDs *)
(* and set of signals.                                                     *)
(*                                                                         *)
(* The argument is about task tables: Sound(tb, r) says of a table what    *)
(* the theorems say of the variable tasks, with the facts that make it     *)
(* inductive.  A step changes the table through the helpers of Scheduler,  *)
(* each of which keeps it sound.  The last part is about signals in the    *)
(* same way: Calm(t) says of a task that it holds no SIGCONT while it is   *)
(* stopped, and every helper settles and spares the tasks it changes.      *)
(***************************************************************************)
EXTENDS Scheduler, TLAPS

Live(t) == ~Free(t) /\ t.state # "ZOMBIE"

\* A table in which PIDs are unique, parents live and waiters have a child to
\* wait for; slot 0 is the idle thread, PID 1, for ever; only live tasks have an
\* address space of their own; a WAITING task is inside wait or waitpid; no task
\* but r is RUNNING.
UniquePids(tb) ==
  /\ \A i \in Slot : ~Free(tb[i]) => tb[i].pid # 0
  /\ \A i, j \in Slot :
       ~Free(tb[i]) /\ ~Free(tb[j]) /\ tb[i].pid = tb[j].pid => i = j

LiveParents(tb) ==
  \A i \in Slot : ~Free(tb[i]) /\ tb[i].parent_pid \notin {0, 1} =>
    \E j \in Slot : tb[j].pid = tb[i].parent_pid /\ Live(tb[j])

AwaitedIn(tb, i, j) ==
  /\ ~Free(tb[j]) /\ tb[j].parent_pid = tb[i].pid
  /\ tb[i].wait_target \in {0, tb[j].pid}

WaitersServed(tb) ==
  \A i \in Slot : tb[i].state = "WAITING" =>
    /\ tb[i].wait_reason = "CHILD"
    /\ \E j \in Slot : AwaitedIn(tb, i, j)
    /\ \A j \in Slot : AwaitedIn(tb, i, j) => tb[j].state # "ZOMBIE"

IdleFirst(tb) ==
  /\ ~Free(tb[0]) /\ tb[0].pid = 1 /\ tb[0].parent_pid = 0
  /\ ~tb[0].user /\ tb[0].call = "none" /\ tb[0].state # "WAITING"

UsersLive(tb) == \A i \in Slot : tb[i].user => Live(tb[i])

WaitersInCall(tb) ==
  \A i \in Slot : tb[i].state = "WAITING" =>
    /\ tb[i].call \in {"wait", "waitpid"} /\ tb[i].wait_target = tb[i].call_pid

OnlyRunning(tb, r) == \A i \in Slot : tb[i].state = "RUNNING" => i = r

Sound(tb, r) ==
  /\ tb \in [Slot -> Task]
  /\ OnlyRunning(tb, r)
  /\ UniquePids(tb) /\ LiveParents(tb) /\ WaitersServed(tb)
  /\ IdleFirst(tb) /\ UsersLive(tb) /\ WaitersInCall(tb)

\* No slot is freed or taken, and a zombie stays the same zombie.
Keeps(tb, ub) ==
  \A i \in Slot :
    /\ Free(ub[i]) <=> Free(tb[i])
    /\ tb[i].state = "ZOMBIE" =>
         /\ ub[i].state = "ZOMBIE" /\ ub[i].pid = tb[i].pid
         /\ ub[i].exit_status = tb[i].exit_status

-----------------------------------------------------------------------------
\* A task changes in a way that no other task's soundness depends on.
Mild(t, u) ==
  /\ u.pid = t.pid /\ u.parent_pid = t.parent_pid /\ u.user = t.user
  /\ Free(u) <=> Free(t)
  /\ u.state = "ZOMBIE" <=> t.state = "ZOMBIE"
  /\ u.state = "RUNNING" => t.state = "RUNNING"
  /\ t.state = "ZOMBIE" => u.exit_status = t.exit_status
  /\ u.state = "WAITING" =>
       /\ t.state = "WAITING" /\ u.wait_reason = t.wait_reason
       /\ u.wait_target = t.wait_target
       /\ u.call = t.call /\ u.call_pid = t.call_pid

LEMMA SlotFacts == 0 \in Slot /\ Slot \subseteq Int /\ None \notin Slot
  BY SchedulerAssumption DEF Slot, None

LEMMA PidFacts == 0 \in Pid /\ 1 \in Pid /\ Pid \subseteq Int
  BY SchedulerAssumption DEF Pid

\* Mild changes keep a table sound, provided the idle thread stays out of calls.
LEMMA MildKeepsSound ==
  ASSUME NEW tb, NEW r, Sound(tb, r), NEW ub \in [Slot -> Task],
         \A i \in Slot : Mild(tb[i], ub[i]), ub[0].call = "none"
  PROVE  Sound(ub, r) /\ Keeps(tb, ub)
<1>1. UniquePids(ub)
  BY ZenonT(60) DEF Sound, UniquePids, Mild
<1>2. LiveParents(ub)
  BY DEF Sound, LiveParents, Mild, Live
<1>3. WaitersServed(ub)
  BY DEF Sound, WaitersServed, AwaitedIn, Mild
<1>4. IdleFirst(ub)
  BY Zenon, SlotFacts DEF Sound, IdleFirst, Mild
<1>5. UsersLive(ub)
  BY Zenon DEF Sound, UsersLive, Mild, Live
<1>6. WaitersInCall(ub)
  BY DEF Sound, WaitersInCall, Mild
<1>7. OnlyRunning(ub, r)
  BY Zenon DEF Sound, OnlyRunning, Mild
<1>8. Keeps(tb, ub)
  BY Zenon DEF Keeps, Mild
<1> QED BY Zenon, <1>1, <1>2, <1>3, <1>4, <1>5, <1>6, <1>7, <1>8 DEF Sound

LEMMA KeepsTrans ==
  ASSUME NEW tb, NEW ub, NEW wb, Keeps(tb, ub), Keeps(ub, wb)
  PROVE  Keeps(tb, wb)
  BY Zenon DEF Keeps

LEMMA KeepsRefl == ASSUME NEW tb PROVE Keeps(tb, tb)
  BY Zenon DEF Keeps

-----------------------------------------------------------------------------
\* The helpers that change one task.

LEMMA MildRefl == ASSUME NEW t PROVE Mild(t, t)
  BY Zenon DEF Mild

LEMMA WakeMild ==
  ASSUME NEW t \in Task, Live(t)
  PROVE  Wake(t) \in Task /\ Mild(t, Wake(t)) /\ Wake(t).call = t.call
<1>1. Wake(t) \in Task
  BY Zenon, PidFacts DEF Task, TaskState, WaitReason, Wake
<1>2. /\ Wake(t).state = "READY" /\ Wake(t).pid = t.pid /\ Wake(t).call = t.call
      /\ Wake(t).parent_pid = t.parent_pid /\ Wake(t).user = t.user
  BY Zenon DEF Task, Wake
<1> QED BY Zenon, <1>1, <1>2 DEF Mild, Live, Free

LEMMA StopMild ==
  ASSUME NEW t \in Task, Live(t)
  PROVE  Stop(t) \in Task /\ Mild(t, Stop(t)) /\ Stop(t).call = t.call
<1>1. Stop(t) \in Task
  BY ZenonT(60), PidFacts DEF Task, TaskState, WaitReason, Stop
<1>2. /\ Stop(t).state = "STOPPED" /\ Stop(t).pid = t.pid /\ Stop(t).call = t.call
      /\ Stop(t).parent_pid = t.parent_pid /\ Stop(t).user = t.user
  BY Zenon DEF Task, Stop
<1> QED BY Zenon, <1>1, <1>2 DEF Mild, Live, Free

LEMMA PendMild ==
  ASSUME NEW t \in Task, NEW S \in SUBSET Signal
  PROVE  LET u == [t EXCEPT !.pending = S]
         IN u \in Task /\ Mild(t, u) /\ u.call = t.call /\ u.state = t.state
  BY Zenon DEF Task, Mild, Free

LEMMA PostMild ==
  ASSUME NEW t \in Task, Live(t), NEW sig \in Signal
  PROVE  Post(t, sig) \in Task /\ Mild(t, Post(t, sig)) /\ Post(t, sig).call = t.call
<1> DEFINE d == [t EXCEPT !.pending = @ \ {SIGSTOP}]
           c == IF sig = SIGCONT THEN IF t.state = "STOPPED" THEN Wake(d) ELSE d ELSE t
           p == [c EXCEPT !.pending = @ \cup {sig}]
<1>1. d \in Task /\ Live(d) /\ Mild(t, d) /\ d.call = t.call
  <2>1. t.pending \ {SIGSTOP} \in SUBSET Signal
    BY Zenon DEF Task
  <2> QED BY Zenon, <2>1, PendMild DEF Live, Free
<1>2. c \in Task /\ Live(c) /\ Mild(t, c) /\ c.call = t.call
  <2>1. Wake(d) \in Task /\ Mild(d, Wake(d)) /\ Wake(d).call = d.call
    BY Zenon, <1>1, WakeMild
  <2> QED BY Zenon, <1>1, <2>1, MildRefl DEF Mild, Live
<1> HIDE DEF c, d
<1>3. p \in Task /\ Live(p) /\ Mild(c, p) /\ p.call = c.call
  <2>1. c.pending \cup {sig} \in SUBSET Signal
    BY Zenon, <1>2 DEF Task
  <2> QED BY Zenon, <1>2, <2>1, PendMild DEF Live, Free
<1> HIDE DEF p
<1>4. Wake(p) \in Task /\ Mild(p, Wake(p)) /\ Wake(p).call = p.call
  BY Zenon, <1>3, WakeMild
<1>5. Post(t, sig) \in {c, p, Wake(p)}
  BY Zenon DEF Post, c, d, p
<1> QED BY <1>2, <1>3, <1>4, <1>5 DEF Mild

-----------------------------------------------------------------------------
\* Termination.

LEMMA ZombieFields ==
  ASSUME NEW t \in Task, NEW status \in Int
  PROVE  LET z == Zombie(t, status)
         IN /\ z \in Task /\ z.state = "ZOMBIE" /\ z.pid = t.pid
            /\ z.parent_pid = t.parent_pid /\ z.user = FALSE /\ z.call = t.call
  BY ZenonT(60), PidFacts DEF Zombie, Task, TaskState, WaitReason

LEMMA ReparentFields ==
  ASSUME NEW t \in Task, NEW e \in Pid
  PROVE  LET u == Reparent(t, e)
         IN /\ u \in Task
            /\ u.parent_pid = IF ~Free(t) /\ t.parent_pid = e THEN 1 ELSE t.parent_pid
            /\ u.pid = t.pid /\ u.user = t.user /\ u.state = t.state
            /\ u.wait_reason = t.wait_reason /\ u.wait_target = t.wait_target
            /\ u.call = t.call /\ u.call_pid = t.call_pid
            /\ u.exit_status = t.exit_status
  BY Zenon, PidFacts DEF Reparent, Task

LEMMA WakeWaiterFields ==
  ASSUME NEW t \in Task, NEW e \in Pid
  PROVE  LET u == wake_parent_waiters(t, e)
         IN /\ u \in Task /\ Mild(t, u) /\ u.call = t.call
            /\ u.state = "WAITING" =>
                 ~(t.wait_reason = "CHILD" /\ t.wait_target \in {e, 0})
<1>1. CASE /\ t.state \in {"SLEEPING", "WAITING"} /\ t.wait_reason = "CHILD"
           /\ t.wait_target \in {e, 0}
  <2>1. wake_parent_waiters(t, e) = Wake(t)
    BY Zenon, <1>1 DEF wake_parent_waiters
  <2>2. Live(t)
    BY Zenon, <1>1 DEF Live, Free
  <2>3. Wake(t).state = "READY"
    BY Zenon DEF Wake, Task
  <2> QED BY Zenon, <2>1, <2>2, <2>3, WakeMild
<1>2. CASE ~(/\ t.state \in {"SLEEPING", "WAITING"} /\ t.wait_reason = "CHILD"
             /\ t.wait_target \in {e, 0})
  <2>1. wake_parent_waiters(t, e) = t
    BY Zenon, <1>2 DEF wake_parent_waiters
  <2> QED BY Zenon, <1>2, <2>1, MildRefl
<1> QED BY Zenon, <1>1, <1>2

LEMMA NotifyFields ==
  ASSUME NEW t \in Task, NEW q \in Pid
  PROVE  LET u == NotifyParent(t, q)
         IN u \in Task /\ Mild(t, u) /\ u.call = t.call /\ u.state = t.state
<1>1. SIGCHLD \in Signal
  BY Zenon, SchedulerAssumption
<1>2. t.pending \cup {SIGCHLD} \in SUBSET Signal
  BY Zenon, <1>1 DEF Task
<1> QED BY Zenon, <1>2, PendMild, MildRefl DEF NotifyParent

\* What terminating task i of tb does to each slot.
Terminated(tb, ub, i) ==
  /\ ub \in [Slot -> Task]
  /\ \A j \in Slot :
       /\ ub[j].pid = tb[j].pid /\ ub[j].call = tb[j].call
       /\ ub[j].parent_pid = IF ~Free(tb[j]) /\ tb[j].parent_pid = tb[i].pid THEN 1
                             ELSE tb[j].parent_pid
       /\ Free(ub[j]) <=> Free(tb[j])
       /\ ub[j].state = "ZOMBIE" <=> tb[j].state = "ZOMBIE" \/ j = i
       /\ ub[j].user = IF j = i THEN FALSE ELSE tb[j].user
       /\ ub[j].state = "RUNNING" => tb[j].state = "RUNNING"
       /\ tb[j].state = "ZOMBIE" => ub[j].exit_status = tb[j].exit_status
       /\ ub[j].state = "WAITING" =>
            /\ j # i /\ tb[j].state = "WAITING"
            /\ ub[j].wait_reason = tb[j].wait_reason
            /\ ub[j].wait_target = tb[j].wait_target
            /\ ub[j].call_pid = tb[j].call_pid
            /\ ~(tb[j].wait_reason = "CHILD" /\ tb[j].wait_target \in {tb[i].pid, 0})

LEMMA TerminateFields ==
  ASSUME NEW tb \in [Slot -> Task], NEW i \in Slot, Live(tb[i]), NEW status \in Int
  PROVE  Terminated(tb, scheduler_terminate_task(tb, i, status), i)
<1> DEFINE e == tb[i].pid
           q == tb[i].parent_pid
           T(k) == IF k = i THEN Zombie(tb[i], status) ELSE tb[k]
           R(k) == Reparent(T(k), e)
           W(k) == wake_parent_waiters(R(k), e)
           N(k) == NotifyParent(W(k), q)
           ub == scheduler_terminate_task(tb, i, status)
<1>0. e \in Pid /\ q \in Pid /\ \A k \in Slot : tb[k] \in Task
  BY Zenon DEF Task
<1>1. ub = [k \in Slot |-> N(k)]
  BY Zenon DEF scheduler_terminate_task, Live
<1>2. \A k \in Slot :
        /\ T(k) \in Task /\ T(k).pid = tb[k].pid /\ T(k).parent_pid = tb[k].parent_pid
        /\ T(k).call = tb[k].call
        /\ k = i => T(k).state = "ZOMBIE" /\ T(k).user = FALSE
        /\ k # i => T(k) = tb[k]
  <2> DEFINE z == Zombie(tb[i], status)
  <2>1. /\ z \in Task /\ z.state = "ZOMBIE" /\ z.pid = tb[i].pid
        /\ z.parent_pid = tb[i].parent_pid /\ z.user = FALSE /\ z.call = tb[i].call
    BY Zenon, <1>0, ZombieFields
  <2> HIDE DEF z
  <2>2. \A k \in Slot : T(k) = IF k = i THEN z ELSE tb[k]
    BY Zenon DEF z
  <2> QED BY Zenon, <1>0, <2>1, <2>2
<1> HIDE DEF T
<1>3. \A k \in Slot : R(k) \in Task
  BY Zenon, <1>0, <1>2, ReparentFields
<1>4. \A k \in Slot : W(k) \in Task
  <2> HIDE DEF R
  <2> QED BY Zenon, <1>0, <1>3, WakeWaiterFields
<1>5. \A k \in Slot : N(k) \in Task
  <2> HIDE DEF W
  <2> QED BY Zenon, <1>0, <1>4, NotifyFields
<1>6. ub \in [Slot -> Task] /\ \A k \in Slot : ub[k] = N(k)
  <2> HIDE DEF N, ub
  <2> QED BY Zenon, <1>1, <1>5
<1> SUFFICES ASSUME NEW j \in Slot
             PROVE  /\ ub[j].pid = tb[j].pid /\ ub[j].call = tb[j].call
                    /\ ub[j].parent_pid =
                         IF ~Free(tb[j]) /\ tb[j].parent_pid = e THEN 1
                         ELSE tb[j].parent_pid
                    /\ Free(ub[j]) <=> Free(tb[j])
                    /\ ub[j].state = "ZOMBIE" <=> tb[j].state = "ZOMBIE" \/ j = i
                    /\ ub[j].user = IF j = i THEN FALSE ELSE tb[j].user
                    /\ ub[j].state = "RUNNING" => tb[j].state = "RUNNING"
                    /\ tb[j].state = "ZOMBIE" => ub[j].exit_status = tb[j].exit_status
                    /\ ub[j].state = "WAITING" =>
                         /\ j # i /\ tb[j].state = "WAITING"
                         /\ ub[j].wait_reason = tb[j].wait_reason
                         /\ ub[j].wait_target = tb[j].wait_target
                         /\ ub[j].call_pid = tb[j].call_pid
                         /\ ~(tb[j].wait_reason = "CHILD" /\ tb[j].wait_target \in {e, 0})
  <2> HIDE DEF ub
  <2> QED BY Zenon, <1>6 DEF Terminated, ub
<1>7. /\ R(j).parent_pid = IF ~Free(T(j)) /\ T(j).parent_pid = e THEN 1 ELSE T(j).parent_pid
      /\ R(j).pid = T(j).pid /\ R(j).user = T(j).user /\ R(j).state = T(j).state
      /\ R(j).wait_reason = T(j).wait_reason /\ R(j).wait_target = T(j).wait_target
      /\ R(j).call = T(j).call /\ R(j).call_pid = T(j).call_pid
      /\ R(j).exit_status = T(j).exit_status
  BY SMTT(60), <1>0, <1>2, ReparentFields
<1> HIDE DEF R
<1>8. /\ Mild(R(j), W(j)) /\ W(j).call = R(j).call
      /\ W(j).state = "WAITING" =>
           ~(R(j).wait_reason = "CHILD" /\ R(j).wait_target \in {e, 0})
  BY Zenon, <1>0, <1>3, WakeWaiterFields
<1> HIDE DEF W
<1>9. Mild(W(j), N(j)) /\ N(j).call = W(j).call /\ N(j).state = W(j).state
  BY Zenon, <1>0, <1>4, NotifyFields
<1> HIDE DEF N, ub
<1>10. /\ Free(R(j)) <=> Free(tb[j])
       /\ R(j).state = "ZOMBIE" <=> tb[j].state = "ZOMBIE" \/ j = i
       /\ R(j).parent_pid = IF ~Free(tb[j]) /\ tb[j].parent_pid = e THEN 1
                            ELSE tb[j].parent_pid
  BY ZenonT(60), <1>2, <1>7 DEF Live, Free
<1>11. ub[j].state = "WAITING" =>
         /\ j # i /\ tb[j].state = "WAITING"
         /\ ub[j].wait_reason = tb[j].wait_reason
         /\ ub[j].wait_target = tb[j].wait_target
         /\ ub[j].call_pid = tb[j].call_pid
         /\ ~(tb[j].wait_reason = "CHILD" /\ tb[j].wait_target \in {e, 0})
  BY <1>2, <1>6, <1>7, <1>8, <1>9 DEF Mild
<1>12. /\ ub[j].pid = tb[j].pid /\ ub[j].call = tb[j].call
       /\ ub[j].parent_pid = R(j).parent_pid
       /\ Free(ub[j]) <=> Free(R(j))
       /\ ub[j].state = "ZOMBIE" <=> R(j).state = "ZOMBIE"
       /\ ub[j].user = IF j = i THEN FALSE ELSE tb[j].user
  <2>1. /\ ub[j].pid = R(j).pid /\ ub[j].call = R(j).call
        /\ ub[j].parent_pid = R(j).parent_pid /\ ub[j].user = R(j).user
        /\ Free(ub[j]) <=> Free(R(j))
        /\ ub[j].state = "ZOMBIE" <=> R(j).state = "ZOMBIE"
    BY Zenon, <1>6, <1>8, <1>9 DEF Mild
  <2> QED BY Zenon, <1>2, <1>7, <2>1
<1>13. /\ ub[j].parent_pid = IF ~Free(tb[j]) /\ tb[j].parent_pid = e THEN 1
                             ELSE tb[j].parent_pid
       /\ Free(ub[j]) <=> Free(tb[j])
       /\ ub[j].state = "ZOMBIE" <=> tb[j].state = "ZOMBIE" \/ j = i
  BY Zenon, <1>10, <1>12
<1>14. /\ ub[j].state = "RUNNING" => tb[j].state = "RUNNING"
       /\ tb[j].state = "ZOMBIE" => ub[j].exit_status = tb[j].exit_status
  BY <1>2, <1>6, <1>7, <1>8, <1>9 DEF Mild, Live
<1> QED BY Zenon, <1>11, <1>12, <1>13, <1>14

LEMMA TerminateKeepsSound ==
  ASSUME NEW tb, NEW r, Sound(tb, r), NEW i \in Slot, NEW status \in Int
  PROVE  /\ Sound(scheduler_terminate_task(tb, i, status), r)
         /\ Keeps(tb, scheduler_terminate_task(tb, i, status))
<1> DEFINE ub == scheduler_terminate_task(tb, i, status)
           e == tb[i].pid
<1>1. CASE ~Live(tb[i])
  BY Zenon, <1>1, KeepsRefl DEF scheduler_terminate_task, Live
<1>2. CASE Live(tb[i])
  <2>0. tb \in [Slot -> Task]
    BY Zenon DEF Sound
  <2>1. Terminated(tb, ub, i)
    BY Zenon, <1>2, <2>0, TerminateFields
  <2> HIDE DEF ub
  <2>2. e # 0 /\ ~Free(tb[i])
    BY Zenon, <1>2 DEF Sound, UniquePids, Live
  <2>3. UniquePids(ub)
    <3>1. \A j \in Slot : ub[j].pid = tb[j].pid /\ (Free(ub[j]) <=> Free(tb[j]))
      BY Zenon, <2>1 DEF Terminated
    <3> QED BY Zenon, <3>1 DEF Sound, UniquePids
  <2>4. LiveParents(ub)
    <3> SUFFICES ASSUME NEW j \in Slot, ~Free(ub[j]), ub[j].parent_pid \notin {0, 1}
                 PROVE  \E k \in Slot : ub[k].pid = ub[j].parent_pid /\ Live(ub[k])
      BY Zenon DEF LiveParents
    <3>1. ~Free(tb[j]) /\ tb[j].parent_pid # e /\ ub[j].parent_pid = tb[j].parent_pid
      BY Zenon, <2>1 DEF Terminated
    <3>2. PICK k \in Slot : tb[k].pid = tb[j].parent_pid /\ Live(tb[k])
      BY Zenon, <3>1 DEF Sound, LiveParents
    <3>3. k # i
      BY Zenon, <3>1, <3>2
    <3> QED BY ZenonT(60), <2>1, <3>1, <3>2, <3>3 DEF Terminated, Live
  <2>5. IdleFirst(ub)
    BY Zenon, <2>1, <2>2, SlotFacts DEF Terminated, Sound, IdleFirst
  <2>6. UsersLive(ub)
    BY ZenonT(60), <2>1 DEF Terminated, Sound, UsersLive, Live
  <2>7. WaitersInCall(ub)
    <3>1. WaitersInCall(tb)
      BY Zenon DEF Sound
    <3>2. \A j \in Slot : ub[j].state = "WAITING" =>
            /\ tb[j].state = "WAITING" /\ ub[j].call = tb[j].call
            /\ ub[j].wait_target = tb[j].wait_target /\ ub[j].call_pid = tb[j].call_pid
      BY Zenon, <2>1 DEF Terminated
    <3> QED BY Zenon, <3>1, <3>2 DEF WaitersInCall
  <2>8. WaitersServed(ub)
    <3> SUFFICES ASSUME NEW k \in Slot, ub[k].state = "WAITING"
                 PROVE  /\ ub[k].wait_reason = "CHILD"
                        /\ \E j \in Slot : AwaitedIn(ub, k, j)
                        /\ \A j \in Slot : AwaitedIn(ub, k, j) => ub[j].state # "ZOMBIE"
      BY Zenon DEF WaitersServed
    <3>1. /\ k # i /\ tb[k].state = "WAITING" /\ tb[k].wait_reason = "CHILD"
          /\ ub[k].wait_reason = "CHILD" /\ ub[k].wait_target = tb[k].wait_target
          /\ tb[k].wait_target \notin {e, 0} /\ ub[k].pid = tb[k].pid
      <4>1. WaitersServed(tb)
        BY Zenon DEF Sound
      <4>2. /\ k # i /\ tb[k].state = "WAITING" /\ ub[k].wait_reason = tb[k].wait_reason
            /\ ub[k].wait_target = tb[k].wait_target /\ ub[k].pid = tb[k].pid
            /\ ~(tb[k].wait_reason = "CHILD" /\ tb[k].wait_target \in {e, 0})
        BY Zenon, <2>1 DEF Terminated
      <4> QED BY Zenon, <4>1, <4>2 DEF WaitersServed
    <3>2. ~Free(tb[k]) /\ tb[k].pid # e
      <4>1. ~Free(tb[k])
        BY Zenon, <3>1 DEF Free
      <4> QED BY Zenon, <2>2, <3>1, <4>1 DEF Sound, UniquePids
    <3>3. tb[k].pid # 1
      <4>1. k # 0
        BY Zenon, <3>1 DEF Sound, IdleFirst
      <4> QED BY Zenon, <3>2, <4>1, SlotFacts DEF Sound, UniquePids, IdleFirst
    <3>4. \A j \in Slot : AwaitedIn(ub, k, j) <=> AwaitedIn(tb, k, j)
      BY ZenonT(60), <2>1, <3>1, <3>2, <3>3 DEF Terminated, AwaitedIn
    <3>5. \A j \in Slot : AwaitedIn(tb, k, j) => j # i
      BY Zenon, <3>1 DEF AwaitedIn
    <3>6. /\ \E j \in Slot : AwaitedIn(tb, k, j)
          /\ \A j \in Slot : AwaitedIn(tb, k, j) => tb[j].state # "ZOMBIE"
      BY Zenon, <3>1 DEF Sound, WaitersServed
    <3> QED BY Zenon, <2>1, <3>1, <3>4, <3>5, <3>6 DEF Terminated
  <2>9. OnlyRunning(ub, r)
    BY Zenon, <2>1 DEF Terminated, Sound, OnlyRunning
  <2>10. Keeps(tb, ub)
    BY Zenon, <2>1 DEF Terminated, Keeps
  <2>11. ub \in [Slot -> Task]
    BY Zenon, <2>1 DEF Terminated
  <2> QED BY Zenon, <2>3, <2>4, <2>5, <2>6, <2>7, <2>8, <2>9, <2>10, <2>11 DEF Sound, ub
<1> QED BY Zenon, <1>1, <1>2

-----------------------------------------------------------------------------
\* Signals.

LEMMA NonemptyHasLeast ==
  ASSUME NEW S \in SUBSET Signal, S # {}
  PROVE  \E s \in S : \A r \in S : s <= r
<1>1. \A s \in S : s \in Int /\ 1 <= s /\ s <= 31
  BY SchedulerAssumption
<1> SUFFICES ASSUME \A s \in S : \E r \in S : r < s PROVE FALSE
  BY <1>1
<1>2. \E s \in S : s <= 23
  BY <1>1
<1>3. \E s \in S : s <= 15
  BY <1>1, <1>2
<1>4. \E s \in S : s <= 7
  BY <1>1, <1>3
<1> QED BY <1>1, <1>4

LEMMA NextPendingType ==
  ASSUME NEW t \in Task
  PROVE  next_pending_signal(t) \in Signal \cup {0}
<1> DEFINE D == t.pending \ t.blocked
<1>1. D \in SUBSET Signal
  BY Zenon DEF Task
<1>2. CASE D = {}
  BY Zenon, <1>2 DEF next_pending_signal
<1>3. CASE D # {}
  <2> HIDE DEF D
  <2>1. \E s \in D : \A r \in D : s <= r
    BY Zenon, <1>1, <1>3, NonemptyHasLeast
  <2>2. (CHOOSE s \in D : \A r \in D : s <= r) \in D
    BY Zenon, <2>1
  <2> QED BY Zenon, <1>1, <1>3, <2>2 DEF next_pending_signal, D
<1> QED BY Zenon, <1>2, <1>3

\* One live task changed by a mild step.
LEMMA OneMildKeepsSound ==
  ASSUME NEW tb, NEW r, Sound(tb, r), NEW i \in Slot, NEW u \in Task, Mild(tb[i], u),
         i = 0 => u.call = "none"
  PROVE  Sound([tb EXCEPT ![i] = u], r) /\ Keeps(tb, [tb EXCEPT ![i] = u])
<1> DEFINE ub == [tb EXCEPT ![i] = u]
<1>1. ub \in [Slot -> Task]
  BY Zenon DEF Sound
<1>2. \A j \in Slot : Mild(tb[j], ub[j])
  BY Zenon, MildRefl DEF Sound
<1>3. ub[0].call = "none"
  BY Zenon, SlotFacts DEF Sound, IdleFirst
<1> HIDE DEF ub
<1>4. Sound(ub, r) /\ Keeps(tb, ub)
  BY Zenon, <1>1, <1>2, <1>3, MildKeepsSound
<1> QED BY Zenon, <1>4 DEF ub

LEMMA PostToKeepsSound ==
  ASSUME NEW tb, NEW r, Sound(tb, r), NEW pid, NEW sig \in Signal
  PROVE  Sound(PostTo(tb, pid, sig), r) /\ Keeps(tb, PostTo(tb, pid, sig))
<1> DEFINE ub == PostTo(tb, pid, sig)
           P(i) == i \in Holders(tb, pid) /\ tb[i].state # "ZOMBIE"
<1>0. tb \in [Slot -> Task]
  BY Zenon DEF Sound
<1>1. \A i \in Slot : P(i) => Live(tb[i])
  BY Zenon DEF Holders, Live
<1>2. \A i \in Slot : P(i) => /\ Post(tb[i], sig) \in Task
                              /\ Mild(tb[i], Post(tb[i], sig))
                              /\ Post(tb[i], sig).call = tb[i].call
  <2> HIDE DEF P
  <2> QED BY Zenon, <1>0, <1>1, PostMild
<1>3. ub = [i \in Slot |-> IF P(i) THEN Post(tb[i], sig) ELSE tb[i]]
  BY Zenon DEF PostTo
<1> HIDE DEF ub, P
<1>4. ub \in [Slot -> Task] /\ \A i \in Slot : Mild(tb[i], ub[i]) /\ ub[i].call = tb[i].call
  BY Zenon, <1>0, <1>2, <1>3, MildRefl
<1>5. ub[0].call = "none"
  BY Zenon, <1>4, SlotFacts DEF Sound, IdleFirst
<1>6. Sound(ub, r) /\ Keeps(tb, ub)
  BY Zenon, <1>4, <1>5, MildKeepsSound
<1> QED BY Zenon, <1>6 DEF ub

LEMMA SendKeepsSound ==
  ASSUME NEW tb, NEW r, Sound(tb, r), NEW i \in Slot, ~Free(tb[i]), NEW sig \in Signal
  PROVE  /\ Sound(scheduler_send_signal(tb, i, sig), r)
         /\ Keeps(tb, scheduler_send_signal(tb, i, sig))
<1>0. tb[i] \in Task /\ (i = 0 => tb[i].call = "none")
  BY Zenon DEF Sound, IdleFirst
<1>1. CASE tb[i].state = "ZOMBIE"
  BY Zenon, <1>1, KeepsRefl DEF scheduler_send_signal
<1>2. CASE tb[i].state # "ZOMBIE" /\ sig = SIGKILL
  <2>1. 128 + SIGKILL \in Int
    BY DEF SIGKILL
  <2>2. scheduler_send_signal(tb, i, sig) = scheduler_terminate_task(tb, i, 128 + SIGKILL)
    BY Zenon, <1>2 DEF scheduler_send_signal
  <2> QED BY <2>1, <2>2, TerminateKeepsSound
<1>3. CASE tb[i].state # "ZOMBIE" /\ sig # SIGKILL /\ sig = SIGSTOP
  <2> DEFINE stopped == [tb EXCEPT ![i] = Stop(tb[i])]
             posted == PostTo(stopped, tb[i].parent_pid, SIGCHLD)
  <2>1. Stop(tb[i]) \in Task /\ Mild(tb[i], Stop(tb[i])) /\ Stop(tb[i]).call = tb[i].call
    BY Zenon, <1>0, <1>3, StopMild DEF Live
  <2>2. Sound(stopped, r) /\ Keeps(tb, stopped)
    BY Zenon, <1>0, <2>1, OneMildKeepsSound
  <2>3. scheduler_send_signal(tb, i, sig) = IF tb[i].parent_pid = 0 THEN stopped ELSE posted
    BY Zenon, <1>3 DEF scheduler_send_signal
  <2> HIDE DEF stopped
  <2>4. Sound(posted, r) /\ Keeps(stopped, posted)
    <3>1. SIGCHLD \in Signal
      BY Zenon, SchedulerAssumption
    <3> QED BY Zenon, <2>2, <3>1, PostToKeepsSound
  <2> HIDE DEF posted
  <2> QED BY <2>2, <2>3, <2>4, KeepsTrans
<1>4. CASE tb[i].state # "ZOMBIE" /\ sig # SIGKILL /\ sig # SIGSTOP
  <2>1. /\ Post(tb[i], sig) \in Task /\ Mild(tb[i], Post(tb[i], sig))
        /\ Post(tb[i], sig).call = tb[i].call
    BY Zenon, <1>0, <1>4, PostMild DEF Live
  <2>2. scheduler_send_signal(tb, i, sig) = [tb EXCEPT ![i] = Post(tb[i], sig)]
    BY Zenon, <1>4 DEF scheduler_send_signal
  <2>3. /\ Sound([tb EXCEPT ![i] = Post(tb[i], sig)], r)
        /\ Keeps(tb, [tb EXCEPT ![i] = Post(tb[i], sig)])
    BY Zenon, <1>0, <2>1, OneMildKeepsSound
  <2> QED BY Zenon, <2>2, <2>3
<1> QED BY Zenon, <1>1, <1>2, <1>3, <1>4

LEMMA DeliverKeepsSound ==
  ASSUME NEW tb, NEW r, Sound(tb, r), NEW i \in Slot, NEW ring3, NEW stack_ok
  PROVE  /\ Sound(DeliverSignal(tb, i, ring3, stack_ok), r)
         /\ Keeps(tb, DeliverSignal(tb, i, ring3, stack_ok))
<1> DEFINE t == tb[i]
           s == next_pending_signal(t)
           u == [t EXCEPT !.pending = @ \ {s}]
           v == [u EXCEPT !.active = s]
           taken == [tb EXCEPT ![i] = u]
           dead == scheduler_terminate_task(taken, i, 128 + s)
           caught == [tb EXCEPT ![i] = v]
<1>0. tb \in [Slot -> Task] /\ t \in Task /\ (i = 0 => t.call = "none")
  BY Zenon DEF Sound, IdleFirst
<1>1. s \in Signal \cup {0}
  BY Zenon, <1>0, NextPendingType
<1>2. DeliverSignal(tb, i, ring3, stack_ok) \in {tb, taken, dead, [taken EXCEPT ![i].active = s]}
  BY Zenon DEF DeliverSignal
<1> HIDE DEF s
<1>3. u \in Task /\ Mild(t, u) /\ u.call = t.call /\ u.state = t.state
  <2>1. t.pending \ {s} \in SUBSET Signal
    BY Zenon, <1>0 DEF Task
  <2> QED BY Zenon, <1>0, <2>1, PendMild
<1>4. v \in Task /\ Mild(t, v) /\ v.call = t.call
  <2> HIDE DEF t, u
  <2> QED BY ZenonT(60), <1>1, <1>3 DEF Task, Mild, Free
<1>5. Sound(taken, r) /\ Keeps(tb, taken)
  BY Zenon, <1>0, <1>3, OneMildKeepsSound
<1>6. Sound(caught, r) /\ Keeps(tb, caught)
  BY Zenon, <1>0, <1>4, OneMildKeepsSound
<1>7. [taken EXCEPT ![i].active = s] = caught
  BY Zenon, <1>0
<1> HIDE DEF taken, t, u, v
<1>8. Sound(dead, r) /\ Keeps(tb, dead)
  <2>1. 128 + s \in Int
    BY <1>1, SchedulerAssumption
  <2>2. Sound(dead, r) /\ Keeps(taken, dead)
    BY ZenonT(60), <1>5, <2>1, TerminateKeepsSound
  <2> HIDE DEF dead
  <2> QED BY Zenon, <1>5, <2>2, KeepsTrans
<1> HIDE DEF dead, caught
<1> QED BY Zenon, <1>2, <1>5, <1>6, <1>7, <1>8, KeepsRefl

LEMMA DeliverNotWaiting ==
  ASSUME NEW tb, NEW r, Sound(tb, r), NEW i \in Slot, Live(tb[i]), tb[i].state # "WAITING",
         NEW ring3, NEW stack_ok
  PROVE  DeliverSignal(tb, i, ring3, stack_ok)[i].state # "WAITING"
<1> DEFINE s == next_pending_signal(tb[i])
           taken == [tb EXCEPT ![i].pending = @ \ {s}]
           dead == scheduler_terminate_task(taken, i, 128 + s)
           caught == [taken EXCEPT ![i].active = s]
<1>0. tb \in [Slot -> Task] /\ tb[i] \in Task
  BY Zenon DEF Sound
<1>1. s \in Signal \cup {0}
  BY Zenon, <1>0, NextPendingType
<1>2. DeliverSignal(tb, i, ring3, stack_ok) \in {tb, taken, dead, caught}
  BY ZenonT(60) DEF DeliverSignal
<1> HIDE DEF s
<1>3. taken[i].state = tb[i].state /\ caught[i].state = tb[i].state
  BY Zenon, <1>0 DEF Task
<1>4. taken \in [Slot -> Task]
  BY Zenon, <1>0 DEF Task
<1>5. Live(taken[i]) /\ 128 + s \in Int
  BY <1>1, <1>3, SchedulerAssumption DEF Live, Free
<1> HIDE DEF taken, caught
<1>6. Terminated(taken, dead, i)
  BY ZenonT(60), <1>4, <1>5, TerminateFields
<1> HIDE DEF dead
<1>7. dead[i].state # "WAITING"
  BY Zenon, <1>6 DEF Terminated
<1> QED BY Zenon, <1>2, <1>3, <1>7

-----------------------------------------------------------------------------
\* The steps that create, reap, suspend and switch to a task.

LEMMA InsertKeepsSound ==
  ASSUME NEW tb, NEW r, Sound(tb, r), NEW slot \in Slot, Free(tb[slot]),
         NEW c \in Slot, Live(tb[c]), NEW t \in Task,
         t.state = "READY", t.parent_pid = tb[c].pid, t.pid # 0, t.call = "none",
         \A i \in Slot : Free(tb[i]) \/ tb[i].pid # t.pid
  PROVE  Sound([tb EXCEPT ![slot] = t], r)
<1> DEFINE ub == [tb EXCEPT ![slot] = t]
<1>1. ub \in [Slot -> Task] /\ ub[slot] = t /\ \A i \in Slot \ {slot} : ub[i] = tb[i]
  BY Zenon DEF Sound
<1> HIDE DEF ub
<1>2. ~Free(t) /\ Live(t)
  BY Zenon DEF Free, Live
<1>3. OnlyRunning(ub, r)
  BY Zenon, <1>1 DEF Sound, OnlyRunning
<1>4. UniquePids(ub)
  BY <1>1, <1>2 DEF Sound, UniquePids
<1>5. LiveParents(ub)
  <2> SUFFICES ASSUME NEW j \in Slot, ~Free(ub[j]), ub[j].parent_pid \notin {0, 1}
               PROVE  \E k \in Slot : ub[k].pid = ub[j].parent_pid /\ Live(ub[k])
    BY Zenon DEF LiveParents
  <2>1. CASE j = slot
    BY ZenonT(60), <1>1, <2>1 DEF Live
  <2>2. CASE j # slot
    <3>1. PICK k \in Slot : tb[k].pid = tb[j].parent_pid /\ Live(tb[k])
      BY <1>1, <2>2 DEF Sound, LiveParents
    <3> QED BY ZenonT(60), <1>1, <2>2, <3>1 DEF Live
  <2> QED BY Zenon, <2>1, <2>2
<1>6. WaitersServed(ub)
  <2> SUFFICES ASSUME NEW k \in Slot, ub[k].state = "WAITING"
               PROVE  /\ ub[k].wait_reason = "CHILD"
                      /\ \E j \in Slot : AwaitedIn(ub, k, j)
                      /\ \A j \in Slot : AwaitedIn(ub, k, j) => ub[j].state # "ZOMBIE"
    BY Zenon DEF WaitersServed
  <2>1. k # slot /\ ub[k] = tb[k]
    BY Zenon, <1>1
  <2>2. /\ tb[k].wait_reason = "CHILD"
        /\ \E j \in Slot : AwaitedIn(tb, k, j)
        /\ \A j \in Slot : AwaitedIn(tb, k, j) => tb[j].state # "ZOMBIE"
    BY Zenon, <2>1 DEF Sound, WaitersServed
  <2>3. \A j \in Slot : AwaitedIn(tb, k, j) => j # slot
    BY Zenon DEF AwaitedIn
  <2>4. \A j \in Slot \ {slot} : AwaitedIn(ub, k, j) <=> AwaitedIn(tb, k, j)
    BY Zenon, <1>1, <2>1 DEF AwaitedIn
  <2> QED BY Zenon, <1>1, <2>1, <2>2, <2>3, <2>4
<1>7. IdleFirst(ub)
  <2>1. slot # 0
    BY Zenon DEF Sound, IdleFirst
  <2> QED BY Zenon, <1>1, <2>1, SlotFacts DEF Sound, IdleFirst
<1>8. UsersLive(ub)
  BY Zenon, <1>1, <1>2 DEF Sound, UsersLive
<1>9. WaitersInCall(ub)
  BY <1>1 DEF Sound, WaitersInCall
<1> QED BY Zenon, <1>1, <1>3, <1>4, <1>5, <1>6, <1>7, <1>8, <1>9 DEF Sound, ub

LEMMA ReapKeepsSound ==
  ASSUME NEW tb, NEW r, Sound(tb, r), NEW z \in Slot, z # 0, tb[z].state = "ZOMBIE"
  PROVE  Sound([tb EXCEPT ![z].state = "DEAD", ![z].pid = 0, ![z].parent_pid = 0], r)
<1> DEFINE ub == [tb EXCEPT ![z].state = "DEAD", ![z].pid = 0, ![z].parent_pid = 0]
           d == [tb[z] EXCEPT !.state = "DEAD", !.pid = 0, !.parent_pid = 0]
<1>1. d \in Task /\ d.state = "DEAD" /\ d.user = tb[z].user
  <2>1. tb[z] \in Task
    BY Zenon DEF Sound
  <2> QED BY Zenon, <2>1, PidFacts DEF Task, TaskState
<1>2. ub = [tb EXCEPT ![z] = d]
  BY Zenon DEF Sound
<1> HIDE DEF d, ub
<1>3. ub \in [Slot -> Task] /\ ub[z] = d /\ \A i \in Slot \ {z} : ub[i] = tb[i]
  BY Zenon, <1>1, <1>2 DEF Sound
<1>4. Free(d) /\ ~Live(tb[z]) /\ ~Free(tb[z])
  BY Zenon, <1>1 DEF Free, Live
<1>5. OnlyRunning(ub, r)
  BY Zenon, <1>1, <1>3 DEF Sound, OnlyRunning
<1>6. UniquePids(ub)
  BY ZenonT(60), <1>3, <1>4 DEF Sound, UniquePids
<1>7. LiveParents(ub)
  BY <1>3, <1>4 DEF Sound, LiveParents
<1>8. WaitersServed(ub)
  <2> SUFFICES ASSUME NEW k \in Slot, ub[k].state = "WAITING"
               PROVE  /\ ub[k].wait_reason = "CHILD"
                      /\ \E j \in Slot : AwaitedIn(ub, k, j)
                      /\ \A j \in Slot : AwaitedIn(ub, k, j) => ub[j].state # "ZOMBIE"
    BY Zenon DEF WaitersServed
  <2>1. k # z /\ ub[k] = tb[k]
    BY Zenon, <1>1, <1>3
  <2>2. /\ tb[k].wait_reason = "CHILD"
        /\ \E j \in Slot : AwaitedIn(tb, k, j)
        /\ \A j \in Slot : AwaitedIn(tb, k, j) => tb[j].state # "ZOMBIE"
    BY Zenon, <2>1 DEF Sound, WaitersServed
  <2>3. ~AwaitedIn(ub, k, z) /\ ~AwaitedIn(tb, k, z)
    BY Zenon, <1>3, <1>4, <2>2 DEF AwaitedIn
  <2>4. \A j \in Slot \ {z} : AwaitedIn(ub, k, j) <=> AwaitedIn(tb, k, j)
    BY Zenon, <1>3, <2>1 DEF AwaitedIn
  <2> QED BY Zenon, <1>3, <2>1, <2>2, <2>3, <2>4
<1>9. IdleFirst(ub)
  BY Zenon, <1>3, SlotFacts DEF Sound, IdleFirst
<1>10. UsersLive(ub)
  BY Zenon, <1>1, <1>3, <1>4 DEF Sound, UsersLive
<1>11. WaitersInCall(ub)
  BY ZenonT(60), <1>1, <1>3 DEF Sound, WaitersInCall
<1> QED BY Zenon, <1>3, <1>5, <1>6, <1>7, <1>8, <1>9, <1>10, <1>11 DEF Sound, ub

\* A task enters the WAITING state with an unfinished child to wait for.
\* Task c has children as waitpid(pid) wants them, and none of them is a zombie.
ChildIn(tb, c, pid, j) ==
  ~Free(tb[j]) /\ tb[j].parent_pid = tb[c].pid /\ (pid # 0 => tb[j].pid = pid)

MustWait(tb, c, pid) ==
  /\ \E j \in Slot : ChildIn(tb, c, pid, j)
  /\ \A j \in Slot : ChildIn(tb, c, pid, j) => tb[j].state # "ZOMBIE"

LEMMA WaitKeepsSound ==
  ASSUME NEW tb, NEW r, Sound(tb, r), NEW c \in Slot, c # 0, Live(tb[c]),
         NEW call \in {"wait", "waitpid"}, NEW pid \in Pid,
         MustWait(tb, c, pid)
  PROVE  Sound([tb EXCEPT ![c].state = "WAITING", ![c].wait_reason = "CHILD",
                  ![c].wait_target = pid, ![c].call = call, ![c].call_pid = pid], r)
<1> DEFINE ub == [tb EXCEPT ![c].state = "WAITING", ![c].wait_reason = "CHILD",
                    ![c].wait_target = pid, ![c].call = call, ![c].call_pid = pid]
           w == [tb[c] EXCEPT !.state = "WAITING", !.wait_reason = "CHILD",
                    !.wait_target = pid, !.call = call, !.call_pid = pid]
<1>1. /\ w \in Task /\ w.state = "WAITING" /\ w.wait_reason = "CHILD"
      /\ w.wait_target = pid /\ w.call = call /\ w.call_pid = pid
      /\ w.pid = tb[c].pid /\ w.parent_pid = tb[c].parent_pid /\ w.user = tb[c].user
  <2>1. tb[c] \in Task
    BY Zenon DEF Sound
  <2> QED BY ZenonT(60), <2>1 DEF Task, TaskState, WaitReason
<1>2. ub = [tb EXCEPT ![c] = w]
  BY Zenon DEF Sound
<1> HIDE DEF w, ub
<1>3. ub \in [Slot -> Task] /\ ub[c] = w /\ \A i \in Slot \ {c} : ub[i] = tb[i]
  BY Zenon, <1>1, <1>2 DEF Sound
<1>4. ~Free(w) /\ Live(w) /\ ~Free(tb[c])
  BY Zenon, <1>1 DEF Free, Live
<1>5. \A i \in Slot :
        /\ ub[i].pid = tb[i].pid /\ ub[i].parent_pid = tb[i].parent_pid
        /\ ub[i].user = tb[i].user /\ (Free(ub[i]) <=> Free(tb[i]))
        /\ Live(ub[i]) <=> Live(tb[i])
        /\ ub[i].state = "ZOMBIE" <=> tb[i].state = "ZOMBIE"
  BY ZenonT(60), <1>1, <1>3, <1>4 DEF Live
<1>6. OnlyRunning(ub, r)
  BY Zenon, <1>1, <1>3 DEF Sound, OnlyRunning
<1>7. UniquePids(ub)
  BY ZenonT(60), <1>5 DEF Sound, UniquePids
<1>8. LiveParents(ub)
  <2>1. LiveParents(tb)
    BY Zenon DEF Sound
  <2> QED BY <1>5, <2>1 DEF LiveParents
<1>9. IdleFirst(ub)
  BY Zenon, <1>3, SlotFacts DEF Sound, IdleFirst
<1>10. UsersLive(ub)
  BY Zenon, <1>5 DEF Sound, UsersLive
<1>11. WaitersInCall(ub)
  BY <1>1, <1>3 DEF Sound, WaitersInCall
<1>12. WaitersServed(ub)
  <2> SUFFICES ASSUME NEW k \in Slot, ub[k].state = "WAITING"
               PROVE  /\ ub[k].wait_reason = "CHILD"
                      /\ \E j \in Slot : AwaitedIn(ub, k, j)
                      /\ \A j \in Slot : AwaitedIn(ub, k, j) => ub[j].state # "ZOMBIE"
    BY Zenon DEF WaitersServed
  <2>1. CASE k = c
    <3>1. \A j \in Slot : AwaitedIn(ub, c, j) <=> ChildIn(tb, c, pid, j)
      BY ZenonT(60), <1>1, <1>3, <1>5 DEF AwaitedIn, ChildIn
    <3> QED BY Zenon, <1>1, <1>3, <1>5, <2>1, <3>1 DEF MustWait
  <2>2. CASE k # c
    <3>1. ub[k] = tb[k]
      BY Zenon, <1>3, <2>2
    <3>2. \A j \in Slot : AwaitedIn(ub, k, j) <=> AwaitedIn(tb, k, j)
      BY Zenon, <1>5, <3>1 DEF AwaitedIn
    <3>3. WaitersServed(tb)
      BY Zenon DEF Sound
    <3> QED BY SMTT(60), <1>5, <3>1, <3>2, <3>3 DEF WaitersServed
  <2> QED BY Zenon, <2>1, <2>2
<1> QED BY Zenon, <1>3, <1>6, <1>7, <1>8, <1>9, <1>10, <1>11, <1>12 DEF Sound, ub

LEMMA SwitchKeepsSound ==
  ASSUME NEW tb, Sound(tb, None), NEW i \in Slot, Live(tb[i]), tb[i].state # "WAITING"
  PROVE  /\ Sound([tb EXCEPT ![i].state = "RUNNING"], i)
         /\ Keeps(tb, [tb EXCEPT ![i].state = "RUNNING"])
<1> DEFINE ub == [tb EXCEPT ![i].state = "RUNNING"]
           w == [tb[i] EXCEPT !.state = "RUNNING"]
<1>1. /\ w \in Task /\ w.state = "RUNNING" /\ w.pid = tb[i].pid /\ w.call = tb[i].call
      /\ w.parent_pid = tb[i].parent_pid /\ w.user = tb[i].user
  <2>1. tb[i] \in Task
    BY Zenon DEF Sound
  <2> QED BY Zenon, <2>1 DEF Task, TaskState
<1>2. ub = [tb EXCEPT ![i] = w]
  BY Zenon DEF Sound
<1> HIDE DEF w, ub
<1>3. ub \in [Slot -> Task] /\ ub[i] = w /\ \A j \in Slot \ {i} : ub[j] = tb[j]
  BY Zenon, <1>1, <1>2 DEF Sound
<1>4. ~Free(w) /\ Live(w) /\ ~Free(tb[i]) /\ tb[i].state # "ZOMBIE"
  BY Zenon, <1>1 DEF Free, Live
<1>5. \A j \in Slot :
        /\ ub[j].pid = tb[j].pid /\ ub[j].parent_pid = tb[j].parent_pid
        /\ ub[j].user = tb[j].user /\ (Free(ub[j]) <=> Free(tb[j]))
        /\ ub[j].call = tb[j].call
        /\ Live(ub[j]) <=> Live(tb[j])
        /\ ub[j].state = "ZOMBIE" <=> tb[j].state = "ZOMBIE"
        /\ ub[j].state = "WAITING" => ub[j] = tb[j]
        /\ ub[j].state = "ZOMBIE" => ub[j] = tb[j]
  BY Zenon, <1>1, <1>3, <1>4 DEF Live
<1>6. OnlyRunning(ub, i)
  BY Zenon, <1>3, SlotFacts DEF Sound, OnlyRunning
<1>7. UniquePids(ub)
  BY <1>5 DEF Sound, UniquePids
<1>8. LiveParents(ub)
  <2>1. LiveParents(tb)
    BY Zenon DEF Sound
  <2> QED BY <1>5, <2>1 DEF LiveParents
<1>9. IdleFirst(ub)
  BY Zenon, <1>5, <1>3, <1>1, SlotFacts DEF Sound, IdleFirst
<1>10. UsersLive(ub)
  BY Zenon, <1>5 DEF Sound, UsersLive
<1>11. WaitersInCall(ub)
  BY SMTT(60), <1>5 DEF Sound, WaitersInCall
<1>12. WaitersServed(ub)
  <2>1. WaitersServed(tb)
    BY Zenon DEF Sound
  <2>2. \A k, j \in Slot : ub[k].state = "WAITING" =>
          (AwaitedIn(ub, k, j) <=> AwaitedIn(tb, k, j))
    BY ZenonT(60), <1>5 DEF AwaitedIn
  <2> QED BY <1>5, <2>1, <2>2 DEF WaitersServed
<1>13. Keeps(tb, ub)
  BY Zenon, <1>5 DEF Keeps
<1> QED BY Zenon, <1>3, <1>6, <1>7, <1>8, <1>9, <1>10, <1>11, <1>12, <1>13 DEF Sound, ub

\* What StartTick does to the table, when no task but c is RUNNING.
LEMMA PreemptKeepsSound ==
  ASSUME NEW tb, NEW c, Sound(tb, c), NEW serial \in BOOLEAN,
         NEW w, w = IF serial THEN WakeStdinReaders(tb) ELSE tb,
         NEW ub, ub = [i \in Slot |-> IF i = c /\ w[i].state = "RUNNING"
                                     THEN [w[i] EXCEPT !.state = "READY"] ELSE w[i]]
  PROVE  Sound(ub, None) /\ Keeps(tb, ub)
<1>0. tb \in [Slot -> Task]
  BY Zenon DEF Sound
<1>1. /\ w \in [Slot -> Task]
      /\ \A i \in Slot : Mild(tb[i], w[i]) /\ w[i].call = tb[i].call
  <2>1. \A i \in Slot : tb[i].state = "SLEEPING" => Live(tb[i])
    BY Zenon DEF Live, Free
  <2>2. \A i \in Slot : tb[i].state = "SLEEPING" =>
          /\ Wake(tb[i]) \in Task /\ Mild(tb[i], Wake(tb[i])) /\ Wake(tb[i]).call = tb[i].call
    BY Zenon, <1>0, <2>1, WakeMild
  <2> QED BY Zenon, <1>0, <2>2, MildRefl DEF WakeStdinReaders
<1>2. \A i \in Slot : /\ ub[i] \in Task /\ Mild(w[i], ub[i]) /\ ub[i].call = w[i].call
                      /\ i = c => ub[i].state # "RUNNING"
  <2> SUFFICES ASSUME NEW i \in Slot
               PROVE  /\ ub[i] \in Task /\ Mild(w[i], ub[i]) /\ ub[i].call = w[i].call
                      /\ i = c => ub[i].state # "RUNNING"
    BY Zenon
  <2>1. w[i] \in Task
    BY Zenon, <1>1
  <2>2. CASE i = c /\ w[i].state = "RUNNING"
    <3> DEFINE v == [w[i] EXCEPT !.state = "READY"]
    <3>1. v \in Task /\ Mild(w[i], v) /\ v.call = w[i].call /\ v.state = "READY"
      <4>1. /\ v \in Task /\ v.call = w[i].call /\ v.state = "READY" /\ v.pid = w[i].pid
            /\ v.parent_pid = w[i].parent_pid /\ v.user = w[i].user
        BY ZenonT(60), <2>1 DEF Task, TaskState
      <4> HIDE DEF v
      <4> QED BY Zenon, <2>2, <4>1 DEF Mild, Free
    <3>2. ub[i] = v
      BY Zenon, <2>2
    <3> HIDE DEF v
    <3> QED BY Zenon, <3>1, <3>2
  <2>3. CASE ~(i = c /\ w[i].state = "RUNNING")
    <3>1. ub[i] = w[i]
      BY Zenon, <2>3
    <3> QED BY Zenon, <2>1, <2>3, <3>1, MildRefl
  <2> QED BY Zenon, <2>2, <2>3
<1>3. \A i \in Slot : Mild(tb[i], ub[i]) /\ ub[i].call = tb[i].call
  BY <1>1, <1>2 DEF Mild
<1>4. ub \in [Slot -> Task]
  BY Zenon, <1>2
<1>5. ub[0].call = "none"
  BY Zenon, <1>3, SlotFacts DEF Sound, IdleFirst
<1>6. Sound(ub, c) /\ Keeps(tb, ub)
  BY Zenon, <1>3, <1>4, <1>5, MildKeepsSound
<1>7. OnlyRunning(ub, None)
  BY Zenon, <1>2, <1>6 DEF Sound, OnlyRunning
<1> QED BY Zenon, <1>6, <1>7 DEF Sound

-----------------------------------------------------------------------------
\* The inductive invariant.

\* The only slot that may be RUNNING: none while scheduler_tick chooses.
Runner == IF attempts = None THEN current ELSE None

Scalars ==
  /\ task_count \in 1..MAX_TASKS
  /\ next_pid \in Pid
  /\ current \in Slot \cup {None}
  /\ foreground_pid \in Pid
  /\ attempts \in (0..MAX_TASKS) \cup {None}
  /\ index \in Slot \cup {None}

IInv ==
  /\ Scalars
  /\ Sound(tasks, Runner)
  /\ current # None => ~Free(tasks[current])
  /\ \A i \in Slot : i >= task_count => Free(tasks[i])

\* A step that only changes tasks in place.
LEMMA InPlace ==
  ASSUME IInv, Scalars', Sound(tasks', Runner'), Keeps(tasks, tasks'),
         task_count' = task_count,
         current' # None => ~Free(tasks[current'])
  PROVE  IInv' /\ ZombieStep
<1>1. current' # None => ~Free(tasks'[current'])
  BY Zenon DEF Keeps, Scalars
<1>2. \A i \in Slot : i >= task_count' => Free(tasks'[i])
  BY Zenon DEF Keeps, IInv
<1>3. ZombieStep
  BY Zenon DEF Keeps, ZombieStep
<1> QED BY Zenon, <1>1, <1>2, <1>3 DEF IInv

\* The return to ring 3 from a call that left the table as tb.
LEMMA ReturnKeepsSound ==
  ASSUME IInv, attempts = None, current # None,
         NEW tb, Sound(tb, current), SyscallReturn(tb)
  PROVE  Sound(tasks', Runner') /\ Keeps(tb, tasks')
<1>1. current \in Slot
  BY Zenon DEF IInv, Scalars
<1>2. PICK stack_ok \in BOOLEAN : tasks' = DeliverSignal(tb, current, TRUE, stack_ok)
  BY Zenon DEF SyscallReturn
<1>3. Sound(tasks', current) /\ Keeps(tb, tasks')
  BY Zenon, <1>1, <1>2, DeliverKeepsSound
<1>4. Runner' = current
  BY Zenon DEF SyscallReturn, Runner
<1> QED BY Zenon, <1>3, <1>4

LEMMA ReturnInPlace ==
  ASSUME IInv, attempts = None, current # None,
         NEW tb, Sound(tb, current), Keeps(tasks, tb), SyscallReturn(tb),
         UNCHANGED <<task_count, next_pid>>, foreground_pid' \in Pid
  PROVE  IInv' /\ ZombieStep
<1>1. Sound(tasks', Runner') /\ Keeps(tb, tasks')
  BY Zenon, ReturnKeepsSound
<1>2. Keeps(tasks, tasks')
  BY Zenon, <1>1, KeepsTrans
<1>3. Scalars' /\ current' = current /\ task_count' = task_count
  BY Zenon DEF SyscallReturn, IInv, Scalars
<1> QED BY Zenon, <1>1, <1>2, <1>3, InPlace DEF IInv

LEMMA StartTickInPlace ==
  ASSUME IInv, attempts = None, NEW tb, Sound(tb, current), Keeps(tasks, tb),
         StartTick(tb), UNCHANGED <<task_count, next_pid, foreground_pid>>
  PROVE  IInv' /\ ZombieStep
<1>1. Sound(tasks', None) /\ Keeps(tb, tasks')
  BY PreemptKeepsSound DEF StartTick
<1>2. Keeps(tasks, tasks')
  BY Zenon, <1>1, KeepsTrans
<1>3. /\ Scalars' /\ current' = current /\ task_count' = task_count /\ Runner' = None
  BY SchedulerAssumption DEF StartTick, IInv, Scalars, Runner, None
<1> QED BY Zenon, <1>1, <1>2, <1>3, InPlace DEF IInv

\* Who makes a system call.
LEMMA UserFacts ==
  ASSUME IInv, UserRuns
  PROVE  /\ attempts = None /\ current # None /\ current \in Slot /\ current # 0
         /\ Sound(tasks, current) /\ me \in Task /\ Live(me)
         /\ me.call = "none" /\ me.state # "WAITING" /\ me.user
<1>1. attempts = None /\ current # None /\ current \in Slot /\ Sound(tasks, current)
  BY Zenon DEF UserRuns, IInv, Scalars, Runner
<1>2. me \in Task /\ me.user /\ me.call = "none"
  BY Zenon, <1>1 DEF Sound, me, UserRuns
<1>3. Live(me) /\ me.state # "WAITING" /\ current # 0
  BY Zenon, <1>1, <1>2 DEF Sound, me, UsersLive, WaitersInCall, IdleFirst
<1> QED BY Zenon, <1>1, <1>2, <1>3

\* A call whose only effect is a mild change of the caller.
LEMMA CallerMild ==
  ASSUME IInv, UserRuns, NEW u \in Task, Mild(me, u)
  PROVE  Sound([tasks EXCEPT ![current] = u], current) /\ Keeps(tasks, [tasks EXCEPT ![current] = u])
  BY Zenon, UserFacts, OneMildKeepsSound DEF me

-----------------------------------------------------------------------------
\* One lemma per action.

LEMMA OtherOK == IInv /\ sys_other => IInv' /\ ZombieStep
<1> SUFFICES ASSUME IInv, sys_other PROVE IInv' /\ ZombieStep
  BY Zenon
<1>1. UserRuns /\ SyscallReturn(tasks) /\ UNCHANGED <<task_count, next_pid, foreground_pid>>
  BY Zenon DEF sys_other
<1>2. foreground_pid' \in Pid
  BY Zenon, <1>1 DEF IInv, Scalars
<1> QED BY Zenon, <1>1, <1>2, UserFacts, KeepsRefl, ReturnInPlace

LEMMA ExecveOK == IInv /\ sys_execve => IInv' /\ ZombieStep
<1> SUFFICES ASSUME IInv, sys_execve PROVE IInv' /\ ZombieStep
  BY Zenon
<1> DEFINE h == [s \in Signal |-> IF me.handler[s] = SIG_IGN THEN SIG_IGN ELSE SIG_DFL]
           u == [me EXCEPT !.handler = h, !.active = 0]
           tb == [tasks EXCEPT ![current] = u]
<1>0. UserRuns /\ current \in Slot /\ tasks \in [Slot -> Task] /\ me \in Task
  BY Zenon, UserFacts DEF sys_execve, Sound
<1>1. SyscallReturn(tb) /\ UNCHANGED <<task_count, next_pid, foreground_pid>>
  BY Zenon, <1>0 DEF sys_execve, me
<1>2. u \in Task /\ Mild(me, u)
  <2>1. h \in [Signal -> Int]
    BY DEF SIG_IGN, SIG_DFL
  <2> HIDE DEF h
  <2> QED BY Zenon, <1>0, <2>1 DEF Task, Mild, Free
<1> HIDE DEF u
<1>3. Sound(tb, current) /\ Keeps(tasks, tb)
  BY Zenon, <1>0, <1>2, CallerMild
<1>4. foreground_pid' \in Pid
  BY Zenon, <1>1 DEF IInv, Scalars
<1> HIDE DEF tb
<1> QED BY Zenon, <1>0, <1>1, <1>3, <1>4, UserFacts, ReturnInPlace

LEMMA SignalOK ==
  ASSUME IInv, NEW sig \in Signal, NEW handler \in Int, sys_signal(sig, handler)
  PROVE  IInv' /\ ZombieStep
<1> DEFINE u == [me EXCEPT !.handler = [@ EXCEPT ![sig] = handler]]
           tb == [tasks EXCEPT ![current] = u]
<1>0. UserRuns /\ current \in Slot /\ tasks \in [Slot -> Task] /\ me \in Task
  BY Zenon, UserFacts DEF sys_signal, Sound
<1>1. SyscallReturn(tb) /\ UNCHANGED <<task_count, next_pid, foreground_pid>>
  BY Zenon, <1>0 DEF sys_signal, me
<1>2. u \in Task /\ Mild(me, u)
  <2>1. [me.handler EXCEPT ![sig] = handler] \in [Signal -> Int]
    BY Zenon, <1>0 DEF Task
  <2> QED BY Zenon, <1>0, <2>1 DEF Task, Mild, Free
<1> HIDE DEF u
<1>3. Sound(tb, current) /\ Keeps(tasks, tb)
  BY Zenon, <1>0, <1>2, CallerMild
<1>4. foreground_pid' \in Pid
  BY Zenon, <1>1 DEF IInv, Scalars
<1> HIDE DEF tb
<1> QED BY Zenon, <1>0, <1>1, <1>3, <1>4, UserFacts, ReturnInPlace

LEMMA SigprocmaskOK ==
  ASSUME IInv, NEW how \in {"SIG_BLOCK", "SIG_UNBLOCK", "SIG_SETMASK"},
         NEW set \in SUBSET Signal, sys_sigprocmask(how, set)
  PROVE  IInv' /\ ZombieStep
<1> DEFINE n == set \ {SIGKILL, SIGSTOP}
           m == CASE how = "SIG_BLOCK"   -> me.blocked \cup n
                  [] how = "SIG_UNBLOCK" -> me.blocked \ n
                  [] how = "SIG_SETMASK" -> n
           u == [me EXCEPT !.blocked = m]
           tb == [tasks EXCEPT ![current] = u]
<1>0. UserRuns /\ current \in Slot /\ tasks \in [Slot -> Task] /\ me \in Task
  BY Zenon, UserFacts DEF sys_sigprocmask, Sound
<1>1. SyscallReturn(tb) /\ UNCHANGED <<task_count, next_pid, foreground_pid>>
  BY Zenon, <1>0 DEF sys_sigprocmask, me
<1>2. u \in Task /\ Mild(me, u)
  <2>1. m \in SUBSET Signal
    BY Zenon, <1>0 DEF Task
  <2> HIDE DEF m
  <2> QED BY Zenon, <1>0, <2>1 DEF Task, Mild, Free
<1> HIDE DEF u
<1>3. Sound(tb, current) /\ Keeps(tasks, tb)
  BY Zenon, <1>0, <1>2, CallerMild
<1>4. foreground_pid' \in Pid
  BY Zenon, <1>1 DEF IInv, Scalars
<1> HIDE DEF tb
<1> QED BY Zenon, <1>0, <1>1, <1>3, <1>4, UserFacts, ReturnInPlace

LEMMA SigreturnOK == IInv /\ sys_sigreturn => IInv' /\ ZombieStep
<1> SUFFICES ASSUME IInv, sys_sigreturn PROVE IInv' /\ ZombieStep
  BY Zenon
<1> DEFINE u == [me EXCEPT !.active = 0]
           tb == [tasks EXCEPT ![current] = u]
<1>0. UserRuns /\ current \in Slot /\ tasks \in [Slot -> Task] /\ me \in Task
  BY Zenon, UserFacts DEF sys_sigreturn, Sound
<1>1. /\ tasks' = tb
      /\ UNCHANGED <<task_count, next_pid, current, foreground_pid, attempts, index>>
  BY Zenon, <1>0 DEF sys_sigreturn, me
<1>2. u \in Task /\ Mild(me, u)
  BY Zenon, <1>0 DEF Task, Mild, Free
<1> HIDE DEF u
<1>3. Sound(tb, current) /\ Keeps(tasks, tb)
  BY Zenon, <1>0, <1>2, CallerMild
<1>4. Scalars' /\ Runner' = current
  BY Zenon, <1>0, <1>1, UserFacts DEF IInv, Scalars, Runner
<1> HIDE DEF tb
<1> QED BY Zenon, <1>1, <1>3, <1>4, InPlace DEF IInv

LEMMA ReadStdinOK == IInv /\ sys_read_stdin => IInv' /\ ZombieStep
<1> SUFFICES ASSUME IInv, sys_read_stdin PROVE IInv' /\ ZombieStep
  BY Zenon
<1> DEFINE u == [me EXCEPT !.state = "SLEEPING", !.wait_reason = "STDIN", !.wait_target = 0]
           tb == [tasks EXCEPT ![current] = u]
<1>0. UserRuns /\ current \in Slot /\ tasks \in [Slot -> Task] /\ me \in Task /\ Live(me)
  BY Zenon, UserFacts DEF sys_read_stdin, Sound
<1>1. SyscallReturn(tb) /\ UNCHANGED <<task_count, next_pid, foreground_pid>>
  BY Zenon, <1>0 DEF sys_read_stdin, me
<1>2. u \in Task /\ Mild(me, u)
  <2>1. /\ u \in Task /\ u.state = "SLEEPING" /\ u.pid = me.pid
        /\ u.parent_pid = me.parent_pid /\ u.user = me.user
    BY ZenonT(60), <1>0, PidFacts DEF Task, TaskState, WaitReason
  <2> HIDE DEF u
  <2> QED BY Zenon, <1>0, <2>1 DEF Mild, Free, Live
<1> HIDE DEF u
<1>3. Sound(tb, current) /\ Keeps(tasks, tb)
  BY Zenon, <1>0, <1>2, CallerMild
<1>4. foreground_pid' \in Pid
  BY Zenon, <1>1 DEF IInv, Scalars
<1> HIDE DEF tb
<1> QED BY Zenon, <1>0, <1>1, <1>3, <1>4, UserFacts, ReturnInPlace

LEMMA YieldOK == IInv /\ sys_yield => IInv' /\ ZombieStep
<1> SUFFICES ASSUME IInv, sys_yield PROVE IInv' /\ ZombieStep
  BY Zenon
<1> DEFINE u == [me EXCEPT !.call = "yield"]
           tb == [tasks EXCEPT ![current] = u]
<1>0. /\ UserRuns /\ current \in Slot /\ tasks \in [Slot -> Task] /\ me \in Task
      /\ me.state # "WAITING" /\ current # 0 /\ Sound(tasks, current)
  BY Zenon, UserFacts DEF sys_yield, Sound
<1>1. StartTick(tb) /\ UNCHANGED <<task_count, next_pid, foreground_pid>>
  BY Zenon, <1>0 DEF sys_yield, me
<1>2. u \in Task /\ Mild(me, u)
  BY Zenon, <1>0 DEF Task, Mild, Free
<1> HIDE DEF u
<1>3. Sound(tb, current) /\ Keeps(tasks, tb)
  BY Zenon, <1>0, <1>2, OneMildKeepsSound DEF me
<1> HIDE DEF tb
<1> QED BY Zenon, <1>0, <1>1, <1>3, UserFacts, StartTickInPlace

LEMMA ResumeYieldOK == IInv /\ ResumeYield => IInv' /\ ZombieStep
<1> SUFFICES ASSUME IInv, ResumeYield PROVE IInv' /\ ZombieStep
  BY Zenon
<1> DEFINE u == [me EXCEPT !.call = "none"]
           tb == [tasks EXCEPT ![current] = u]
<1>0. /\ attempts = None /\ current # None /\ me.call = "yield"
      /\ current \in Slot /\ tasks \in [Slot -> Task] /\ Sound(tasks, current)
  BY Zenon DEF ResumeYield, IInv, Sound, Scalars, Runner
<1>1. me \in Task /\ me.state # "WAITING"
  BY Zenon, <1>0 DEF Sound, WaitersInCall, me
<1>2. SyscallReturn(tb) /\ UNCHANGED <<task_count, next_pid, foreground_pid>>
  BY Zenon, <1>0 DEF ResumeYield, me
<1>3. u \in Task /\ Mild(me, u) /\ u.call = "none"
  BY Zenon, <1>1 DEF Task, Mild, Free
<1> HIDE DEF u
<1>4. Sound(tb, current) /\ Keeps(tasks, tb)
  BY Zenon, <1>0, <1>3, OneMildKeepsSound DEF me
<1>5. foreground_pid' \in Pid
  BY Zenon, <1>2 DEF IInv, Scalars
<1> HIDE DEF tb
<1> QED BY Zenon, <1>0, <1>2, <1>4, <1>5, ReturnInPlace

LEMMA ExitOK ==
  ASSUME IInv, NEW status \in Int, scheduler_exit_current(status)
  PROVE  IInv' /\ ZombieStep
<1>1. UserRuns /\ tasks' = scheduler_terminate_task(tasks, current, status)
  BY Zenon DEF scheduler_exit_current
<1>2. UNCHANGED <<task_count, next_pid, current, foreground_pid, attempts, index>>
  BY Zenon DEF scheduler_exit_current
<1>3. Sound(tasks', current) /\ Keeps(tasks, tasks')
  BY Zenon, <1>1, UserFacts, TerminateKeepsSound
<1>4. Scalars' /\ Runner' = current
  BY Zenon, <1>1, <1>2, UserFacts DEF IInv, Scalars, Runner
<1> QED BY Zenon, <1>2, <1>3, <1>4, InPlace DEF IInv

LEMMA KillOK ==
  ASSUME IInv, NEW pid \in Pid, NEW sig \in Kills, sys_kill(pid, sig)
  PROVE  IInv' /\ ZombieStep
<1>0. UserRuns /\ UNCHANGED <<task_count, next_pid>> /\ sig \in Signal
  BY Zenon, SchedulerAssumption DEF sys_kill
<1>1. PICK i \in Holders(tasks, pid) :
        /\ SyscallReturn(scheduler_send_signal(tasks, i, sig))
        /\ foreground_pid' = IF sig \in {SIGKILL, SIGINT, SIGTERM, SIGPIPE} /\ foreground_pid = pid
                             THEN me.pid ELSE foreground_pid
  BY Zenon DEF sys_kill
<1> DEFINE tb == scheduler_send_signal(tasks, i, sig)
<1>2. i \in Slot /\ ~Free(tasks[i])
  BY Zenon DEF Holders
<1>3. Sound(tb, current) /\ Keeps(tasks, tb)
  BY Zenon, <1>0, <1>2, UserFacts, SendKeepsSound
<1>4. foreground_pid' \in Pid
  <2>1. me.pid \in Pid
    BY Zenon, <1>0, UserFacts DEF Task
  <2> QED BY Zenon, <1>1, <2>1 DEF IInv, Scalars
<1> HIDE DEF tb
<1>5. SyscallReturn(tb)
  BY Zenon, <1>1 DEF tb
<1> QED BY Zenon, <1>0, <1>3, <1>4, <1>5, UserFacts, ReturnInPlace

LEMMA KeyboardPushOK == IInv /\ keyboard_queue_push => IInv' /\ ZombieStep
<1> SUFFICES ASSUME IInv, keyboard_queue_push PROVE IInv' /\ ZombieStep
  BY Zenon
<1>0. /\ attempts = None /\ tasks' = WakeStdinReaders(tasks) /\ Sound(tasks, current)
      /\ tasks \in [Slot -> Task]
      /\ UNCHANGED <<task_count, next_pid, current, foreground_pid, attempts, index>>
  BY Zenon DEF keyboard_queue_push, Interruptible, IInv, Runner, Sound
<1>1. \A i \in Slot : tasks[i].state = "SLEEPING" =>
        /\ Wake(tasks[i]) \in Task /\ Mild(tasks[i], Wake(tasks[i]))
        /\ Wake(tasks[i]).call = tasks[i].call
  <2>1. \A i \in Slot : tasks[i].state = "SLEEPING" => Live(tasks[i])
    BY Zenon DEF Live, Free
  <2> QED BY Zenon, <1>0, <2>1, WakeMild
<1>2. /\ tasks' \in [Slot -> Task]
      /\ \A i \in Slot : Mild(tasks[i], tasks'[i]) /\ tasks'[i].call = tasks[i].call
  BY Zenon, <1>0, <1>1, MildRefl DEF WakeStdinReaders
<1>3. tasks'[0].call = "none"
  BY Zenon, <1>0, <1>2, SlotFacts DEF Sound, IdleFirst
<1>4. Sound(tasks', current) /\ Keeps(tasks, tasks')
  BY Zenon, <1>0, <1>2, <1>3, MildKeepsSound
<1>5. Scalars' /\ Runner' = current
  BY Zenon, <1>0 DEF IInv, Scalars, Runner
<1> QED BY Zenon, <1>0, <1>4, <1>5, InPlace DEF IInv

LEMMA KeyboardSigintOK == IInv /\ keyboard_send_sigint => IInv' /\ ZombieStep
<1> SUFFICES ASSUME IInv, keyboard_send_sigint PROVE IInv' /\ ZombieStep
  BY Zenon
<1> DEFINE owners == IF foreground_pid = 0 THEN {} ELSE Holders(tasks, foreground_pid)
<1>0. /\ attempts = None /\ Sound(tasks, current)
      /\ UNCHANGED <<task_count, next_pid, current, attempts, index>>
      /\ foreground_pid' = IF owners = {} THEN 0 ELSE foreground_pid
  BY Zenon DEF keyboard_send_sigint, Interruptible, IInv, Runner
<1>1. PICK i \in IF owners = {} THEN {current} ELSE owners :
        tasks' = IF i = None THEN tasks ELSE scheduler_send_signal(tasks, i, SIGINT)
  BY Zenon DEF keyboard_send_sigint
<1>2. i # None => i \in Slot /\ ~Free(tasks[i])
  BY Zenon DEF Holders, IInv, Scalars
<1>3. SIGINT \in Signal
  BY Zenon, SchedulerAssumption
<1>4. Sound(tasks', current) /\ Keeps(tasks, tasks')
  BY Zenon, <1>0, <1>1, <1>2, <1>3, SendKeepsSound, KeepsRefl
<1>5. Scalars' /\ Runner' = current
  BY Zenon, <1>0, PidFacts DEF IInv, Scalars, Runner
<1> QED BY Zenon, <1>0, <1>4, <1>5, InPlace DEF IInv

LEMMA TimerTickOK == IInv /\ TimerTick => IInv' /\ ZombieStep
<1> SUFFICES ASSUME IInv, TimerTick PROVE IInv' /\ ZombieStep
  BY Zenon
<1>1. /\ attempts = None /\ Sound(tasks, current) /\ StartTick(tasks)
      /\ UNCHANGED <<task_count, next_pid, foreground_pid>>
  BY Zenon DEF TimerTick, Interruptible, IInv, Runner
<1> QED BY Zenon, <1>1, KeepsRefl, StartTickInPlace

\* spawn and fork: a fresh task whose parent is the caller.
LEMMA InsertOK ==
  ASSUME IInv, UserRuns, NEW slot \in allocate_task_slot, NEW pid \in generate_pid,
         NEW t \in Task, t.state = "READY", t.pid = pid, t.parent_pid = me.pid,
         t.call = "none", InsertTask(slot, pid, t)
  PROVE  IInv' /\ ZombieStep
<1> DEFINE tb == [tasks EXCEPT ![slot] = t]
<1>0. /\ attempts = None /\ current # None /\ current \in Slot
      /\ Sound(tasks, current) /\ Live(me) /\ tasks \in [Slot -> Task]
  BY Zenon, UserFacts DEF Sound
<1>1. slot \in Slot /\ Free(tasks[slot])
  <2>1. slot \in Slot /\ (Free(tasks[slot]) \/ slot = task_count)
    BY Zenon DEF allocate_task_slot
  <2>2. slot = task_count => slot >= task_count
    BY DEF IInv, Scalars
  <2>3. slot \in Slot /\ slot >= task_count => Free(tasks[slot])
    BY Zenon DEF IInv
  <2> QED BY Zenon, <2>1, <2>2, <2>3
<1>2. pid \in Pid /\ pid # 0 /\ \A i \in Slot : Free(tasks[i]) \/ tasks[i].pid # pid
  BY Zenon DEF generate_pid
<1>3. Sound(tb, current)
  BY ZenonT(60), <1>0, <1>1, <1>2, InsertKeepsSound DEF me
<1>4. SyscallReturn(tb) /\ UNCHANGED foreground_pid
  BY Zenon DEF InsertTask
<1>5. tb[slot] = t /\ \A i \in Slot \ {slot} : tb[i] = tasks[i]
  BY Zenon, <1>0, <1>1
<1> HIDE DEF tb
<1>6. Sound(tasks', Runner') /\ Keeps(tb, tasks')
  BY Zenon, <1>0, <1>3, <1>4, ReturnKeepsSound
<1>7. current' = current /\ UNCHANGED <<attempts, index>>
  BY Zenon, <1>4 DEF SyscallReturn
<1>8. task_count' \in 1..MAX_TASKS /\ task_count' >= task_count /\ slot < task_count'
  <2>1. task_count' = IF slot = task_count THEN task_count + 1 ELSE task_count
    BY Zenon DEF InsertTask
  <2>2. slot <= task_count /\ slot \in 0..(MAX_TASKS - 1) /\ task_count \in 1..MAX_TASKS
    BY <1>1, SchedulerAssumption DEF allocate_task_slot, IInv, Scalars, Slot
  <2> QED BY <2>1, <2>2, SchedulerAssumption
<1>9. next_pid' \in Pid
  BY SMTT(60), <1>2, SchedulerAssumption DEF InsertTask, Pid
<1>10. Scalars'
  BY Zenon, <1>4, <1>7, <1>8, <1>9 DEF IInv, Scalars
<1>11. current' # None => ~Free(tasks'[current'])
  <2>1. current # slot /\ ~Free(tasks[current])
    BY Zenon, <1>0, <1>1 DEF Live, me
  <2> QED BY Zenon, <1>0, <1>5, <1>6, <1>7, <2>1 DEF Keeps
<1>12. \A i \in Slot : i >= task_count' => Free(tasks'[i])
  <2> SUFFICES ASSUME NEW i \in Slot, i >= task_count' PROVE Free(tasks'[i])
    BY Zenon
  <2>1. i # slot /\ i >= task_count
    BY SMTT(60), <1>1, <1>8, SlotFacts DEF IInv, Scalars
  <2> QED BY Zenon, <1>5, <1>6, <2>1 DEF Keeps, IInv
<1>13. ZombieStep
  <2>1. \A i \in Slot : tasks[i].state = "ZOMBIE" => i # slot
    BY Zenon, <1>1 DEF Free
  <2> QED BY ZenonT(60), <1>5, <1>6, <2>1 DEF Keeps, ZombieStep
<1> QED BY Zenon, <1>6, <1>10, <1>11, <1>12, <1>13 DEF IInv

LEMMA SpawnOK == IInv /\ sys_spawn => IInv' /\ ZombieStep
<1> SUFFICES ASSUME IInv, sys_spawn PROVE IInv' /\ ZombieStep
  BY Zenon
<1>1. PICK slot \in allocate_task_slot, pid \in generate_pid :
        InsertTask(slot, pid, NewTask(pid, me.pid, TRUE))
  BY Zenon DEF sys_spawn
<1>2. UserRuns /\ me.pid \in Pid /\ pid \in Pid
  BY Zenon, UserFacts DEF sys_spawn, Task, generate_pid
<1> DEFINE t == NewTask(pid, me.pid, TRUE)
<1>3. t \in Task /\ t.state = "READY" /\ t.pid = pid /\ t.parent_pid = me.pid /\ t.call = "none"
  BY Zenon, <1>2, PidFacts DEF NewTask, UnusedTask, Task, TaskState, WaitReason, SIG_DFL
<1> HIDE DEF t
<1> QED BY Zenon, <1>1, <1>2, <1>3, InsertOK DEF t

LEMMA ForkOK == IInv /\ sys_fork => IInv' /\ ZombieStep
<1> SUFFICES ASSUME IInv, sys_fork PROVE IInv' /\ ZombieStep
  BY Zenon
<1> DEFINE T(pid) == [me EXCEPT !.pid = pid, !.parent_pid = me.pid, !.state = "READY",
            !.wait_reason = "NONE", !.wait_target = 0, !.exit_status = 0,
            !.active = 0, !.pending = {}]
<1>1. PICK slot \in allocate_task_slot, pid \in generate_pid : InsertTask(slot, pid, T(pid))
  BY Zenon DEF sys_fork
<1>2. UserRuns /\ me \in Task /\ me.call = "none" /\ pid \in Pid
  BY Zenon, UserFacts DEF sys_fork, generate_pid
<1> DEFINE t == T(pid)
<1>3. t \in Task /\ t.state = "READY" /\ t.pid = pid /\ t.parent_pid = me.pid /\ t.call = "none"
  BY Zenon, <1>2, PidFacts DEF Task, TaskState, WaitReason
<1> HIDE DEF t, T
<1> QED BY Zenon, <1>1, <1>2, <1>3, InsertOK DEF t

\* wait and waitpid, on entry and on every turn of the loop.
LEMMA WaitOK ==
  ASSUME IInv, attempts = None, current # None, current # 0,
         NEW call \in {"wait", "waitpid"}, NEW pid \in Pid, NEW nohang \in BOOLEAN,
         me.state = "WAITING" => pid = me.call_pid /\ ~nohang,
         scheduler_waitpid(call, pid, nohang)
  PROVE  IInv' /\ ZombieStep
<1> DEFINE children == Children(pid)
           zombies == {i \in children : tasks[i].state = "ZOMBIE"}
<1>0. /\ current \in Slot /\ Sound(tasks, current) /\ ~Free(me)
      /\ tasks \in [Slot -> Task] /\ me \in Task
  BY Zenon DEF IInv, Scalars, Runner, Sound, me
<1>1. /\ me.pid \in Pid /\ me.pid # 0 /\ me.pid # 1
      /\ \A j \in Slot : ~Free(tasks[j]) /\ tasks[j].pid = me.pid => j = current
  <2>1. me.pid \in Pid
    BY Zenon, <1>0 DEF Task
  <2> QED BY Zenon, <1>0, <2>1, SlotFacts DEF Sound, UniquePids, IdleFirst, me
<1>2. \A j \in children : /\ j \in Slot /\ ~Free(tasks[j]) /\ tasks[j].parent_pid = me.pid
                          /\ pid # 0 => tasks[j].pid = pid
  BY Zenon DEF Children
<1>3. \A j \in Slot : /\ ~Free(tasks[j]) /\ tasks[j].parent_pid = me.pid
                      /\ pid # 0 => tasks[j].pid = pid
                      => j \in children
  BY Zenon DEF Children
<1> HIDE DEF children
<1>4. children # {} => Live(me)
  <2> SUFFICES ASSUME NEW j \in children PROVE Live(me)
    BY Zenon
  <2>1. PICK p \in Slot : tasks[p].pid = me.pid /\ Live(tasks[p])
    BY Zenon, <1>0, <1>1, <1>2 DEF Sound, LiveParents
  <2> QED BY Zenon, <1>1, <2>1 DEF Live, me
<1>5. me.state = "WAITING" => children # {} /\ zombies = {} /\ ~nohang
  <2> SUFFICES ASSUME me.state = "WAITING" PROVE children # {} /\ zombies = {}
    BY Zenon
  <2>1. tasks[current].wait_target = pid
    BY Zenon, <1>0 DEF Sound, WaitersInCall, me
  <2>2. \A j \in Slot : AwaitedIn(tasks, current, j) <=> j \in children
    BY Zenon, <1>2, <1>3, <2>1 DEF AwaitedIn, me
  <2> QED BY Zenon, <1>0, <1>2, <2>2 DEF Sound, WaitersServed, me
<1>6. UNCHANGED <<task_count, next_pid>>
  BY Zenon DEF scheduler_waitpid
<1>7. \A result \in Pid : ForegroundAfter(call, pid, result) \in Pid
  BY Zenon, <1>1 DEF ForegroundAfter, IInv, Scalars
<1>8. ASSUME NEW z \in zombies, NEW tb,
             tb = [tasks EXCEPT ![z].state = "DEAD", ![z].pid = 0, ![z].parent_pid = 0],
             WaitReturn(tb, call, pid, tasks[z].pid)
      PROVE  IInv' /\ ZombieStep
  <2>1. z \in Slot /\ z # 0 /\ z # current /\ tasks[z].state = "ZOMBIE"
        /\ tasks[z].parent_pid = me.pid /\ tasks[z].pid \in Pid
    <3>1. z \in Slot /\ tasks[z].state = "ZOMBIE" /\ tasks[z].parent_pid = me.pid
      BY Zenon, <1>2
    <3>2. z # 0
      BY Zenon, <1>0, <1>1, <3>1 DEF Sound, IdleFirst
    <3>3. z # current
      BY Zenon, <1>4, <3>1 DEF Live, me
    <3>4. tasks[z].pid \in Pid
      BY Zenon, <1>0, <3>1 DEF Task
    <3> QED BY Zenon, <3>1, <3>2, <3>3, <3>4
  <2>2. Sound(tb, current)
    BY Zenon, <1>0, <1>8, <2>1, ReapKeepsSound
  <2>3. /\ tb[current] = me /\ tb[z].state = "DEAD"
        /\ \A i \in Slot \ {z} : tb[i] = tasks[i]
    <3>1. tasks[z] \in Task
      BY Zenon, <1>0, <2>1
    <3>2. tb[z] = [tasks[z] EXCEPT !.state = "DEAD", !.pid = 0, !.parent_pid = 0]
      BY Zenon, <1>0, <1>8, <2>1
    <3>3. tb[z].state = "DEAD"
      BY Zenon, <3>1, <3>2 DEF Task
    <3> QED BY Zenon, <1>0, <1>8, <2>1, <3>3 DEF me
  <2> DEFINE u == [me EXCEPT !.call = "none", !.call_pid = 0]
             ub == [tb EXCEPT ![current] = u]
  <2>4. u \in Task /\ Mild(me, u) /\ u.call = "none"
    <3>1. /\ u \in Task /\ u.call = "none" /\ u.pid = me.pid /\ u.parent_pid = me.parent_pid
          /\ u.user = me.user /\ u.state = me.state /\ u.exit_status = me.exit_status
      BY Zenon, <1>0, PidFacts DEF Task
    <3> HIDE DEF u
    <3> QED BY Zenon, <1>5, <3>1 DEF Mild, Free
  <2> HIDE DEF u
  <2>5. Sound(ub, current) /\ Keeps(tb, ub)
    BY Zenon, <1>0, <2>2, <2>3, <2>4, OneMildKeepsSound
  <2>6. [tb EXCEPT ![current].call = "none", ![current].call_pid = 0] = ub
    <3>1. tb \in [Slot -> Task]
      BY Zenon, <2>2 DEF Sound
    <3> QED BY Zenon, <1>0, <2>3, <3>1 DEF u
  <2> HIDE DEF ub
  <2>7. SyscallReturn(ub) /\ foreground_pid' \in Pid
    BY Zenon, <1>7, <1>8, <2>1, <2>6 DEF WaitReturn
  <2>8. Sound(tasks', Runner') /\ Keeps(ub, tasks')
    BY Zenon, <1>0, <2>5, <2>7, ReturnKeepsSound
  <2>9. Keeps(tb, tasks')
    BY Zenon, <2>5, <2>8, KeepsTrans
  <2>10. Scalars' /\ current' = current
    BY Zenon, <1>6, <2>7 DEF SyscallReturn, IInv, Scalars
  <2>11. ~Free(tasks'[current])
    BY Zenon, <1>0, <2>3, <2>9 DEF Keeps
  <2>12. \A i \in Slot : i >= task_count' => Free(tasks'[i])
    BY ZenonT(60), <1>6, <2>1, <2>3, <2>9 DEF Keeps, IInv, Free
  <2>13. ZombieStep
    BY ZenonT(60), <2>1, <2>3, <2>9 DEF Keeps, ZombieStep, Free, me
  <2> QED BY Zenon, <2>8, <2>10, <2>11, <2>12, <2>13 DEF IInv
<1>9. ASSUME children = {} \/ (zombies = {} /\ nohang), WaitReturn(tasks, call, pid, 0)
      PROVE  IInv' /\ ZombieStep
  <2> DEFINE u == [me EXCEPT !.call = "none", !.call_pid = 0]
             ub == [tasks EXCEPT ![current] = u]
  <2>1. u \in Task /\ Mild(me, u) /\ u.call = "none"
    <3>1. /\ u \in Task /\ u.call = "none" /\ u.pid = me.pid /\ u.parent_pid = me.parent_pid
          /\ u.user = me.user /\ u.state = me.state /\ u.exit_status = me.exit_status
      BY Zenon, <1>0, PidFacts DEF Task
    <3> HIDE DEF u
    <3> QED BY Zenon, <1>5, <1>9, <3>1 DEF Mild, Free
  <2>2. [tasks EXCEPT ![current].call = "none", ![current].call_pid = 0] = ub
    BY Zenon, <1>0 DEF me
  <2> HIDE DEF u
  <2>3. Sound(ub, current) /\ Keeps(tasks, ub)
    BY Zenon, <1>0, <2>1, OneMildKeepsSound DEF me
  <2> HIDE DEF ub
  <2>4. SyscallReturn(ub) /\ foreground_pid' \in Pid
    BY Zenon, <1>7, <1>9, <2>2, PidFacts DEF WaitReturn
  <2> QED BY Zenon, <1>6, <2>3, <2>4, ReturnInPlace
<1>10. ASSUME children # {}, zombies = {}, UNCHANGED foreground_pid, NEW tb,
              tb = [tasks EXCEPT ![current].state = "WAITING",
                           ![current].wait_reason = "CHILD",
                           ![current].wait_target = pid,
                           ![current].call = call, ![current].call_pid = pid],
              StartTick(tb)
       PROVE  IInv' /\ ZombieStep
  <2>1. Live(tasks[current])
    BY Zenon, <1>4, <1>10 DEF me
  <2>2. \A j \in Slot : ChildIn(tasks, current, pid, j) <=> j \in children
    BY Zenon, <1>2, <1>3 DEF ChildIn, me
  <2>3. MustWait(tasks, current, pid)
    BY Zenon, <1>2, <1>10, <2>2 DEF MustWait
  <2>4. Sound(tb, current)
    <3>1. Sound([tasks EXCEPT ![current].state = "WAITING",
                   ![current].wait_reason = "CHILD", ![current].wait_target = pid,
                   ![current].call = call, ![current].call_pid = pid], current)
      BY Zenon, <1>0, <2>1, <2>3, WaitKeepsSound
    <3> QED BY Zenon, <1>10, <3>1
  <2>5. tb[current].state = "WAITING" /\ \A i \in Slot \ {current} : tb[i] = tasks[i]
    <3>1. tb[current] = [me EXCEPT !.state = "WAITING", !.wait_reason = "CHILD",
                           !.wait_target = pid, !.call = call, !.call_pid = pid]
      BY Zenon, <1>0, <1>10 DEF me
    <3>2. tb[current].state = "WAITING"
      BY ZenonT(60), <1>0, <3>1 DEF Task
    <3> QED BY Zenon, <1>0, <1>10, <3>2
  <2>6. Keeps(tasks, tb)
    BY Zenon, <2>1, <2>5 DEF Keeps, Live, Free
  <2> QED BY Zenon, <1>0, <1>6, <1>10, <2>4, <2>6, StartTickInPlace
<1>11. \/ \E z \in zombies :
            WaitReturn([tasks EXCEPT ![z].state = "DEAD", ![z].pid = 0, ![z].parent_pid = 0],
                       call, pid, tasks[z].pid)
       \/ /\ children = {} \/ (zombies = {} /\ nohang)
          /\ WaitReturn(tasks, call, pid, 0)
       \/ /\ children # {} /\ zombies = {}
          /\ StartTick([tasks EXCEPT ![current].state = "WAITING",
                           ![current].wait_reason = "CHILD",
                           ![current].wait_target = pid,
                           ![current].call = call, ![current].call_pid = pid])
          /\ UNCHANGED foreground_pid
  BY Zenon DEF scheduler_waitpid, children
<1> QED BY Zenon, <1>8, <1>9, <1>10, <1>11

LEMMA SysWaitOK ==
  ASSUME IInv, NEW pid \in Pid, NEW nohang \in BOOLEAN,
         sys_waitpid(pid, nohang) \/ sys_wait(pid)
  PROVE  IInv' /\ ZombieStep
<1>1. UserRuns /\ \/ scheduler_waitpid("waitpid", pid, nohang)
                  \/ scheduler_waitpid("wait", pid, FALSE)
  BY Zenon DEF sys_waitpid, sys_wait
<1> QED BY Zenon, <1>1, UserFacts, WaitOK

LEMMA ResumeWaitOK == IInv /\ ResumeWait => IInv' /\ ZombieStep
<1> SUFFICES ASSUME IInv, ResumeWait PROVE IInv' /\ ZombieStep
  BY Zenon
<1>1. /\ attempts = None /\ current # None /\ me.call \in {"wait", "waitpid"}
      /\ scheduler_waitpid(me.call, me.call_pid, FALSE)
  BY Zenon DEF ResumeWait
<1>2. current \in Slot /\ Sound(tasks, current)
  BY Zenon, <1>1 DEF IInv, Scalars, Runner
<1>3. me \in Task /\ current # 0
  BY Zenon, <1>1, <1>2 DEF Sound, IdleFirst, me
<1>4. me.call_pid \in Pid
  BY Zenon, <1>3 DEF Task
<1> QED BY Zenon, <1>1, <1>3, <1>4, WaitOK

LEMMA CandidateSlot ==
  ASSUME IInv, NEW k \in Int PROVE Candidate(k) \in Slot
<1>1. task_count \in 1..MAX_TASKS /\ index \in Int /\ MAX_TASKS \in Int
  BY SchedulerAssumption, SlotFacts DEF IInv, Scalars, None
<1>2. Candidate(k) \in 0..(task_count - 1)
  BY <1>1 DEF Candidate
<1> QED BY <1>1, <1>2 DEF Slot

LEMMA TickCandidateOK == IInv /\ TickCandidate => IInv' /\ ZombieStep
<1> SUFFICES ASSUME IInv, TickCandidate PROVE IInv' /\ ZombieStep
  BY Zenon
<1>1. attempts # None /\ UNCHANGED <<task_count, next_pid, foreground_pid>>
  BY Zenon DEF TickCandidate
<1>2. PICK k \in 1..attempts, stack_ok \in BOOLEAN :
        /\ Runnable(Candidate(k))
        /\ LET i == Candidate(k)
               t == tasks[i]
               tb == IF t.user /\ t.pending # {} /\ t.active = 0
                     THEN DeliverSignal(tasks, i, t.call = "none", stack_ok) ELSE tasks
           IN IF tb[i].state = "ZOMBIE"
              THEN /\ tasks' = tb /\ index' = i /\ attempts' = attempts - k
                   /\ UNCHANGED current
              ELSE SwitchTo(tb, i)
  BY Zenon DEF TickCandidate
<1> DEFINE i == Candidate(k)
           t == tasks[i]
           tb == IF t.user /\ t.pending # {} /\ t.active = 0
                 THEN DeliverSignal(tasks, i, t.call = "none", stack_ok) ELSE tasks
<1>3. attempts \in 0..MAX_TASKS /\ MAX_TASKS \in Int
  BY <1>1, SchedulerAssumption DEF IInv, Scalars
<1>4. i \in Slot
  BY SMTT(60), <1>3, CandidateSlot
<1>5. Live(t) /\ t.state # "WAITING" /\ Sound(tasks, None)
  BY Zenon, <1>1, <1>2 DEF Runnable, Live, Free, IInv, Runner
<1>6. /\ IF tb[i].state = "ZOMBIE"
         THEN /\ tasks' = tb /\ index' = i /\ attempts' = attempts - k
              /\ UNCHANGED current
         ELSE SwitchTo(tb, i)
  BY Zenon, <1>2
<1> HIDE DEF i
<1>7. Sound(tb, None) /\ Keeps(tasks, tb) /\ tb[i].state # "WAITING"
  <2>1. CASE t.user /\ t.pending # {} /\ t.active = 0
    <3> DEFINE ring3 == t.call = "none"
    <3>1. tb = DeliverSignal(tasks, i, ring3, stack_ok)
      BY Zenon, <2>1
    <3> HIDE DEF tb, ring3
    <3> QED BY ZenonT(60), <1>4, <1>5, <3>1, DeliverKeepsSound, DeliverNotWaiting
  <2>2. CASE ~(t.user /\ t.pending # {} /\ t.active = 0)
    <3>1. tb = tasks
      BY Zenon, <2>2
    <3> HIDE DEF tb
    <3> QED BY Zenon, <1>5, <3>1, KeepsRefl
  <2> QED BY ZenonT(60), <2>1, <2>2
<1> HIDE DEF tb
<1>8. ~Free(tb[i]) /\ ~Free(tasks[i])
  BY Zenon, <1>4, <1>5, <1>7 DEF Keeps, Live
<1>9. CASE tb[i].state = "ZOMBIE"
  <2>1. tasks' = tb /\ index' = i /\ attempts' = attempts - k /\ current' = current
    BY Zenon, <1>6, <1>9
  <2>2. attempts - k \in 0..MAX_TASKS /\ attempts - k # None
    BY <1>3 DEF None
  <2>3. Scalars' /\ Runner' = None
    BY Zenon, <1>1, <1>4, <2>1, <2>2 DEF IInv, Scalars, Runner
  <2> QED BY Zenon, <1>1, <1>7, <2>1, <2>3, InPlace DEF IInv
<1>10. CASE tb[i].state # "ZOMBIE"
  <2>1. /\ tasks' = [tb EXCEPT ![i].state = "RUNNING"]
        /\ current' = i /\ attempts' = None /\ index' = None
    BY Zenon, <1>6, <1>10 DEF SwitchTo
  <2>2. Sound(tasks', i) /\ Keeps(tb, tasks')
    BY Zenon, <1>4, <1>7, <1>8, <1>10, <2>1, SwitchKeepsSound DEF Live
  <2>3. Keeps(tasks, tasks')
    BY Zenon, <1>7, <2>2, KeepsTrans
  <2>4. Scalars' /\ Runner' = i
    BY Zenon, <1>1, <1>4, <2>1 DEF IInv, Scalars, Runner
  <2> QED BY Zenon, <1>1, <1>8, <2>1, <2>2, <2>3, <2>4, InPlace
<1> QED BY Zenon, <1>9, <1>10

LEMMA TickIdleOK == IInv /\ TickIdle => IInv' /\ ZombieStep
<1> SUFFICES ASSUME IInv, TickIdle PROVE IInv' /\ ZombieStep
  BY Zenon
<1>1. attempts # None /\ UNCHANGED <<task_count, next_pid, foreground_pid>>
  BY Zenon DEF TickIdle
<1>2. Sound(tasks, None)
  BY Zenon, <1>1 DEF IInv, Runner
<1>3. CASE tasks[0].state \notin {"ZOMBIE", "DEAD", "UNUSED"}
  <2>1. /\ tasks' = [tasks EXCEPT ![0].state = "RUNNING"]
        /\ current' = 0 /\ attempts' = None /\ index' = None
    BY Zenon, <1>3 DEF TickIdle, SwitchTo, idle_task_index
  <2>2. Live(tasks[0]) /\ tasks[0].state # "WAITING" /\ ~Free(tasks[0])
    BY Zenon, <1>2, <1>3 DEF Live, Free, Sound, IdleFirst
  <2>3. Sound(tasks', 0) /\ Keeps(tasks, tasks')
    BY Zenon, <1>2, <2>1, <2>2, SlotFacts, SwitchKeepsSound
  <2>4. Scalars' /\ Runner' = 0
    BY Zenon, <1>1, <2>1, SlotFacts DEF IInv, Scalars, Runner
  <2> QED BY Zenon, <1>1, <2>1, <2>2, <2>3, <2>4, InPlace
<1>4. CASE tasks[0].state \in {"ZOMBIE", "DEAD", "UNUSED"}
  <2>1. attempts' = None /\ index' = None /\ UNCHANGED <<tasks, current>>
    BY Zenon, <1>4 DEF TickIdle, idle_task_index
  <2>2. Sound(tasks', current)
    <3>1. OnlyRunning(tasks, current)
      BY Zenon, <1>2, SlotFacts DEF Sound, OnlyRunning
    <3>2. Sound(tasks, current)
      BY Zenon, <1>2, <3>1 DEF Sound
    <3> QED BY Zenon, <2>1, <3>2
  <2>3. Scalars' /\ Runner' = current /\ Keeps(tasks, tasks')
    BY Zenon, <1>1, <2>1, KeepsRefl DEF IInv, Scalars, Runner
  <2> QED BY Zenon, <1>1, <2>1, <2>2, <2>3, InPlace DEF IInv
<1> QED BY Zenon, <1>3, <1>4

-----------------------------------------------------------------------------
\* The inductive invariant and the theorems.

LEMMA InitIInv == Init => IInv
<1> SUFFICES ASSUME Init PROVE IInv
  BY Zenon
<1> DEFINE shell == IF Network THEN 2 ELSE 1
           boot == {0, shell - 1, shell}
<1>1. /\ tasks = [i \in Slot |-> IF i \in boot THEN NewTask(i + 1, 0, i = shell) ELSE UnusedTask]
      /\ task_count = shell + 1 /\ next_pid = shell + 2 /\ foreground_pid = shell + 1
      /\ current = None /\ attempts = None /\ index = None
  BY Zenon DEF Init, idle_task_index
<1>2. /\ shell \in {1, 2} /\ boot \subseteq Slot /\ boot \subseteq 0..shell /\ 0 \in boot
      /\ shell + 1 \in 1..MAX_TASKS /\ \A i \in boot : i + 1 \in Pid
      /\ shell + 2 \in Pid /\ shell + 1 \in Pid
  BY SMTT(60), SchedulerAssumption DEF Slot, Pid
<1> HIDE DEF shell, boot
<1>3. UnusedTask \in Task /\ UnusedTask.state = "UNUSED" /\ ~UnusedTask.user
  BY Zenon, PidFacts DEF UnusedTask, Task, TaskState, WaitReason, SIG_DFL
<1>4. \A i \in boot :
        LET t == NewTask(i + 1, 0, i = shell)
        IN /\ t \in Task /\ t.state = "READY" /\ t.pid = i + 1 /\ t.parent_pid = 0
           /\ t.call = "none" /\ t.user = (i = shell)
  BY ZenonT(60), <1>2, PidFacts DEF NewTask, UnusedTask, Task, TaskState, WaitReason, SIG_DFL
<1>5. /\ tasks \in [Slot -> Task]
      /\ \A i \in Slot \ boot : tasks[i].state = "UNUSED" /\ ~tasks[i].user
      /\ \A i \in boot : /\ tasks[i].state = "READY" /\ tasks[i].pid = i + 1
                         /\ tasks[i].parent_pid = 0 /\ tasks[i].call = "none"
                         /\ tasks[i].user = (i = shell)
  BY Zenon, <1>1, <1>2, <1>3, <1>4
<1>6. \A i \in Slot : Free(tasks[i]) <=> i \notin boot
  BY Zenon, <1>5 DEF Free
<1>7. OnlyRunning(tasks, None) /\ WaitersServed(tasks) /\ WaitersInCall(tasks)
  BY Zenon, <1>5 DEF OnlyRunning, WaitersServed, WaitersInCall
<1>8. UniquePids(tasks)
  BY <1>2, <1>5, <1>6, SlotFacts DEF UniquePids
<1>9. LiveParents(tasks)
  BY Zenon, <1>5, <1>6 DEF LiveParents
<1>10. UsersLive(tasks)
  BY Zenon, <1>5, <1>6 DEF UsersLive, Live
<1>11. IdleFirst(tasks)
  <2>1. 0 + 1 = 1 /\ 0 # shell /\ 0 \in Slot /\ 0 \in boot
    BY <1>2, SlotFacts
  <2>2. tasks[0].pid = 1 /\ ~tasks[0].user /\ tasks[0].state = "READY"
    BY Zenon, <1>5, <2>1
  <2> QED BY Zenon, <1>5, <1>6, <2>1, <2>2 DEF IdleFirst
<1>12. Sound(tasks, Runner)
  BY Zenon, <1>1, <1>5, <1>7, <1>8, <1>9, <1>10, <1>11 DEF Sound, Runner
<1>13. Scalars
  BY Zenon, <1>1, <1>2 DEF Scalars
<1>14. \A i \in Slot : i >= task_count => Free(tasks[i])
  BY <1>1, <1>2, <1>6, SlotFacts
<1> QED BY Zenon, <1>1, <1>12, <1>13, <1>14 DEF IInv

LEMMA NextIInv == IInv /\ [Next]_vars => IInv' /\ [ZombieStep]_vars
<1> SUFFICES ASSUME IInv, [Next]_vars PROVE IInv' /\ [ZombieStep]_vars
  BY Zenon
<1>1. CASE UNCHANGED vars
  BY Zenon, <1>1 DEF vars, IInv, Scalars, Runner
<1>2. CASE Syscall
  <2>1. ASSUME NEW status \in ExitCodes \cup {-1}, scheduler_exit_current(status)
        PROVE  IInv' /\ ZombieStep
    BY <2>1, ExitOK, SchedulerAssumption
  <2>2. ASSUME NEW d \in Dispositions, sys_signal(d[1], d[2])
        PROVE  IInv' /\ ZombieStep
    BY Zenon, <2>2, SignalOK, SchedulerAssumption
  <2>3. ASSUME NEW how \in {"SIG_BLOCK", "SIG_UNBLOCK", "SIG_SETMASK"}, NEW set \in Masks,
               sys_sigprocmask(how, set)
        PROVE  IInv' /\ ZombieStep
    BY Zenon, <2>3, SigprocmaskOK, SchedulerAssumption
  <2>4. ASSUME NEW pid \in Pid \ {0}, NEW sig \in Kills, sys_kill(pid, sig)
        PROVE  IInv' /\ ZombieStep
    BY Zenon, <2>4, KillOK
  <2>5. ASSUME NEW pid \in Pid, NEW nohang \in BOOLEAN, sys_waitpid(pid, nohang)
        PROVE  IInv' /\ ZombieStep
    BY Zenon, <2>5, SysWaitOK
  <2>6. ASSUME NEW pid \in Pid, sys_wait(pid)
        PROVE  IInv' /\ ZombieStep
    BY Zenon, <2>6, SysWaitOK
  <2> QED BY Zenon, <1>2, <2>1, <2>2, <2>3, <2>4, <2>5, <2>6, SpawnOK, ForkOK, ExecveOK, YieldOK,
             SigreturnOK, ReadStdinOK, OtherOK DEF Syscall
<1>3. CASE Resume
  BY Zenon, <1>3, ResumeWaitOK, ResumeYieldOK DEF Resume
<1>4. CASE Interrupt
  BY Zenon, <1>4, TimerTickOK, KeyboardPushOK, KeyboardSigintOK DEF Interrupt
<1>5. CASE scheduler_tick
  BY Zenon, <1>5, TickCandidateOK, TickIdleOK DEF scheduler_tick
<1> QED BY Zenon, <1>1, <1>2, <1>3, <1>4, <1>5 DEF Next

LEMMA IInvImplies ==
  IInv => TypeOK /\ PidsUnique /\ ParentsLive /\ WaitersHaveLiveChild /\ RunningIsCurrent
<1> SUFFICES ASSUME IInv
    PROVE TypeOK /\ PidsUnique /\ ParentsLive /\ WaitersHaveLiveChild /\ RunningIsCurrent
  BY Zenon
<1>1. Sound(tasks, Runner)
  BY Zenon DEF IInv
<1>2. TypeOK
  BY Zenon, <1>1 DEF TypeOK, IInv, Scalars, Sound
<1>3. PidsUnique
  BY Zenon, <1>1 DEF PidsUnique, UniquePids, Sound
<1>4. ParentsLive
  BY Zenon, <1>1 DEF ParentsLive, LiveParents, Live, Sound
<1>5. WaitersHaveLiveChild
  BY Zenon, <1>1 DEF WaitersHaveLiveChild, Awaited, WaitersServed, AwaitedIn, Sound
<1>6. RunningIsCurrent
  BY Zenon, <1>1, SlotFacts DEF RunningIsCurrent, OnlyRunning, Sound, Runner
<1> QED BY Zenon, <1>2, <1>3, <1>4, <1>5, <1>6

LEMMA IInvHolds == Spec => []IInv
  BY InitIInv, NextIInv, PTL DEF Spec

\* Type correctness of the task table and of the scheduler's variables.
THEOREM TypeCorrect == Spec => []TypeOK
  BY IInvHolds, IInvImplies, PTL

\* generate_pid never gives out a PID in use, for any table size and PID range.
THEOREM UniquePidsHold == Spec => []PidsUnique
  BY IInvHolds, IInvImplies, PTL

\* scheduler_terminate_task's reparenting leaves no task with a dead parent.
THEOREM ParentsLiveHolds == Spec => []ParentsLive
  BY IInvHolds, IInvImplies, PTL

\* scheduler_waitpid and scheduler_terminate_task lose no wake-up.
THEOREM NoLostChildExit == Spec => []WaitersHaveLiveChild
  BY IInvHolds, IInvImplies, PTL

\* At most one task is RUNNING, the current one, even in the middle of a tick.
THEOREM OnlyCurrentRuns == Spec => []RunningIsCurrent
  BY IInvHolds, IInvImplies, PTL

\* A zombie's slot, PID and exit status stay until its parent reaps it.
THEOREM ZombiesKept == Spec => ZombieReapedByParent
  BY IInvHolds, NextIInv, PTL DEF Spec, ZombieReapedByParent

-----------------------------------------------------------------------------
\* Signals.  A stopped task holds no SIGCONT, and no task blocks SIGKILL: that a
\* blocked signal kills nobody depends on it, for kill terminates at once.
Calm(t) ==
  /\ t.state = "STOPPED" => SIGCONT \notin t.pending
  /\ SIGKILL \notin t.blocked

\* If u is a zombie that died of a signal, the signal was not blocked.
Pardoned(u) ==
  u.state = "ZOMBIE" => \A s \in Signal : u.exit_status = 128 + s => s \notin u.blocked

\* What a step, or the first part of one, does to a task.
Spares(t, u) == Calm(t) => Calm(u) /\ (t.state # "ZOMBIE" => Pardoned(u))

\* What the parts that may come after another do: they leave the dead alone.
Settles(t, u) ==
  Calm(t) =>
    /\ Calm(u)
    /\ IF t.state = "ZOMBIE"
       THEN /\ u.state = "ZOMBIE" /\ u.exit_status = t.exit_status
            /\ u.blocked = t.blocked
       ELSE Pardoned(u)

AllSpare(tb, ub) == \A j \in Slot : Spares(tb[j], ub[j])
AllSettle(tb, ub) == \A j \in Slot : Settles(tb[j], ub[j])

LEMMA SettleRefl == ASSUME NEW t PROVE Settles(t, t)
  BY Zenon DEF Settles, Pardoned

LEMMA SettleTrans ==
  ASSUME NEW t, NEW u, NEW v, Settles(t, u), Settles(u, v) PROVE Settles(t, v)
  BY Zenon DEF Settles, Pardoned

LEMMA AllSettleRefl == ASSUME NEW tb PROVE AllSettle(tb, tb) /\ AllSpare(tb, tb)
  BY Zenon DEF AllSettle, AllSpare, Settles, Spares, Pardoned

LEMMA AllSettleTrans ==
  ASSUME NEW tb, NEW ub, NEW wb, AllSettle(tb, ub), AllSettle(ub, wb)
  PROVE  AllSettle(tb, wb)
  BY Zenon, SettleTrans DEF AllSettle

LEMMA SpareThenSettle ==
  ASSUME NEW tb, NEW ub, NEW wb, AllSpare(tb, ub), AllSettle(ub, wb)
  PROVE  AllSpare(tb, wb)
  BY ZenonT(60) DEF AllSpare, AllSettle, Spares, Settles, Pardoned

LEMMA SettleIsSpare ==
  ASSUME NEW tb, NEW ub, AllSettle(tb, ub) PROVE AllSpare(tb, ub)
  BY Zenon DEF AllSpare, AllSettle, Spares, Settles

\* A task that is no zombie and changes neither its mask nor, when stopped, what
\* is pending.
LEMMA QuietSettles ==
  ASSUME NEW t, NEW u, u.state # "ZOMBIE", t.state # "ZOMBIE", u.blocked = t.blocked,
         \/ u.state # "STOPPED"
         \/ t.state = "STOPPED" /\ (SIGCONT \in u.pending => SIGCONT \in t.pending)
  PROVE  Settles(t, u)
  BY Zenon DEF Settles, Pardoned, Calm

\* One task changed.
LEMMA OneSettles ==
  ASSUME NEW tb \in [Slot -> Task], NEW i \in Slot, NEW u \in Task, Settles(tb[i], u)
  PROVE  /\ [tb EXCEPT ![i] = u] \in [Slot -> Task]
         /\ AllSettle(tb, [tb EXCEPT ![i] = u])
  BY Zenon, SettleRefl DEF AllSettle

LEMMA WakeSettles ==
  ASSUME NEW t \in Task, t.state # "ZOMBIE" PROVE Settles(t, Wake(t))
<1>1. Wake(t).state = "READY" /\ Wake(t).blocked = t.blocked
  BY Zenon DEF Wake, Task
<1> QED BY Zenon, <1>1, QuietSettles

LEMMA StopSettles ==
  ASSUME NEW t \in Task, t.state # "ZOMBIE" PROVE Settles(t, Stop(t))
<1>1. /\ Stop(t).state = "STOPPED" /\ Stop(t).blocked = t.blocked
      /\ Stop(t).pending = t.pending \ {SIGCONT}
  BY Zenon DEF Stop, Task
<1> QED BY Zenon, <1>1 DEF Settles, Pardoned, Calm

\* Pending signals come and go without harm, but for SIGCONT at a stopped task.
LEMMA PendSettles ==
  ASSUME NEW t \in Task, NEW S \in SUBSET Signal,
         t.state = "STOPPED" /\ SIGCONT \in S => SIGCONT \in t.pending
  PROVE  Settles(t, [t EXCEPT !.pending = S])
<1> DEFINE u == [t EXCEPT !.pending = S]
<1>1. /\ u.state = t.state /\ u.blocked = t.blocked /\ u.pending = S
      /\ u.exit_status = t.exit_status
  BY Zenon DEF Task
<1> HIDE DEF u
<1>2. Settles(t, u)
  BY Zenon, <1>1 DEF Settles, Pardoned, Calm
<1> QED BY Zenon, <1>2 DEF u

LEMMA PostSettles ==
  ASSUME NEW t \in Task, Live(t), NEW sig \in Signal
  PROVE  Settles(t, Post(t, sig))
<1> DEFINE d == [t EXCEPT !.pending = @ \ {SIGSTOP}]
           c == IF sig = SIGCONT THEN IF t.state = "STOPPED" THEN Wake(d) ELSE d ELSE t
           p == [c EXCEPT !.pending = @ \cup {sig}]
<1>1. d \in Task /\ Settles(t, d) /\ d.state = t.state
  <2>1. t.pending \ {SIGSTOP} \in SUBSET Signal
    BY Zenon DEF Task
  <2> QED BY Zenon, <2>1, PendSettles, PendMild
<1>2. /\ c \in Task /\ Settles(t, c) /\ c.state # "ZOMBIE" /\ Live(c)
      /\ sig = SIGCONT => c.state # "STOPPED"
  <2>1. d.state # "ZOMBIE" /\ Live(d)
    BY Zenon, <1>1 DEF Live, Free
  <2> HIDE DEF d
  <2>2. /\ Wake(d) \in Task /\ Settles(d, Wake(d)) /\ Wake(d).state = "READY"
    <3>1. Wake(d).state = "READY"
      BY Zenon, <1>1 DEF Wake, Task
    <3> QED BY Zenon, <1>1, <2>1, <3>1, WakeSettles, WakeMild
  <2>3. Settles(t, Wake(d))
    BY Zenon, <1>1, <2>2, SettleTrans
  <2> QED BY Zenon, <1>1, <2>1, <2>2, <2>3, SettleRefl DEF Live, Free
<1> HIDE DEF c, d
<1>3. p \in Task /\ Settles(c, p) /\ p.state = c.state
  <2>1. c.pending \cup {sig} \in SUBSET Signal
    BY Zenon, <1>2 DEF Task
  <2> QED BY Zenon, <1>2, <2>1, PendSettles, PendMild
<1> HIDE DEF p
<1>4. Settles(p, Wake(p))
  BY Zenon, <1>2, <1>3, WakeSettles
<1>5. Settles(t, p) /\ Settles(t, Wake(p))
  BY <1>2, <1>3, <1>4, SettleTrans
<1>6. Post(t, sig) \in {c, p, Wake(p)}
  BY Zenon DEF Post, c, d, p
<1> QED BY Zenon, <1>2, <1>5, <1>6

LEMMA PostToSettles ==
  ASSUME NEW tb \in [Slot -> Task], NEW pid, NEW sig \in Signal
  PROVE  AllSettle(tb, PostTo(tb, pid, sig)) /\ PostTo(tb, pid, sig) \in [Slot -> Task]
<1> DEFINE P(i) == i \in Holders(tb, pid) /\ tb[i].state # "ZOMBIE"
<1>1. \A i \in Slot : P(i) => Live(tb[i])
  BY Zenon DEF Holders, Live
<1>2. \A i \in Slot : P(i) => Settles(tb[i], Post(tb[i], sig)) /\ Post(tb[i], sig) \in Task
  <2> HIDE DEF P
  <2> QED BY Zenon, <1>1, PostSettles, PostMild
<1>3. PostTo(tb, pid, sig) = [i \in Slot |-> IF P(i) THEN Post(tb[i], sig) ELSE tb[i]]
  BY Zenon DEF PostTo
<1> HIDE DEF P
<1> QED BY Zenon, <1>2, <1>3, SettleRefl DEF AllSettle

\* Terminating task i leaves the others alone; task i dies of status.
LEMMA TerminateSettles ==
  ASSUME NEW tb \in [Slot -> Task], NEW i \in Slot, Live(tb[i]), NEW status \in Int,
         NEW ub, ub = scheduler_terminate_task(tb, i, status)
  PROVE  /\ \A j \in Slot \ {i} : Settles(tb[j], ub[j])
         /\ Calm(tb[i]) => Calm(ub[i])
         /\ (\A s \in Signal : status = 128 + s => s \notin tb[i].blocked)
              => Settles(tb[i], ub[i])
<1> DEFINE e == tb[i].pid
           q == tb[i].parent_pid
           T(k) == IF k = i THEN Zombie(tb[i], status) ELSE tb[k]
           R(k) == Reparent(T(k), e)
           W(k) == wake_parent_waiters(R(k), e)
           N(k) == NotifyParent(W(k), q)
<1>0. e \in Pid /\ q \in Pid /\ \A k \in Slot : tb[k] \in Task
  BY Zenon DEF Task
<1>1. ub = [k \in Slot |-> N(k)]
  BY Zenon DEF scheduler_terminate_task, Live
<1>2. \A k \in Slot : T(k) \in Task
  BY Zenon, <1>0, ZombieFields
<1>3. \A k \in Slot \ {i} : T(k) = tb[k]
  BY Zenon
<1>4. /\ T(i).state = "ZOMBIE" /\ T(i).exit_status = status
      /\ T(i).blocked = tb[i].blocked
  BY ZenonT(60), <1>0 DEF Zombie, Task
<1> HIDE DEF T, e, q
<1>5. \A k \in Slot : R(k) \in Task /\ Settles(T(k), R(k))
  <2> SUFFICES ASSUME NEW k \in Slot PROVE R(k) \in Task /\ Settles(T(k), R(k))
    BY Zenon
  <2>1. /\ R(k) \in Task /\ R(k).state = T(k).state /\ R(k).exit_status = T(k).exit_status
    BY ZenonT(60), <1>0, <1>2, ReparentFields
  <2>2. R(k).blocked = T(k).blocked /\ R(k).pending = T(k).pending
    BY ZenonT(60), <1>0, <1>2 DEF Reparent, Task
  <2> HIDE DEF R
  <2> QED BY Zenon, <2>1, <2>2 DEF Settles, Pardoned, Calm
<1> HIDE DEF R
<1>6. \A k \in Slot : W(k) \in Task /\ Settles(R(k), W(k))
  <2> SUFFICES ASSUME NEW k \in Slot PROVE W(k) \in Task /\ Settles(R(k), W(k))
    BY Zenon
  <2>1. W(k) \in Task
    BY Zenon, <1>0, <1>5, WakeWaiterFields
  <2>2. W(k) = R(k) \/ (R(k).state # "ZOMBIE" /\ W(k) = Wake(R(k)))
    BY Zenon DEF wake_parent_waiters
  <2> HIDE DEF W
  <2> QED BY Zenon, <1>5, <2>1, <2>2, WakeSettles, SettleRefl
<1> HIDE DEF W
<1>7. \A k \in Slot : N(k) \in Task /\ Settles(W(k), N(k))
  <2> SUFFICES ASSUME NEW k \in Slot PROVE N(k) \in Task /\ Settles(W(k), N(k))
    BY Zenon
  <2>1. W(k).pending \cup {SIGCHLD} \in SUBSET Signal
    BY ZenonT(60), <1>6, SchedulerAssumption DEF Task
  <2>2. SIGCONT \in W(k).pending \cup {SIGCHLD} => SIGCONT \in W(k).pending
    BY DEF SIGCONT, SIGCHLD
  <2>3. Settles(W(k), [W(k) EXCEPT !.pending = W(k).pending \cup {SIGCHLD}])
    BY Zenon, <1>6, <2>1, <2>2, PendSettles
  <2>4. N(k) = W(k) \/ N(k) = [W(k) EXCEPT !.pending = W(k).pending \cup {SIGCHLD}]
    BY Zenon DEF NotifyParent
  <2>5. N(k) \in Task
    BY Zenon, <1>0, <1>6, NotifyFields
  <2> HIDE DEF N
  <2> QED BY Zenon, <2>3, <2>4, <2>5, SettleRefl
<1> HIDE DEF N
<1>8. \A k \in Slot : Settles(T(k), ub[k])
  <2> SUFFICES ASSUME NEW k \in Slot PROVE Settles(T(k), ub[k])
    BY Zenon
  <2>1. Settles(T(k), R(k)) /\ Settles(R(k), W(k)) /\ Settles(W(k), N(k))
    BY Zenon, <1>5, <1>6, <1>7
  <2>2. Settles(T(k), W(k))
    BY Zenon, <2>1, SettleTrans
  <2>3. Settles(T(k), N(k))
    BY Zenon, <2>1, <2>2, SettleTrans
  <2>4. ub[k] = N(k)
    BY Zenon, <1>1
  <2> QED BY Zenon, <2>3, <2>4
<1>9. \A j \in Slot \ {i} : Settles(tb[j], ub[j])
  BY Zenon, <1>3, <1>8
<1>10. Calm(tb[i]) => Calm(T(i))
  BY Zenon, <1>4 DEF Calm
<1>11. Calm(tb[i]) => Calm(ub[i])
  BY Zenon, <1>8, <1>10 DEF Settles
<1>12. ASSUME \A s \in Signal : status = 128 + s => s \notin tb[i].blocked
       PROVE  Settles(tb[i], ub[i])
  <2>1. Settles(tb[i], T(i))
    BY Zenon, <1>4, <1>10, <1>12 DEF Settles, Pardoned, Live
  <2> QED BY Zenon, <1>8, <2>1, SettleTrans
<1> QED BY Zenon, <1>9, <1>11, <1>12

LEMMA TerminateSettlesAll ==
  ASSUME NEW tb \in [Slot -> Task], NEW i \in Slot, Live(tb[i]), NEW status \in Int,
         \A s \in Signal : status = 128 + s => s \notin tb[i].blocked
  PROVE  /\ AllSettle(tb, scheduler_terminate_task(tb, i, status))
         /\ scheduler_terminate_task(tb, i, status) \in [Slot -> Task]
<1> DEFINE ub == scheduler_terminate_task(tb, i, status)
<1>1. Terminated(tb, ub, i)
  BY Zenon, TerminateFields
<1> HIDE DEF ub
<1>2. Settles(tb[i], ub[i]) /\ \A j \in Slot \ {i} : Settles(tb[j], ub[j])
  BY Zenon, TerminateSettles DEF ub
<1>3. ub \in [Slot -> Task] /\ AllSettle(tb, ub)
  BY Zenon, <1>1, <1>2 DEF Terminated, AllSettle
<1> QED BY Zenon, <1>3 DEF ub

LEMMA SendSettles ==
  ASSUME NEW tb \in [Slot -> Task], NEW i \in Slot, ~Free(tb[i]), Calm(tb[i]),
         NEW sig \in Signal
  PROVE  /\ AllSettle(tb, scheduler_send_signal(tb, i, sig))
         /\ scheduler_send_signal(tb, i, sig) \in [Slot -> Task]
<1>1. CASE tb[i].state = "ZOMBIE"
  BY Zenon, <1>1, AllSettleRefl DEF scheduler_send_signal
<1>2. CASE tb[i].state # "ZOMBIE" /\ sig = SIGKILL
  <2>1. 128 + SIGKILL \in Int
    BY SMTT(60) DEF SIGKILL
  <2>2. \A s \in Signal : 128 + SIGKILL = 128 + s => s \notin tb[i].blocked
    <3>1. \A s \in Signal : s \in Int
      BY SchedulerAssumption
    <3>2. \A s \in Signal : 128 + SIGKILL = 128 + s => s = SIGKILL
      BY <3>1 DEF SIGKILL
    <3> QED BY Zenon, <3>2 DEF Calm
  <2>3. scheduler_send_signal(tb, i, sig) = scheduler_terminate_task(tb, i, 128 + SIGKILL)
    BY Zenon, <1>2 DEF scheduler_send_signal
  <2>4. Live(tb[i])
    BY Zenon, <1>2 DEF Live
  <2> DEFINE status == 128 + SIGKILL
  <2> HIDE DEF status
  <2>5. /\ AllSettle(tb, scheduler_terminate_task(tb, i, status))
        /\ scheduler_terminate_task(tb, i, status) \in [Slot -> Task]
    BY SMTT(60), <2>1, <2>2, <2>4, TerminateSettlesAll DEF status
  <2> QED BY ZenonT(60), <2>3, <2>5 DEF status
<1>3. CASE tb[i].state # "ZOMBIE" /\ sig # SIGKILL /\ sig = SIGSTOP
  <2> DEFINE stopped == [tb EXCEPT ![i] = Stop(tb[i])]
             posted == PostTo(stopped, tb[i].parent_pid, SIGCHLD)
  <2>1. Stop(tb[i]) \in Task /\ Settles(tb[i], Stop(tb[i]))
    BY Zenon, <1>3, StopMild, StopSettles DEF Live
  <2>2. stopped \in [Slot -> Task] /\ AllSettle(tb, stopped)
    BY Zenon, <2>1, OneSettles
  <2>3. scheduler_send_signal(tb, i, sig) = IF tb[i].parent_pid = 0 THEN stopped ELSE posted
    BY Zenon, <1>3 DEF scheduler_send_signal
  <2> HIDE DEF stopped
  <2>4. AllSettle(stopped, posted) /\ posted \in [Slot -> Task]
    <3>1. SIGCHLD \in Signal
      BY Zenon, SchedulerAssumption
    <3> QED BY Zenon, <2>2, <3>1, PostToSettles
  <2> HIDE DEF posted
  <2>5. AllSettle(tb, posted)
    BY Zenon, <2>2, <2>4, AllSettleTrans
  <2> QED BY Zenon, <2>2, <2>3, <2>4, <2>5
<1>4. CASE tb[i].state # "ZOMBIE" /\ sig # SIGKILL /\ sig # SIGSTOP
  <2>1. Post(tb[i], sig) \in Task /\ Settles(tb[i], Post(tb[i], sig))
    BY Zenon, <1>4, PostMild, PostSettles DEF Live
  <2>2. scheduler_send_signal(tb, i, sig) = [tb EXCEPT ![i] = Post(tb[i], sig)]
    BY Zenon, <1>4 DEF scheduler_send_signal
  <2> DEFINE u == Post(tb[i], sig)
  <2> HIDE DEF u
  <2>3. [tb EXCEPT ![i] = u] \in [Slot -> Task] /\ AllSettle(tb, [tb EXCEPT ![i] = u])
    BY Zenon, <2>1, OneSettles DEF u
  <2> QED BY Zenon, <2>2, <2>3 DEF u
<1> QED BY Zenon, <1>1, <1>2, <1>3, <1>4

LEMMA NextPendingUnblocked ==
  ASSUME NEW t \in Task, next_pending_signal(t) # 0
  PROVE  next_pending_signal(t) \in t.pending \ t.blocked
<1> DEFINE D == t.pending \ t.blocked
<1>1. D \in SUBSET Signal
  BY Zenon DEF Task
<1>2. D # {}
  BY Zenon DEF next_pending_signal
<1>3. next_pending_signal(t) = CHOOSE s \in D : \A r \in D : s <= r
  BY Zenon, <1>2 DEF next_pending_signal
<1> HIDE DEF D
<1>4. \E s \in D : \A r \in D : s <= r
  BY Zenon, <1>1, <1>2, NonemptyHasLeast
<1>5. (CHOOSE s \in D : \A r \in D : s <= r) \in D
  BY Zenon, <1>4
<1> QED BY Zenon, <1>3, <1>5 DEF D

LEMMA DeliverSettles ==
  ASSUME NEW tb \in [Slot -> Task], NEW i \in Slot, NEW ring3, NEW stack_ok
  PROVE  /\ AllSettle(tb, DeliverSignal(tb, i, ring3, stack_ok))
         /\ DeliverSignal(tb, i, ring3, stack_ok) \in [Slot -> Task]
<1> DEFINE t == tb[i]
           s == next_pending_signal(t)
           u == [t EXCEPT !.pending = @ \ {s}]
           v == [u EXCEPT !.active = s]
           taken == [tb EXCEPT ![i] = u]
           dead == scheduler_terminate_task(taken, i, 128 + s)
           caught == [tb EXCEPT ![i] = v]
<1>0. t \in Task
  BY Zenon
<1>1. s \in Signal \cup {0}
  BY Zenon, <1>0, NextPendingType
<1>2. \/ DeliverSignal(tb, i, ring3, stack_ok) = tb
      \/ s # 0 /\ DeliverSignal(tb, i, ring3, stack_ok)
                   \in {taken, dead, [taken EXCEPT ![i].active = s]}
  BY DEF DeliverSignal
<1>3. s # 0 => s \in t.pending \ t.blocked
  BY Zenon, <1>0, NextPendingUnblocked
<1> HIDE DEF s
<1>4. u \in Task /\ Settles(t, u) /\ u.state = t.state /\ u.blocked = t.blocked
  <2>1. t.pending \ {s} \in SUBSET Signal
    BY Zenon, <1>0 DEF Task
  <2>2. u \in Task /\ Settles(t, u) /\ u.state = t.state
    BY Zenon, <1>0, <2>1, PendMild, PendSettles
  <2>3. u.blocked = t.blocked
    BY Zenon, <1>0 DEF Task
  <2> QED BY Zenon, <2>2, <2>3
<1> HIDE DEF t, u
<1>5. v \in Task /\ Settles(u, v)
  <2>1. v \in Task
    BY Zenon, <1>1, <1>4 DEF Task
  <2>2. /\ v.state = u.state /\ v.blocked = u.blocked /\ v.pending = u.pending
        /\ v.exit_status = u.exit_status
    BY Zenon, <1>4 DEF Task
  <2> HIDE DEF v
  <2> QED BY Zenon, <2>1, <2>2 DEF Settles, Pardoned, Calm
<1>6. Settles(t, v)
  BY Zenon, <1>4, <1>5, SettleTrans
<1>7. taken \in [Slot -> Task] /\ AllSettle(tb, taken)
  BY Zenon, <1>4, OneSettles DEF t
<1>8. caught \in [Slot -> Task] /\ AllSettle(tb, caught)
  <2> HIDE DEF v
  <2> QED BY Zenon, <1>5, <1>6, OneSettles DEF t
<1>9. [taken EXCEPT ![i].active = s] = caught /\ taken[i] = u
  BY Zenon
<1> HIDE DEF taken, caught
<1>10. s # 0 => dead \in [Slot -> Task] /\ AllSettle(tb, dead)
  <2> SUFFICES ASSUME s # 0 PROVE dead \in [Slot -> Task] /\ AllSettle(tb, dead)
    BY Zenon
  <2>1. 128 + s \in Int
    BY <1>1, SchedulerAssumption
  <2>2. \A r \in Signal : 128 + s = 128 + r => r \notin taken[i].blocked
    <3>1. \A r \in Signal : r \in Int
      BY SchedulerAssumption
    <3>2. \A r \in Signal : 128 + s = 128 + r => r = s
      BY <1>1, <3>1
    <3> QED BY ZenonT(60), <1>3, <1>4, <1>9, <3>2
  <2>3. CASE Live(taken[i])
    <3>1. dead \in [Slot -> Task] /\ AllSettle(taken, dead)
      BY <1>7, <2>1, <2>2, <2>3, TerminateSettlesAll
    <3> HIDE DEF dead
    <3> QED BY Zenon, <1>7, <3>1, AllSettleTrans
  <2>4. CASE ~Live(taken[i])
    <3>1. dead = taken
      BY Zenon, <2>4 DEF scheduler_terminate_task, Live
    <3> QED BY ZenonT(60), <1>7, <3>1
  <2> QED BY Zenon, <2>3, <2>4
<1> HIDE DEF dead
<1> QED BY Zenon, <1>2, <1>7, <1>8, <1>9, <1>10, AllSettleRefl

-----------------------------------------------------------------------------
\* The same, one lemma per action.

SInv == IInv /\ \A i \in Slot : Calm(tasks[i])

LEMMA Typed == IInv => tasks \in [Slot -> Task] /\ current \in Slot \cup {None}
  BY Zenon DEF IInv, Scalars, Sound

LEMMA ReturnSpares ==
  ASSUME NEW tb \in [Slot -> Task], current \in Slot, AllSpare(tasks, tb), SyscallReturn(tb)
  PROVE  AllSpare(tasks, tasks')
<1>1. PICK stack_ok \in BOOLEAN : tasks' = DeliverSignal(tb, current, TRUE, stack_ok)
  BY Zenon DEF SyscallReturn
<1>2. AllSettle(tb, tasks')
  BY Zenon, <1>1, DeliverSettles
<1> QED BY Zenon, <1>2, SpareThenSettle

LEMMA StdinSettles ==
  ASSUME NEW tb \in [Slot -> Task]
  PROVE  AllSettle(tb, WakeStdinReaders(tb)) /\ WakeStdinReaders(tb) \in [Slot -> Task]
<1>1. \A i \in Slot : tb[i].state = "SLEEPING" =>
        Wake(tb[i]) \in Task /\ Settles(tb[i], Wake(tb[i]))
  <2>1. \A i \in Slot : tb[i].state = "SLEEPING" => Live(tb[i])
    BY Zenon DEF Live, Free
  <2> QED BY Zenon, <2>1, WakeMild, WakeSettles DEF Live
<1> QED BY Zenon, <1>1, SettleRefl DEF WakeStdinReaders, AllSettle

LEMMA StateSettles ==
  ASSUME NEW t \in Task, t.state # "ZOMBIE", NEW st \in {"READY", "RUNNING"}
  PROVE  [t EXCEPT !.state = st] \in Task /\ Settles(t, [t EXCEPT !.state = st])
<1> DEFINE u == [t EXCEPT !.state = st]
<1>1. u \in Task /\ u.state = st /\ u.blocked = t.blocked
  BY ZenonT(60) DEF Task, TaskState
<1> HIDE DEF u
<1>2. Settles(t, u)
  BY <1>1, QuietSettles
<1> QED BY Zenon, <1>1, <1>2 DEF u

LEMMA StartTickSpares ==
  ASSUME NEW tb \in [Slot -> Task], AllSpare(tasks, tb), StartTick(tb)
  PROVE  AllSpare(tasks, tasks')
<1>1. PICK serial \in BOOLEAN :
        LET w == IF serial THEN WakeStdinReaders(tb) ELSE tb
        IN tasks' = [i \in Slot |-> IF i = current /\ w[i].state = "RUNNING"
                                    THEN [w[i] EXCEPT !.state = "READY"] ELSE w[i]]
  BY Zenon DEF StartTick
<1> DEFINE w == IF serial THEN WakeStdinReaders(tb) ELSE tb
<1>2. w \in [Slot -> Task] /\ AllSettle(tb, w)
  BY Zenon, StdinSettles, AllSettleRefl
<1>3. tasks' = [i \in Slot |-> IF i = current /\ w[i].state = "RUNNING"
                               THEN [w[i] EXCEPT !.state = "READY"] ELSE w[i]]
  BY Zenon, <1>1
<1> HIDE DEF w
<1>4. \A i \in Slot : w[i].state = "RUNNING" => Settles(w[i], [w[i] EXCEPT !.state = "READY"])
  BY Zenon, <1>2, StateSettles
<1>5. AllSettle(w, tasks')
  BY Zenon, <1>3, <1>4, SettleRefl DEF AllSettle
<1> QED BY Zenon, <1>2, <1>5, AllSettleTrans, SpareThenSettle

\* A call that changes only its caller, and the way back to ring 3.
LEMMA CallerSpares ==
  ASSUME IInv, current \in Slot, NEW u \in Task, Settles(me, u),
         SyscallReturn([tasks EXCEPT ![current] = u])
  PROVE  AllSpare(tasks, tasks')
<1> DEFINE tb == [tasks EXCEPT ![current] = u]
<1>1. tb \in [Slot -> Task] /\ AllSettle(tasks, tb)
  BY Zenon, Typed, OneSettles DEF me
<1> HIDE DEF tb
<1> QED BY Zenon, <1>1, SettleIsSpare, ReturnSpares DEF tb

LEMMA OtherSpares == IInv /\ sys_other => AllSpare(tasks, tasks')
<1> SUFFICES ASSUME IInv, sys_other PROVE AllSpare(tasks, tasks')
  BY Zenon
<1>1. UserRuns /\ SyscallReturn(tasks)
  BY Zenon DEF sys_other
<1> QED BY Zenon, <1>1, UserFacts, Typed, AllSettleRefl, ReturnSpares

LEMMA ExecveSpares == IInv /\ sys_execve => AllSpare(tasks, tasks')
<1> SUFFICES ASSUME IInv, sys_execve PROVE AllSpare(tasks, tasks')
  BY Zenon
<1> DEFINE h == [s \in Signal |-> IF me.handler[s] = SIG_IGN THEN SIG_IGN ELSE SIG_DFL]
           u == [me EXCEPT !.handler = h, !.active = 0]
<1>0. UserRuns /\ current \in Slot /\ tasks \in [Slot -> Task] /\ me \in Task /\ Live(me)
  BY Zenon, UserFacts, Typed DEF sys_execve
<1>1. SyscallReturn([tasks EXCEPT ![current] = u])
  BY Zenon, <1>0 DEF sys_execve, me
<1>2. h \in [Signal -> Int]
  BY DEF SIG_IGN, SIG_DFL
<1> HIDE DEF h
<1>3. /\ u \in Task /\ u.state = me.state /\ u.blocked = me.blocked /\ u.pending = me.pending
  BY Zenon, <1>0, <1>2 DEF Task
<1> HIDE DEF u
<1>4. Settles(me, u)
  BY Zenon, <1>0, <1>3, QuietSettles DEF Live
<1> QED BY Zenon, <1>0, <1>1, <1>3, <1>4, CallerSpares

LEMMA SignalSpares ==
  ASSUME IInv, NEW sig \in Signal, NEW handler \in Int, sys_signal(sig, handler)
  PROVE  AllSpare(tasks, tasks')
<1> DEFINE u == [me EXCEPT !.handler = [@ EXCEPT ![sig] = handler]]
<1>0. UserRuns /\ current \in Slot /\ tasks \in [Slot -> Task] /\ me \in Task /\ Live(me)
  BY Zenon, UserFacts, Typed DEF sys_signal
<1>1. SyscallReturn([tasks EXCEPT ![current] = u])
  BY Zenon, <1>0 DEF sys_signal, me
<1>2. [me.handler EXCEPT ![sig] = handler] \in [Signal -> Int]
  BY Zenon, <1>0 DEF Task
<1>3. /\ u \in Task /\ u.state = me.state /\ u.blocked = me.blocked /\ u.pending = me.pending
  BY Zenon, <1>0, <1>2 DEF Task
<1> HIDE DEF u
<1>4. Settles(me, u)
  BY Zenon, <1>0, <1>3, QuietSettles DEF Live
<1> QED BY Zenon, <1>0, <1>1, <1>3, <1>4, CallerSpares

\* sigprocmask takes SIGKILL out of every set it is given.
LEMMA SigprocmaskSpares ==
  ASSUME IInv, NEW how \in {"SIG_BLOCK", "SIG_UNBLOCK", "SIG_SETMASK"},
         NEW set \in SUBSET Signal, sys_sigprocmask(how, set)
  PROVE  AllSpare(tasks, tasks')
<1> DEFINE n == set \ {SIGKILL, SIGSTOP}
           m == CASE how = "SIG_BLOCK"   -> me.blocked \cup n
                  [] how = "SIG_UNBLOCK" -> me.blocked \ n
                  [] how = "SIG_SETMASK" -> n
           u == [me EXCEPT !.blocked = m]
<1>0. UserRuns /\ current \in Slot /\ tasks \in [Slot -> Task] /\ me \in Task /\ Live(me)
  BY Zenon, UserFacts, Typed DEF sys_sigprocmask
<1>1. SyscallReturn([tasks EXCEPT ![current] = u])
  BY Zenon, <1>0 DEF sys_sigprocmask, me
<1>2. m \in SUBSET Signal
  BY Zenon, <1>0 DEF Task
<1>3. SIGKILL \notin me.blocked => SIGKILL \notin m
  BY Zenon
<1> HIDE DEF m
<1>4. /\ u \in Task /\ u.state = me.state /\ u.blocked = m /\ u.pending = me.pending
  BY Zenon, <1>0, <1>2 DEF Task
<1> HIDE DEF u
<1>5. Settles(me, u)
  BY Zenon, <1>0, <1>3, <1>4 DEF Live, Settles, Pardoned, Calm
<1> QED BY Zenon, <1>0, <1>1, <1>4, <1>5, CallerSpares

LEMMA SigreturnSpares == IInv /\ sys_sigreturn => AllSpare(tasks, tasks')
<1> SUFFICES ASSUME IInv, sys_sigreturn PROVE AllSpare(tasks, tasks')
  BY Zenon
<1> DEFINE u == [me EXCEPT !.active = 0]
<1>0. UserRuns /\ current \in Slot /\ tasks \in [Slot -> Task] /\ me \in Task /\ Live(me)
  BY Zenon, UserFacts, Typed DEF sys_sigreturn
<1>1. tasks' = [tasks EXCEPT ![current] = u]
  BY Zenon, <1>0 DEF sys_sigreturn, me
<1>2. /\ u \in Task /\ u.state = me.state /\ u.blocked = me.blocked /\ u.pending = me.pending
  BY Zenon, <1>0 DEF Task
<1> HIDE DEF u
<1>3. Settles(me, u)
  BY Zenon, <1>0, <1>2, QuietSettles DEF Live
<1> QED BY Zenon, <1>0, <1>1, <1>2, <1>3, OneSettles, SettleIsSpare DEF me

LEMMA ReadStdinSpares == IInv /\ sys_read_stdin => AllSpare(tasks, tasks')
<1> SUFFICES ASSUME IInv, sys_read_stdin PROVE AllSpare(tasks, tasks')
  BY Zenon
<1> DEFINE u == [me EXCEPT !.state = "SLEEPING", !.wait_reason = "STDIN", !.wait_target = 0]
<1>0. UserRuns /\ current \in Slot /\ tasks \in [Slot -> Task] /\ me \in Task /\ Live(me)
  BY Zenon, UserFacts, Typed DEF sys_read_stdin
<1>1. SyscallReturn([tasks EXCEPT ![current] = u])
  BY Zenon, <1>0 DEF sys_read_stdin, me
<1>2. u \in Task /\ u.state = "SLEEPING" /\ u.blocked = me.blocked
  BY ZenonT(60), <1>0, PidFacts DEF Task, TaskState, WaitReason
<1> HIDE DEF u
<1>3. Settles(me, u)
  BY Zenon, <1>0, <1>2, QuietSettles DEF Live
<1> QED BY Zenon, <1>0, <1>1, <1>2, <1>3, CallerSpares

\* The call a task is in changes: on the way into or out of yield and wait.
LEMMA CallSettles ==
  ASSUME NEW t \in Task, NEW c \in {"none", "yield"}, NEW p \in Pid
  PROVE  /\ [t EXCEPT !.call = c] \in Task /\ Settles(t, [t EXCEPT !.call = c])
         /\ [t EXCEPT !.call = c, !.call_pid = p] \in Task
         /\ Settles(t, [t EXCEPT !.call = c, !.call_pid = p])
<1> DEFINE u == [t EXCEPT !.call = c]
           v == [t EXCEPT !.call = c, !.call_pid = p]
<1>1. /\ u \in Task /\ u.state = t.state /\ u.blocked = t.blocked /\ u.pending = t.pending
      /\ u.exit_status = t.exit_status
  BY Zenon DEF Task
<1>2. /\ v \in Task /\ v.state = t.state /\ v.blocked = t.blocked /\ v.pending = t.pending
      /\ v.exit_status = t.exit_status
  BY Zenon DEF Task
<1> HIDE DEF u, v
<1>3. Settles(t, u) /\ Settles(t, v)
  BY Zenon, <1>1, <1>2 DEF Settles, Pardoned, Calm
<1> QED BY Zenon, <1>1, <1>2, <1>3 DEF u, v

LEMMA YieldSpares == IInv /\ sys_yield => AllSpare(tasks, tasks')
<1> SUFFICES ASSUME IInv, sys_yield PROVE AllSpare(tasks, tasks')
  BY Zenon
<1> DEFINE u == [me EXCEPT !.call = "yield"]
           tb == [tasks EXCEPT ![current] = u]
<1>0. UserRuns /\ current \in Slot /\ tasks \in [Slot -> Task] /\ me \in Task
  BY Zenon, UserFacts, Typed DEF sys_yield
<1>1. StartTick(tb)
  BY Zenon, <1>0 DEF sys_yield, me
<1>2. u \in Task /\ Settles(me, u)
  BY Zenon, <1>0, PidFacts, CallSettles
<1> HIDE DEF u
<1>3. tb \in [Slot -> Task] /\ AllSpare(tasks, tb)
  BY Zenon, <1>0, <1>2, OneSettles, SettleIsSpare DEF me
<1> HIDE DEF tb
<1> QED BY Zenon, <1>1, <1>3, StartTickSpares

LEMMA ResumeYieldSpares == IInv /\ ResumeYield => AllSpare(tasks, tasks')
<1> SUFFICES ASSUME IInv, ResumeYield PROVE AllSpare(tasks, tasks')
  BY Zenon
<1> DEFINE u == [me EXCEPT !.call = "none"]
<1>0. current \in Slot /\ tasks \in [Slot -> Task] /\ me \in Task
  BY Zenon, Typed DEF ResumeYield, me
<1>1. SyscallReturn([tasks EXCEPT ![current] = u])
  BY Zenon, <1>0 DEF ResumeYield, me
<1>2. u \in Task /\ Settles(me, u)
  BY Zenon, <1>0, PidFacts, CallSettles
<1> HIDE DEF u
<1> QED BY ZenonT(60), <1>0, <1>1, <1>2, CallerSpares

LEMMA KillSpares ==
  ASSUME SInv, NEW pid \in Pid, NEW sig \in Kills, sys_kill(pid, sig)
  PROVE  AllSpare(tasks, tasks')
<1>0. UserRuns /\ sig \in Signal /\ current \in Slot /\ tasks \in [Slot -> Task]
  BY Zenon, SchedulerAssumption, UserFacts, Typed DEF sys_kill, SInv
<1>1. PICK i \in Holders(tasks, pid) : SyscallReturn(scheduler_send_signal(tasks, i, sig))
  BY Zenon DEF sys_kill
<1>2. i \in Slot /\ ~Free(tasks[i]) /\ Calm(tasks[i])
  BY Zenon DEF Holders, SInv
<1>3. /\ AllSettle(tasks, scheduler_send_signal(tasks, i, sig))
      /\ scheduler_send_signal(tasks, i, sig) \in [Slot -> Task]
  BY Zenon, <1>0, <1>2, SendSettles
<1> QED BY Zenon, <1>0, <1>1, <1>3, SettleIsSpare, ReturnSpares

LEMMA KeyboardSpares ==
  SInv /\ (keyboard_queue_push \/ keyboard_send_sigint) => AllSpare(tasks, tasks')
<1> SUFFICES ASSUME SInv, keyboard_queue_push \/ keyboard_send_sigint
             PROVE  AllSpare(tasks, tasks')
  BY Zenon
<1>0. IInv /\ tasks \in [Slot -> Task] /\ current \in Slot \cup {None}
  BY Zenon, Typed DEF SInv
<1>1. CASE keyboard_queue_push
  BY Zenon, <1>0, <1>1, StdinSettles, SettleIsSpare DEF keyboard_queue_push
<1>2. CASE keyboard_send_sigint
  <2> DEFINE owners == IF foreground_pid = 0 THEN {} ELSE Holders(tasks, foreground_pid)
  <2>1. PICK i \in IF owners = {} THEN {current} ELSE owners :
          tasks' = IF i = None THEN tasks ELSE scheduler_send_signal(tasks, i, SIGINT)
    BY Zenon, <1>2 DEF keyboard_send_sigint
  <2>2. i # None => i \in Slot /\ ~Free(tasks[i])
    BY Zenon, <1>0 DEF Holders, IInv
  <2>3. SIGINT \in Signal
    BY Zenon, SchedulerAssumption
  <2>4. i # None => Calm(tasks[i])
    BY Zenon, <2>2 DEF SInv
  <2> HIDE DEF owners
  <2>5. AllSettle(tasks, tasks')
    BY Zenon, <1>0, <2>1, <2>2, <2>3, <2>4, SendSettles, AllSettleRefl
  <2> QED BY Zenon, <2>5, SettleIsSpare
<1> QED BY Zenon, <1>1, <1>2

LEMMA InsertSpares ==
  ASSUME IInv, UserRuns, NEW slot \in allocate_task_slot, NEW pid, NEW t \in Task,
         t.state = "READY", SIGKILL \notin t.blocked, InsertTask(slot, pid, t)
  PROVE  AllSpare(tasks, tasks')
<1> DEFINE tb == [tasks EXCEPT ![slot] = t]
<1>0. current \in Slot /\ tasks \in [Slot -> Task] /\ slot \in Slot
  BY Zenon, UserFacts, Typed DEF allocate_task_slot
<1>1. tb \in [Slot -> Task] /\ tb[slot] = t /\ \A i \in Slot \ {slot} : tb[i] = tasks[i]
  BY Zenon, <1>0
<1>2. SyscallReturn(tb)
  BY Zenon DEF InsertTask
<1> HIDE DEF tb
<1>3. Spares(tasks[slot], t)
  BY Zenon DEF Spares, Calm, Pardoned
<1>4. AllSpare(tasks, tb)
  BY ZenonT(60), <1>1, <1>3 DEF AllSpare, Spares, Pardoned
<1> QED BY Zenon, <1>0, <1>1, <1>2, <1>4, ReturnSpares

LEMMA SpawnSpares == SInv /\ (sys_spawn \/ sys_fork) => AllSpare(tasks, tasks')
<1> SUFFICES ASSUME SInv, sys_spawn \/ sys_fork PROVE AllSpare(tasks, tasks')
  BY Zenon
<1>0. IInv /\ UserRuns /\ me \in Task /\ me.pid \in Pid /\ Calm(me)
  BY ZenonT(60), UserFacts DEF SInv, sys_spawn, sys_fork, Task, me
<1>1. CASE sys_spawn
  <2>1. PICK slot \in allocate_task_slot, pid \in generate_pid :
          InsertTask(slot, pid, NewTask(pid, me.pid, TRUE))
    BY Zenon, <1>1 DEF sys_spawn
  <2> DEFINE t == NewTask(pid, me.pid, TRUE)
  <2>2. pid \in Pid
    BY Zenon DEF generate_pid
  <2>3. t \in Task /\ t.state = "READY" /\ SIGKILL \notin t.blocked
    BY ZenonT(60), <1>0, <2>2, PidFacts DEF NewTask, UnusedTask, Task, TaskState, WaitReason, SIG_DFL
  <2> HIDE DEF t
  <2> QED BY Zenon, <1>0, <2>1, <2>3, InsertSpares DEF t
<1>2. CASE sys_fork
  <2> DEFINE T(pid) == [me EXCEPT !.pid = pid, !.parent_pid = me.pid, !.state = "READY",
              !.wait_reason = "NONE", !.wait_target = 0, !.exit_status = 0,
              !.active = 0, !.pending = {}]
  <2>1. PICK slot \in allocate_task_slot, pid \in generate_pid : InsertTask(slot, pid, T(pid))
    BY Zenon, <1>2 DEF sys_fork
  <2> DEFINE t == T(pid)
  <2>2. pid \in Pid
    BY Zenon DEF generate_pid
  <2>3. t \in Task /\ t.state = "READY" /\ t.blocked = me.blocked
    BY ZenonT(60), <1>0, <2>2, PidFacts DEF Task, TaskState, WaitReason
  <2> HIDE DEF t, T
  <2>4. SIGKILL \notin t.blocked
    BY Zenon, <1>0, <2>3 DEF Calm
  <2> QED BY Zenon, <1>0, <2>1, <2>3, <2>4, InsertSpares DEF t
<1> QED BY Zenon, <1>1, <1>2

\* wait and waitpid, on entry and on every turn of the loop.
LEMMA WaitReturnSpares ==
  ASSUME current \in Slot, NEW tb \in [Slot -> Task], AllSpare(tasks, tb),
         NEW call, NEW pid, NEW result, WaitReturn(tb, call, pid, result)
  PROVE  AllSpare(tasks, tasks')
<1> DEFINE u == [tb[current] EXCEPT !.call = "none", !.call_pid = 0]
           ub == [tb EXCEPT ![current] = u]
<1>1. SyscallReturn(ub)
  BY Zenon DEF WaitReturn
<1>2. u \in Task /\ Settles(tb[current], u)
  BY Zenon, PidFacts, CallSettles
<1> HIDE DEF u
<1>3. ub \in [Slot -> Task] /\ AllSettle(tb, ub)
  BY Zenon, <1>2, OneSettles
<1> HIDE DEF ub
<1>4. AllSpare(tasks, ub)
  BY Zenon, <1>3, SpareThenSettle
<1> QED BY Zenon, <1>1, <1>3, <1>4, ReturnSpares

LEMMA WaitSpares ==
  ASSUME IInv, attempts = None, current # None, current # 0,
         NEW call \in {"wait", "waitpid"}, NEW pid \in Pid,
         NEW nohang \in BOOLEAN, scheduler_waitpid(call, pid, nohang)
  PROVE  AllSpare(tasks, tasks')
<1>0. /\ tasks \in [Slot -> Task] /\ me \in Task /\ current \in Slot
      /\ Sound(tasks, current) /\ ~Free(me)
  BY Zenon, Typed DEF me, IInv, Runner
<1>1. ASSUME NEW z \in Slot, tasks[z].state = "ZOMBIE", NEW result,
             WaitReturn([tasks EXCEPT ![z].state = "DEAD", ![z].pid = 0,
                           ![z].parent_pid = 0], call, pid, result)
      PROVE  AllSpare(tasks, tasks')
  <2> DEFINE u == [tasks[z] EXCEPT !.state = "DEAD", !.pid = 0, !.parent_pid = 0]
             tb == [tasks EXCEPT ![z] = u]
  <2>1. WaitReturn(tb, call, pid, result)
    BY Zenon, <1>0, <1>1
  <2>2. u \in Task /\ u.state = "DEAD" /\ u.blocked = tasks[z].blocked
    BY ZenonT(60), <1>0, PidFacts DEF Task, TaskState
  <2> HIDE DEF u
  <2>3. tb \in [Slot -> Task] /\ tb[z] = u /\ \A i \in Slot \ {z} : tb[i] = tasks[i]
    BY Zenon, <1>0, <2>2
  <2> HIDE DEF tb
  <2>4. Spares(tasks[z], u)
    BY Zenon, <1>1, <2>2 DEF Spares, Calm
  <2>5. \A i \in Slot \ {z} : Spares(tasks[i], tasks[i])
    BY Zenon DEF Spares, Pardoned
  <2>6. AllSpare(tasks, tb)
    BY Zenon, <2>3, <2>4, <2>5 DEF AllSpare
  <2> QED BY Zenon, <1>0, <2>1, <2>3, <2>6, WaitReturnSpares
<1>2. ASSUME WaitReturn(tasks, call, pid, 0)
      PROVE  AllSpare(tasks, tasks')
  BY Zenon, <1>0, <1>2, AllSettleRefl, WaitReturnSpares
<1>3. ASSUME me.state # "ZOMBIE",
             StartTick([tasks EXCEPT ![current].state = "WAITING",
                          ![current].wait_reason = "CHILD", ![current].wait_target = pid,
                          ![current].call = call, ![current].call_pid = pid])
      PROVE  AllSpare(tasks, tasks')
  <2> DEFINE u == [me EXCEPT !.state = "WAITING", !.wait_reason = "CHILD",
                     !.wait_target = pid, !.call = call, !.call_pid = pid]
             tb == [tasks EXCEPT ![current] = u]
  <2>1. StartTick(tb)
    BY Zenon, <1>0, <1>3 DEF me
  <2>2. u \in Task /\ u.state = "WAITING" /\ u.blocked = me.blocked
    BY ZenonT(60), <1>0 DEF Task, TaskState, WaitReason
  <2> HIDE DEF u
  <2>3. Settles(me, u)
    BY Zenon, <1>3, <2>2, QuietSettles
  <2>4. tb \in [Slot -> Task] /\ AllSpare(tasks, tb)
    BY Zenon, <1>0, <2>2, <2>3, OneSettles, SettleIsSpare DEF me
  <2> HIDE DEF tb
  <2> QED BY Zenon, <2>1, <2>4, StartTickSpares
<1>4. Children(pid) # {} => me.state # "ZOMBIE"
  <2> SUFFICES ASSUME NEW j \in Children(pid) PROVE me.state # "ZOMBIE"
    BY Zenon
  <2>1. j \in Slot /\ ~Free(tasks[j]) /\ tasks[j].parent_pid = me.pid
    BY Zenon DEF Children
  <2>2. me.pid # 0 /\ me.pid # 1
    BY Zenon, <1>0, SlotFacts DEF Sound, UniquePids, IdleFirst, me
  <2>3. PICK p \in Slot : tasks[p].pid = me.pid /\ Live(tasks[p])
    BY Zenon, <1>0, <2>1, <2>2 DEF Sound, LiveParents
  <2>4. p = current
    BY Zenon, <1>0, <2>3 DEF Sound, UniquePids, Live, me
  <2> QED BY Zenon, <2>3, <2>4 DEF Live, me
<1>5. \/ \E z \in Slot : /\ tasks[z].state = "ZOMBIE"
                         /\ WaitReturn([tasks EXCEPT ![z].state = "DEAD", ![z].pid = 0,
                                          ![z].parent_pid = 0], call, pid, tasks[z].pid)
      \/ WaitReturn(tasks, call, pid, 0)
      \/ /\ Children(pid) # {}
         /\ StartTick([tasks EXCEPT ![current].state = "WAITING",
                          ![current].wait_reason = "CHILD",
                          ![current].wait_target = pid,
                          ![current].call = call, ![current].call_pid = pid])
  BY Zenon DEF scheduler_waitpid, Children
<1> QED BY Zenon, <1>1, <1>2, <1>3, <1>4, <1>5

LEMMA SysWaitSpares ==
  ASSUME IInv, NEW pid \in Pid, NEW nohang \in BOOLEAN,
         sys_waitpid(pid, nohang) \/ sys_wait(pid)
  PROVE  AllSpare(tasks, tasks')
<1>1. UserRuns /\ \/ scheduler_waitpid("waitpid", pid, nohang)
                  \/ scheduler_waitpid("wait", pid, FALSE)
  BY Zenon DEF sys_waitpid, sys_wait
<1> QED BY Zenon, <1>1, UserFacts, WaitSpares

LEMMA ResumeWaitSpares == IInv /\ ResumeWait => AllSpare(tasks, tasks')
<1> SUFFICES ASSUME IInv, ResumeWait PROVE AllSpare(tasks, tasks')
  BY Zenon
<1>1. /\ attempts = None /\ current # None /\ me.call \in {"wait", "waitpid"}
      /\ scheduler_waitpid(me.call, me.call_pid, FALSE)
  BY Zenon DEF ResumeWait
<1>2. current \in Slot /\ Sound(tasks, current)
  BY Zenon, <1>1 DEF IInv, Scalars, Runner
<1>3. me \in Task /\ current # 0
  BY Zenon, <1>1, <1>2 DEF Sound, IdleFirst, me
<1>4. me.call_pid \in Pid
  BY Zenon, <1>3 DEF Task
<1> QED BY Zenon, <1>1, <1>3, <1>4, WaitSpares

LEMMA TimerTickSpares == IInv /\ TimerTick => AllSpare(tasks, tasks')
  BY Zenon, Typed, AllSettleRefl, StartTickSpares DEF TimerTick

LEMMA SwitchSettles ==
  ASSUME NEW tb \in [Slot -> Task], NEW i \in Slot, tb[i].state # "ZOMBIE"
  PROVE  AllSettle(tb, [tb EXCEPT ![i].state = "RUNNING"])
<1> DEFINE u == [tb[i] EXCEPT !.state = "RUNNING"]
<1>1. u \in Task /\ Settles(tb[i], u)
  BY Zenon, StateSettles
<1>2. [tb EXCEPT ![i].state = "RUNNING"] = [tb EXCEPT ![i] = u]
  BY Zenon
<1> HIDE DEF u
<1>3. AllSettle(tb, [tb EXCEPT ![i] = u])
  BY Zenon, <1>1, OneSettles
<1> QED BY Zenon, <1>2, <1>3

LEMMA TickSpares == IInv /\ scheduler_tick => AllSpare(tasks, tasks')
<1> SUFFICES ASSUME IInv, scheduler_tick PROVE AllSpare(tasks, tasks')
  BY Zenon
<1>0. tasks \in [Slot -> Task]
  BY Zenon, Typed
<1>1. CASE TickCandidate
  <2>1. PICK k \in 1..attempts, stack_ok \in BOOLEAN :
          LET i == Candidate(k)
              t == tasks[i]
              tb == IF t.user /\ t.pending # {} /\ t.active = 0
                    THEN DeliverSignal(tasks, i, t.call = "none", stack_ok) ELSE tasks
          IN IF tb[i].state = "ZOMBIE"
             THEN /\ tasks' = tb /\ index' = i /\ attempts' = attempts - k
                  /\ UNCHANGED current
             ELSE SwitchTo(tb, i)
    BY ZenonT(60), <1>1 DEF TickCandidate
  <2> DEFINE i == Candidate(k)
             t == tasks[i]
             tb == IF t.user /\ t.pending # {} /\ t.active = 0
                   THEN DeliverSignal(tasks, i, t.call = "none", stack_ok) ELSE tasks
  <2>2. attempts \in Int
    <3>1. attempts \in (0..MAX_TASKS) \cup {None}
      BY Zenon DEF IInv, Scalars
    <3> QED BY <3>1, SchedulerAssumption DEF None
  <2>3. i \in Slot
    BY SMTT(60), <2>2, CandidateSlot
  <2>4. IF tb[i].state = "ZOMBIE" THEN tasks' = tb
        ELSE tasks' = [tb EXCEPT ![i].state = "RUNNING"]
    BY Zenon, <2>1 DEF SwitchTo
  <2> HIDE DEF i
  <2>5. tb \in [Slot -> Task] /\ AllSettle(tasks, tb)
    BY Zenon, <1>0, <2>3, DeliverSettles, AllSettleRefl
  <2> HIDE DEF tb
  <2>6. tb[i].state # "ZOMBIE" => AllSettle(tb, [tb EXCEPT ![i].state = "RUNNING"])
    BY Zenon, <2>3, <2>5, SwitchSettles
  <2>7. AllSettle(tasks, tasks')
    BY Zenon, <2>4, <2>5, <2>6, AllSettleTrans
  <2> QED BY Zenon, <2>7, SettleIsSpare
<1>2. CASE TickIdle
  <2>1. \/ tasks[0].state # "ZOMBIE" /\ tasks' = [tasks EXCEPT ![0].state = "RUNNING"]
        \/ tasks' = tasks
    BY Zenon, <1>2 DEF TickIdle, SwitchTo, idle_task_index
  <2>2. AllSettle(tasks, tasks')
    BY Zenon, <1>0, <2>1, SlotFacts, SwitchSettles, AllSettleRefl
  <2> QED BY Zenon, <2>2, SettleIsSpare
<1> QED BY Zenon, <1>1, <1>2 DEF scheduler_tick

\* exit chooses its own status, so it may end with one that looks like a signal's.
LEMMA ExitSpares ==
  ASSUME IInv, NEW status \in Int, scheduler_exit_current(status)
  PROVE  /\ \A j \in Slot \ {current} : Spares(tasks[j], tasks'[j])
         /\ Calm(tasks[current]) => Calm(tasks'[current])
<1>1. /\ current \in Slot /\ Live(tasks[current]) /\ tasks \in [Slot -> Task]
      /\ tasks' = scheduler_terminate_task(tasks, current, status)
  BY Zenon, UserFacts, Typed DEF scheduler_exit_current, me
<1>2. /\ \A j \in Slot \ {current} : Settles(tasks[j], tasks'[j])
      /\ Calm(tasks[current]) => Calm(tasks'[current])
  BY Zenon, <1>1, TerminateSettles
<1> QED BY Zenon, <1>2 DEF Settles, Spares

LEMMA SpareStep ==
  ASSUME SInv, AllSpare(tasks, tasks')
  PROVE  SignalDeathStep /\ \A i \in Slot : Calm(tasks'[i])
  BY DEF SInv, AllSpare, Spares, Pardoned, SignalDeathStep

LEMMA NextSInv == SInv /\ [Next]_vars => SInv' /\ [SignalDeathStep]_vars
<1> SUFFICES ASSUME SInv, [Next]_vars PROVE SInv' /\ [SignalDeathStep]_vars
  BY Zenon
<1>0. IInv /\ IInv'
  BY Zenon, NextIInv DEF SInv
<1>1. CASE UNCHANGED vars
  BY Zenon, <1>0, <1>1 DEF vars, SInv
<1>2. ASSUME NEW status \in ExitCodes \cup {-1}, scheduler_exit_current(status)
      PROVE  SignalDeathStep /\ \A i \in Slot : Calm(tasks'[i])
  <2>1. status \in Int
    BY SMTT(60), SchedulerAssumption
  <2>2. /\ \A j \in Slot \ {current} : Spares(tasks[j], tasks'[j])
        /\ Calm(tasks[current]) => Calm(tasks'[current])
    BY Zenon, <1>0, <1>2, <2>1, ExitSpares
  <2>3. \A i \in Slot : Calm(tasks'[i])
    BY Zenon, <2>2 DEF SInv, Spares
  <2>4. Exits(current)
    BY Zenon, <1>2 DEF Exits
  <2>5. SignalDeathStep
    BY <2>2, <2>4 DEF SInv, Spares, Pardoned, SignalDeathStep
  <2> QED BY Zenon, <2>3, <2>5
<1>3. ASSUME Next, ~(\E status \in ExitCodes \cup {-1} : scheduler_exit_current(status))
      PROVE  AllSpare(tasks, tasks')
  <2>1. ASSUME NEW d \in Dispositions, sys_signal(d[1], d[2])
        PROVE  AllSpare(tasks, tasks')
    BY Zenon, <1>0, <2>1, SignalSpares, SchedulerAssumption
  <2>2. ASSUME NEW how \in {"SIG_BLOCK", "SIG_UNBLOCK", "SIG_SETMASK"}, NEW set \in Masks,
               sys_sigprocmask(how, set)
        PROVE  AllSpare(tasks, tasks')
    BY Zenon, <1>0, <2>2, SigprocmaskSpares, SchedulerAssumption
  <2>3. ASSUME NEW pid \in Pid \ {0}, NEW sig \in Kills, sys_kill(pid, sig)
        PROVE  AllSpare(tasks, tasks')
    BY Zenon, <2>3, KillSpares
  <2>4. ASSUME NEW pid \in Pid, NEW nohang \in BOOLEAN, sys_waitpid(pid, nohang)
        PROVE  AllSpare(tasks, tasks')
    BY Zenon, <1>0, <2>4, SysWaitSpares
  <2>5. ASSUME NEW pid \in Pid, sys_wait(pid)
        PROVE  AllSpare(tasks, tasks')
    BY Zenon, <1>0, <2>5, SysWaitSpares
  <2>6. CASE Syscall
    BY SMTT(60), <1>0, <1>3, <2>1, <2>2, <2>3, <2>4, <2>5, <2>6, SpawnSpares, ExecveSpares,
       YieldSpares, SigreturnSpares, ReadStdinSpares, OtherSpares DEF Syscall
  <2>7. CASE Resume
    BY Zenon, <1>0, <2>7, ResumeWaitSpares, ResumeYieldSpares DEF Resume
  <2>8. CASE Interrupt
    BY Zenon, <1>0, <2>8, TimerTickSpares, KeyboardSpares DEF Interrupt
  <2>9. CASE scheduler_tick
    BY Zenon, <1>0, <2>9, TickSpares
  <2> QED BY Zenon, <1>3, <2>6, <2>7, <2>8, <2>9 DEF Next
<1>4. CASE Next
  <2>1. SignalDeathStep /\ \A i \in Slot : Calm(tasks'[i])
    BY Zenon, <1>2, <1>3, <1>4, SpareStep
  <2> QED BY Zenon, <1>0, <2>1 DEF SInv
<1> QED BY Zenon, <1>1, <1>4

LEMMA SInvHolds == Spec => []SInv
<1>1. Init => SInv
  <2> SUFFICES ASSUME Init PROVE \A i \in Slot : Calm(tasks[i])
    BY Zenon, InitIInv DEF SInv
  <2>1. \A i \in Slot : /\ tasks[i].state \in {"UNUSED", "READY"} /\ tasks[i].blocked = {}
    BY Zenon DEF Init, NewTask, UnusedTask
  <2> QED BY Zenon, <2>1 DEF Calm
<1> QED BY <1>1, NextSInv, PTL DEF Spec

\* SIGSTOP, SIGCONT and every other way of changing state or pending signals: a
\* stopped task never holds a pending SIGCONT.
THEOREM StoppedWithoutContinue == Spec => []StoppedHoldsNoContinue
<1>1. SInv => StoppedHoldsNoContinue
  BY Zenon DEF SInv, Calm, StoppedHoldsNoContinue
<1> QED BY <1>1, SInvHolds, PTL

\* No blocked signal kills, through kill, the return from a call, or the tick.
THEOREM MaskedSignalsSpare == Spec => BlockedSignalsDoNotKill
  BY SInvHolds, NextSInv, PTL DEF Spec, BlockedSignalsDoNotKill

=============================================================================
