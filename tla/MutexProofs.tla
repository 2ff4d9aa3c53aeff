---------------------------- MODULE MutexProofs ----------------------------
(***************************************************************************)
(* For any number of tasks of any kind: mutex.c excludes, names the right  *)
(* owner, and implements Lock.  The argument needs nothing of the wait     *)
(* queue, which is where the races are: only TestAndSet makes a task a     *)
(* holder, it finds the lock free when it does, and a held lock is locked. *)
(***************************************************************************)
EXTENDS Mutex, TLAPS

\* pid_owner is written by a holder on its way in and out only.
Typed == TypeOK /\ NoNullDereference
IInv == Typed /\ MutualExclusion /\ OwnerIsHolder

LEMMA NullFacts == Null \notin Procs /\ Procs \subseteq Int
  BY DEF Null, Procs

LEMMA InitIInv == Init => IInv
<1>1. Init => TypeOK
  BY ZenonT(60) DEF Init, TypeOK, Label
<1>2. Init => NoNullDereference
  BY Zenon DEF Init, NoNullDereference
<1>3. Init => MutualExclusion /\ OwnerIsHolder
  BY Zenon DEF Init, MutualExclusion, OwnerIsHolder, Holds
<1> QED BY Zenon, <1>1, <1>2, <1>3 DEF IInv, Typed

\* A step of task p that neither takes nor returns the lock.
LEMMA Harmless ==
  ASSUME IInv, Typed', NEW p \in Procs,
         pc' = pc \/ \E l \in Label : l \notin {"own", "cs", "release"} /\ pc' = [pc EXCEPT ![p] = l],
         locked' = locked \/ (locked' = TRUE), pid_owner' = pid_owner
  PROVE  IInv'
<1>1. \A q \in Procs : Holds(q)' => Holds(q)
  BY ZenonT(60) DEF IInv, Typed, TypeOK, NoNullDereference, Holds
<1>2. \A q \in Procs : pc'[q] \in {"own", "cs", "release"} => pc'[q] = pc[q]
  BY Zenon DEF IInv, Typed, TypeOK
<1>3. ~locked' => ~locked
  BY Zenon
<1>4. MutualExclusion'
  BY Zenon, <1>1, <1>3 DEF IInv, MutualExclusion
<1>5. OwnerIsHolder'
  BY Zenon, <1>2, <1>3 DEF IInv, OwnerIsHolder
<1> QED BY Zenon, <1>4, <1>5 DEF IInv

LEMMA SwitchType ==
  ASSUME NEW st \in [Procs -> {"READY", "RUNNING", "BLOCKED", "ZOMBIE"}], Switch(st)
  PROVE  /\ state' \in [Procs -> {"READY", "RUNNING", "BLOCKED", "ZOMBIE"}]
         /\ current' \in Procs \cup {Null}
<1>1. PICK p \in FirstReady(st) :
        current' = p /\ state' = IF p = Null THEN st ELSE [st EXCEPT ![p] = "RUNNING"]
  BY Zenon DEF Switch
<1>2. p \in Procs \cup {Null}
  BY Zenon DEF FirstReady, Ready
<1> QED BY Zenon, <1>1, <1>2

\* Only a task that runs executes instructions, and it is one of 1..N.
LEMMA LockStep == ASSUME IInv, NEW p \in Procs, mutex_lock(p) PROVE IInv'
<1> USE NullFacts
<1>1. CASE Enter(p)
  <2>1. Typed'
    BY Zenon, <1>1 DEF Enter, Goto, IInv, Typed, TypeOK, NoNullDereference, Label, LockLabels, mutex, links, locals, sched
  <2> QED BY Zenon, <1>1, <2>1, Harmless DEF Enter, Goto, mutex, Label, LockLabels
<1>2. CASE TestAndSet(p)
  <2>1. Typed'
    BY Zenon, <1>2 DEF TestAndSet, Goto, IInv, Typed, TypeOK, NoNullDereference, Label, LockLabels, links, sched
  <2>2. CASE locked
    BY Zenon, <1>2, <2>1, <2>2, Harmless DEF TestAndSet, Goto, Label, LockLabels
  <2>3. CASE ~locked
    <3>1. pc' = [pc EXCEPT ![p] = "own"] /\ locked' = TRUE
      BY Zenon, <1>2, <2>3 DEF TestAndSet, Goto
    <3>2. \A q \in Procs : ~Holds(q)
      BY Zenon, <2>3 DEF IInv, MutualExclusion
    <3>3. \A q \in Procs : Holds(q)' => q = p
      BY Zenon, <3>1, <3>2 DEF Holds, IInv, Typed, TypeOK, NoNullDereference
    <3>4. \A q \in Procs : pc'[q] # "cs"
      BY Zenon, <3>1, <3>2 DEF Holds, IInv, Typed, TypeOK, NoNullDereference
    <3>5. pid_owner = Null /\ pid_owner' = pid_owner
      BY Zenon, <1>2, <2>3 DEF TestAndSet, IInv, OwnerIsHolder
    <3>6. MutualExclusion'
      BY Zenon, <3>1, <3>3 DEF MutualExclusion
    <3>7. OwnerIsHolder'
      BY Zenon, <3>4, <3>5 DEF OwnerIsHolder
    <3> QED BY Zenon, <2>1, <3>6, <3>7 DEF IInv
  <2> QED BY Zenon, <2>2, <2>3
<1>3. CASE queue_contains(p)
  <2>1. Typed'
    <3>2. TypeOK'
      BY ZenonT(60), <1>3 DEF queue_contains, Goto, Forget, IInv, Typed, TypeOK, Label, LockLabels, mutex, links, sched
    <3>3. NoNullDereference'
      BY <1>3 DEF queue_contains, Running, Goto, Forget, IInv, Typed, TypeOK, NoNullDereference, locals
    <3> QED BY Zenon, <3>2, <3>3 DEF Typed
  <2> QED BY Zenon, <1>3, <2>1, Harmless DEF queue_contains, Goto, mutex, Label, LockLabels
<1>4. CASE PushClear(p)
  <2>1. Typed'
    BY Zenon, <1>4 DEF PushClear, Goto, IInv, Typed, TypeOK, NoNullDereference, Label, LockLabels, mutex, locals, sched
  <2> QED BY Zenon, <1>4, <2>1, Harmless DEF PushClear, Goto, mutex, Label, LockLabels
<1>5. CASE PushReadHead(p)
  <2>1. Typed'
    <3>2. TypeOK'
      BY Zenon, <1>5 DEF PushReadHead, Goto, IInv, Typed, TypeOK, Label, LockLabels, mutex, links, sched
    <3>3. NoNullDereference'
      BY Zenon, <1>5 DEF PushReadHead, Running, Goto, IInv, Typed, TypeOK, NoNullDereference, locals
    <3> QED BY Zenon, <3>2, <3>3 DEF Typed
  <2> QED BY Zenon, <1>5, <2>1, Harmless DEF PushReadHead, Goto, mutex, Label, LockLabels
<1>6. CASE PushSetHead(p)
  <2>1. Typed'
    BY Zenon, <1>6 DEF PushSetHead, Goto, IInv, Typed, TypeOK, NoNullDereference, Label, LockLabels, links, locals, sched
  <2> QED BY Zenon, <1>6, <2>1, Harmless DEF PushSetHead, Goto, Label, LockLabels
<1>7. CASE PushWalk(p)
  <2>1. Typed'
    <3>1. node[p] \in Procs
      BY Zenon, <1>7 DEF PushWalk, Running, IInv, Typed, TypeOK, NoNullDereference
    <3>2. TypeOK'
      BY Zenon, <1>7, <3>1 DEF PushWalk, Goto, IInv, Typed, TypeOK, Label, LockLabels, mutex, links, sched
    <3>3. NoNullDereference'
      BY Zenon, <1>7, <3>1 DEF PushWalk, Running, Goto, IInv, Typed, TypeOK, NoNullDereference, locals
    <3> QED BY Zenon, <3>2, <3>3 DEF Typed
  <2> QED BY Zenon, <1>7, <2>1, Harmless DEF PushWalk, Goto, mutex, Label, LockLabels
<1>8. CASE PushLink(p)
  <2>1. Typed'
    <3>1. /\ mutex_wait_next' = [mutex_wait_next EXCEPT ![node[p]] = p]
          /\ pc' = [pc EXCEPT ![p] = "block"] /\ node' = [node EXCEPT ![p] = Null]
          /\ UNCHANGED <<mutex, succ, sched>>
      BY Zenon, <1>8 DEF PushLink, Goto, Forget
    <3>2. mutex_wait_next' \in [Procs -> Procs \cup {Null}]
      BY Zenon, <3>1 DEF IInv, Typed, TypeOK, NoNullDereference
    <3>3. pc' \in [Procs -> Label] /\ node' \in [Procs -> Procs \cup {Null}]
      BY Zenon, <3>1 DEF IInv, Typed, TypeOK, NoNullDereference, Label, LockLabels
    <3> QED BY Zenon, <3>1, <3>2, <3>3 DEF IInv, Typed, TypeOK, NoNullDereference, mutex, sched
  <2> QED BY Zenon, <1>8, <2>1, Harmless DEF PushLink, Goto, mutex, Label, LockLabels
<1>9. CASE Block(p)
  <2>1. Typed'
    BY Zenon, <1>9 DEF Block, Goto, IInv, Typed, TypeOK, NoNullDereference, Label, LockLabels, mutex, links, locals
  <2> QED BY Zenon, <1>9, <2>1, Harmless DEF Block, Goto, mutex, Label, LockLabels
<1>10. CASE scheduler_yield(p)
  <2> DEFINE st == [state EXCEPT ![p] = IF @ = "RUNNING" THEN "READY" ELSE @]
  <2>1. st \in [Procs -> {"READY", "RUNNING", "BLOCKED", "ZOMBIE"}]
    BY Zenon DEF IInv, Typed, TypeOK, NoNullDereference
  <2>2. Switch(st)
    BY Zenon, <1>10 DEF scheduler_yield
  <2> HIDE DEF st
  <2>3. Typed'
    BY Zenon, <1>10, <2>1, <2>2, SwitchType
    DEF scheduler_yield, Goto, IInv, Typed, TypeOK, NoNullDereference, Label, LockLabels, mutex, links, locals
  <2> QED BY Zenon, <1>10, <2>3, Harmless DEF scheduler_yield, Goto, mutex, Label, LockLabels
<1>11. CASE Own(p)
  <2>1. Typed'
    BY Zenon, <1>11 DEF Own, Goto, IInv, Typed, TypeOK, NoNullDereference, Label, LockLabels, links, locals, sched
  <2>2. pc[p] = "own" /\ pc' = [pc EXCEPT ![p] = "cs"] /\ pid_owner' = p /\ locked' = locked
    BY Zenon, <1>11 DEF Own, Goto, Running
  <2>3. \A q \in Procs : Holds(q)' <=> Holds(q)
    BY Zenon, <2>2 DEF Holds, IInv, Typed, TypeOK, NoNullDereference
  <2>4. \A q \in Procs : Holds(q)' => q = p /\ pc'[q] = "cs"
    BY Zenon, <2>2 DEF IInv, Typed, TypeOK, MutualExclusion, Holds
  <2>5. locked'
    BY Zenon, <2>2 DEF IInv, MutualExclusion, Holds
  <2>6. OwnerIsHolder'
    BY Zenon, <2>2, <2>4, <2>5 DEF OwnerIsHolder, Holds
  <2> QED BY Zenon, <2>1, <2>4, <2>5, <2>6 DEF IInv, MutualExclusion
<1> QED BY Zenon, <1>1, <1>2, <1>3, <1>4, <1>5, <1>6, <1>7, <1>8, <1>9, <1>10, <1>11 DEF mutex_lock

LEMMA UnlockStep == ASSUME IInv, NEW p \in Procs, mutex_unlock(p) PROVE IInv'
<1> USE NullFacts
<1>1. CASE Disown(p)
  <2>1. Typed'
    BY Zenon, <1>1 DEF Disown, Goto, IInv, Typed, TypeOK, NoNullDereference, Label, links, locals, sched
  <2>2. /\ pc[p] = "cs" /\ pc' = [pc EXCEPT ![p] = "release"]
        /\ locked' = locked /\ pid_owner' = Null
    BY Zenon, <1>1 DEF Disown, Goto, Running
  <2>3. \A q \in Procs : Holds(q)' <=> Holds(q)
    BY Zenon, <2>2 DEF Holds, IInv, Typed, TypeOK, NoNullDereference
  <2>4. \A q \in Procs : pc'[q] # "cs"
    BY Zenon, <2>2 DEF IInv, Typed, TypeOK, NoNullDereference, MutualExclusion, Holds
  <2> QED BY Zenon, <2>1, <2>2, <2>3, <2>4 DEF IInv, MutualExclusion, OwnerIsHolder
<1>2. CASE Release(p)
  <2>1. Typed'
    BY Zenon, <1>2 DEF Release, Goto, IInv, Typed, TypeOK, NoNullDereference, Label, UnlockLabels, links, locals, sched
  <2>2. pc[p] = "release" /\ pc' = [pc EXCEPT ![p] = "pop"] /\ pid_owner' = pid_owner
    BY Zenon, <1>2 DEF Release, Goto, Running
  <2>3. \A q \in Procs : ~Holds(q)'
    BY Zenon, <2>2 DEF Holds, IInv, Typed, TypeOK, MutualExclusion
  <2>4. pid_owner' = Null
    BY Zenon, <2>2 DEF IInv, OwnerIsHolder
  <2>5. MutualExclusion' /\ OwnerIsHolder'
    BY Zenon, <2>3, <2>4 DEF MutualExclusion, OwnerIsHolder, Holds
  <2> QED BY Zenon, <2>1, <2>5 DEF IInv
<1>3. CASE PopReadHead(p)
  <2>1. Typed'
    <3>2. TypeOK'
      BY Zenon, <1>3 DEF PopReadHead, Goto, IInv, Typed, TypeOK, Label, UnlockLabels, mutex, links, sched
    <3>3. NoNullDereference'
      BY Zenon, <1>3 DEF PopReadHead, Running, Goto, IInv, Typed, TypeOK, NoNullDereference, locals
    <3> QED BY Zenon, <3>2, <3>3 DEF Typed
  <2> QED BY Zenon, <1>3, <2>1, Harmless DEF PopReadHead, Goto, mutex, Label, UnlockLabels
<1>4. CASE PopReadNext(p)
  <2>1. Typed'
    <3>1. node[p] \in Procs
      BY Zenon, <1>4 DEF PopReadNext, Running, IInv, Typed, TypeOK, NoNullDereference
    <3>2. TypeOK'
      BY Zenon, <1>4, <3>1 DEF PopReadNext, Goto, IInv, Typed, TypeOK, Label, UnlockLabels, mutex, links, sched
    <3>3. NoNullDereference'
      BY Zenon, <1>4, <3>1 DEF PopReadNext, Running, Goto, IInv, Typed, TypeOK, NoNullDereference, locals
    <3> QED BY Zenon, <3>2, <3>3 DEF Typed
  <2> QED BY Zenon, <1>4, <2>1, Harmless DEF PopReadNext, Goto, mutex, Label, UnlockLabels
<1>5. CASE PopSetHead(p)
  <2>1. Typed'
    <3>1. node[p] \in Procs
      BY Zenon, <1>5 DEF PopSetHead, Running, IInv, Typed, TypeOK, NoNullDereference
    <3>2. TypeOK'
      BY Zenon, <1>5, <3>1 DEF PopSetHead, Goto, IInv, Typed, TypeOK, Label, UnlockLabels, links, sched
    <3>3. NoNullDereference'
      BY Zenon, <1>5, <3>1 DEF PopSetHead, Running, Goto, IInv, Typed, TypeOK, NoNullDereference, locals
    <3> QED BY Zenon, <3>2, <3>3 DEF Typed
  <2> QED BY Zenon, <1>5, <2>1, Harmless DEF PopSetHead, Goto, Label, UnlockLabels
<1>6. CASE PopClear(p)
  <2>1. Typed'
    <3>1. node[p] \in Procs
      BY Zenon, <1>6 DEF PopClear, Running, IInv, Typed, TypeOK, NoNullDereference
    <3>2. TypeOK'
      BY Zenon, <1>6, <3>1 DEF PopClear, Goto, IInv, Typed, TypeOK, Label, UnlockLabels, mutex, locals, sched
    <3>3. NoNullDereference'
      BY Zenon, <1>6, <3>1 DEF PopClear, Running, Goto, IInv, Typed, TypeOK, NoNullDereference, locals
    <3> QED BY Zenon, <3>2, <3>3 DEF Typed
  <2> QED BY Zenon, <1>6, <2>1, Harmless DEF PopClear, Goto, mutex, Label, UnlockLabels
<1>7. CASE Check(p)
  <2>1. Typed'
    <3>1. node[p] \in Procs
      BY Zenon, <1>7 DEF Check, Running, IInv, Typed, TypeOK, NoNullDereference
    <3>2. TypeOK'
      BY <1>7 DEF Check, Goto, Forget, IInv, Typed, TypeOK, Label, UnlockLabels, mutex, links, sched
    <3>3. NoNullDereference'
      BY <1>7, <3>1 DEF Check, Running, Goto, Forget, IInv, Typed, TypeOK, NoNullDereference
    <3> QED BY Zenon, <3>2, <3>3 DEF Typed
  <2> QED BY Zenon, <1>7, <2>1, Harmless DEF Check, Goto, mutex, Label, UnlockLabels
<1>8. CASE Wake(p)
  <2>1. Typed'
    <3>1. /\ state' = [state EXCEPT ![node[p]] = "READY"]
          /\ pc' = [pc EXCEPT ![p] = "out"] /\ node' = [node EXCEPT ![p] = Null]
          /\ UNCHANGED <<mutex, links, succ, current>>
      BY Zenon, <1>8 DEF Wake, Goto, Forget
    <3>2. state' \in [Procs -> {"READY", "RUNNING", "BLOCKED", "ZOMBIE"}]
      BY Zenon, <3>1 DEF IInv, Typed, TypeOK, NoNullDereference
    <3>3. pc' \in [Procs -> Label] /\ node' \in [Procs -> Procs \cup {Null}]
      BY Zenon, <3>1 DEF IInv, Typed, TypeOK, NoNullDereference, Label
    <3> QED BY Zenon, <3>1, <3>2, <3>3 DEF IInv, Typed, TypeOK, NoNullDereference, mutex, links
  <2> QED BY Zenon, <1>8, <2>1, Harmless DEF Wake, Goto, mutex, Label
<1> QED BY Zenon, <1>1, <1>2, <1>3, <1>4, <1>5, <1>6, <1>7, <1>8 DEF mutex_unlock


\* The actions of the scheduler and of other processes leave holders alone,
\* except that a dead holder's slot is given to a task outside mutex.c.
LEMMA OtherStep ==
  ASSUME IInv,
         \/ scheduler_tick
         \/ \E p \in Signalled : scheduler_send_signal(p)
         \/ \E p \in Killed : scheduler_terminate_task(p) \/ Respawn(p)
  PROVE  IInv'
<1> USE NullFacts
<1> USE MutexAssumption
<1>1. CASE scheduler_tick
  <2> DEFINE st == [p \in Procs |-> IF p = current /\ state[p] = "RUNNING" THEN "READY" ELSE state[p]]
  <2>1. st \in [Procs -> {"READY", "RUNNING", "BLOCKED", "ZOMBIE"}]
    BY Zenon DEF IInv, Typed, TypeOK, NoNullDereference
  <2>2. Switch(st) /\ UNCHANGED <<mutex, links, pc, locals>>
    BY Zenon, <1>1 DEF scheduler_tick
  <2> HIDE DEF st
  <2>3. Typed'
    BY Zenon, <2>1, <2>2, SwitchType DEF IInv, Typed, TypeOK, NoNullDereference, mutex, links, locals
  <2> QED BY Zenon, <2>2, <2>3 DEF IInv, MutualExclusion, OwnerIsHolder, Holds, mutex
<1>2. ASSUME NEW p \in Signalled, scheduler_send_signal(p) PROVE IInv'
  <2>1. Typed'
    BY Zenon, <1>2 DEF scheduler_send_signal, IInv, Typed, TypeOK, NoNullDereference, mutex, links, locals
  <2> QED BY Zenon, <1>2, <2>1 DEF scheduler_send_signal, IInv, MutualExclusion, OwnerIsHolder, Holds, mutex
<1>3. ASSUME NEW p \in Killed, scheduler_terminate_task(p) PROVE IInv'
  <2>1. Typed'
    BY Zenon, <1>3 DEF scheduler_terminate_task, IInv, Typed, TypeOK, NoNullDereference, mutex, links, locals
  <2> QED BY Zenon, <1>3, <2>1 DEF scheduler_terminate_task, IInv, MutualExclusion, OwnerIsHolder, Holds, mutex
<1>4. ASSUME NEW p \in Killed, Respawn(p) PROVE IInv'
  <2>1. p \in Procs
    BY Zenon
  <2>2. Typed'
    BY Zenon, <1>4, <2>1 DEF Respawn, Goto, Forget, IInv, Typed, TypeOK, NoNullDereference, Label, mutex
  <2> QED BY Zenon, <1>4, <2>1, <2>2, Harmless DEF Respawn, Goto, mutex, Label
<1> QED BY Zenon, <1>1, <1>2, <1>3, <1>4

LEMMA NextIInv == IInv /\ [Next]_vars => IInv'
<1> SUFFICES ASSUME IInv, [Next]_vars PROVE IInv'
  BY Zenon
<1>1. CASE UNCHANGED vars
  BY Zenon, <1>1 DEF vars, IInv, Typed, TypeOK, NoNullDereference, MutualExclusion, OwnerIsHolder, Holds
<1>2. ASSUME NEW p \in Procs, mutex_lock(p) PROVE IInv'
  BY Zenon, <1>2, LockStep
<1>3. ASSUME NEW p \in Procs, mutex_unlock(p) PROVE IInv'
  BY Zenon, <1>3, UnlockStep
<1>4. CASE \/ scheduler_tick
           \/ \E p \in Signalled : scheduler_send_signal(p)
           \/ \E p \in Killed : scheduler_terminate_task(p) \/ Respawn(p)
  BY Zenon, <1>4, OtherStep
<1> QED BY Zenon, <1>1, <1>2, <1>3, <1>4 DEF Next

LEMMA IInvHolds == Spec => []IInv
<1>1. Init => IInv
  BY Zenon, InitIInv
<1>2. IInv /\ [Next]_vars => IInv'
  BY Zenon, NextIInv
<1> QED BY <1>1, <1>2, PTL DEF Spec

\* The fields of mutex_t, the links and the locals of mutex.c keep their types:
\* no race of the queue makes a pointer that is neither null nor a task.
THEOREM TypeCorrect == Spec => []TypeOK
<1>1. IInv => TypeOK
  BY Zenon DEF IInv, Typed
<1> QED BY <1>1, IInvHolds, PTL

\* queue_push and queue_pop follow no null link, however they interleave.
THEOREM NoNullFollowed == Spec => []NoNullDereference
<1>1. IInv => NoNullDereference
  BY Zenon DEF IInv, Typed
<1> QED BY <1>1, IInvHolds, PTL

\* mutex_lock excludes, for any number of threads and system calls, whatever
\* signals, kills and interrupts do between its instructions.
THEOREM Exclusion == Spec => []MutualExclusion
<1>1. IInv => MutualExclusion
  BY Zenon DEF IInv
<1> QED BY <1>1, IInvHolds, PTL

\* pid_owner, written after the test-and-set and cleared before the release,
\* names the task in the critical section and nobody at any other time.
THEOREM OwnerNamed == Spec => []OwnerIsHolder
<1>1. IInv => OwnerIsHolder
  BY Zenon DEF IInv
<1> QED BY <1>1, IInvHolds, PTL

-----------------------------------------------------------------------------
(***************************************************************************)
(* Refinement.  A test-and-set that finds the lock free takes it, Own and  *)
(* Disown enter and leave the section, Release gives it back, and the      *)
(* reaping of a dead holder loses it.  No other step changes what Lock     *)
(* sees.                                                                   *)
(***************************************************************************)
LEMMA HolderIs ==
  ASSUME MutualExclusion
  PROVE  /\ \A p \in Procs : Holds(p) => holder = p
         /\ (\A p \in Procs : ~Holds(p)) => holder = Nobody
  BY Zenon DEF MutualExclusion, holder

LEMMA HolderIsNext ==
  ASSUME MutualExclusion'
  PROVE  /\ \A p \in Procs : Holds(p)' => holder' = p
         /\ (\A p \in Procs : ~Holds(p)') => holder' = Nobody
  BY Zenon DEF MutualExclusion, holder

seen == <<locked, pid_owner, holder>>

LEMMA HolderSame ==
  ASSUME IInv, IInv', \A p \in Procs : Holds(p)' <=> Holds(p)
  PROVE  holder' = holder
<1>1. CASE \A p \in Procs : ~Holds(p)
  BY Zenon, <1>1, HolderIs, HolderIsNext DEF IInv
<1>2. CASE \E p \in Procs : Holds(p)
  <2>1. PICK p \in Procs : Holds(p)
    BY Zenon, <1>2
  <2> QED BY Zenon, <2>1, HolderIs, HolderIsNext DEF IInv
<1> QED BY Zenon, <1>1, <1>2

LEMMA LockRefines == ASSUME IInv, IInv', NEW p \in Procs, mutex_lock(p) PROVE [L!Next]_seen
<1>1. CASE TestAndSet(p) /\ ~locked
  <2>1. pc' = [pc EXCEPT ![p] = "own"] /\ locked' = TRUE /\ pid_owner' = pid_owner
    BY Zenon, <1>1 DEF TestAndSet, Goto
  <2>2. Holds(p)'
    BY Zenon, <2>1 DEF IInv, Typed, TypeOK, Holds
  <2>3. holder = Nobody /\ holder' = p
    BY Zenon, <1>1, <2>2, HolderIs, HolderIsNext DEF IInv, MutualExclusion
  <2>4. pid_owner = Nobody
    BY Zenon, <1>1 DEF IInv, OwnerIsHolder, Nobody
  <2> QED BY Zenon, <1>1, <2>1, <2>3, <2>4 DEF L!Next, L!Step, L!Take
<1>2. CASE Own(p)
  <2>1. /\ pc[p] = "own" /\ pc' = [pc EXCEPT ![p] = "cs"]
        /\ pid_owner' = p /\ locked' = locked
    BY Zenon, <1>2 DEF Own, Running, Goto
  <2>2. Holds(p) /\ Holds(p)'
    BY Zenon, <2>1 DEF IInv, Typed, TypeOK, Holds
  <2>3. holder = p /\ holder' = p
    BY Zenon, <2>2, HolderIs, HolderIsNext DEF IInv
  <2>4. pid_owner = Nobody
    BY Zenon, <2>1 DEF IInv, OwnerIsHolder, Nobody
  <2> QED BY Zenon, <2>1, <2>3, <2>4 DEF L!Next, L!Step, L!EnterSection
<1>3. CASE ~(TestAndSet(p) /\ ~locked) /\ ~Own(p)
  <2>1. /\ \/ \E l \in Label : l \notin {"own", "cs", "release"} /\ pc' = [pc EXCEPT ![p] = l]
           \/ pc' = pc
        /\ pc[p] \notin {"own", "cs", "release"}
    BY Zenon, <1>3 DEF mutex_lock, Enter, TestAndSet, queue_contains, PushClear, PushReadHead, PushSetHead,
                PushWalk, PushLink, Block, scheduler_yield, Running, Goto, Label, LockLabels
  <2>2. locked' = locked /\ pid_owner' = pid_owner
    <3>1. CASE TestAndSet(p)
      BY Zenon, <1>3, <3>1 DEF TestAndSet, IInv, Typed, TypeOK
    <3>2. CASE ~TestAndSet(p)
      BY Zenon, <1>3, <3>2 DEF mutex_lock, Enter, queue_contains, PushClear, PushReadHead, PushSetHead,
                        PushWalk, PushLink, Block, scheduler_yield, mutex
    <3> QED BY Zenon, <3>1, <3>2
  <2>3. \A q \in Procs : Holds(q)' <=> Holds(q)
    BY Zenon, <2>1 DEF Holds, IInv, Typed, TypeOK
  <2> QED BY Zenon, <2>2, <2>3, HolderSame DEF seen
<1> QED BY Zenon, <1>1, <1>2, <1>3

LEMMA UnlockRefines == ASSUME IInv, IInv', NEW p \in Procs, mutex_unlock(p) PROVE [L!Next]_seen
<1>1. CASE Disown(p)
  <2>1. /\ pc[p] = "cs" /\ pc' = [pc EXCEPT ![p] = "release"]
        /\ pid_owner' = Nobody /\ locked' = locked
    BY Zenon, <1>1 DEF Disown, Running, Goto, Nobody
  <2>2. Holds(p) /\ Holds(p)'
    BY Zenon, <2>1 DEF IInv, Typed, TypeOK, Holds
  <2>3. holder = p /\ holder' = p
    BY Zenon, <2>2, HolderIs, HolderIsNext DEF IInv
  <2>4. pid_owner = p
    BY Zenon, <2>1 DEF IInv, OwnerIsHolder
  <2> QED BY Zenon, <2>1, <2>3, <2>4 DEF L!Next, L!Step, L!LeaveSection
<1>2. CASE Release(p)
  <2>1. /\ pc[p] = "release" /\ pc' = [pc EXCEPT ![p] = "pop"]
        /\ pid_owner' = pid_owner /\ locked' = FALSE
    BY Zenon, <1>2 DEF Release, Running, Goto
  <2>2. Holds(p) /\ \A q \in Procs : ~Holds(q)'
    BY Zenon, <2>1 DEF IInv, Typed, TypeOK, MutualExclusion, Holds
  <2>3. holder = p /\ holder' = Nobody
    BY Zenon, <2>2, HolderIs, HolderIsNext DEF IInv
  <2>4. pid_owner = Nobody
    BY Zenon, <2>1 DEF IInv, OwnerIsHolder, Nobody
  <2> QED BY Zenon, <2>1, <2>3, <2>4 DEF L!Next, L!Step, L!GiveBack
<1>3. CASE ~Disown(p) /\ ~Release(p)
  <2>1. /\ \E l \in Label : l \notin {"own", "cs", "release"} /\ pc' = [pc EXCEPT ![p] = l]
        /\ pc[p] \notin {"own", "cs", "release"}
        /\ locked' = locked /\ pid_owner' = pid_owner
    BY Zenon, <1>3 DEF mutex_unlock, PopReadHead, PopReadNext, PopSetHead, PopClear, Check, Wake,
                Running, Goto, Label, UnlockLabels, mutex
  <2>2. \A q \in Procs : Holds(q)' <=> Holds(q)
    BY Zenon, <2>1 DEF Holds, IInv, Typed, TypeOK
  <2> QED BY Zenon, <2>1, <2>2, HolderSame DEF seen
<1> QED BY Zenon, <1>1, <1>2, <1>3

LEMMA StepRefines == ASSUME IInv, IInv', [Next]_vars PROVE [L!Next]_seen
<1>1. ASSUME NEW p \in Procs, mutex_lock(p) PROVE [L!Next]_seen
  BY Zenon, <1>1, LockRefines
<1>2. ASSUME NEW p \in Procs, mutex_unlock(p) PROVE [L!Next]_seen
  BY Zenon, <1>2, UnlockRefines
<1>3. CASE \/ UNCHANGED vars \/ scheduler_tick
           \/ \E p \in Signalled : scheduler_send_signal(p)
           \/ \E p \in Killed : scheduler_terminate_task(p)
  <2>1. pc' = pc /\ locked' = locked /\ pid_owner' = pid_owner
    BY Zenon, <1>3 DEF vars, scheduler_tick, scheduler_send_signal, scheduler_terminate_task, mutex
  <2>2. \A q \in Procs : Holds(q)' <=> Holds(q)
    BY Zenon, <2>1 DEF Holds
  <2> QED BY Zenon, <2>1, <2>2, HolderSame DEF seen
<1>4. ASSUME NEW p \in Killed, Respawn(p) PROVE [L!Next]_seen
  <2>0. p \in Procs
    BY Zenon, MutexAssumption
  <2>1. pc' = [pc EXCEPT ![p] = "out"] /\ locked' = locked /\ pid_owner' = pid_owner
    BY Zenon, <1>4 DEF Respawn, Goto, mutex
  <2>2. ~Holds(p)' /\ \A q \in Procs : q # p => (Holds(q)' <=> Holds(q))
    BY Zenon, <2>0, <2>1 DEF Holds, IInv, Typed, TypeOK
  <2>3. CASE Holds(p)
    <3>1. \A q \in Procs : ~Holds(q)'
      BY Zenon, <2>0, <2>2, <2>3 DEF IInv, MutualExclusion
    <3>2. holder = p /\ holder' = Nobody
      BY Zenon, <2>0, <2>3, <3>1, HolderIs, HolderIsNext DEF IInv
    <3> QED BY Zenon, <2>0, <2>1, <3>2 DEF L!Next, L!Step, L!DieHolding
  <2>4. CASE ~Holds(p)
    BY Zenon, <2>1, <2>2, <2>4, HolderSame DEF seen
  <2> QED BY Zenon, <2>3, <2>4
<1> QED BY Zenon, <1>1, <1>2, <1>3, <1>4 DEF Next

\* The instructions of mutex.c, with interrupts, signals and kills between them,
\* implement the lock their callers rely on; in particular a lock whose holder
\* died is never granted again.
THEOREM MutexImplementsLock == Spec => ImplementsLock
<1>1. Init => L!Init
  <2> SUFFICES ASSUME Init PROVE L!Init
    BY Zenon
  <2>1. \A p \in Procs : ~Holds(p)
    BY Zenon DEF Init, Holds
  <2> QED BY Zenon, <2>1 DEF Init, L!Init, holder, Nobody
<1>2. IInv /\ IInv' /\ [Next]_vars => [L!Next]_seen
  BY Zenon, StepRefines
<1> QED BY <1>1, <1>2, IInvHolds, PTL DEF Spec, ImplementsLock, L!Spec, seen

=============================================================================
