---------------------------- MODULE MCScheduler ----------------------------
(***************************************************************************)
(* Scheduler with a table of a few slots.  Signal handlers are installed   *)
(* at address 2, which stands for any ring 3 function.                     *)
(***************************************************************************)
EXTENDS Scheduler

LifecycleSignals == {SIGINT, SIGKILL, SIGCHLD}
Kill == {SIGKILL}

JobSignals == {SIGINT, SIGKILL, SIGCHLD, SIGCONT, SIGSTOP}
JobKills == {SIGKILL, SIGCONT, SIGSTOP}

ContinueCaught == {<<SIGCONT, 2>>}
MaskInt == {{SIGINT}}

=============================================================================
