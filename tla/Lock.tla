-------------------------------- MODULE Lock --------------------------------
(***************************************************************************)
(* What a mutex_t of PhotonOS promises its users.  A lock that is not      *)
(* locked goes to one task; pid_owner is blank except while that task is   *)
(* in its critical section; only that task gives the lock back.  The       *)
(* kernel does not release the mutexes of a task that dies: such a lock    *)
(* stays locked, nobody holds it, and nobody gets it again.                *)
(***************************************************************************)
CONSTANTS Procs, Nobody  \* Nobody is not in Procs

VARIABLES locked, pid_owner, holder

Init == ~locked /\ pid_owner = Nobody /\ holder = Nobody

Take(p) ==
  /\ ~locked /\ pid_owner = Nobody
  /\ locked' = TRUE /\ holder' = p
  /\ UNCHANGED pid_owner

EnterSection(p) ==
  /\ holder = p /\ pid_owner = Nobody
  /\ pid_owner' = p
  /\ UNCHANGED <<locked, holder>>

LeaveSection(p) ==
  /\ holder = p /\ pid_owner = p
  /\ pid_owner' = Nobody
  /\ UNCHANGED <<locked, holder>>

GiveBack(p) ==
  /\ holder = p /\ pid_owner = Nobody
  /\ locked' = FALSE /\ holder' = Nobody
  /\ UNCHANGED pid_owner

DieHolding(p) ==
  /\ holder = p
  /\ holder' = Nobody
  /\ UNCHANGED <<locked, pid_owner>>

Step(p) == Take(p) \/ EnterSection(p) \/ LeaveSection(p) \/ GiveBack(p) \/ DieHolding(p)
Next == \E p \in Procs : Step(p)

Spec == Init /\ [][Next]_<<locked, pid_owner, holder>>

=============================================================================
