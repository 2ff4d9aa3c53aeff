------------------------------ MODULE MCMutex ------------------------------
(***************************************************************************)
(* Mutex with two or three tasks.                                          *)
(***************************************************************************)
EXTENDS Mutex
=============================================================================
