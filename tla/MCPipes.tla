------------------------------ MODULE MCPipes ------------------------------
(***************************************************************************)
(* Pipes with small descriptor tables, one pipe and two byte values.      *)
(***************************************************************************)
EXTENDS Pipes
=============================================================================
