------------------------------ MODULE MCSockets ------------------------------
(***************************************************************************)
(* Sockets for TLC: from nothing, and from states in which the sockets     *)
(* that the deeper cases need have been made.                              *)
(***************************************************************************)
EXTENDS Sockets

Held(i) == [f \in Fds |-> IF f = 1 THEN i ELSE NONE]

Nothing ==
  [sock |-> [i \in Slots |-> NoSocket], pcb |-> [x \in PcbIds |-> FreedPcb], list |-> <<>>,
   fds |-> [p \in Procs |-> Held(NONE)],
   proc |-> [p \in Procs |-> At(IF p = 1 THEN "idle" ELSE "unborn", NONE)]]

\* After socket, bind, listen and fork: two processes share a listener.
Server(backlog) ==
  [Nothing EXCEPT
     !.sock[1] = [NoSocket EXCEPT !.active = TRUE, !.type = "STREAM", !.port = 7, !.tcp = 1],
     !.pcb[1] = [FreedPcb EXCEPT !.state = "LISTEN", !.socket = 1, !.port = 7,
                                 !.backlog = backlog],
     !.list = <<1>>,
     !.fds = [p \in Procs |-> Held(1)],
     !.proc = [p \in Procs |-> Ready]]

\* After socket and bind in each process: a datagram socket, a raw one.
Datagrams ==
  [Nothing EXCEPT
     !.sock[1] = [NoSocket EXCEPT !.active = TRUE, !.type = "DGRAM", !.port = 7, !.remote = 1],
     !.sock[2] = [NoSocket EXCEPT !.active = TRUE, !.type = "RAW"],
     !.fds = [p \in Procs |-> Held(p)],
     !.proc = [p \in Procs |-> Ready]]

\* After connect or accept, the close of the listener, and fork.
Connection ==
  [Nothing EXCEPT
     !.sock[1] = [NoSocket EXCEPT !.active = TRUE, !.type = "STREAM", !.port = 7, !.remote = 1,
                                  !.tcp = 1],
     !.pcb[1] = [FreedPcb EXCEPT !.state = "ESTABLISHED", !.socket = 1, !.port = 7, !.peer = 1],
     !.list = <<1>>,
     !.fds = [p \in Procs |-> Held(1)],
     !.proc = [p \in Procs |-> Ready]]

SomeSetups == {Nothing, Server(2), Datagrams, Connection}
=============================================================================
