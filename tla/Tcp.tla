-------------------------------- MODULE Tcp --------------------------------
(***************************************************************************)
(* One TCP connection of src/kernel/tcp.c between two PhotonOS hosts: the  *)
(* client "C" (sys_connect) and the server "S" (sys_listen, sys_accept),   *)
(* over a network that reorders freely and that loses or duplicates        *)
(* segments within a budget of faults.                                     *)
(*                                                                         *)
(* A host has three actors.  System calls run with interrupts disabled, so *)
(* each is one step up to the place where it sleeps.  The network thread   *)
(* (net_kernel_thread) is preemptible: handling a segment or a timer tick  *)
(* is one step under the PCB lock, but the drain that follows releases the *)
(* lock for every segment it sends, and system calls come in between.      *)
(* A call that waits for an ARP answer, of this process or another one,    *)
(* polls the network itself: it handles a segment whatever the thread is   *)
(* doing.                                                                  *)
(* A second process sharing the descriptor (fork) may send or shut down    *)
(* while the first sleeps in recv; the last close comes when none is left. *)
(***************************************************************************)
EXTENDS TcpPcb, FiniteSets, Bags

CONSTANTS
  Plans,      \* the scenarios: the bounds of a behaviour, and where it starts
  ClientIss, ServerIss

VARIABLES
  pcb,        \* the connection's PCB on each host (NoPcb when there is none)
  thread,     \* the host's network thread: "idle", or "start"/"loop" in tcp_drain_unsent
  polled,     \* a call has handled a segment since the thread began to drain
  app,        \* the process: "idle", in "connect"/"recv", asleep there, or "stuck"
  listening,  \* the server socket is in LISTEN
  born,       \* the listener has created its child (bound: one child)
  net,        \* the bag of [to, seg] in transit
  sent,       \* bytes accepted by send() on each host
  got,        \* the bytes recv() has returned on each host
  plan        \* what is left of the scenario's bounds

vars == <<pcb, thread, polled, app, listening, born, net, sent, got, plan>>

Hosts == {"C", "S"}
Peer(h) == IF h = "C" THEN "S" ELSE "C"

Asleep == {"connect_sleep", "recv_sleep"}

\* After socket(): a CLOSED PCB with nothing sent.
FreshPcb == [tcp_alloc(plan.rxcap, plan.txcap) EXCEPT !.socket = TRUE]

\* After an undisturbed handshake and accept(): numbers agreed, nothing in transit.
OpenPcb(iss, irs) ==
  [FreshPcb EXCEPT !.state = "ESTABLISHED", !.iss = iss, !.una = Add(iss, 1), !.nxt = Add(iss, 1),
                   !.irs = irs, !.rcv = Add(irs, 1), !.wnd = plan.rxcap, !.wl1 = irs, !.wl2 = Add(iss, 1)]

\* A behaviour starts from the two sockets, or right after the handshake; the
\* plan gives the bytes each side may send() and in calls of which sizes, the
\* numbers of faults, timer expiries and connect() calls, how many segments
\* may be in transit, the buffer capacities, and which of recv, shutdown (RD,
\* WR) and close each side calls.
Init ==
  /\ plan \in Plans
  /\ pcb = IF plan.connects > 0 THEN [C |-> FreshPcb, S |-> NoPcb]
           ELSE [C |-> OpenPcb(ClientIss, ServerIss),
                 S |-> [OpenPcb(ServerIss, ClientIss) EXCEPT !.wl1 = Add(ClientIss, 1)]]
  /\ thread = [h \in Hosts |-> "idle"]
  /\ polled = [h \in Hosts |-> FALSE]
  /\ app = [h \in Hosts |-> "idle"]
  /\ listening = (plan.connects = 0) /\ born = (plan.connects = 0)
  /\ net = EmptyBag
  /\ sent = [h \in Hosts |-> 0]
  /\ got = [h \in Hosts |-> <<>>]

-----------------------------------------------------------------------------

Packets(to, segs) == [i \in 1 .. Len(segs) |-> [to |-> to, seg |-> segs[i]]]

RECURSIVE Post(_, _)
Post(bag, packets) ==
  IF packets = <<>> THEN bag ELSE Post(bag (+) SetToBag({Head(packets)}), Tail(packets))

\* tcp_socket_notify: a task asleep on the socket becomes runnable.
Wake(h, r) ==
  IF r.notify /\ pcb[h].socket
  THEN CASE app[h] = "connect_sleep" -> "connect"
         [] app[h] = "recv_sleep" -> "recv"
         [] OTHER -> app[h]
  ELSE app[h]

\* Bound: no more than plan.transit segments are under way.
Transmit(rest, h, segs) ==
  /\ net' = Post(rest, Packets(Peer(h), segs))
  /\ BagCardinality(net') <= plan.transit

\* The effect of an operation on the PCB of h.
Call(h, r) == pcb' = [pcb EXCEPT ![h] = r.pcb] /\ Transmit(net, h, r.out)

-----------------------------------------------------------------------------
(* System calls *)

sys_listen ==
  /\ ~listening
  /\ listening' = TRUE
  /\ UNCHANGED <<pcb, thread, polled, app, born, net, sent, got, plan>>

\* sys_connect: the SYN goes out and the caller sleeps, or the send fails
\* (no ARP answer) and the PCB is CLOSED again.
sys_connect ==
  /\ app.C = "idle" /\ pcb.C.state = "CLOSED" /\ pcb.C.socket /\ plan.connects > 0
  /\ LET r == ConnectStart(pcb.C, Add(ClientIss, plan.connects)) IN
     \/ /\ Call("C", r)
        /\ app' = [app EXCEPT !.C = "connect_sleep"]
        /\ plan' = [plan EXCEPT !.connects = @ - 1]
     \/ /\ plan.faults > 0
        /\ pcb' = [pcb EXCEPT !.C = [r.pcb EXCEPT !.state = "CLOSED"]]
        /\ plan' = [plan EXCEPT !.connects = @ - 1, !.faults = @ - 1]
        /\ UNCHANGED <<app, net>>
  /\ UNCHANGED <<thread, polled, listening, born, sent, got>>

\* The loop of sys_connect after a wake-up.  One that finds SYN_SENT and the
\* deadline passed closes the PCB and calls tcp_timer_clear, which takes the
\* lock that sys_connect holds: it spins there with interrupts off for ever.
ConnectLoop ==
  /\ app.C = "connect"
  /\ \/ /\ app' = [app EXCEPT !.C = IF pcb.C.state = "SYN_SENT" THEN "connect_sleep" ELSE "idle"]
        /\ UNCHANGED <<pcb, plan>>
     \/ /\ pcb.C.state = "SYN_SENT" /\ pcb.C.timeout /\ plan.ticks > 0
        /\ pcb' = [pcb EXCEPT !.C.state = "CLOSED"]
        /\ app' = [app EXCEPT !.C = "stuck"]
        /\ plan' = [plan EXCEPT !.ticks = @ - 1]
  /\ UNCHANGED <<thread, polled, listening, born, net, sent, got>>

\* sys_accept takes the queued child, whatever has happened to it since.
sys_accept ==
  /\ pcb.S.parent /\ pcb.S.state \notin {"NONE", "SYN_RECEIVED"}
  /\ pcb' = [pcb EXCEPT !.S = [@ EXCEPT !.parent = FALSE, !.socket = TRUE]]
  /\ UNCHANGED <<thread, polled, app, listening, born, net, sent, got, plan>>

Connected(h) == pcb[h].socket /\ app[h] \notin {"connect", "connect_sleep"}

sys_send(h, n, memory) ==
  /\ Connected(h) /\ sent[h] + n <= plan.bytes[h]
  /\ LET k == Accepts(pcb[h], n)
         r == tcp_send(pcb[h], [i \in 1 .. n |-> sent[h] + i], memory)
     IN k > 0 /\ Call(h, r) /\ sent' = [sent EXCEPT ![h] = @ + k]
  /\ UNCHANGED <<thread, polled, app, listening, born, got, plan>>

\* sys_recv: data if there is any, else EOF or an error, else sleep.
sys_recv(h, n, memory) ==
  /\ "recv" \in plan.ends[h]
  /\ Connected(h) /\ app[h] # "recv_sleep" /\ pcb[h].state # "SYN_SENT"
  /\ LET p == pcb[h]
         r == RecvRead(p, n, memory)
     IN \/ /\ "SHUT_RD" \notin p.flags /\ p.rx # <<>>
           /\ Call(h, r)
           /\ got' = [got EXCEPT ![h] = @ \o r.bytes]
           /\ app' = [app EXCEPT ![h] = "idle"]
        \/ /\ MustWait(p)
           /\ app' = [app EXCEPT ![h] = "recv_sleep"]
           /\ UNCHANGED <<pcb, net, got>>
        \/ /\ app[h] = "recv"
           /\ "SHUT_RD" \in p.flags \/ (p.rx = <<>> /\ ~MustWait(p))
           /\ app' = [app EXCEPT ![h] = "idle"]
           /\ UNCHANGED <<pcb, net, got>>
  /\ UNCHANGED <<thread, polled, listening, born, sent, plan>>

sys_shutdown(h, how, memory) ==
  /\ how \subseteq plan.ends[h] /\ Connected(h)
  /\ pcb[h].state \notin {"CLOSED", "SYN_SENT", "SYN_RECEIVED"}
  /\ LET r == tcp_shutdown(pcb[h], how, memory) IN
       r.pcb # pcb[h] /\ Call(h, r) /\ app' = [app EXCEPT ![h] = Wake(h, r)]
  /\ UNCHANGED <<thread, polled, listening, born, sent, got, plan>>

\* The last close of the descriptor: no process is inside a call on it.
socket_vfs_close(h, memory) ==
  /\ "close" \in plan.ends[h] /\ pcb[h].socket /\ app[h] = "idle"
  /\ Call(h, tcp_close(pcb[h], memory))
  /\ UNCHANGED <<thread, polled, app, listening, born, sent, got, plan>>

-----------------------------------------------------------------------------
(* The network thread *)

\* What tcp_input does with segment s on host h: no PCB (a reset, or for the
\* listener a new child), or the PCB of the connection.
Input(h, s) ==
  IF pcb[h].state # "NONE" THEN tcp_input(pcb[h], s)
  ELSE IF h = "C" \/ ~listening THEN Result(NoPcb, ResetReply(s), FALSE, FALSE)
  ELSE IF "SYN" \in s.flags /\ s.flags \cap {"ACK", "RST"} = {} /\ ~born
  THEN tcp_handle_listen_syn(plan.rxcap, plan.txcap, ServerIss, s)
  ELSE Result(NoPcb, <<>>, FALSE, FALSE)

\* net_poll_packets, in the thread when it is idle, or in a system call while the
\* thread is in tcp_drain_unsent without the lock.  That call's own drain finds
\* DRAINING set, or comes before a drain of the thread that does the same.
Deliver(m) ==
  LET h == m.to
      r == Input(h, m.seg)
  IN /\ pcb' = [pcb EXCEPT ![h] = r.pcb]
     /\ Transmit(net (-) SetToBag({m}), h, r.out)
     /\ app' = [app EXCEPT ![h] = Wake(h, r)]
     /\ thread' = [thread EXCEPT ![h] = IF @ = "idle" /\ r.drain THEN "start" ELSE @]
     /\ polled' = [polled EXCEPT ![h] = thread[h] # "idle"]
     /\ born' = (born \/ (h = "S" /\ r.pcb.state = "SYN_RECEIVED"))
     /\ UNCHANGED <<listening, sent, got, plan>>

\* One iteration of the thread's tcp_drain_unsent; the first takes DRAINING,
\* or leaves at once when it is taken.  A PCB that was freed meanwhile is
\* poisoned, and so is its lock: the thread waits for it for ever.
DrainUnsent(h, memory) ==
  /\ thread[h] # "idle" /\ pcb[h].state # "NONE"
  /\ LET r == IF thread[h] = "start" /\ "DRAINING" \in pcb[h].flags
              THEN [pcb |-> pcb[h], out |-> <<>>, done |-> TRUE]
              ELSE DrainStep([pcb[h] EXCEPT !.flags = @ \cup {"DRAINING"}], memory)
     IN /\ Call(h, r)
        /\ thread' = [thread EXCEPT ![h] = IF r.done THEN "idle" ELSE "loop"]
        /\ polled' = [polled EXCEPT ![h] = @ /\ ~r.done]
  /\ UNCHANGED <<app, listening, born, sent, got, plan>>

Tick(h, due) ==
  /\ thread[h] = "idle" /\ due # {} /\ plan.ticks > 0
  /\ LET r == tcp_timer_tick(pcb[h], due) IN
       Call(h, r) /\ app' = [app EXCEPT ![h] = Wake(h, r)]
  /\ plan' = [plan EXCEPT !.ticks = @ - 1]
  /\ UNCHANGED <<thread, polled, listening, born, sent, got>>

\* Faults of the network.
Lose(m) ==
  /\ plan.faults > 0
  /\ net' = net (-) SetToBag({m})
  /\ plan' = [plan EXCEPT !.faults = @ - 1]
  /\ UNCHANGED <<pcb, thread, polled, app, listening, born, sent, got>>

Duplicate(m) ==
  /\ plan.faults > 0 /\ BagCardinality(net) < plan.transit
  /\ net' = net (+) SetToBag({m})
  /\ plan' = [plan EXCEPT !.faults = @ - 1]
  /\ UNCHANGED <<pcb, thread, polled, app, listening, born, sent, got>>

\* kmalloc refuses the slice only within the budget of faults.
Memory == IF plan.faults > 0 THEN BOOLEAN ELSE {TRUE}

NetThread(h) ==
  \/ \E m \in BagToSet(net) : m.to = h /\ Deliver(m)
  \/ \E memory \in Memory : DrainUnsent(h, memory)
  \/ \E due \in SUBSET Armed(pcb[h]) : Tick(h, due)

Syscall(h) ==
  \E memory \in Memory :
    \/ \E n \in plan.sizes : sys_send(h, n, memory) \/ sys_recv(h, n, memory)
    \/ \E how \in SUBSET {"RD", "WR"} : sys_shutdown(h, how, memory)
    \/ socket_vfs_close(h, memory)

\* A host whose processor spins with interrupts off does nothing any more.
Running(h) == app[h] # "stuck"

Next ==
  \/ sys_listen \/ sys_connect \/ ConnectLoop \/ sys_accept
  \/ \E h \in Hosts : Running(h) /\ (Syscall(h) \/ NetThread(h))
  \/ \E m \in BagToSet(net) : Lose(m) \/ Duplicate(m)

Spec == Init /\ [][Next]_vars

-----------------------------------------------------------------------------
(* Properties *)

Live(h) == pcb[h].state \in States \ {"CLOSED", "SYN_SENT", "SYN_RECEIVED"}

\* Bytes of h's stream that its own PCB knows to be acknowledged.
Acked(h) == Smaller(Diff(pcb[h].una, Add(pcb[h].iss, 1)), sent[h])

\* Bytes of the peer's stream, and its FIN, that h has taken.
Taken(h) == Diff(pcb[h].rcv, Add(IF h = "S" THEN pcb.S.irs ELSE ServerIss, 1))

\* Types, and the bounds of tcp.h on what a PCB may hold.
TypeOK ==
  /\ \A h \in Hosts :
       LET p == pcb[h] IN
       /\ p.state \in States \cup {"NONE"} /\ p.flags \subseteq Flags
       /\ {p.iss, p.una, p.nxt, p.rcv, p.wl1, p.wl2} \subseteq 0 .. SeqSpace - 1
       /\ {p.wnd, p.cwnd, p.ssthresh} \subseteq 0 .. MAX_WINDOW
       /\ Len(p.rx) <= p.rxcap /\ tcp_tx_buffer_used(p) <= p.txcap
       /\ p.retries \in 0 .. Larger(TCP_MAX_SYN_RETRIES, TCP_MAX_DATA_RETRIES)
       /\ p.probes \in 0 .. TCP_MAX_PERSIST_PROBES
  /\ thread \in [Hosts -> {"idle", "start", "loop"}]
  /\ app \in [Hosts -> {"idle", "connect", "recv", "stuck"} \cup Asleep]

\* What recv() has returned is a prefix of what the peer's send() accepted:
\* no byte lost, repeated, reordered or invented, whatever the network does.
\* Not covered: a poll nested in a system call that overwrites the static frame
\* of net_poll_packets while the thread's tcp_input copies the payload out of it
\* (module Sockets has the overwritten frame).
ReadsAreTheStream ==
  \A h \in Hosts :
    /\ got[h] = [i \in 1 .. Len(got[h]) |-> i]
    /\ Len(got[h]) <= sent[Peer(h)]

\* End of file is reported only when every byte the peer accepted has been
\* taken, and then the peer accepts no more (FIN after the data, FIN_PENDING).
\* TIME_WAIT is reached only when both directions are finished: the peer's
\* FIN taken here and ours taken by the peer, if it is still there.
EofAfterAllData ==
  \A h \in Hosts :
    /\ "EOF" \in pcb[h].flags => Taken(h) = sent[Peer(h)] + 1
    /\ pcb[h].state = "TIME_WAIT" =>
         /\ "EOF" \in pcb[h].flags
         /\ pcb[h].unsent = <<>> /\ pcb[h].unacked = <<>>
         /\ Live(Peer(h)) => "EOF" \in pcb[Peer(h)].flags

\* The acknowledged bytes, unacked and unsent together are the accepted
\* stream: slicing, partial ACKs and retransmission lose and repeat nothing,
\* and a byte leaves the retransmission queue only once the peer has taken it.
\* The buffers stay within their capacity (TypeOK).
QueuesTileTheStream ==
  TypeOK /\ \A h \in Hosts : Live(h) =>
    /\ Live(Peer(h)) => Acked(h) <= Taken(Peer(h))
    /\ UnackedBytes(pcb[h]) \o FlattenSeq(pcb[h].unsent)
         = [i \in 1 .. sent[h] - Acked(h) |-> Acked(h) + i]
    /\ \A i \in 1 .. Len(pcb[h].unacked) :
         pcb[h].unacked[i].seq = Add(pcb[h].iss, pcb[h].unacked[i].data[1])

\* No close, shutdown or send by itself frees the PCB that the network thread
\* drains with the lock released (tcp_drain_unsent's unlock around
\* net_send_ipv4): the thread comes back to a PCB that is there.  The exception
\* is a segment that a system call polls meanwhile (net_send_ipv4's wait for
\* ARP): a reset followed by a close, or the last acknowledgement after one,
\* frees the PCB under the thread.
DrainedPcbLives ==
  \A h \in Hosts : thread[h] # "idle" /\ ~polled[h] => pcb[h].state # "NONE"

\* A connection whose FIN retries ran out goes to CLOSED without a notify.
FinGivenUp(h) == pcb[h].state = "CLOSED" /\ "RESET" \notin pcb[h].flags

\* A task asleep in recv() has a reason to sleep: every event that ends the
\* wait wakes it, except the silent close after the last FIN retry.  A task
\* asleep in connect() has a SYN outstanding with a timer armed, so it is woken;
\* whether it then returns is another matter: past its deadline it is stuck
\* (ConnectLoop).
SleeperHasReason ==
  /\ \A h \in Hosts : app[h] = "recv_sleep" => MustWait(pcb[h]) \/ FinGivenUp(h)
  /\ app.C = "connect_sleep" => pcb.C.state = "SYN_SENT" /\ pcb.C.timeout

=============================================================================
