------------------------------- MODULE Sockets -------------------------------
(***************************************************************************)
(* The socket layer of src/kernel/net.c over the PCB table of tcp.c:       *)
(* the socket slots and their descriptors, ports, listeners with their     *)
(* accept queues, and the datagram rings, between processes that call and  *)
(* the network thread that delivers frames.                                *)
(*                                                                         *)
(* A call runs with IF clear: one step, up to where it sleeps.  The thread *)
(* is preemptible: where tcp_input and net_poll_packets hold no lock, the  *)
(* step ends, and calls come in between.  A call that has to wait for an   *)
(* ARP answer runs net_poll_packets itself, over the same static frame.    *)
(* What an accepted connection does with its data is in module Tcp: here   *)
(* it is ESTABLISHED, then CLOSING without a socket, and recv finds data   *)
(* or not.  Every PCB is bound to the wildcard address.                    *)
(***************************************************************************)
EXTENDS SequencesExt, FiniteSetsExt, Integers

CONSTANTS
  MAX_SOCKETS, SOCKET_RX_BUF_SIZE, TASK_MAX_FDS, TCP_MAX_BACKLOG,
  MaxPcbs,         \* PCBs that kmalloc has room for
  Procs,           \* pids
  Ports,           \* ports that processes name
  TCP_EPHEMERAL_PORT_FIRST, TCP_EPHEMERAL_PORT_LAST,
  Peers,           \* remote address and port
  Setups,          \* the states to start from
  MaxCalls,        \* bound on the calls
  MaxFrames        \* bound on the frames that arrive

VARIABLES
  sock,        \* sockets[]
  pcb,         \* the PCBs
  list,        \* tcp_pcbs, the newest first
  ephemeral,   \* tcp_next_ephemeral
  fds,         \* the socket behind each descriptor
  proc,        \* where each process is, and the socket it is in
  thread,      \* where the network thread is, and its local variables
  frame,       \* the static frame of net_poll_packets, while it is handled
  leaked,      \* sockets whose description a killed call still counts as its own
  dangling,    \* a PCB was freed while a queue or a socket points to it
  overwritten, \* frames that were overwritten while the thread handled them
  calls,       \* calls made
  frames       \* frames arrived

vars == <<sock, pcb, list, ephemeral, fds, proc, thread, frame, leaked, dangling, overwritten,
          calls, frames>>

NONE == 0
Slots == 1 .. MAX_SOCKETS
PcbIds == 1 .. MaxPcbs
Fds == 1 .. TASK_MAX_FDS
EphemeralPorts == TCP_EPHEMERAL_PORT_FIRST .. TCP_EPHEMERAL_PORT_LAST

ASSUME SocketsAssumption ==
  /\ {MAX_SOCKETS, SOCKET_RX_BUF_SIZE, TASK_MAX_FDS, TCP_MAX_BACKLOG, MaxPcbs} \subseteq Nat \ {0}
  /\ NONE \notin Ports \cup EphemeralPorts \cup Peers \cup Procs

NoSocket == [active |-> FALSE, type |-> "NONE", port |-> NONE, remote |-> NONE, tcp |-> NONE,
             rx |-> <<>>]
FreedPcb == [state |-> "FREED", socket |-> NONE, parent |-> NONE, port |-> NONE,
             peer |-> NONE, queue |-> <<>>, backlog |-> 0]
NoFrame == [kind |-> "NONE", port |-> NONE, peer |-> NONE, id |-> 0]
Idle == [at |-> "idle", pcb |-> NONE, listener |-> NONE, port |-> NONE, peer |-> NONE, id |-> 0]
At(where, i) == [at |-> where, on |-> i]

\* What the operations below change, as one value.
Tables == [sock |-> sock, pcb |-> pcb, list |-> list, proc |-> proc, leaked |-> leaked,
           dangling |-> dangling]
Become(k) == /\ sock' = k.sock /\ pcb' = k.pcb /\ list' = k.list
             /\ proc' = k.proc /\ leaked' = k.leaked /\ dangling' = k.dangling

-----------------------------------------------------------------------------
(* The PCB table *)

FreePcbs(k) == {x \in PcbIds : k.pcb[x].state = "FREED"}

tcp_register(k, x, p) == [k EXCEPT !.pcb[x] = p, !.list = <<x>> \o @]

tcp_port_in_use(k, except, port) ==
  \E x \in ToSet(k.list) \ {except} : k.pcb[x].port = port /\ k.pcb[x].state # "CLOSED"

\* An exact match wins wherever it is in the list, else the newest listener.
tcp_lookup(k, port, peer) ==
  LET exact(x) == k.pcb[x].port = port /\ k.pcb[x].peer = peer /\ k.pcb[x].state # "LISTEN"
      listener(x) == k.pcb[x].port = port /\ k.pcb[x].state = "LISTEN"
      found == SelectSeq(k.list, exact) \o SelectSeq(k.list, listener)
  IN IF found = <<>> THEN NONE ELSE Head(found)

Queued(k, x) == \E l \in PcbIds : x \in ToSet(k.pcb[l].queue)

\* Mutant: the children that go with a listener stay in the list.
tcp_socket_destroy_linked(k, x) ==
  LET p == k.pcb[x]
      half == {y \in ToSet(k.list) : k.pcb[y].parent = x /\ k.pcb[y].state = "SYN_RECEIVED"}
      dead == {x} \cup IF p.state = "LISTEN" THEN half \cup ToSet(p.queue) ELSE {}
      other(y) == y # x
  IN [k EXCEPT !.pcb = [y \in PcbIds |-> IF y \in dead THEN FreedPcb ELSE @[y]],
               !.list = SelectSeq(@, other)]

\* With a listener go its queue and its half-open children.
tcp_socket_destroy(k, x) ==
  LET p == k.pcb[x]
      half == {y \in ToSet(k.list) : k.pcb[y].parent = x /\ k.pcb[y].state = "SYN_RECEIVED"}
      dead == {x} \cup IF p.state = "LISTEN" THEN half \cup ToSet(p.queue) ELSE {}
      lives(y) == y \notin dead
  IN [k EXCEPT !.pcb = [y \in PcbIds |-> IF y \in dead THEN FreedPcb ELSE @[y]],
               !.list = SelectSeq(@, lives)]

\* A connection sends its FIN first and is freed by tcp_free later.
tcp_close(k, x) ==
  IF k.pcb[x].state = "ESTABLISHED"
  THEN [k EXCEPT !.pcb[x].socket = NONE, !.pcb[x].state = "CLOSING"]
  ELSE tcp_socket_destroy(k, x)

\* The candidates of tcp_allocate_ephemeral_port, in its order.
EphemeralOrder ==
  LET n == TCP_EPHEMERAL_PORT_LAST - TCP_EPHEMERAL_PORT_FIRST + 1 IN
  [j \in 1 .. n |->
     TCP_EPHEMERAL_PORT_FIRST + ((ephemeral - TCP_EPHEMERAL_PORT_FIRST + j - 1) % n)]

After(port) ==
  IF port = TCP_EPHEMERAL_PORT_LAST THEN TCP_EPHEMERAL_PORT_FIRST ELSE port + 1

-----------------------------------------------------------------------------
(* Sockets *)

Asleep == {"accept_sleep", "read_sleep", "recv_sleep"}
Woken(at) == CASE at = "accept_sleep" -> "accept"
               [] at = "read_sleep" -> "read"
               [] at = "recv_sleep" -> "recv"

\* Mutant: only one sleeper is woken.
scheduler_wake_one(k, i) ==
  LET asleep == {p \in Procs : k.proc[p].at \in Asleep /\ k.proc[p].on = i} IN
  IF asleep = {} THEN k ELSE [k EXCEPT !.proc[Min(asleep)] = At(Woken(@.at), i)]

\* Everyone who sleeps on socket i becomes runnable.
scheduler_wake_socket(k, i) ==
  LET awake(s) == IF s.at \in Asleep /\ s.on = i THEN At(Woken(s.at), i) ELSE s IN
  [k EXCEPT !.proc = [p \in Procs |-> awake(@[p])]]

socket_vfs_close(k, i) ==
  LET x == k.sock[i].tcp
      closed == [k EXCEPT !.sock[i] = NoSocket]
  IN IF x = NONE THEN closed ELSE tcp_close(closed, x)

\* Mutant: the first close is the last.
CloseShut(k, d, shut) == FoldSet(LAMBDA i, a : socket_vfs_close(a, i), k, shut)

\* A process in sys_recv has counted itself (task_get_file_description).
InRecv(k, p, i) == k.proc[p] \in {At("recv", i), At("recv_sleep", i)}

\* file_description_unref: the slots of shut whose description is counted by no
\* descriptor of table d, no call and no call that was killed are closed.
CloseUnused(k, d, shut) ==
  LET unused == {i \in shut \ k.leaked :
                   \A p \in Procs : ~InRecv(k, p, i) /\ \A f \in Fds : d[p][f] # i} IN
  FoldSet(LAMBDA i, a : socket_vfs_close(a, i), k, unused)

FreeSlots(k) == {i \in Slots : ~k.sock[i].active}
FreeFds(p) == {f \in Fds : fds[p][f] = NONE}

\* A full ring drops what comes.
Enqueue(k, i, d) ==
  IF Len(k.sock[i].rx) >= SOCKET_RX_BUF_SIZE THEN k ELSE [k EXCEPT !.sock[i].rx = Append(@, d)]

-----------------------------------------------------------------------------
(* Frames.  Each operator gives the tables and where the thread goes on.    *)

Go(k, t) == [k |-> k, t |-> t]
Then(where, x) == [Idle EXCEPT !.at = where, !.pcb = x]

\* net_poll_packets hands a frame of another protocol to every raw socket.
\* The protocol is read from the frame again, which by now may be UDP.
RawInput(k, t, fr) ==
  LET takes(i) == \/ k.sock[i].type = "RAW" /\ fr.kind = "RAW"
                  \/ k.sock[i].type = "DGRAM" /\ fr.kind = "UDP" /\ k.sock[i].port = fr.port
      room == {i \in Slots : takes(i) /\ Len(k.sock[i].rx) < SOCKET_RX_BUF_SIZE}
      give(i, a) == scheduler_wake_socket(
                      Enqueue(a, i, [frame |-> fr, id |-> t.id, to |-> k.sock[i].port]), i)
  IN FoldSet(give, k, room)

\* tcp_accept_enqueue_locked.
EnqueueChild(k, l, x) == [k EXCEPT !.pcb[l].queue = Append(@, x), !.pcb[x].parent = l]

\* tcp_input up to where it first holds no lock.  An ACK on a connection brings
\* data, for which the reader is woken.
TcpInput(k, fr) ==
  LET x == tcp_lookup(k, fr.port, fr.peer)
      p == k.pcb[x]
      reset == [k EXCEPT !.pcb[x].state = "CLOSED"]
  IN CASE x = NONE -> Go(k, Idle)
       [] p.state = "CLOSED" -> Go(k, Idle)
       [] p.state = "LISTEN" /\ fr.kind = "SYN" ->
            Go(k, [Then("syn", x) EXCEPT !.peer = fr.peer])
       [] p.state # "LISTEN" /\ fr.kind = "RST" ->
            Go(reset, IF p.socket # NONE THEN Then("notify", p.socket)
                      ELSE IF p.parent # NONE THEN Then("destroy", x) ELSE Idle)
       [] p.state = "SYN_RECEIVED" /\ fr.kind = "ACK" ->
            Go([k EXCEPT !.pcb[x].state = "ESTABLISHED"],
               IF p.parent # NONE THEN [Then("enqueue", x) EXCEPT !.listener = p.parent] ELSE Idle)
       [] p.state = "ESTABLISHED" /\ fr.kind = "ACK" /\ p.socket # NONE ->
            Go(k, Then("notify", p.socket))
       [] OTHER -> Go(k, Idle)

\* net_poll_packets: the header fields are copied, the rest stays in frame.
Input(k, fr) ==
  CASE fr.kind = "RAW" -> Go(k, [Idle EXCEPT !.at = "raw", !.id = fr.id])
    [] fr.kind = "UDP" -> Go(k, [Idle EXCEPT !.at = "udp", !.port = fr.port, !.id = fr.id])
    [] OTHER -> TcpInput(k, fr)

\* Mutant: any datagram socket will do.
UdpTargetAny(k, port) == {i \in Slots : k.sock[i].active /\ k.sock[i].type = "DGRAM"}

UdpTarget(k, port) ==
  {i \in Slots : k.sock[i].active /\ k.sock[i].type = "DGRAM" /\ k.sock[i].port = port}

\* The datagram in frame goes to the first socket with the port read before,
\* which from then on writes to its sender.
UdpDeliver(k, t, fr) ==
  LET found == UdpTarget(k, t.port)
      i == Min(found)
      full == Len(k.sock[i].rx) >= SOCKET_RX_BUF_SIZE
      given == Enqueue(k, i, [frame |-> fr, id |-> t.id, to |-> k.sock[i].port])
  IN IF found = {} THEN Go(k, Idle)
     ELSE Go(IF full THEN given ELSE [given EXCEPT !.sock[i].remote = fr.peer], Then("notify", i))

\* tcp_handle_listen_syn, under the listener's lock.
ListenSyn(k, t) ==
  LET l == k.pcb[t.pcb] IN
  Go(k, IF l.state = "LISTEN" /\ Len(l.queue) < l.backlog
        THEN [t EXCEPT !.at = "child", !.port = l.port] ELSE Idle)

\* And after it: the child is registered with the listener as its parent.
MakeChild(k, t) ==
  Go(IF FreePcbs(k) = {} THEN k
     ELSE tcp_register(k, Min(FreePcbs(k)),
            [FreedPcb EXCEPT !.state = "SYN_RECEIVED", !.parent = t.pcb, !.port = t.port,
                             !.peer = t.peer]), Idle)

\* The child of an ACK goes into the queue of its listener, or away.
AckedChild(k, t) ==
  LET l == t.listener IN
  IF k.pcb[l].state = "LISTEN" /\ Len(k.pcb[l].queue) < k.pcb[l].backlog
  THEN Go(EnqueueChild(k, l, t.pcb),
          IF k.pcb[l].socket = NONE THEN Idle ELSE Then("notify", k.pcb[l].socket))
  ELSE Go(k, Then("destroy", t.pcb))

\* The thread takes the lock of a PCB that is still there.  A freed one is
\* poisoned, and so is its lock: the thread waits for it for ever.
Usable(k, t) ==
  CASE t.at \in {"syn", "destroy"} -> k.pcb[t.pcb].state # "FREED"
    [] t.at = "enqueue" -> \A x \in {t.pcb, t.listener} : k.pcb[x].state # "FREED"
    [] OTHER -> TRUE

Step(k, t, fr) ==
  CASE t.at = "udp" -> UdpDeliver(k, t, fr)
    [] t.at = "raw" -> Go(RawInput(k, t, fr), Idle)
    [] t.at = "syn" -> ListenSyn(k, t)
    [] t.at = "child" -> MakeChild(k, t)
    [] t.at = "enqueue" -> AckedChild(k, t)
    [] t.at = "notify" -> Go(scheduler_wake_socket(k, t.pcb), Idle)
    [] t.at = "destroy" ->
         Go([tcp_socket_destroy(k, t.pcb) EXCEPT
               !.dangling = @ \/ Queued(k, t.pcb) \/ k.pcb[t.pcb].socket # NONE], Idle)

\* A frame handled without interruption, in a system call.
Poll(k, fr) ==
  LET on(g, n) == IF g.t = Idle \/ ~Usable(g.k, g.t) THEN g ELSE Step(g.k, g.t, fr) IN
  FoldLeft(on, Input(k, fr), <<1, 2, 3>>)

Frames ==
  LET id == {frames + 1} IN
       [kind : {"SYN", "ACK", "RST", "UDP"}, port : Ports, peer : Peers, id : id]
  \cup [kind : {"RAW"}, port : {NONE}, peer : {NONE}, id : id]

Arrives == frames < MaxFrames /\ frames' = frames + 1

\* Only a thread that is at work reads the frame.
Keep(t, fr) == IF t = Idle THEN NoFrame ELSE fr

\* net_kernel_thread takes the next frame.
Receive ==
  \E fr \in Frames :
    LET g == Input(Tables, fr) IN
    /\ ~dangling /\ thread = Idle /\ Arrives
    /\ Become(g.k) /\ thread' = g.t /\ frame' = Keep(g.t, fr)
    /\ UNCHANGED <<ephemeral, fds, overwritten, calls>>

\* And goes on with it.
Continue ==
  /\ ~dangling /\ thread # Idle /\ Usable(Tables, thread)
  /\ LET g == Step(Tables, thread, frame) IN
       Become(g.k) /\ thread' = g.t /\ frame' = Keep(g.t, frame)
  /\ UNCHANGED <<ephemeral, fds, overwritten, calls, frames>>

\* tcp_timer_tick: a half-open child expires, or a closed connection is done.
tcp_timer_tick(x) ==
  LET other(y) == y # x IN
  /\ ~dangling /\ thread = Idle
  /\ \/ /\ pcb[x].state = "SYN_RECEIVED"
        /\ pcb' = [pcb EXCEPT ![x].state = "CLOSED"] /\ UNCHANGED list
     \/ /\ pcb[x].state = "CLOSING"
        /\ pcb' = [pcb EXCEPT ![x] = FreedPcb] /\ list' = SelectSeq(list, other)
  /\ UNCHANGED <<sock, ephemeral, fds, proc, thread, frame, leaked, dangling, overwritten, calls,
                 frames>>

-----------------------------------------------------------------------------
(* The calls *)

Call(p, where) ==
  /\ ~dangling /\ calls < MaxCalls /\ calls' = calls + 1
  /\ proc[p].at = where

NotNet == UNCHANGED <<thread, frame, overwritten, frames>>
Now(p, s) == [proc EXCEPT ![p] = s]
Ready == At("idle", NONE)

\* A failure on the way (no slot, PCB or descriptor) undoes what was done.
sys_socket(p, type) ==
  LET i == Min(FreeSlots(Tables))
      x == IF type = "STREAM" THEN Min(FreePcbs(Tables)) ELSE NONE
      made == [Tables EXCEPT !.sock[i] = [NoSocket EXCEPT !.active = TRUE, !.type = type,
                                                          !.tcp = x]]
  IN /\ Call(p, "idle") /\ NotNet /\ UNCHANGED ephemeral
     /\ FreeSlots(Tables) # {} /\ FreeFds(p) # {}
     /\ type = "STREAM" => FreePcbs(Tables) # {}
     /\ Become(IF type = "STREAM"
               THEN tcp_register(made, x, [FreedPcb EXCEPT !.state = "CLOSED", !.socket = i])
               ELSE made)
     /\ fds' = [fds EXCEPT ![p][Min(FreeFds(p))] = i]

\* Any number of datagram sockets may have one port; a stream takes a free
\* one, or for port 0 the next free ephemeral one.
sys_bind(p, f, port) ==
  LET i == fds[p][f]
      x == sock[i].tcp
      free == SelectSeq(EphemeralOrder, LAMBDA q : ~tcp_port_in_use(Tables, x, q))
      given == IF port = NONE /\ sock[i].type = "STREAM" THEN Head(free) ELSE port
  IN /\ Call(p, "idle") /\ NotNet
     /\ i # NONE
     /\ IF sock[i].type = "STREAM"
        THEN /\ pcb[x].state = "CLOSED"
             /\ IF port = NONE THEN free # <<>> ELSE ~tcp_port_in_use(Tables, x, port)
             /\ pcb' = [pcb EXCEPT ![x].port = given]
             /\ ephemeral' = IF port = NONE THEN After(given) ELSE ephemeral
        ELSE UNCHANGED <<pcb, ephemeral>>
     /\ sock' = [sock EXCEPT ![i].port = given]
     /\ UNCHANGED <<list, fds, proc, leaked, dangling>>

sys_listen(p, f, backlog) ==
  LET i == fds[p][f]
      x == sock[i].tcp
  IN /\ Call(p, "idle") /\ NotNet
     /\ i # NONE /\ sock[i].type = "STREAM" /\ sock[i].port # NONE
     /\ pcb[x].state \in {"CLOSED", "LISTEN"}
     /\ pcb' = [pcb EXCEPT ![x].state = "LISTEN", ![x].peer = NONE, ![x].backlog = backlog]
     /\ UNCHANGED <<sock, list, ephemeral, fds, proc, leaked, dangling>>

tcp_accept_dequeue(k, l) ==
  [k EXCEPT !.pcb[l].queue = Tail(@), !.pcb[Head(k.pcb[l].queue)].parent = NONE]

\* The new socket of a child taken from the queue.  Without a slot or a
\* descriptor the child is destroyed: without a descriptor twice, by the close
\* of the description and by sys_accept, unless that close only sent a FIN.
Accept(p, l) ==
  LET x == Head(pcb[l].queue)
      taken == [tcp_accept_dequeue(Tables, l) EXCEPT !.proc[p] = Ready]
      i == Min(FreeSlots(Tables))
  IN IF FreeSlots(Tables) = {} \/ FreeFds(p) = {}
     THEN /\ Become([tcp_socket_destroy(taken, x) EXCEPT
               !.dangling = FreeSlots(Tables) # {} /\ pcb[x].state = "CLOSED"])
          /\ UNCHANGED fds
     ELSE /\ Become([taken EXCEPT
               !.sock[i] = [active |-> TRUE, type |-> "STREAM", port |-> pcb[x].port,
                            remote |-> pcb[x].peer, tcp |-> x, rx |-> <<>>],
               !.pcb[x].socket = i])
          /\ fds' = [fds EXCEPT ![p][Min(FreeFds(p))] = i]

\* The loop of sys_accept on socket i.
AcceptLoop(p, i) ==
  LET l == sock[i].tcp IN
  /\ sock[i].active /\ sock[i].type = "STREAM"
  /\ CASE pcb[l].state # "LISTEN" ->
            proc' = Now(p, Ready) /\ UNCHANGED <<sock, pcb, list, leaked, dangling, fds>>
       [] pcb[l].state = "LISTEN" /\ pcb[l].queue = <<>> ->
            /\ proc' = Now(p, At("accept_sleep", i))
            /\ UNCHANGED <<sock, pcb, list, leaked, dangling, fds>>
       [] OTHER -> Accept(p, l)
  /\ NotNet /\ UNCHANGED ephemeral

sys_accept(p, f) == Call(p, "idle") /\ fds[p][f] # NONE /\ AcceptLoop(p, fds[p][f])

\* The loop of socket_vfs_read on datagram or raw socket i.
ReadLoop(p, i) ==
  /\ sock[i].active /\ sock[i].type # "STREAM"
  /\ IF sock[i].rx = <<>>
     THEN proc' = Now(p, At("read_sleep", i)) /\ UNCHANGED sock
     ELSE proc' = Now(p, Ready) /\ sock' = [sock EXCEPT ![i].rx = Tail(@)]
  /\ NotNet /\ UNCHANGED <<pcb, list, leaked, dangling, fds, ephemeral>>

sys_read(p, f) == Call(p, "idle") /\ fds[p][f] # NONE /\ ReadLoop(p, fds[p][f])

\* The loop of sys_recv on stream socket i: data (or none) is what module Tcp is
\* about.  It returns with its reference given up, or sleeps with it.
RecvLoop(p, i) ==
  /\ sock[i].active /\ sock[i].type = "STREAM"
  /\ \/ Become(CloseUnused([Tables EXCEPT !.proc[p] = Ready], fds, {i}))
     \/ /\ pcb[sock[i].tcp].state = "ESTABLISHED"
        /\ Become([Tables EXCEPT !.proc[p] = At("recv_sleep", i)])
  /\ NotNet /\ UNCHANGED <<fds, ephemeral>>

sys_recv(p, f) == Call(p, "idle") /\ fds[p][f] # NONE /\ RecvLoop(p, fds[p][f])

\* After a wake-up.
Resume(p) ==
  /\ ~dangling /\ UNCHANGED calls
  /\ \/ proc[p].at = "accept" /\ AcceptLoop(p, proc[p].on)
     \/ proc[p].at = "read" /\ ReadLoop(p, proc[p].on)
     \/ proc[p].at = "recv" /\ RecvLoop(p, proc[p].on)

\* socket_vfs_write, net_send_udp and tcp_send: while net_send_ipv4 has no ARP entry for
\* the peer it polls for frames.
sys_write(p, f) ==
  \E fr \in Frames :
    LET g == Poll(Tables, fr) IN
    /\ Call(p, "idle") /\ Arrives /\ frame' = Keep(thread, fr)
    /\ fds[p][f] # NONE
    /\ LET s == sock[fds[p][f]] IN
       s.remote # NONE /\ (s.tcp # NONE => pcb[s.tcp].state = "ESTABLISHED")
    /\ g.t = Idle /\ Become(g.k)
    /\ overwritten' = overwritten \cup (IF thread.at \in {"udp", "raw"} THEN {thread.id} ELSE {})
    /\ UNCHANGED <<ephemeral, fds, thread>>

sys_close(p, f) ==
  LET d == [fds EXCEPT ![p][f] = NONE] IN
  /\ Call(p, "idle") /\ NotNet /\ UNCHANGED ephemeral
  /\ fds[p][f] # NONE
  /\ fds' = d /\ Become(CloseUnused(Tables, d, {fds[p][f]}))

sys_fork(p, q) ==
  /\ Call(p, "idle") /\ NotNet /\ proc[q].at = "unborn"
  /\ fds' = [fds EXCEPT ![q] = fds[p]]
  /\ proc' = Now(q, Ready)
  /\ UNCHANGED <<sock, pcb, list, leaked, dangling, ephemeral>>

\* task_close_all_fds of a process that exits, or is killed where it sleeps: in
\* sys_recv the reference that the call took is never given up.
Exit(p) ==
  LET d == [fds EXCEPT ![p] = [f \in Fds |-> NONE]]
      gone == [Tables EXCEPT !.proc[p] = At("gone", NONE),
                             !.leaked = @ \cup {i \in Slots : InRecv(Tables, p, i)}]
  IN /\ ~dangling /\ calls < MaxCalls /\ calls' = calls + 1
     /\ proc[p].at \notin {"unborn", "gone"} /\ NotNet /\ UNCHANGED ephemeral
     /\ fds' = d
     /\ Become(CloseUnused(gone, d, {fds[p][f] : f \in Fds} \ {NONE}))

-----------------------------------------------------------------------------

Init ==
  /\ \E s \in Setups : sock = s.sock /\ pcb = s.pcb /\ list = s.list /\ fds = s.fds
                       /\ proc = s.proc
  /\ ephemeral = TCP_EPHEMERAL_PORT_FIRST
  /\ thread = Idle /\ frame = NoFrame
  /\ leaked = {} /\ dangling = FALSE /\ overwritten = {}
  /\ calls = 0 /\ frames = 0

Next ==
  \/ Receive \/ Continue
  \/ \E x \in PcbIds : tcp_timer_tick(x)
  \/ \E p \in Procs :
       \/ \E type \in {"STREAM", "DGRAM", "RAW"} : sys_socket(p, type)
       \/ \E f \in Fds, port \in Ports \cup {NONE} : sys_bind(p, f, port)
       \/ \E f \in Fds, backlog \in 1 .. TCP_MAX_BACKLOG : sys_listen(p, f, backlog)
       \/ \E f \in Fds : \/ sys_accept(p, f) \/ sys_read(p, f) \/ sys_recv(p, f)
                         \/ sys_write(p, f) \/ sys_close(p, f)
       \/ Resume(p)
       \/ \E q \in Procs : sys_fork(p, q)
       \/ Exit(p)

Spec == Init /\ [][Next]_vars

-----------------------------------------------------------------------------
(* Properties *)

\* Every table keeps its shape: rings and queues within their size.
TypeOK ==
  /\ \A i \in Slots :
       /\ sock[i].type \in {"NONE", "STREAM", "DGRAM", "RAW"}
       /\ Len(sock[i].rx) <= SOCKET_RX_BUF_SIZE
       /\ sock[i].tcp \in PcbIds \cup {NONE}
  /\ \A x \in PcbIds :
       /\ pcb[x].state \in {"FREED", "CLOSED", "LISTEN", "SYN_RECEIVED", "ESTABLISHED", "CLOSING"}
       /\ Len(pcb[x].queue) <= TCP_MAX_BACKLOG
  /\ fds \in [Procs -> [Fds -> Slots \cup {NONE}]]
  /\ ephemeral \in EphemeralPorts

Notifying(i) == thread.at = "notify" /\ thread.pcb = i

\* No wake-up is lost: a process that sleeps in accept on a queue that is not
\* empty, in read on a ring that is not empty, or in recv on a connection that
\* was reset, is about to be woken by the thread; and the socket it sleeps on is
\* still its own (sys_accept, socket_vfs_read, sys_recv, tcp_socket_notify).
SleeperHasReason ==
  dangling \/ \A p \in Procs : LET i == proc[p].on IN
    /\ proc[p].at = "accept_sleep" =>
         /\ pcb[sock[i].tcp].state = "LISTEN"
         /\ pcb[sock[i].tcp].queue # <<>> => Notifying(i)
    /\ proc[p].at = "read_sleep" /\ sock[i].rx # <<>> => Notifying(i)
    /\ proc[p].at = "recv_sleep" =>
         pcb[sock[i].tcp].state = "ESTABLISHED" \/ Notifying(i)
    /\ proc[p].at \in Asleep \cup {"accept", "read", "recv"} =>
         sock[i].active /\ \E f \in Fds : fds[p][f] = i

\* A slot is taken exactly while a descriptor of some process names it: no
\* order of fork, close, accept, recv and exit loses a slot or closes it early.
\* The one exception: a process killed in sys_recv never gives up the reference
\* of task_get_file_description, and the slot stays taken (leaked) for good.  A
\* stream socket and its PCB name each other, and no PCB has two sockets, so a
\* segment wakes the sleepers of the right socket.  (A kill during the wait for
\* ARP in sys_send leaks in the same way; here that call is one step.)
SocketOwnership ==
  /\ \A i \in Slots :
       sock[i].active <=> i \in leaked \/ \E p \in Procs, f \in Fds : fds[p][f] = i
  /\ \A i \in Slots : sock[i].tcp # NONE => dangling \/ pcb[sock[i].tcp].socket = i
  /\ \A x \in PcbIds : pcb[x].socket # NONE => sock[pcb[x].socket].tcp = x

\* The PCB list has each PCB that is in use once, and no other.  What is in an
\* accept queue is a live child of that listener without a socket, once,
\* whatever closes, expires or is reset meanwhile.  The one exception is a
\* child that a RST destroys while it is queued (dangling); then the model
\* stops.  Rings and queues stay within their size (TypeOK).
QueuedIsLive ==
  /\ TypeOK
  /\ IsInjective(list) /\ ToSet(list) = {x \in PcbIds : pcb[x].state # "FREED"}
  /\ dangling \/ \A l \in PcbIds : LET q == pcb[l].queue IN
       /\ q # <<>> => pcb[l].state = "LISTEN"
       /\ IsInjective(q)
       /\ \A x \in ToSet(q) : pcb[x].state # "FREED" /\ pcb[x].parent = l /\ pcb[x].socket = NONE

\* A datagram is queued at a socket that has its port, after all that came
\* before it.  The exception is a frame that a call's own net_poll_packets
\* overwrites while the thread is between reading the port and the payload.
DatagramsInOrder ==
  \A i \in Slots : LET rx == sock[i].rx IN
    \A m \in 1 .. Len(rx) : rx[m].id \in overwritten \/
      /\ rx[m].frame.id = rx[m].id
      /\ sock[i].type = "DGRAM" => rx[m].frame.kind = "UDP" /\ rx[m].frame.port = rx[m].to
      /\ \A n \in 1 .. (m - 1) : rx[n].id < rx[m].id

=============================================================================
