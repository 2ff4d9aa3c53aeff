------------------------------- MODULE TcpPcb -------------------------------
(***************************************************************************)
(* The protocol control block of src/kernel/tcp.c: the operations that     *)
(* tcp_input, tcp_timer_tick, tcp_send, tcp_drain_unsent, tcp_close and    *)
(* tcp_shutdown perform on one PCB, as functions from a PCB (and a         *)
(* segment) to the PCB they leave and the segments they emit.              *)
(*                                                                         *)
(* A PCB is the record of tcp.h without its addresses, its list links and  *)
(* its lock.  seq_number always equals snd_nxt and ack_number rcv_nxt, so  *)
(* only the latter are kept.  Deadlines are abstracted to "armed": which   *)
(* armed deadlines are due is an argument of the tick.  Sequence numbers   *)
(* are integers modulo SeqSpace with the signed comparison of TCP_SEQ_LT.    *)
(* A payload is a sequence of stream positions, so that a byte keeps its   *)
(* identity from send() to recv().                                         *)
(***************************************************************************)
EXTENDS Integers, Sequences, SequencesExt

CONSTANTS
  SeqSpace,               \* 2^32 in the code
  TCP_DEFAULT_MSS,
  MAX_WINDOW,           \* 0xFFFF: TCP_DEFAULT_WINDOW, TCP_INITIAL_SSTHRESH, the cap of cwnd
  TCP_MAX_SYN_RETRIES,
  TCP_MAX_DATA_RETRIES,
  TCP_MAX_PERSIST_PROBES

ASSUME TcpConstants ==
  /\ SeqSpace \in Nat /\ SeqSpace % 2 = 0 /\ SeqSpace > 0
  /\ TCP_DEFAULT_MSS \in Nat \ {0} /\ MAX_WINDOW \in Nat
  /\ TCP_MAX_SYN_RETRIES \in Nat /\ TCP_MAX_DATA_RETRIES \in Nat
  /\ TCP_MAX_PERSIST_PROBES \in Nat

Smaller(a, b) == IF a < b THEN a ELSE b
Larger(a, b)  == IF a > b THEN a ELSE b
Cap(w) == Smaller(w, MAX_WINDOW)

\* TCP_SEQ_LT and its companions: (int32_t)(a - b) < 0.
Add(a, n)   == (a + n) % SeqSpace
Diff(a, b)  == (a - b) % SeqSpace
SeqLT(a, b) == Diff(a, b) >= SeqSpace \div 2
SeqLE(a, b) == a = b \/ SeqLT(a, b)

Flags == {"RTO", "PERSIST", "DRAINING", "RESET", "EOF", "SHUT_RD", "SHUT_WR",
          "FIN_PENDING", "FAST_RECOVERY"}

States == {"CLOSED", "SYN_SENT", "SYN_RECEIVED", "ESTABLISHED", "FIN_WAIT1",
           "FIN_WAIT2", "CLOSE_WAIT", "LAST_ACK", "TIME_WAIT"}

tcp_alloc(rxcap, txcap) ==
  [state |-> "CLOSED", iss |-> 0, irs |-> 0, una |-> 0, nxt |-> 0, rcv |-> 0,
   wnd |-> MAX_WINDOW, wl1 |-> 0, wl2 |-> 0, ann |-> rxcap,
   rx |-> <<>>, rxcap |-> rxcap, txcap |-> txcap, unsent |-> <<>>, unacked |-> <<>>,
   cwnd |-> Cap(3 * TCP_DEFAULT_MSS), ssthresh |-> MAX_WINDOW, ca |-> 0, dupacks |-> 0,
   flags |-> {}, timeout |-> FALSE, retries |-> 0, probes |-> 0,
   socket |-> FALSE, parent |-> FALSE]

\* No PCB in tcp_pcbs for this connection: never created, or freed.
NoPcb == [tcp_alloc(0, 0) EXCEPT !.state = "NONE"]

tcp_timers_reset(p) ==
  [p EXCEPT !.flags = @ \ {"RTO", "PERSIST", "DRAINING"},
            !.timeout = FALSE, !.retries = 0, !.probes = 0]

ArmRto(p)    == [p EXCEPT !.flags = @ \cup {"RTO"}, !.retries = 0]
DisarmRto(p) == [p EXCEPT !.flags = @ \ {"RTO"}]

Closed(p) == tcp_timers_reset([p EXCEPT !.state = "CLOSED"])

\* State CLOSED with RESET set and both transmit queues cleared.
Reset(p) ==
  [Closed(p) EXCEPT !.flags = @ \cup {"RESET"}, !.unsent = <<>>, !.unacked = <<>>]

-----------------------------------------------------------------------------
(* Buffers and segments *)

tcp_rx_buffer_free_space(p) == p.rxcap - Len(p.rx)

\* tcp_rx_buffer_write_locked: the ring keeps what fits.
tcp_rx_buffer_write(p, data) ==
  [p EXCEPT !.rx = @ \o SubSeq(data, 1, Smaller(Len(data), tcp_rx_buffer_free_space(p)))]

\* tcp_rx_buffer_read_locked: the bytes handed to the caller and what is left.
tcp_rx_buffer_read(p, n) ==
  LET k == Smaller(n, Len(p.rx)) IN
  [bytes |-> SubSeq(p.rx, 1, k), pcb |-> [p EXCEPT !.rx = SubSeq(@, k + 1, Len(@))]]

UnackedBytes(p) == FlattenSeq([i \in 1 .. Len(p.unacked) |-> p.unacked[i].data])
tcp_tx_buffer_used(p) == Len(FlattenSeq(p.unsent)) + Len(UnackedBytes(p))
tcp_tx_buffer_available(p) == Larger(0, p.txcap - tcp_tx_buffer_used(p))

Segment(p, flags, seq, data) ==
  [flags |-> flags, seq |-> seq, ack |-> p.rcv, wnd |-> tcp_rx_buffer_free_space(p),
   data |-> data]

\* tcp_build_output_locked with no payload, as every caller passes: the
\* control segment, and the PCB with the numbers it consumed.
tcp_build_output(p, flags) ==
  LET seq == IF "SYN" \in flags /\ p.state \in {"SYN_SENT", "SYN_RECEIVED"}
             THEN p.iss ELSE p.nxt
      q == [p EXCEPT !.ann = tcp_rx_buffer_free_space(p)]
  IN [seg |-> Segment(p, flags, seq, <<>>),
      pcb |-> IF "SYN" \in flags THEN [q EXCEPT !.nxt = Add(p.iss, 1), !.una = p.iss]
              ELSE IF "FIN" \in flags THEN [q EXCEPT !.nxt = Add(@, 1)]
              ELSE q]

\* tcp_retransmit_segment_locked: the oldest unacknowledged segment, as sent.
tcp_retransmit_segment(p) == Segment(p, {"ACK"}, Head(p.unacked).seq, Head(p.unacked).data)

\* What an operation leaves: the PCB, the segments it hands to net_send_ipv4,
\* whether it then calls tcp_drain_unsent and whether it notifies the socket.
Result(p, out, drain, notify) ==
  [pcb |-> p, out |-> out, drain |-> drain, notify |-> notify]

Emit(p, flags, drain, notify) ==
  LET b == tcp_build_output(p, flags) IN Result(b.pcb, <<b.seg>>, drain, notify)

\* The FIN of close, shutdown and drain: sent, the state advanced, RTO armed.
SendFin(p) ==
  LET b == tcp_build_output(p, {"FIN", "ACK"}) IN
  [seg |-> b.seg,
   pcb |-> ArmRto([b.pcb EXCEPT !.state = CASE p.state = "ESTABLISHED" -> "FIN_WAIT1"
                                            [] p.state = "CLOSE_WAIT" -> "LAST_ACK"
                                            [] OTHER -> p.state])]

-----------------------------------------------------------------------------
(* Transmission: tcp_drain_unsent and tcp_send *)

\* Whether the PCB may put a segment of unsent on the wire.
MaySend(p) == p.state \in {"ESTABLISHED", "CLOSE_WAIT"} /\ "RESET" \notin p.flags

RemainingWindow(p) == Larger(0, Smaller(p.wnd, p.cwnd) - Diff(p.nxt, p.una))

\* Zero window: the persist timer is armed unless it already is.
ArmPersist(p) ==
  IF p.wnd = 0 /\ "PERSIST" \notin p.flags
  THEN [p EXCEPT !.flags = @ \cup {"PERSIST"}, !.probes = 0] ELSE p

\* n bytes of the head of unsent become an unacknowledged segment.
SendHead(p, n) ==
  LET data == SubSeq(Head(p.unsent), 1, n)
      rest == SubSeq(Head(p.unsent), n + 1, Len(Head(p.unsent)))
      q == [p EXCEPT !.unsent = (IF rest = <<>> THEN <<>> ELSE <<rest>>) \o Tail(@),
                     !.unacked = Append(@, [seq |-> p.nxt, data |-> data]),
                     !.nxt = Add(@, n),
                     !.ann = tcp_rx_buffer_free_space(p)]
  IN [pcb |-> IF p.unacked = <<>> THEN ArmRto(q) ELSE q,
      out |-> <<Segment(p, {"ACK"}, p.nxt, data)>>]

\* One iteration of the loop of tcp_drain_unsent, between two releases of the
\* PCB lock; memory is FALSE when kmalloc refuses the slice.
DrainStep(p, memory) ==
  LET stop(q, out) == [pcb |-> [q EXCEPT !.flags = @ \ {"DRAINING"}], out |-> out, done |-> TRUE]
      n == Smaller(Smaller(Len(Head(p.unsent)), RemainingWindow(p)), TCP_DEFAULT_MSS)
  IN IF p.unsent = <<>>
     THEN IF "FIN_PENDING" \in p.flags
          THEN LET f == SendFin([p EXCEPT !.flags = @ \ {"FIN_PENDING"}]) IN stop(f.pcb, <<f.seg>>)
          ELSE stop(p, <<>>)
     ELSE IF ~MaySend(p) THEN stop(p, <<>>)
     ELSE IF RemainingWindow(p) = 0 THEN stop(ArmPersist(p), <<>>)
     ELSE IF n < Len(Head(p.unsent)) /\ ~memory THEN stop(p, <<>>)
     ELSE LET s == SendHead(p, n) IN [pcb |-> s.pcb, out |-> s.out, done |-> FALSE]

\* The whole loop, as a system call runs it: interrupts stay off, so nothing
\* comes between its iterations.
RECURSIVE DrainLoop(_, _, _)
DrainLoop(p, out, memory) ==
  LET s == DrainStep(p, memory) IN
  IF s.done THEN [pcb |-> s.pcb, out |-> out \o s.out]
  ELSE DrainLoop(s.pcb, out \o s.out, memory)

tcp_drain_unsent(p, memory) ==
  IF "DRAINING" \in p.flags THEN [pcb |-> p, out |-> <<>>]
  ELSE DrainLoop([p EXCEPT !.flags = @ \cup {"DRAINING"}], <<>>, memory)

\* Phase 1 of tcp_send: how many of n bytes the transmit buffer accepts.
Accepts(p, n) ==
  IF MaySend(p) /\ "SHUT_WR" \notin p.flags
  THEN Smaller(n, tcp_tx_buffer_available(p)) ELSE 0

\* The accepted bytes as segments of at most one MSS.
Chunks(data) ==
  [i \in 1 .. (Len(data) + TCP_DEFAULT_MSS - 1) \div TCP_DEFAULT_MSS |->
     SubSeq(data, (i - 1) * TCP_DEFAULT_MSS + 1, Smaller(i * TCP_DEFAULT_MSS, Len(data)))]

\* tcp_send of data: nothing (-1) when no byte is accepted, else queue and drain.
tcp_send(p, data, memory) ==
  LET k == Accepts(p, Len(data)) IN
  IF k = 0 THEN [pcb |-> p, out |-> <<>>]
  ELSE tcp_drain_unsent([p EXCEPT !.unsent = @ \o Chunks(SubSeq(data, 1, k))], memory)

-----------------------------------------------------------------------------
(* Acknowledgements: tcp_tx_ack_received_locked_ext *)

GrowCwnd(p, acked) ==
  IF p.cwnd < p.ssthresh
  THEN [p EXCEPT !.cwnd = Cap(@ + Smaller(acked, TCP_DEFAULT_MSS))]
  ELSE IF p.ca + acked >= p.cwnd
  THEN [p EXCEPT !.ca = 0, !.cwnd = Cap(@ + TCP_DEFAULT_MSS)]
  ELSE [p EXCEPT !.ca = @ + acked]

\* Mutant of TrimUnacked: the segment that starts at the ACK is released too.
TrimUnackedNext(q, ack) == SelectSeq(q, LAMBDA s : ~SeqLE(s.seq, ack))

\* Segments the ACK covers are freed, one it covers in part keeps its tail.
TrimUnacked(q, ack) ==
  LET rest == SelectSeq(q, LAMBDA s : ~SeqLE(Add(s.seq, Len(s.data)), ack))
      head == Head(rest)
  IN IF rest # <<>> /\ SeqLT(head.seq, ack)
     THEN <<[seq |-> ack, data |-> SubSeq(head.data, Diff(ack, head.seq) + 1, Len(head.data))]>>
          \o Tail(rest)
     ELSE rest

tcp_tx_ack_received(p, ack, recovery_exit) ==
  IF SeqLT(p.nxt, ack) \/ SeqLE(ack, p.una) THEN p
  ELSE LET grown == IF recovery_exit THEN p ELSE GrowCwnd(p, Diff(ack, p.una))
           q == [grown EXCEPT !.una = ack, !.unacked = TrimUnacked(@, ack)]
       IN IF q.unacked = <<>> THEN [DisarmRto(q) EXCEPT !.retries = 0] ELSE ArmRto(q)

-----------------------------------------------------------------------------
(* tcp_input, one operator per state *)

\* The reply when no PCB matches; to the connection's peer.
ResetReply(s) ==
  IF "RST" \in s.flags THEN <<>>
  ELSE <<[flags |-> IF "ACK" \in s.flags THEN {"RST"} ELSE {"RST", "ACK"},
          seq |-> IF "ACK" \in s.flags THEN s.ack ELSE 0,
          ack |-> IF "ACK" \in s.flags THEN 0
                  ELSE Add(s.seq, Len(s.data) + IF {"SYN", "FIN"} \cap s.flags # {} THEN 1 ELSE 0),
          wnd |-> 0, data |-> <<>>]>>

\* tcp_handle_listen_syn: the child and its SYN+ACK.
tcp_handle_listen_syn(rxcap, txcap, iss, s) ==
  Emit(ArmRto([tcp_alloc(rxcap, txcap) EXCEPT
                 !.state = "SYN_RECEIVED", !.iss = iss, !.una = iss, !.nxt = Add(iss, 1),
                 !.irs = s.seq, !.rcv = Add(s.seq, 1), !.parent = TRUE, !.timeout = TRUE]),
       {"SYN", "ACK"}, FALSE, FALSE)

SynSentInput(p, s) ==
  IF {"SYN", "ACK"} \subseteq s.flags /\ s.ack \in {Add(p.iss, 1), p.nxt}
  THEN Emit(tcp_timers_reset([p EXCEPT
              !.state = "ESTABLISHED", !.rcv = Add(s.seq, 1), !.una = s.ack,
              !.nxt = Add(p.iss, 1), !.wnd = s.wnd, !.wl1 = s.seq, !.wl2 = s.ack]),
            {"ACK"}, FALSE, TRUE)
  ELSE Result(p, <<>>, FALSE, TRUE)

\* The child is queued for accept(); a payload on this ACK is not looked at.
\* A child with no listener left (parent = 0) falls through to the tail.
SynReceivedInput(p, s) ==
  IF "SYN" \in s.flags /\ "ACK" \notin s.flags THEN Emit(p, {"SYN", "ACK"}, FALSE, TRUE)
  ELSE IF "ACK" \in s.flags /\ "SYN" \notin s.flags /\ s.ack \in {Add(p.iss, 1), p.nxt}
  THEN Result(tcp_timers_reset([p EXCEPT !.state = "ESTABLISHED", !.wnd = s.wnd,
                !.wl1 = s.seq, !.wl2 = s.ack, !.una = s.ack, !.nxt = s.ack]),
              <<>>, FALSE, ~p.parent)
  ELSE Result(p, <<>>, FALSE, TRUE)

DuplicateAck(p, s) ==
  /\ p.unacked # <<>> /\ SeqLT(p.una, p.nxt) /\ s.data = <<>>
  /\ s.flags \cap {"SYN", "FIN", "RST"} = {}
  /\ s.ack = p.una /\ s.wnd = p.wnd

HalfFlight(p) == Larger(Diff(p.nxt, p.una) \div 2, 2 * TCP_DEFAULT_MSS)

\* The third duplicate: fast retransmit and fast recovery.
EnterRecovery(p) ==
  ArmRto([p EXCEPT !.ssthresh = HalfFlight(p), !.ca = 0, !.dupacks = 3,
                   !.cwnd = Cap(HalfFlight(p) + 3 * TCP_DEFAULT_MSS),
                   !.flags = @ \cup {"FAST_RECOVERY"}])

\* The acknowledgement part of ESTABLISHED.
EstablishedAck(p, s) ==
  IF SeqLT(p.nxt, s.ack) THEN [pcb |-> p, reply |-> TRUE, drain |-> FALSE, rexmit |-> <<>>]
  ELSE IF SeqLT(p.una, s.ack) THEN
    LET fast == "FAST_RECOVERY" \in p.flags
        q == IF fast THEN [p EXCEPT !.cwnd = p.ssthresh, !.ca = 0, !.dupacks = 0,
                                    !.flags = @ \ {"FAST_RECOVERY"}]
             ELSE [p EXCEPT !.dupacks = 0]
    IN [pcb |-> tcp_tx_ack_received(q, s.ack, fast), reply |-> FALSE, drain |-> TRUE, rexmit |-> <<>>]
  ELSE IF ~DuplicateAck(p, s) THEN [pcb |-> p, reply |-> FALSE, drain |-> FALSE, rexmit |-> <<>>]
  ELSE IF "FAST_RECOVERY" \in p.flags THEN
    [pcb |-> [p EXCEPT !.dupacks = @ + 1, !.cwnd = Cap(@ + TCP_DEFAULT_MSS)],
     reply |-> FALSE, drain |-> TRUE, rexmit |-> <<>>]
  ELSE IF p.dupacks = 2 THEN
    [pcb |-> EnterRecovery(p), reply |-> FALSE, drain |-> TRUE, rexmit |-> <<tcp_retransmit_segment(p)>>]
  ELSE [pcb |-> [p EXCEPT !.dupacks = @ + 1], reply |-> FALSE, drain |-> FALSE, rexmit |-> <<>>]

\* The window part: any change of the advertised window is taken, whatever
\* the order of the segments; an open window disarms the persist timer.
WindowUpdate(p, s) ==
  IF s.wnd # p.wnd \/ SeqLT(p.wl1, s.seq) \/ (p.wl1 = s.seq /\ SeqLE(p.wl2, s.ack))
  THEN LET q == [p EXCEPT !.wnd = s.wnd, !.wl1 = s.seq, !.wl2 = s.ack] IN
       IF s.wnd > 0 /\ "PERSIST" \in p.flags
       THEN [q EXCEPT !.flags = @ \ {"PERSIST"}, !.probes = 0] ELSE q
  ELSE p

\* Mutant of TakeData: a segment beyond a gap is taken as if it were in order.
TakeDataBeyondGap(p, s) ==
  IF s.data = <<>> \/ SeqLT(s.seq, p.rcv) THEN p
  ELSE LET q == tcp_rx_buffer_write(p, s.data) IN
       [q EXCEPT !.rcv = Add(@, Len(q.rx) - Len(p.rx))]

\* In-order payload: discarded but counted after SHUT_RD, else as much as
\* the ring takes; anything else is dropped.
TakeData(p, s) ==
  IF s.data = <<>> \/ s.seq # p.rcv THEN p
  ELSE IF "SHUT_RD" \in p.flags THEN [p EXCEPT !.rcv = Add(@, Len(s.data))]
  ELSE LET q == tcp_rx_buffer_write(p, s.data) IN
       [q EXCEPT !.rcv = Add(@, Len(q.rx) - Len(p.rx))]

\* The FIN is the next octet expected, all data before it received.
FinInOrder(p, s) == "FIN" \in s.flags /\ Add(s.seq, Len(s.data)) = p.rcv

\* The FIN has been taken before.
FinRepeated(p, s) == "FIN" \in s.flags /\ Add(s.seq, Len(s.data) + 1) = p.rcv

TakeFin(p) == [p EXCEPT !.rcv = Add(@, 1), !.flags = @ \cup {"EOF"}]

ZeroWindowProbe(p, s) ==
  /\ s.data = <<>> /\ Add(s.seq, 1) = p.rcv
  /\ "ACK" \in s.flags /\ s.flags \cap {"SYN", "FIN", "RST"} = {}

\* The tail of tcp_input: the reply, then the fast retransmission, then a
\* drain when something is waiting to be sent.
Finish(p, reply, rexmit, drain) ==
  LET b == tcp_build_output(p, {"ACK"})
      waiting == /\ p.state \in {"ESTABLISHED", "CLOSE_WAIT"}
                 /\ p.unsent # <<>> \/ "FIN_PENDING" \in p.flags
  IN Result(IF reply THEN b.pcb ELSE p, (IF reply THEN <<b.seg>> ELSE <<>>) \o rexmit,
            drain \/ waiting, TRUE)

EstablishedInput(p, s) ==
  LET a == IF "ACK" \in s.flags THEN EstablishedAck(p, s)
           ELSE [pcb |-> p, reply |-> FALSE, drain |-> FALSE, rexmit |-> <<>>]
      w == IF "ACK" \in s.flags THEN WindowUpdate(a.pcb, s) ELSE a.pcb
      d == TakeData(w, s)
      fin == FinInOrder(d, s)
  IN Finish(IF fin THEN [TakeFin(d) EXCEPT !.state = "CLOSE_WAIT"] ELSE d,
            a.reply \/ ZeroWindowProbe(w, s) \/ s.data # <<>> \/ fin, a.rexmit, a.drain)

FinWait1Input(p, s) ==
  LET acked == "ACK" \in s.flags /\ ~SeqLT(s.ack, p.nxt)
      a == IF "ACK" \in s.flags THEN tcp_tx_ack_received(p, s.ack, FALSE) ELSE p
      b == IF acked THEN [DisarmRto(a) EXCEPT !.retries = 0] ELSE a
      d == TakeData(b, s)
      again == "EOF" \in d.flags /\ FinRepeated(d, s)
      fin == ~again /\ FinInOrder(d, s)
      f == IF fin THEN TakeFin(d) ELSE d
  IN Finish(CASE acked /\ "EOF" \in f.flags -> [f EXCEPT !.state = "TIME_WAIT", !.timeout = TRUE]
              [] acked /\ "EOF" \notin f.flags -> [f EXCEPT !.state = "FIN_WAIT2"]
              [] OTHER -> f,
            (s.data # <<>> /\ s.seq = b.rcv) \/ again \/ fin, <<>>, FALSE)

FinWait2Input(p, s) ==
  LET d == TakeData(p, s)
      fin == FinInOrder(d, s)
  IN Finish(IF fin THEN [TakeFin(d) EXCEPT !.state = "TIME_WAIT", !.timeout = TRUE] ELSE d,
            (s.data # <<>> /\ s.seq = p.rcv) \/ fin, <<>>, FALSE)

CloseWaitInput(p, s) == Finish(p, FinRepeated(p, s), <<>>, FALSE)

\* The ACK of the FIN ends the connection; with no socket left the PCB is freed.
LastAckInput(p, s) ==
  LET f == Finish(p, FinRepeated(p, s), <<>>, FALSE) IN
  IF "ACK" \in s.flags /\ ~SeqLT(s.ack, p.nxt)
  THEN Result(IF p.socket THEN Closed(f.pcb) ELSE NoPcb, f.out, FALSE, TRUE)
  ELSE f

TimeWaitInput(p, s) ==
  Finish(IF "FIN" \in s.flags THEN [p EXCEPT !.timeout = TRUE] ELSE p,
         "FIN" \in s.flags, <<>>, FALSE)

\* RST in any synchronized or opening state; a queued child is destroyed.
ResetInput(p) ==
  Result(IF p.parent /\ ~p.socket THEN NoPcb ELSE Reset(p), <<>>, FALSE, TRUE)

tcp_input(p, s) ==
  CASE p.state = "CLOSED" -> Result(p, <<>>, FALSE, FALSE)
    [] p.state # "CLOSED" /\ "RST" \in s.flags -> ResetInput(p)
    [] OTHER ->
       CASE p.state = "SYN_SENT"     -> SynSentInput(p, s)
         [] p.state = "SYN_RECEIVED" -> SynReceivedInput(p, s)
         [] p.state = "ESTABLISHED"  -> EstablishedInput(p, s)
         [] p.state = "FIN_WAIT1"    -> FinWait1Input(p, s)
         [] p.state = "FIN_WAIT2"    -> FinWait2Input(p, s)
         [] p.state = "CLOSE_WAIT"   -> CloseWaitInput(p, s)
         [] p.state = "LAST_ACK"     -> LastAckInput(p, s)
         [] p.state = "TIME_WAIT"    -> TimeWaitInput(p, s)

-----------------------------------------------------------------------------
(* tcp_timer_tick, one operator per state; due is the set of armed deadlines *)
(* that have passed                                                          *)

\* SYN and SYN+ACK: the connect timeout or the retry limit closes the PCB,
\* an RTO sends the segment again.  Only SYN_SENT has a socket to notify.
HandshakeTick(p, due, flags) ==
  IF "timeout" \in due \/ ("RTO" \in due /\ p.retries >= TCP_MAX_SYN_RETRIES)
  THEN Result(Closed(p), <<>>, FALSE, p.state = "SYN_SENT")
  ELSE IF "RTO" \in due THEN Emit([p EXCEPT !.retries = @ + 1], flags, FALSE, FALSE)
  ELSE Result(p, <<>>, FALSE, FALSE)

\* A data RTO: the loss response on the first one, then the oldest segment
\* again; with nothing unacknowledged the timer is disarmed.
DataRto(p) ==
  IF p.unacked = <<>> THEN [pcb |-> DisarmRto(p), out |-> <<>>]
  ELSE LET left == IF "FAST_RECOVERY" \in p.flags
                   THEN [p EXCEPT !.flags = @ \ {"FAST_RECOVERY"}, !.dupacks = 0] ELSE p
           loss == IF p.retries = 0
                   THEN [left EXCEPT !.ssthresh = HalfFlight(p), !.cwnd = TCP_DEFAULT_MSS, !.ca = 0]
                   ELSE left
       IN [pcb |-> [loss EXCEPT !.retries = @ + 1], out |-> <<tcp_retransmit_segment(p)>>]

\* The persist timer: a probe one octet below snd_nxt while the window is
\* closed, given up after TCP_MAX_PERSIST_PROBES.
PersistProbe(p) ==
  IF p.wnd = 0 /\ p.unsent # <<>>
  THEN IF p.probes < TCP_MAX_PERSIST_PROBES
       THEN [pcb |-> [p EXCEPT !.probes = @ + 1],
             out |-> <<Segment(p, {"ACK"}, Diff(p.nxt, 1), <<>>)>>]
       ELSE [pcb |-> [p EXCEPT !.flags = @ \ {"PERSIST"}], out |-> <<>>]
  ELSE [pcb |-> [p EXCEPT !.flags = @ \ {"PERSIST"}, !.probes = 0], out |-> <<>>]

\* Mutant of DataTick: the socket is not told that the connection was reset.
DataTickSilent(p, due) ==
  IF "RTO" \notin due \/ p.unacked = <<>> THEN Result(p, <<>>, FALSE, FALSE)
  ELSE IF p.retries >= TCP_MAX_DATA_RETRIES THEN Result(Reset(p), <<>>, FALSE, FALSE)
  ELSE LET r == DataRto(p) IN Result(r.pcb, r.out, FALSE, FALSE)

\* ESTABLISHED and CLOSE_WAIT.
DataTick(p, due) ==
  IF "RTO" \in due /\ p.unacked # <<>> /\ p.retries >= TCP_MAX_DATA_RETRIES
  THEN Result(Reset(p), <<>>, FALSE, TRUE)
  ELSE LET r == IF "RTO" \in due THEN DataRto(p) ELSE [pcb |-> p, out |-> <<>>]
           s == IF "PERSIST" \in due THEN PersistProbe(r.pcb) ELSE [pcb |-> r.pcb, out |-> <<>>]
       IN Result(s.pcb, r.out \o s.out, FALSE, FALSE)

\* FIN_WAIT1 and LAST_ACK: unacknowledged data first, then the FIN.
FinTick(p, due) ==
  IF "RTO" \notin due THEN Result(p, <<>>, FALSE, FALSE)
  ELSE IF p.retries >= TCP_MAX_DATA_RETRIES
  THEN Result(IF p.socket THEN Closed(p) ELSE NoPcb, <<>>, FALSE, FALSE)
  ELSE Result([p EXCEPT !.retries = @ + 1],
              IF p.unacked # <<>> THEN <<tcp_retransmit_segment(p)>>
              ELSE <<Segment(p, {"FIN", "ACK"}, Diff(p.nxt, 1), <<>>)>>, FALSE, FALSE)

TimeWaitTick(p, due) ==
  IF "timeout" \in due THEN Result(IF p.socket THEN Closed(p) ELSE NoPcb, <<>>, FALSE, FALSE)
  ELSE Result(p, <<>>, FALSE, FALSE)

\* The deadlines a tick looks at in the PCB's state.
Armed(p) ==
  CASE p.state \in {"SYN_SENT", "SYN_RECEIVED"} ->
         (p.flags \cap {"RTO"}) \cup (IF p.timeout THEN {"timeout"} ELSE {})
    [] p.state \in {"ESTABLISHED", "CLOSE_WAIT"} -> p.flags \cap {"RTO", "PERSIST"}
    [] p.state \in {"FIN_WAIT1", "LAST_ACK"} -> p.flags \cap {"RTO"}
    [] p.state = "TIME_WAIT" /\ p.timeout -> {"timeout"}
    [] OTHER -> {}

tcp_timer_tick(p, due) ==
  CASE p.state = "SYN_SENT"                      -> HandshakeTick(p, due, {"SYN"})
    [] p.state = "SYN_RECEIVED"                  -> HandshakeTick(p, due, {"SYN", "ACK"})
    [] p.state \in {"ESTABLISHED", "CLOSE_WAIT"} -> DataTick(p, due)
    [] p.state \in {"FIN_WAIT1", "LAST_ACK"}     -> FinTick(p, due)
    [] p.state = "TIME_WAIT"                     -> TimeWaitTick(p, due)
    [] OTHER                                     -> Result(p, <<>>, FALSE, FALSE)

-----------------------------------------------------------------------------
(* The calls of the socket layer *)

\* sys_connect up to its first wait: the SYN, its RTO and the timeout.  The
\* flags and windows of an earlier attempt are kept.
ConnectStart(p, iss) ==
  Emit(ArmRto([p EXCEPT !.state = "SYN_SENT", !.iss = iss, !.una = iss, !.nxt = Add(iss, 1),
                        !.ann = p.rxcap, !.timeout = TRUE]),
       {"SYN"}, FALSE, FALSE)

\* Mutant of tcp_close: with nothing left to send the PCB is freed at once.
tcp_close_frees(p, memory) ==
  Result(IF p.unsent = <<>> /\ p.unacked = <<>> THEN NoPcb ELSE p, <<>>, FALSE, FALSE)

\* tcp_close: the socket is detached; an unconnected PCB is destroyed, a
\* connected one drains and sends its FIN now or when unsent is empty.
tcp_close(p, memory) ==
  LET q == [p EXCEPT !.socket = FALSE] IN
  IF p.state \in {"SYN_SENT", "SYN_RECEIVED", "CLOSED"} THEN Result(NoPcb, <<>>, FALSE, FALSE)
  ELSE IF p.state \notin {"ESTABLISHED", "CLOSE_WAIT"} \/ "SHUT_WR" \in p.flags
  THEN Result(q, <<>>, FALSE, FALSE)
  ELSE LET w == [q EXCEPT !.flags = @ \cup {"SHUT_WR"}]
           d == IF w.unsent # <<>> THEN tcp_drain_unsent(w, memory) ELSE [pcb |-> w, out |-> <<>>]
           f == SendFin(d.pcb)
       IN IF d.pcb.state # p.state THEN Result(d.pcb, d.out, FALSE, FALSE)
          ELSE IF d.pcb.unsent # <<>>
          THEN Result([d.pcb EXCEPT !.flags = @ \cup {"FIN_PENDING"}], d.out, FALSE, FALSE)
          ELSE Result(f.pcb, Append(d.out, f.seg), FALSE, FALSE)

\* Mutant of ShutdownWrite: the FIN is sent although data is still unsent.
ShutdownWriteEarly(p, memory) ==
  LET w == [p EXCEPT !.flags = @ \cup {"SHUT_WR"}]
      f == SendFin(w)
  IN IF "SHUT_WR" \in p.flags THEN Result(p, <<>>, FALSE, FALSE)
     ELSE IF p.state \notin {"ESTABLISHED", "CLOSE_WAIT"} THEN Result(w, <<>>, FALSE, FALSE)
     ELSE Result(f.pcb, <<f.seg>>, FALSE, TRUE)

\* The SHUT_WR half of tcp_shutdown_locked.
ShutdownWrite(p, memory) ==
  LET w == [p EXCEPT !.flags = @ \cup {"SHUT_WR"}]
      d == IF w.unsent # <<>> THEN tcp_drain_unsent(w, memory) ELSE [pcb |-> w, out |-> <<>>]
      f == SendFin(d.pcb)
  IN IF "SHUT_WR" \in p.flags THEN Result(p, <<>>, FALSE, FALSE)
     ELSE IF p.state \notin {"ESTABLISHED", "CLOSE_WAIT"} THEN Result(w, <<>>, FALSE, FALSE)
     ELSE IF d.pcb.unsent # <<>>
     THEN Result([d.pcb EXCEPT !.flags = @ \cup {"FIN_PENDING"}], d.out, FALSE, TRUE)
     ELSE IF "FIN_PENDING" \in d.pcb.flags THEN Result(d.pcb, d.out, FALSE, TRUE)
     ELSE Result(f.pcb, Append(d.out, f.seg), FALSE, TRUE)

\* tcp_shutdown_locked on a connected PCB: how is a subset of {"RD", "WR"}.
tcp_shutdown(p, how, memory) ==
  LET r == IF "RD" \in how /\ "SHUT_RD" \notin p.flags
           THEN [p EXCEPT !.flags = @ \cup {"SHUT_RD"}, !.rx = <<>>] ELSE p
      w == IF "WR" \in how THEN ShutdownWrite(r, memory) ELSE Result(r, <<>>, FALSE, FALSE)
  IN [w EXCEPT !.notify = @ \/ r # p]

\* The read of sys_recv: the bytes, then in ESTABLISHED a window update and a
\* drain unless the update is suppressed as too small.
RecvRead(p, n, memory) ==
  LET r == tcp_rx_buffer_read(p, n)
      new == tcp_rx_buffer_free_space(r.pcb)
      update == /\ p.state = "ESTABLISHED"
                /\ p.ann = 0 \/ new > p.ann \/ new >= p.rxcap \div 2
                     \/ p.ann < TCP_DEFAULT_MSS \div 2
      b == tcp_build_output(r.pcb, {"ACK"})
      d == IF b.pcb.unsent # <<>> THEN tcp_drain_unsent(b.pcb, memory)
           ELSE [pcb |-> b.pcb, out |-> <<>>]
  IN IF update THEN [bytes |-> r.bytes, pcb |-> d.pcb, out |-> <<b.seg>> \o d.out]
     ELSE [bytes |-> r.bytes, pcb |-> r.pcb, out |-> <<>>]

\* sys_recv sleeps: nothing to read, nothing to report, more may come.
MustWait(p) ==
  /\ p.rx = <<>> /\ p.flags \cap {"RESET", "EOF", "SHUT_RD"} = {}
  /\ p.state \in {"ESTABLISHED", "FIN_WAIT1", "FIN_WAIT2"}

=============================================================================
