-------------------------------- MODULE MCTcp --------------------------------
(* Instances of Tcp for TLC: one plan per phase of a connection's life. *)
EXTENDS Tcp

Plan(bytes, sizes, bounds, caps, ends) ==
  [bytes |-> bytes, sizes |-> sizes, connects |-> bounds[1], faults |-> bounds[2],
   ticks |-> bounds[3], transit |-> bounds[4], rxcap |-> caps[1], txcap |-> caps[2],
   ends |-> ends]

\* Opening: refused, timed out and retried connects, closes at any point.
Opening == Plan([C |-> 0, S |-> 0], {1}, <<2, 1, 2, 3>>, <<2, 2>>,
                [C |-> {"close"}, S |-> {"close"}])

\* Data through buffers smaller than the data, filled to the end: probes, RTO,
\* and acknowledgements out of order.
Flow == Plan([C |-> 4, S |-> 0], {2}, <<0, 1, 2, 3>>, <<2, 3>>, [C |-> {}, S |-> {"recv"}])

\* And with a window of less than a segment left over: slices.
Slices == Plan([C |-> 4, S |-> 0], {2}, <<0, 1, 2, 2>>, <<3, 3>>, [C |-> {}, S |-> {"recv"}])

\* A half-closed client reads what the server sends before it closes.
HalfClose == Plan([C |-> 0, S |-> 1], {1}, <<0, 1, 2, 2>>, <<1, 1>>,
                  [C |-> {"WR", "recv"}, S |-> {"close"}])

\* The client sends and half-closes, the server stops reading or closes.
SendClose == Plan([C |-> 1, S |-> 0], {1}, <<0, 1, 2, 2>>, <<1, 1>>,
                  [C |-> {"WR", "recv"}, S |-> {"RD", "close"}])

\* Both sides close with data under way.
BothClose == Plan([C |-> 1, S |-> 1], {1}, <<0, 1, 1, 2>>, <<1, 1>>,
                  [C |-> {"close"}, S |-> {"close"}])

\* The client ends its stream while the window holds data back: FIN pending.
PendingFin == Plan([C |-> 2, S |-> 0], {2}, <<0, 1, 1, 3>>, <<1, 2>>,
                   [C |-> {"WR", "close"}, S |-> {"recv"}])

\* Four one-byte segments, the first lost: fast retransmit and recovery.
Recovery == Plan([C |-> 4, S |-> 0], {1}, <<0, 1, 0, 4>>, <<4, 4>>, [C |-> {}, S |-> {}])

StreamPlans == {Opening, Flow, Slices, HalfClose, SendClose, BothClose, PendingFin, Recovery}
=============================================================================
